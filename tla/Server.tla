------------------------------- MODULE Server -------------------------------
(***************************************************************************)
(* server.cpp: the accept loop, one handler thread per client, and the     *)
(* descriptors, sockets and user store they share.                         *)
(*                                                                         *)
(* Handler t serves client t.  A step is one system call or one call of    *)
(* the user store, with the local computation that follows it.  The        *)
(* store is the Directory, which UserStore is shown to implement.  The     *)
(* clients are the environment: what client.cpp sends, in the order it     *)
(* may send it, and that a client can vanish at any moment.                *)
(***************************************************************************)
EXTENDS Directory, Protocol, Integers, Sequences, FiniteSets

CONSTANTS
    Fds,          \* the descriptors that are free when the server listens
    NoName,       \* the empty user name a handler starts with
    Script,       \* bound: per client, the sequences of commands it may send
    Starts,       \* per name or password: those its text starts with
    Inner,        \* per name or password: the commands its text can be taken for
                  \* when it is read from the middle on
    Events,       \* what may happen around the server: a subset of AllEvents
    NoFile,       \* a descriptor that is not in use
    Reserved,     \* a descriptor accept() holds while it waits
    Unconnected,  \* a descriptor of a socket that is not connected
    Truncated     \* an SDP that lost its end

NoFd == -1

ASSUME FdAssumption == Fds \subseteq Nat /\ SocketFds = Fds \cup {NoFd}

ASSUME NameAssumption == NoName \in Names

ASSUME ThreadsAssumption == IsFiniteSet(Threads)

\* Ctrl-C at the server, the end of a client process, the end of a client's
\* listener thread alone, recv() returning part of a message, Ctrl-C at a client
\* that waits for the reply to the LOGOUT of its exit_user().
AllEvents == {"sigint", "leave", "listenerEnd", "shortRead", "interrupt"}

ASSUME EventAssumption == Events \subseteq AllEvents

VARIABLES
    running,      \* the flag the SIGINT handler clears
    proc,         \* the server process: "up", "exited", or the signal it died of
    mainPc,       \* where main() is
    acceptFd,     \* the descriptor a waiting accept() has reserved
    fdTable,      \* the descriptor table of the process
    pc,           \* per handler: where client_handler() is
    h,            \* per handler: its local variables
    backlog,      \* connections not yet accepted
    toServer,     \* per connection: what the server has not read
    toClient,     \* per connection: what the client has not read
    peer,         \* per connection: the client's end of it
    client,       \* per client process: "new", "up" or "gone"
    last,         \* per client: the kind of command it sent last
    todo,         \* per client: what it will send, if it stays
    lost          \* history: a close() or an uninitialized number has hit a
                  \* descriptor that may be anybody's

procVars == <<running, proc, mainPc, acceptFd>>
netVars == <<toServer, toClient, peer>>
clientVars == <<backlog, client, last, todo>>
vars == <<dirVars, procVars, fdTable, pc, h, netVars, clientVars, lost>>

Clients == Threads

\* A client has two connections: "main", which it opens, and "cb", which the
\* server opens back to it.
Ends == Clients \X {"main", "cb"}
Main(c) == <<c, "main">>
Cb(c) == <<c, "cb">>

ASSUME FileAssumption ==
    /\ {NoFile, Reserved, Unconnected} \cap Ends = {}
    /\ NoFile # Reserved /\ NoFile # Unconnected /\ Reserved # Unconnected

Sdps == Clients \cup {Truncated}

\* What the menu sends.  An SDP stands for the client that made it.
MenuCommand ==
    [cmd : {"LOGOUT", "EXIT"}]
        \cup [cmd : {"SIGNUP", "LOGIN"}, name : Names, password : Passwords]
        \cup [cmd : {"CALL"}, name : Names, sdp : Sdps]

ASSUME ScriptAssumption == \A c \in Clients : Script[c] \subseteq Seq(MenuCommand)

\* CLIENT carries the address of a client's listener, or of NoThread when it
\* names none; answers also say which offer they answer.  "nothing" is text that
\* no strncmp() of the server knows, "shortCall" a CALL without the blank after
\* the name.
ClientCommand ==
    MenuCommand \cup [cmd : {"CLIENT"}, from : Clients \cup {NoThread}]
        \cup [cmd : {"ACCEPT"}, sdp : Sdps, re : Sdps]
        \cup [cmd : {"nothing", "shortCall"}]

\* What is left of message m after some of it has been read.
Part(m) == [cmd |-> "part", of |-> m]

\* What a stream to the server consists of.
Items ==
    IF "shortRead" \in Events THEN ClientCommand \cup {Part(m) : m \in ClientCommand}
                              ELSE ClientCommand

\* No name contains the word CLIENT, which would make the handler connect again.
ASSUME TextAssumption ==
    /\ \A n \in Names : Starts[n] \subseteq Names
    /\ \A p \in Passwords : Starts[p] \subseteq Passwords
    /\ \A w \in Names \cup Passwords :
            Inner[w] \subseteq MenuCommand \cup [cmd : {"shortCall"}]

ServerMessage ==
    [cmd : {"HELLO", "EXIT"}]
        \cup [cmd : {"reply"}, to : {"SIGNUP", "LOGIN", "LOGOUT", "EXIT"}]
        \cup [cmd : {"INVITE"}, name : Names, sdp : Sdps]
        \cup [cmd : {"ACCEPT"}, sdp : Sdps, re : Sdps]

HandlerPcs == {"none", "loop", "recv", "socket", "connect", "hello", "signup", "login",
               "isLogin", "hasUser", "getUser", "invite", "answer", "await", "forward",
               "logout", "exit", "exitCb", "close", "closeAgain", "done"}

Locals == [client_socket : Fds \cup {NoFd}, client_socket_fd : Fds \cup {NoFd},
           address : Clients \cup {NoThread}, username : Names, receiver_username : Names, receiver_fd : Fds \cup {NoFd},
           sdp : Sdps, re : Sdps, file : Ends \cup {NoFile}]

NewHandler(c, f) == [client_socket |-> f, client_socket_fd |-> NoFd,
                     address |-> c, username |-> NoName, receiver_username |-> NoName, receiver_fd |-> NoFd,
                     sdp |-> c, re |-> c, file |-> NoFile]

TypeOK ==
    /\ DirTypeOK
    /\ running \in BOOLEAN
    /\ proc \in {"up", "exited", "sigpipe", "sigsegv"}
    /\ mainPc \in {"check", "accept", "join", "stopped"}
    /\ acceptFd \in Fds \cup {NoFd}
    /\ fdTable \in [Fds -> Ends \cup {NoFile, Reserved, Unconnected}]
    /\ pc \in [Threads -> HandlerPcs]
    /\ h \in [Threads -> Locals]
    /\ backlog \in Seq(Clients)
    /\ toServer \in [Ends -> Seq(Items)]
    /\ toClient \in [Ends -> Seq(ServerMessage)]
    /\ peer \in [Ends -> {"none", "open", "closed", "reset"}]
    /\ client \in [Clients -> {"new", "up", "gone"}]
    /\ last \in [Clients -> Commands]
    /\ todo \in [Clients -> Seq(MenuCommand)]
    /\ lost \in BOOLEAN

Init ==
    /\ DirInit
    /\ running = TRUE
    /\ proc = "up"
    /\ mainPc = "check"
    /\ acceptFd = NoFd
    /\ fdTable = [f \in Fds |-> NoFile]
    /\ pc = [t \in Threads |-> "none"]
    /\ h = [t \in Threads |-> NewHandler(t, NoFd)]
    /\ backlog = <<>>
    /\ toServer = [e \in Ends |-> <<>>]
    /\ toClient = [e \in Ends |-> <<>>]
    /\ peer = [e \in Ends |-> "none"]
    /\ client = [c \in Clients |-> "new"]
    /\ last = [c \in Clients |-> "CLIENT"]
    /\ todo \in {f \in [Clients -> UNION {Script[c] : c \in Clients}] :
                    \A c \in Clients : f[c] \in Script[c]}
    /\ lost = FALSE

\* The process is alive and its behaviour still defined.
Up == proc = "up" /\ ~broken

-----------------------------------------------------------------------------
(* The kernel: descriptors and TCP.                                        *)

FreeFds == {f \in Fds : fdTable[f] = NoFile}

\* POSIX: a new descriptor is the lowest that is free.
LowestFree(f) == f \in FreeFds /\ \A g \in FreeFds : f <= g

\* What a descriptor denotes to a system call; NoFile is EBADF.
File(f) == IF f \in Fds /\ fdTable[f] # Reserved THEN fdTable[f] ELSE NoFile

\* close(f).  A descriptor that is only reserved has no file to close.
CloseFd(f) == fdTable' = IF File(f) = NoFile THEN fdTable ELSE [fdTable EXCEPT ![f] = NoFile]

\* send(f, m).  The first send to a client that has closed its end provokes a
\* reset; once that has arrived the next one raises SIGPIPE, which the server
\* neither ignores nor handles.
Send(f, m) ==
    LET e == File(f)
    IN  \/ /\ e = NoFile
           /\ UNCHANGED <<toClient, peer, proc>>
        \/ /\ e = Unconnected
           /\ proc' = "sigpipe"
           /\ UNCHANGED <<toClient, peer>>
        \/ /\ e \in Ends /\ peer[e] = "open"
           /\ toClient' = [toClient EXCEPT ![e] = Append(@, m)]
           /\ UNCHANGED <<peer, proc>>
        \/ /\ e \in Ends /\ peer[e] = "closed"
           /\ peer' = [peer EXCEPT ![e] = "reset"]
           /\ UNCHANGED <<toClient, proc>>
        \/ /\ e \in Ends /\ peer[e] = "reset"
           /\ proc' \in {"up", "sigpipe"}
           /\ UNCHANGED <<toClient, peer>>

\* recv() on connection e finds the end of the stream, or an error.
Eof(e) == toServer[e] = <<>> /\ peer[e] \in {"closed", "reset"}

Nothing == [cmd |-> "nothing"]

\* The message an item of a stream is, or is what is left of.
Whole(i) == IF i.cmd = "part" THEN i.of ELSE i

\* What the beginning of message m is taken for.  It may end in the zeros after
\* the text, in any word of the text, or in the command itself.
Beginnings(m) ==
    {m, Nothing} \cup
    CASE m.cmd = "CLIENT" -> {[m EXCEPT !.from = NoThread]}
      [] m.cmd \in {"SIGNUP", "LOGIN"} ->
            [cmd : {m.cmd}, name : Starts[m.name], password : {NoPassword}]
                \cup [cmd : {m.cmd}, name : {m.name}, password : Starts[m.password]]
      [] m.cmd = "CALL" -> {[m EXCEPT !.sdp = Truncated], [cmd |-> "shortCall"]}
      [] m.cmd = "ACCEPT" -> {[m EXCEPT !.sdp = Truncated]}
      [] OTHER -> {}

\* The names and passwords in the text of m: after LOGOUT, the client's own name.
Words(m) ==
    CASE m.cmd \in {"SIGNUP", "LOGIN"} -> {m.name, m.password}
      [] m.cmd = "CALL"   -> {m.name}
      [] m.cmd = "LOGOUT" -> Names
      [] OTHER            -> {}

\* What m without its beginning is taken for.  The text of EXIT is "EXIT EXIT".
Endings(m) ==
    {Nothing} \cup (UNION {Inner[w] : w \in Words(m)})
        \cup (IF m.cmd = "EXIT" THEN {m} ELSE {})

\* What recv() may return from stream s, taken as a message, and what it leaves
\* in it.  recv() asks for as many bytes as a message has.  Once a message came
\* in two parts, the second is read alone, or again in part, or together with the
\* beginning of the next message, if that is there already, and so on.
Reads(s) ==
    LET m == Whole(Head(s))
    IN  IF Head(s) = m
        THEN {[msg |-> m, left |-> Tail(s)]} \cup
             (IF "shortRead" \in Events
              THEN [msg : Beginnings(m), left : {<<Part(m)>> \o Tail(s)}] ELSE {})
        ELSE [msg : Endings(m),
              left : {Tail(s), s} \cup
                     (IF Len(s) > 1 THEN {<<Part(Whole(s[2]))>> \o Tail(Tail(s))} ELSE {})]

\* The server still has connection e: through a descriptor, because a thread
\* is inside recv() on it, or because it is not accepted yet.
ServerHolds(e) ==
    \/ \E f \in Fds : fdTable[f] = e
    \/ \E t \in Threads : pc[t] \in {"recv", "await"} /\ h[t].file = e
    \/ \E i \in 1..Len(backlog) : Main(backlog[i]) = e

-----------------------------------------------------------------------------
(* main()                                                                  *)

\* while (running.load()), and the entry of accept(), which reserves a
\* descriptor before it waits and fails at once when there is none.
MainCheck ==
    /\ Up
    /\ mainPc = "check"
    /\ \/ /\ ~running \/ FreeFds = {}
          /\ mainPc' = "join"
          /\ UNCHANGED <<acceptFd, fdTable>>
       \/ \E f \in Fds :
            /\ running /\ LowestFree(f)
            /\ mainPc' = "accept"
            /\ acceptFd' = f
            /\ fdTable' = [fdTable EXCEPT ![f] = Reserved]
    /\ UNCHANGED <<dirVars, running, proc, pc, h, netVars, clientVars, lost>>

\* accept() returns a connection: a thread for it, unless SIGINT was seen.
Accept ==
    /\ Up
    /\ mainPc = "accept"
    /\ backlog # <<>>
    /\ backlog' = Tail(backlog)
    /\ fdTable' = [fdTable EXCEPT ![acceptFd] = Main(Head(backlog))]
    /\ acceptFd' = NoFd
    /\ \/ /\ running
          /\ mainPc' = "check"
          /\ pc' = [pc EXCEPT ![Head(backlog)] = "loop"]
          /\ h' = [h EXCEPT ![Head(backlog)] = NewHandler(Head(backlog), acceptFd)]
       \/ /\ ~running
          /\ mainPc' = "join"
          /\ UNCHANGED <<pc, h>>
    /\ UNCHANGED <<dirVars, running, proc, netVars, client, last, todo, lost>>

\* signal_handler().  The signal goes to the main thread.  Inside accept() it
\* ends the call with EINTR; just before accept() it does not.
Sigint ==
    /\ "sigint" \in Events
    /\ Up
    /\ running
    /\ running' = FALSE
    /\ \/ UNCHANGED <<mainPc, acceptFd, fdTable>>
       \/ /\ mainPc = "accept"
          /\ mainPc' = "join"
          /\ acceptFd' = NoFd
          /\ fdTable' = [fdTable EXCEPT ![acceptFd] = NoFile]
    /\ UNCHANGED <<dirVars, proc, pc, h, netVars, clientVars, lost>>

\* t.join() for every thread, close(server_socket), return.
MainJoin ==
    /\ Up
    /\ mainPc = "join"
    /\ \A t \in Threads : pc[t] \in {"none", "done"}
    /\ mainPc' = "stopped"
    /\ proc' = "exited"
    /\ fdTable' = [f \in Fds |-> NoFile]
    /\ UNCHANGED <<dirVars, running, acceptFd, pc, h, netVars, clientVars, lost>>

-----------------------------------------------------------------------------
(* client_handler()                                                        *)

Goto(t, l) == pc' = [pc EXCEPT ![t] = l]

HandlerAt(t, l) == Up /\ pc[t] = l

HandlerFrame == UNCHANGED <<running, mainPc, acceptFd, clientVars>>

\* A step of handler t from one place of client_handler() to another.
Step(t, from, to) == HandlerAt(t, from) /\ Goto(t, to) /\ HandlerFrame

\* Back to the top of the loop from the CALL branch, whose locals are gone.
EndCall(t, from) ==
    /\ Step(t, from, "loop")
    /\ h' = [h EXCEPT ![t] = [NewHandler(t, @.client_socket) EXCEPT
                                 !.client_socket_fd = h[t].client_socket_fd,
                                 !.address = h[t].address,
                                 !.username = h[t].username]]

\* while (running.load()) and the entry of recv(client_socket).
Loop(t) ==
    /\ LET e == File(h[t].client_socket)
       IN  \/ /\ Step(t, "loop", "recv")
              /\ running /\ e \in Ends
              /\ h' = [h EXCEPT ![t].file = e]
           \/ /\ Step(t, "loop", "close")
              /\ ~running \/ e \notin Ends
              /\ UNCHANGED h
    /\ UNCHANGED <<dirVars, proc, fdTable, netVars>>

\* recv() returned nothing or -1.
RecvEnd(t) ==
    /\ Step(t, "recv", "close")
    /\ Eof(h[t].file)
    /\ h' = [h EXCEPT ![t].file = NoFile]
    /\ UNCHANGED <<dirVars, proc, fdTable, netVars>>

\* The strncmp chain on a received command m, with what each branch parses and
\* the first call it makes; x is the handler's locals.
Dispatch(t, m, x) ==
    \/ /\ m.cmd = "CLIENT"
       /\ Goto(t, "socket")
       /\ h' = [h EXCEPT ![t] = [x EXCEPT !.address = m.from]]
       /\ UNCHANGED dirVars
    \/ /\ m.cmd \in {"EXIT", "ACCEPT", "nothing"}
       /\ Goto(t, IF m.cmd = "EXIT" THEN "exit" ELSE "loop")
       /\ h' = [h EXCEPT ![t] = x]
       /\ UNCHANGED dirVars
    \/ /\ m.cmd = "SIGNUP"
       /\ Goto(t, "signup")
       /\ h' = [h EXCEPT ![t] = [x EXCEPT !.username = m.name]]
       /\ DirCall(t, [kind |-> "addUser", name |-> m.name, password |-> m.password,
                     socket_fd |-> x.client_socket_fd])
    \/ /\ m.cmd = "LOGIN"
       /\ Goto(t, "login")
       /\ h' = [h EXCEPT ![t] = [x EXCEPT !.username = m.name]]
       /\ DirCall(t, [kind |-> "loginUser", name |-> m.name, password |-> m.password])
    \/ /\ m.cmd = "LOGOUT"
       /\ Goto(t, "logout")
       /\ h' = [h EXCEPT ![t] = x]
       /\ DirCall(t, [kind |-> "logOutUser", name |-> x.username])
    \/ /\ m.cmd = "CALL"
       /\ Goto(t, "isLogin")
       /\ h' = [h EXCEPT ![t] = [x EXCEPT !.receiver_username = m.name, !.sdp = m.sdp]]
       /\ DirCall(t, [kind |-> "isLogin", name |-> m.name])

\* recv() returned a message; after SIGINT it is dropped.  Of a CALL without the
\* blank after the name strlen(buffer) - len is negative, and strncpy() writes
\* beyond every buffer.
Recv(t) ==
    /\ HandlerAt(t, "recv")
    /\ toServer[h[t].file] # <<>>
    /\ \E r \in Reads(toServer[h[t].file]) :
        /\ toServer' = [toServer EXCEPT ![h[t].file] = r.left]
        /\ \/ /\ running
              /\ Dispatch(t, r.msg, [h[t] EXCEPT !.file = NoFile])
              /\ UNCHANGED proc
           \/ /\ running
              /\ r.msg.cmd = "shortCall"
              /\ proc' = "sigsegv"
              /\ UNCHANGED <<dirVars, pc, h>>
           \/ /\ ~running
              /\ h' = [h EXCEPT ![t].file = NoFile]
              /\ Goto(t, "close")
              /\ UNCHANGED <<dirVars, proc>>
    /\ HandlerFrame
    /\ UNCHANGED <<fdTable, toClient, peer>>

-----------------------------------------------------------------------------
(* CLIENT: connect_to_client() and the greeting.                           *)

Socket(t) ==
    /\ \/ \E f \in Fds :
            /\ Step(t, "socket", "connect")
            /\ LowestFree(f)
            /\ fdTable' = [fdTable EXCEPT ![f] = Unconnected]
            /\ h' = [h EXCEPT ![t].client_socket_fd = f]
       \/ /\ Step(t, "socket", "close")
          /\ FreeFds = {}
          /\ h' = [h EXCEPT ![t].client_socket_fd = NoFd]
          /\ UNCHANGED fdTable
    /\ UNCHANGED <<dirVars, proc, netVars>>

\* connect() to the address the client gave.  It fails when the address has lost
\* its end; it is refused when the client is gone, and also when its listener
\* thread, which it starts after it has sent CLIENT, has not got as far as
\* listen().
Connect(t) ==
    /\ \/ /\ Step(t, "connect", "hello")
          /\ File(h[t].client_socket_fd) = Unconnected
          /\ h[t].address \in Clients /\ client[h[t].address] = "up"
          /\ fdTable' = [fdTable EXCEPT ![h[t].client_socket_fd] = Cb(h[t].address)]
          /\ peer' = [peer EXCEPT ![Cb(h[t].address)] = "open"]
       \/ /\ Step(t, "connect", "close")
          /\ UNCHANGED <<fdTable, peer>>
    /\ UNCHANGED <<dirVars, proc, h, toServer, toClient>>

Hello(t) ==
    /\ Step(t, "hello", "loop")
    /\ Send(h[t].client_socket_fd, [cmd |-> "HELLO"])
    /\ UNCHANGED <<dirVars, fdTable, h, toServer>>

-----------------------------------------------------------------------------
(* SIGNUP, LOGIN and LOGOUT: a UserStore call, whose result is not looked  *)
(* at, then a reply that reports success.                                  *)

ReplyTo(l) == CASE l = "signup" -> "SIGNUP" [] l = "login" -> "LOGIN" [] l = "logout" -> "LOGOUT"

\* Mutant: the reply goes to the callback connection.
ReplyToListener(t) ==
    /\ \E l \in {"signup", "login", "logout"} :
        /\ Step(t, l, "loop")
        /\ DirReturn(t)
        /\ Send(h[t].client_socket_fd, [cmd |-> "reply", to |-> ReplyTo(l)])
    /\ UNCHANGED <<fdTable, h, toServer>>

Reply(t) ==
    /\ \E l \in {"signup", "login", "logout"} :
        /\ Step(t, l, "loop")
        /\ DirReturn(t)
        /\ Send(h[t].client_socket, [cmd |-> "reply", to |-> ReplyTo(l)])
    /\ UNCHANGED <<fdTable, h, toServer>>

-----------------------------------------------------------------------------
(* CALL                                                                    *)

\* if (!userStore.isLogin(receiver_username)): nothing is sent to the caller.
NotLoggedIn(t) ==
    /\ EndCall(t, "isLogin")
    /\ ~answer[t].ok
    /\ DirReturn(t)
    /\ UNCHANGED <<proc, fdTable, netVars>>

\* Mutant: the result of isLogin() is not looked at.
LoggedInUnchecked(t) ==
    /\ Step(t, "isLogin", "hasUser")
    /\ phase[t] = "done"
    /\ DirCall(t, [kind |-> "hasUser", name |-> h[t].receiver_username])
    /\ UNCHANGED <<proc, fdTable, h, netVars>>

LoggedIn(t) ==
    /\ Step(t, "isLogin", "hasUser")
    /\ phase[t] = "done" /\ answer[t].ok
    /\ DirCall(t, [kind |-> "hasUser", name |-> h[t].receiver_username])
    /\ UNCHANGED <<proc, fdTable, h, netVars>>

\* else if (!userStore.hasUser(receiver_username)), and the else branch.
KnownUser(t) ==
    /\ phase[t] = "done"
    /\ IF answer[t].ok
       THEN /\ Step(t, "hasUser", "getUser")
            /\ DirCall(t, [kind |-> "getUser", name |-> h[t].receiver_username])
            /\ UNCHANGED h
       ELSE EndCall(t, "hasUser") /\ DirReturn(t)
    /\ UNCHANGED <<proc, fdTable, netVars>>

\* A socket_fd_ that was never assigned reads as anything.
FdRead(f) == IF f = Uninit THEN Fds \cup {NoFd} ELSE {f}

\* getUser() returned a copy, or threw and the exception was caught.
GotUser(t) ==
    /\ IF answer[t].user # NoUser
       THEN /\ Step(t, "getUser", "invite")
            /\ \E f \in FdRead(answer[t].user.socket_fd) : h' = [h EXCEPT ![t].receiver_fd = f]
            /\ lost' = (lost \/ answer[t].user.socket_fd = Uninit)
       ELSE EndCall(t, "getUser") /\ UNCHANGED lost
    /\ DirReturn(t)
    /\ UNCHANGED <<proc, fdTable, netVars>>

\* Mutant: the INVITE without the caller's SDP.
InviteWithoutSdp(t) == [cmd |-> "INVITE", name |-> h[t].receiver_username]

\* The INVITE carries the receiver's own name.
InviteMsg(t) == [cmd |-> "INVITE", name |-> h[t].receiver_username, sdp |-> h[t].sdp]

\* Mutant: the INVITE goes to the caller.
SendInviteToCaller(t) ==
    /\ Step(t, "invite", "answer")
    /\ Send(h[t].client_socket_fd, InviteMsg(t))
    /\ UNCHANGED <<dirVars, fdTable, h, toServer>>

SendInvite(t) ==
    /\ Step(t, "invite", "answer")
    /\ Send(h[t].receiver_fd, InviteMsg(t))
    /\ UNCHANGED <<dirVars, fdTable, h, toServer>>

\* The entry of recv(receiver_fd); an error leaves the buffer empty, which is
\* taken for a refusal.
WaitAnswer(t) ==
    /\ LET e == File(h[t].receiver_fd)
       IN  \/ /\ Step(t, "answer", "await")
              /\ e \in Ends
              /\ h' = [h EXCEPT ![t].file = e]
           \/ /\ EndCall(t, "answer")
              /\ e \notin Ends
    /\ UNCHANGED <<dirVars, proc, fdTable, netVars>>

\* Mutant: the wait is given up after a time.
NoReplyInTime(t) ==
    /\ EndCall(t, "await")
    /\ UNCHANGED <<dirVars, proc, fdTable, netVars>>

\* Mutant: only an error ends the wait, an orderly end of the stream does not.
NoReplyOnError(t) ==
    /\ EndCall(t, "await")
    /\ Eof(h[t].file) /\ peer[h[t].file] = "reset"
    /\ UNCHANGED <<dirVars, proc, fdTable, netVars>>

\* The receiver's connection ended: an empty buffer, a refusal.
NoReply(t) ==
    /\ EndCall(t, "await")
    /\ Eof(h[t].file)
    /\ UNCHANGED <<dirVars, proc, fdTable, netVars>>

\* Whatever recv(receiver_fd) returns is the answer.
GetAnswer(t) ==
    /\ HandlerAt(t, "await")
    /\ toServer[h[t].file] # <<>>
    /\ \E r \in Reads(toServer[h[t].file]) :
        /\ toServer' = [toServer EXCEPT ![h[t].file] = r.left]
        /\ \/ /\ Step(t, "await", "forward")
              /\ r.msg.cmd = "ACCEPT"
              /\ h' = [h EXCEPT ![t] = [@ EXCEPT !.file = NoFile, !.sdp = r.msg.sdp,
                                                 !.re = r.msg.re]]
           \/ /\ EndCall(t, "await")
              /\ r.msg.cmd # "ACCEPT"
    /\ UNCHANGED <<dirVars, proc, fdTable, toClient, peer>>

\* Mutant: the answer is forwarded on the connection the CALL came from.
ForwardOnMain(t) ==
    /\ EndCall(t, "forward")
    /\ Send(h[t].client_socket, [cmd |-> "ACCEPT", sdp |-> h[t].sdp, re |-> h[t].re])
    /\ UNCHANGED <<dirVars, fdTable, toServer>>

Forward(t) ==
    /\ EndCall(t, "forward")
    /\ Send(h[t].client_socket_fd, [cmd |-> "ACCEPT", sdp |-> h[t].sdp, re |-> h[t].re])
    /\ UNCHANGED <<dirVars, fdTable, toServer>>

-----------------------------------------------------------------------------
(* EXIT, and the end of the handler.                                       *)

\* The reply; when its send() fails the EXIT to the listener is skipped.
Exit(t) ==
    /\ LET e == File(h[t].client_socket)
       IN  \/ Step(t, "exit", "exitCb") /\ e \in Ends
           \/ Step(t, "exit", "close") /\ ~(e \in Ends /\ peer[e] = "open")
    /\ Send(h[t].client_socket, [cmd |-> "reply", to |-> "EXIT"])
    /\ UNCHANGED <<dirVars, fdTable, h, toServer>>

ExitCb(t) ==
    /\ Step(t, "exitCb", "close")
    /\ Send(h[t].client_socket_fd, [cmd |-> "EXIT"])
    /\ UNCHANGED <<dirVars, fdTable, h, toServer>>

\* Mutant: the callback connection is closed, which the user table still names.
CloseCallback(t) ==
    /\ Step(t, "close", "done")
    /\ CloseFd(h[t].client_socket_fd)
    /\ UNCHANGED <<dirVars, proc, h, netVars>>

\* close(client_socket)
Close(t) ==
    /\ Step(t, "close", IF h[t].client_socket_fd # NoFd THEN "closeAgain" ELSE "done")
    /\ CloseFd(h[t].client_socket)
    /\ UNCHANGED <<dirVars, proc, h, netVars>>

\* if (client_socket_fd != -1) close(client_socket): the same one again.
CloseAgain(t) ==
    /\ Step(t, "closeAgain", "done")
    /\ CloseFd(h[t].client_socket)
    /\ lost' = (lost \/ File(h[t].client_socket) # NoFile)
    /\ UNCHANGED <<dirVars, proc, h, netVars>>

\* The steps that use no number but their own.
OwnStep(t) ==
    \/ Loop(t) \/ RecvEnd(t) \/ Recv(t)
    \/ Socket(t) \/ Connect(t) \/ Hello(t)
    \/ Reply(t)
    \/ NotLoggedIn(t) \/ LoggedIn(t) \/ KnownUser(t)
    \/ SendInvite(t) \/ WaitAnswer(t) \/ NoReply(t) \/ GetAnswer(t) \/ Forward(t)
    \/ Exit(t) \/ ExitCb(t) \/ Close(t)

Handler(t) == (OwnStep(t) /\ UNCHANGED lost) \/ GotUser(t) \/ CloseAgain(t)

\* A step of a UserStore call, on behalf of the handler that made it.
StoreStep(t) ==
    /\ Up
    /\ Apply(t) \/ Appear(t)
    /\ UNCHANGED <<procVars, fdTable, pc, h, netVars, clientVars, lost>>

StoreCorrupted ==
    /\ Up
    /\ Break
    /\ UNCHANGED <<procVars, fdTable, pc, h, netVars, clientVars, lost>>

-----------------------------------------------------------------------------
(* The environment: client processes, as client.cpp uses the connections,  *)
(* for as long as there is a server.                                       *)

ClientFrame == Up /\ UNCHANGED <<dirVars, procVars, fdTable, pc, h, lost>>

\* connect() to the server and send_ip_and_port_to_server().
ClientConnects(c) ==
    /\ client[c] = "new"
    /\ client' = [client EXCEPT ![c] = "up"]
    /\ backlog' = Append(backlog, c)
    /\ peer' = [peer EXCEPT ![Main(c)] = "open"]
    /\ toServer' = [toServer EXCEPT ![Main(c)] = <<[cmd |-> "CLIENT", from |-> c]>>]
    /\ ClientFrame
    /\ UNCHANGED <<toClient, last, todo>>

\* A menu choice, after the reply to the choice before has been taken; of the
\* two commands of exit_user() the second is sent even if the wait for the
\* reply to the first was interrupted.
ClientSends(c) ==
    LET m == Head(todo[c])
    IN  /\ client[c] = "up"
        /\ todo[c] # <<>>
        /\ MayFollow(last[c], m.cmd)
        /\ ServerHolds(Main(c))
        /\ \/ /\ ~AwaitsReply(last[c])
              /\ UNCHANGED toClient
           \/ /\ AwaitsReply(last[c]) /\ toClient[Main(c)] # <<>>
              /\ toClient' = [toClient EXCEPT ![Main(c)] = Tail(@)]
           \/ /\ "interrupt" \in Events
              /\ AwaitsReply(last[c]) /\ ~NeedsReplyFirst(last[c], m.cmd)
              /\ UNCHANGED toClient
        /\ toServer' = [toServer EXCEPT ![Main(c)] = Append(@, m)]
        /\ last' = [last EXCEPT ![c] = m.cmd]
        /\ todo' = [todo EXCEPT ![c] = Tail(@)]
        /\ ClientFrame
        /\ UNCHANGED <<peer, backlog, client>>

\* The listener thread takes a message: it accepts every INVITE, ends on EXIT.
\* This is what client.cpp is written to do; that its process ends instead when
\* it reads the description (ClientProofs!NoCallTaken) is ClientLeaves.
ClientListener(c) ==
    /\ client[c] = "up"
    /\ peer[Cb(c)] = "open"
    /\ toClient[Cb(c)] # <<>>
    /\ LET m == Head(toClient[Cb(c)])
       IN  /\ toClient' = [toClient EXCEPT ![Cb(c)] = Tail(@)]
           /\ toServer' = IF m.cmd = "INVITE"
                          THEN [toServer EXCEPT ![Cb(c)] =
                                    Append(@, [cmd |-> "ACCEPT", sdp |-> c, re |-> m.sdp])]
                          ELSE toServer
           /\ peer' = IF m.cmd = "EXIT" THEN [peer EXCEPT ![Cb(c)] = "closed"] ELSE peer
    /\ ClientFrame
    /\ UNCHANGED clientVars

\* The client's ends of its connections close.
Closed(s) == IF s = "open" THEN "closed" ELSE s

\* The listener thread ends for a reason of its own and closes its connection.
ListenerEnds(c) ==
    /\ "listenerEnd" \in Events
    /\ peer[Cb(c)] = "open"
    /\ peer' = [peer EXCEPT ![Cb(c)] = Closed(@)]
    /\ toClient' = [toClient EXCEPT ![Cb(c)] = <<>>]
    /\ ClientFrame
    /\ UNCHANGED <<toServer, clientVars>>

\* The client process ends: it exits, is interrupted or crashes.
ClientLeaves(c) ==
    /\ "leave" \in Events
    /\ client[c] = "up"
    /\ client' = [client EXCEPT ![c] = "gone"]
    /\ peer' = [e \in Ends |-> IF e[1] = c THEN Closed(peer[e]) ELSE peer[e]]
    /\ toClient' = [e \in Ends |-> IF e[1] = c THEN <<>> ELSE toClient[e]]
    /\ ClientFrame
    /\ UNCHANGED <<toServer, backlog, last, todo>>

Environment ==
    \E c \in Clients :
        \/ ClientConnects(c) \/ ClientSends(c)
        \/ ClientListener(c) \/ ListenerEnds(c) \/ ClientLeaves(c)

-----------------------------------------------------------------------------

Next ==
    \/ MainCheck \/ Accept \/ Sigint \/ MainJoin
    \/ \E t \in Threads : Handler(t) \/ StoreStep(t)
    \/ StoreCorrupted
    \/ Environment

Spec == Init /\ [][Next]_vars

\* A thread that can run does run, and a client's listener takes what arrives.
FairSpec ==
    /\ Spec
    /\ WF_vars(MainCheck) /\ WF_vars(Accept) /\ WF_vars(MainJoin)
    /\ \A t \in Threads : WF_vars(Handler(t)) /\ WF_vars(StoreStep(t))
    /\ \A c \in Clients : WF_vars(ClientListener(c))

\* Besides, everyone closes the client some day.
ClosingSpec == FairSpec /\ \A c \in Clients : WF_vars(ClientLeaves(c))

-----------------------------------------------------------------------------
(* What holds.                                                             *)

\* A CALL that has passed the isLogin() check (server.cpp:168) concerns a user
\* who is in the table and stays there: the hasUser() branch (171) and the
\* exception of getUser() (333) are dead code.  The INVITE goes to a descriptor
\* that was assigned, unless the callee is an entry without a password: a ghost
\* of logOutUser(), whose flag was not assigned yet when isLogin() read it, or
\* as which somebody logged in with an empty password.
CalleeIsRegistered ==
    \A t \in Threads : pc[t] \in {"hasUser", "getUser"} =>
        LET u == dir[h[t].receiver_username]
        IN  u # NoUser /\ (u.password # NoPassword => u.socket_fd \in SocketFds)

\* Every callback connection is still where connect_to_client() put it.
CbIntact ==
    \A t \in Threads : peer[Cb(t)] # "none" => File(h[t].client_socket_fd) = Cb(t)

\* The handlers that have a client and have not closed client_socket yet.
Serving(t) == pc[t] \notin {"none", "closeAgain", "done"}

MainIntact == \A t \in Threads : Serving(t) => File(h[t].client_socket) = Main(t)

DenotesCb(f) == \E c \in Clients : File(f) = Cb(c)

\* A callback connection, or -1 of a handler that read its CLIENT message in
\* pieces and never connected back.
Kept(f) == DenotesCb(f) \/ (f = NoFd /\ "shortRead" \in Events)

\* The descriptors in the user table, and the copy a handler has taken from it.
TableIntact ==
    /\ \A n \in Names : dir[n] # NoUser /\ dir[n].socket_fd # Uninit => Kept(dir[n].socket_fd)
    /\ \A t \in Threads : pc[t] \in {"invite", "answer"} => Kept(h[t].receiver_fd)

\* Descriptors go wrong in two places only: the second close() of a handler
\* that ends (server.cpp:365), when the number has been given to somebody else
\* meanwhile, and the call of a user nobody has signed up (179), whose descriptor
\* was never assigned.  As long as neither has happened, every descriptor that a
\* handler holds, or the user table, which keeps them for ever, denotes the
\* connection it was stored for, even when recv() cuts messages anywhere and
\* their ends are executed as commands (server.cpp:80).
DescriptorsOwned == ~lost /\ proc = "up" => CbIntact /\ MainIntact /\ TableIntact

\* The handlers that wait, or are about to, for an answer on connection e.
Waiters(e) ==
    {t \in Threads : \/ pc[t] = "answer" /\ File(h[t].receiver_fd) = e
                     \/ pc[t] = "await" /\ h[t].file = e}

\* The INVITEs among messages s, by their places.
Invites(s) == {i \in 1..Len(s) : s[i].cmd = "INVITE"}

\* As long as no descriptor went wrong and messages arrive whole, every handler
\* that waits for an answer (server.cpp:196) has exactly one INVITE or answer on
\* the way for it: none is lost, none is left over for a later call, however
\* many calls to one user overlap and whoever leaves.
OneAnswerPerCall ==
    ~lost /\ proc = "up" /\ "shortRead" \notin Events =>
        \A c \in Clients : peer[Cb(c)] = "open" =>
            Cardinality(Waiters(Cb(c)))
                = Cardinality(Invites(toClient[Cb(c)])) + Len(toServer[Cb(c)])

ReplyMsg(k) == [cmd |-> "reply", to |-> k]

\* As long as no descriptor went wrong and messages arrive whole, what a client
\* finds on its main connection is at most one reply, the one to the command it
\* sent last (server.cpp:131,148,345,350): forwarded answers never get between.
\* Only after EXIT can the reply to the LOGOUT before it still be there, and then
\* it comes first.
RepliesInStep ==
    ~lost /\ proc = "up" /\ "shortRead" \notin Events => \A c \in Clients : toClient[Main(c)] \in
        {<<>>, <<ReplyMsg(last[c])>>} \cup
        (IF last[c] = "EXIT"
         THEN {<<ReplyMsg("LOGOUT")>>, <<ReplyMsg("LOGOUT"), ReplyMsg("EXIT")>>} ELSE {})

\* A handler that waits for the answer of a called client gets on: the answer
\* arrives or the client's connection ends.  Two clients that call each other,
\* or one that calls itself, do not wait for ever.
AwaitEnds ==
    \A t \in Threads : (pc[t] = "await" /\ h[t].file \in {Cb(c) : c \in Clients} /\ Up)
                          ~> (pc[t] # "await" \/ ~Up)

\* A client that waits for a reply gets one, unless one of the two ends goes.
CommandsAnswered ==
    \A c \in Clients : (AwaitsReply(last[c]) /\ client[c] = "up" /\ toClient[Main(c)] = <<>> /\ Up)
        ~> (toClient[Main(c)] # <<>> \/ client[c] = "gone" \/ ~ServerHolds(Main(c)) \/ ~Up)

\* The server stops, provided the clients go: once main() is in its join loop
\* (server.cpp:449) every handler comes to its end, and Ctrl-C gets main() there
\* unless it came between the check of running and accept() (427-430), which
\* then waits for one more connection.
ShutdownCompletes == (Up /\ (~running \/ mainPc = "join")) ~> (~Up \/ mainPc = "accept")

-----------------------------------------------------------------------------
(* What the repository says of the server and the code does not do.        *)

\* The answer to an offer goes to the offerer (README.md:80).
AnswerReachesItsOfferer == \A t \in Threads : pc[t] = "forward" => h[t].re = t

\* The INVITE goes to the client that uses the name that is called
\* (README.md:80).
InviteReachesCallee ==
    \A t \in Threads : pc[t] = "invite" =>
        \E c \in Clients : /\ File(h[t].receiver_fd) = Cb(c)
                           /\ h[c].username = h[t].receiver_username

=============================================================================
