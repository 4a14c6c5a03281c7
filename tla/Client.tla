------------------------------- MODULE Client -------------------------------
(***************************************************************************)
(* client.cpp: one client process, its main thread and its listener        *)
(* thread, against any server that keeps to server.cpp's side.             *)
(*                                                                         *)
(* A step is one system call with the computation that follows it.  The    *)
(* menu's input is any choice the user may make; cin may fail at any       *)
(* prompt, after which it fails at every one.  Ctrl-C is delivered to the  *)
(* main thread.  What the server sends arrives whole, except that INVITE   *)
(* is twice as long as what the listener reads at a time.                  *)
(* client.cpp:369-375 are the two sides of a merge that was never          *)
(* finished; they differ in comments only.                                 *)
(***************************************************************************)
EXTENDS Naturals, Sequences, Protocol

CONSTANTS
    MaxCommands,  \* bound: the commands sent after CLIENT
    MaxPushes     \* bound: the INVITEs and ACCEPTs the server sends

ASSUME ClientBounds == MaxCommands \in Nat /\ MaxPushes \in Nat

VARIABLES
    proc,         \* the process: "up", "exited", "aborted" or "sigpipe"
    pc,           \* where the main thread is
    op,           \* the menu option whose reply it waits for
    running, server_disconnected, exit_selected, isLogin,
    named,        \* username is not empty
    cinOk,        \* cin has not failed yet
    udp,          \* socket(AF_INET, SOCK_DGRAM) works
    listener,     \* where the listener thread is
    conn,         \* the connection to the server, as send() and recv() find it
    toServer,     \* commands the server has not read
    toClient,     \* how many replies the client has not read
    cb,           \* the connection the server opens to the listener
    toListener,   \* what the listener has not read
    srv,          \* the server: "new", "serving", "dropped" or "dead"
    served,       \* the commands the server has dealt with
    pushes,       \* INVITEs and ACCEPTs sent by the server
    applied,      \* descriptions of peers the listener has applied
    last, answered, \* the last command that reached the server; its reply was read
    commands      \* how many did, CLIENT not counted

flags == <<server_disconnected, exit_selected, isLogin>>
mainVars == <<pc, op, running, flags, named, cinOk>>
netVars == <<conn, toServer, toClient, cb, toListener>>
srvVars == <<srv, served, pushes>>
roleVars == <<last, answered, commands>>
vars == <<proc, mainVars, udp, listener, netVars, srvVars, applied, roleVars>>

MainPcs == {"start", "media", "spawn", "menu", "reply", "sendExit", "close", "join"}
Options == {"SIGNUP", "LOGIN", "LOGOUT", "exitLogout", "exit", "none"}
Pushed == {"HELLO", "EXIT", "INVITE", "ACCEPT", "zeros"}

TypeOK ==
    /\ proc \in {"up", "exited", "aborted", "sigpipe"}
    /\ pc \in MainPcs /\ op \in Options
    /\ {running, server_disconnected, exit_selected, isLogin, named, cinOk, udp, answered}
           \subseteq BOOLEAN
    /\ listener \in {"none", "setup", "accept", "recv", "ended"}
    /\ conn \in {"open", "closed", "reset", "broken", "mine"}
    /\ toServer \in Seq(Commands)
    /\ toClient \in 0..2
    /\ cb \in {"none", "open", "closed"}
    /\ toListener \in Seq(Pushed)
    /\ srv \in {"new", "serving", "dropped", "dead"}
    /\ served \in SUBSET Commands
    /\ pushes \in 0..MaxPushes /\ applied \in 0..MaxPushes
    /\ last \in Commands /\ commands \in 0..(MaxCommands + 2)

\* connect() to the server has succeeded.
Init ==
    /\ proc = "up" /\ pc = "start" /\ op = "none"
    /\ running = TRUE
    /\ server_disconnected = FALSE /\ exit_selected = FALSE /\ isLogin = FALSE
    /\ named = FALSE /\ cinOk = TRUE
    /\ udp \in BOOLEAN
    /\ listener = "none"
    /\ conn = "open" /\ toServer = <<>> /\ toClient = 0
    /\ cb = "none" /\ toListener = <<>>
    /\ srv = "new" /\ served = {} /\ pushes = 0 /\ applied = 0
    /\ last = "CLIENT" /\ answered = TRUE /\ commands = 0

-----------------------------------------------------------------------------
(* The main thread.                                                        *)

MainFrame == UNCHANGED <<udp, listener, cb, toListener, srvVars, applied>>

\* Where the thread goes on when an option is over: after the LOGOUT of
\* exit_user() comes EXIT, a lost server ends the menu, and so does option 5,
\* which raises SIGINT on the way.
AfterOption(o, lost) ==
    /\ pc' = CASE o = "exitLogout" -> "sendExit"
               [] o # "exitLogout" /\ (lost \/ o = "exit") -> "close"
               [] OTHER -> "menu"
    /\ running' = (running /\ (o = "exit" => lost))

\* send(client_socket, k) of option o, which waits for its reply at next.  It
\* fails once when the connection was reset, and raises SIGPIPE from then on; to
\* a server that has closed in good order it succeeds once.
SendMain(k, next, o) ==
    /\ op' = o
    /\ \/ /\ conn = "open"
          /\ toServer' = Append(toServer, k)
          /\ last' = k /\ answered' = ~AwaitsReply(k)
          /\ commands' = IF k = "CLIENT" THEN commands ELSE commands + 1
          /\ pc' = next
          /\ UNCHANGED <<proc, running, conn>>
       \/ /\ conn = "closed"
          /\ conn' = "broken" /\ pc' = next
          /\ UNCHANGED <<proc, running, toServer, roleVars>>
       \/ /\ conn = "reset"
          /\ conn' = "broken"
          /\ AfterOption(o, server_disconnected)
          /\ proc' = IF k = "CLIENT" THEN "exited" ELSE proc
          /\ UNCHANGED <<toServer, roleVars>>
       \/ /\ conn = "broken"
          /\ proc' = "sigpipe"
          /\ UNCHANGED <<pc, running, conn, toServer, roleVars>>
    /\ UNCHANGED <<toClient, flags>>

\* send_ip_and_port_to_server(); main() returns when it fails.
SendClient ==
    /\ proc = "up" /\ pc = "start"
    /\ SendMain("CLIENT", "media", "none")
    /\ UNCHANGED <<named, cinOk>> /\ MainFrame

\* media_handler(): recv() on a socket nothing is bound to never returns, unless
\* there is no socket; then send() fails too and the loop ends.
MediaReturns ==
    /\ proc = "up" /\ pc = "media"
    /\ ~udp
    /\ pc' = "spawn"
    /\ UNCHANGED <<proc, op, running, flags, named, cinOk, conn, toServer, toClient, roleVars>>
    /\ MainFrame

Spawn ==
    /\ proc = "up" /\ pc = "spawn"
    /\ pc' = "menu"
    /\ listener' = "setup"
    /\ UNCHANGED <<proc, op, running, flags, named, cinOk, udp, netVars, srvVars, applied, roleVars>>

\* The prompt of the menu is answered and the loop goes on.
Chosen == proc = "up" /\ pc = "menu" /\ running /\ cinOk /\ commands < MaxCommands

\* sign_up_login_user() up to its recv(); cin may fail before the username or
\* before the password.
SignUpLogin ==
    /\ Chosen
    /\ \E k \in {"SIGNUP", "LOGIN"} : SendMain(k, "reply", k)
    /\ \/ named' = TRUE /\ cinOk' \in BOOLEAN
       \/ cinOk' = FALSE /\ UNCHANGED named
    /\ MainFrame

\* Mutant: a call without a login.
CallUnchecked ==
    /\ Chosen
    /\ SendMain("CALL", "menu", "none")
    /\ cinOk' \in BOOLEAN
    /\ UNCHANGED named /\ MainFrame

\* call_peer()
CallPeer ==
    /\ Chosen
    /\ isLogin
    /\ SendMain("CALL", "menu", "none")
    /\ cinOk' \in BOOLEAN
    /\ UNCHANGED named /\ MainFrame

\* logout_user() up to its recv().
LogOut ==
    /\ Chosen
    /\ SendMain("LOGOUT", "reply", "LOGOUT")
    /\ UNCHANGED <<named, cinOk>> /\ MainFrame

\* exit_user(), which logs out first if there is a name.
ExitUser ==
    /\ Chosen
    /\ IF named THEN SendMain("LOGOUT", "reply", "exitLogout") ELSE SendMain("EXIT", "reply", "exit")
    /\ UNCHANGED <<named, cinOk>> /\ MainFrame

SendExit ==
    /\ proc = "up" /\ pc = "sendExit"
    /\ SendMain("EXIT", "reply", "exit")
    /\ UNCHANGED <<named, cinOk>> /\ MainFrame

\* cin fails at the menu, which from now on comes again and again.
CinFails ==
    /\ Chosen
    /\ cinOk' = FALSE
    /\ UNCHANGED <<proc, pc, op, running, flags, named, udp, listener, netVars, srvVars, applied, roleVars>>

\* if (!running.load()) after the prompt.
MenuInterrupted ==
    /\ proc = "up" /\ pc = "menu"
    /\ ~running
    /\ IF exit_selected THEN pc' = "close" /\ UNCHANGED proc ELSE proc' = "exited" /\ UNCHANGED pc
    /\ UNCHANGED <<op, running, flags, named, cinOk, udp, listener, netVars, srvVars, applied, roleVars>>

\* recv() returned a reply, or nothing because the server has closed: the flags
\* are set alike.
GetReply ==
    /\ proc = "up" /\ pc = "reply"
    /\ \/ /\ toClient > 0
          /\ toClient' = toClient - 1
          /\ answered' = TRUE
          /\ UNCHANGED server_disconnected
       \/ /\ toClient = 0 /\ conn \in {"closed", "broken"}
          /\ server_disconnected' = TRUE
          /\ UNCHANGED <<toClient, answered>>
    /\ isLogin' = (op \in {"SIGNUP", "LOGIN"} \/ (op = "exit" /\ isLogin))
    /\ exit_selected' = (op = "exit" \/ (op \in {"LOGOUT", "exitLogout"} /\ exit_selected))
    /\ AfterOption(op, server_disconnected')
    /\ UNCHANGED <<proc, op, named, cinOk, conn, toServer, last, commands>> /\ MainFrame

\* recv() returned -1: the connection was reset.
ReplyFails ==
    /\ proc = "up" /\ pc = "reply"
    /\ toClient = 0 /\ conn = "reset"
    /\ conn' = "broken"
    /\ AfterOption(op, server_disconnected)
    /\ UNCHANGED <<proc, op, flags, named, cinOk, toServer, toClient, roleVars>> /\ MainFrame

Close ==
    /\ proc = "up" /\ pc = "close"
    /\ pc' = "join"
    /\ conn' = "mine"
    /\ UNCHANGED <<proc, op, running, flags, named, cinOk, toServer, toClient, roleVars>>
    /\ MainFrame

\* t.join(), return.
Join ==
    /\ proc = "up" /\ pc = "join"
    /\ listener = "ended"
    /\ proc' = "exited"
    /\ UNCHANGED <<mainVars, udp, listener, netVars, srvVars, applied, roleVars>>

\* signal_handler(), and the call the main thread sleeps in fails: recv() of
\* media_handler() or of a reply, or the read behind cin.
Sigint ==
    /\ proc = "up"
    /\ \/ /\ running' = FALSE
          /\ UNCHANGED <<pc, op, named, cinOk>>
       \/ /\ pc = "media"
          /\ running' = FALSE /\ pc' = "spawn"
          /\ UNCHANGED <<op, named, cinOk>>
       \/ /\ pc = "menu"
          /\ running' = FALSE /\ cinOk' = FALSE
          /\ UNCHANGED <<pc, op, named>>
       \/ /\ pc = "reply" /\ toClient = 0 /\ conn = "open"
          /\ running' = FALSE
          /\ pc' = CASE op = "exitLogout" -> "sendExit" [] op = "exit" -> "close" [] OTHER -> "menu"
          /\ UNCHANGED <<op, named, cinOk>>
    /\ UNCHANGED <<proc, flags, udp, listener, netVars, srvVars, applied, roleVars>>

-----------------------------------------------------------------------------
(* The listener thread, server_handler().                                  *)

ListenerFrame == UNCHANGED <<mainVars, udp, conn, toServer, toClient, srvVars, roleVars>>

\* socket(), bind() and listen(); the port may be taken.
Setup ==
    /\ proc = "up" /\ listener = "setup"
    /\ listener' \in {"accept", "ended"}
    /\ UNCHANGED <<proc, cb, toListener, applied>> /\ ListenerFrame

Accept ==
    /\ proc = "up" /\ listener = "accept"
    /\ cb # "none"
    /\ listener' = IF running THEN "recv" ELSE "ended"
    /\ UNCHANGED <<proc, cb, toListener, applied>> /\ ListenerFrame

\* The object onGatheringStateChange() builds, by its keys, and the one the
\* listener reads from what a peer has sent; "" has no object to parse.
SentKeys == {"type", "sdp"}

\* json::parse(sdp)["description"].get<string>() does not throw.
ReadsDescription(sdp) == "description" \in sdp

\* Mutant: EXIT is a message like any other.
EndsAtZeros(m) == m = "zeros"

\* strlen(buffer) == 0, or EXIT.
EndsListener(m) == m \in {"EXIT", "zeros"}

\* One recv() and what is done with it.  An exception ends the process, since
\* nothing in the thread catches it.
ListenerRecv ==
    /\ proc = "up" /\ listener = "recv"
    /\ toListener # <<>>
    /\ toListener' = Tail(toListener)
    /\ \E sdp \in {{}, SentKeys} :
         LET m == Head(toListener)
             call == m \in {"INVITE", "ACCEPT"}
         IN  /\ proc' = IF call /\ ~ReadsDescription(sdp) THEN "aborted" ELSE proc
             /\ applied' = IF call /\ ReadsDescription(sdp) THEN applied + 1 ELSE applied
             /\ listener' = IF EndsListener(m) \/ ~running THEN "ended" ELSE "recv"
    /\ UNCHANGED cb /\ ListenerFrame

\* Mutant: the end of the connection is a message like any other.
ListenerEofIgnored ==
    /\ proc = "up" /\ listener = "recv"
    /\ toListener = <<>> /\ cb = "closed"
    /\ listener' = IF running THEN "recv" ELSE "ended"
    /\ UNCHANGED <<proc, cb, toListener, applied>> /\ ListenerFrame

\* recv() returned 0 and left the buffer empty.
ListenerEof ==
    /\ proc = "up" /\ listener = "recv"
    /\ toListener = <<>> /\ cb = "closed"
    /\ listener' = "ended"
    /\ UNCHANGED <<proc, cb, toListener, applied>> /\ ListenerFrame

-----------------------------------------------------------------------------
(* server.cpp, as the client sees it.                                      *)

ServerFrame == UNCHANGED <<proc, mainVars, udp, listener, applied, roleVars>>

\* close() of the server's end; what it has not read makes it a reset.
ServerEnd == IF conn = "mine" THEN "mine" ELSE IF toServer = <<>> THEN "closed" ELSE "reset"

\* CLIENT: connect_to_client() and the greeting; the connection is dropped when
\* nobody listens.
ConnectBack ==
    /\ proc = "up" /\ srv = "new"
    /\ toServer # <<>>
    /\ toServer' = Tail(toServer)
    /\ served' = served \cup {Head(toServer)}
    /\ IF listener = "accept"
         THEN /\ cb' = "open" /\ toListener' = <<"HELLO">> /\ srv' = "serving"
              /\ UNCHANGED conn
         ELSE /\ srv' = "dropped"
              /\ conn' = IF conn = "mine" THEN "mine" ELSE IF Len(toServer) = 1 THEN "closed" ELSE "reset"
              /\ UNCHANGED <<cb, toListener>>
    /\ UNCHANGED <<toClient, pushes>> /\ ServerFrame

\* Mutant: CALL is answered on the connection the menu reads.
RepliesToAll(k) == k # "CLIENT"

\* The commands the server answers on the connection they came from.
RepliesTo(k) == k \in {"SIGNUP", "LOGIN", "LOGOUT", "EXIT"}

\* Any other command and the reply to it; EXIT also ends the handler, which
\* leaves the other connection open.
Serve ==
    /\ proc = "up" /\ srv = "serving"
    /\ toServer # <<>>
    /\ LET k == Head(toServer)
       IN  /\ toServer' = Tail(toServer)
           /\ served' = served \cup {k}
           /\ toClient' = IF RepliesTo(k) THEN toClient + 1 ELSE toClient
           /\ toListener' = IF k = "EXIT" THEN Append(toListener, "EXIT") ELSE toListener
           /\ srv' = IF k = "EXIT" THEN "dropped" ELSE "serving"
           /\ conn' = IF k = "EXIT" /\ conn # "mine" THEN "closed" ELSE conn
    /\ UNCHANGED <<cb, pushes>> /\ ServerFrame

\* A handler, not always this client's, sends an INVITE to the descriptor that
\* SIGNUP has stored, or the ACCEPT of a peer the client has called.
Push ==
    /\ proc = "up" /\ srv \in {"serving", "dropped"} /\ cb = "open"
    /\ pushes < MaxPushes
    /\ pushes' = pushes + 1
    /\ \/ "SIGNUP" \in served /\ toListener' = toListener \o <<"INVITE", "zeros">>
       \/ "CALL" \in served /\ toListener' = Append(toListener, "ACCEPT")
    /\ UNCHANGED <<conn, toServer, toClient, cb, srv, served>> /\ ServerFrame

\* The handler leaves its loop for a reason of its own.
Drop ==
    /\ proc = "up" /\ srv \in {"new", "serving"}
    /\ srv' = "dropped"
    /\ conn' = ServerEnd
    /\ UNCHANGED <<toServer, toClient, cb, toListener, served, pushes>> /\ ServerFrame

\* The server's process ends, before it has accepted the connection or later.
Die ==
    /\ proc = "up" /\ srv # "dead"
    /\ srv' = "dead"
    /\ conn' \in IF srv = "dropped" \/ conn = "mine" THEN {conn}
                 ELSE IF srv = "new" THEN {ServerEnd, "reset"}
                 ELSE {ServerEnd}
    /\ cb' = IF cb = "open" THEN "closed" ELSE cb
    /\ UNCHANGED <<toServer, toClient, toListener, served, pushes>> /\ ServerFrame

-----------------------------------------------------------------------------
Option == SignUpLogin \/ CallPeer \/ LogOut \/ ExitUser
Main ==
    SendClient \/ MediaReturns \/ Spawn \/ Option \/ SendExit \/ CinFails \/ MenuInterrupted
    \/ GetReply \/ ReplyFails \/ Close \/ Join
Listener == Setup \/ Accept \/ ListenerRecv \/ ListenerEof
Environment == Sigint \/ ConnectBack \/ Serve \/ Push \/ Drop \/ Die

Next == Main \/ Listener \/ Environment

Spec == Init /\ [][Next]_vars

\* Both threads run.  The user, cin, Ctrl-C and the server owe nothing.
Fairness ==
    /\ WF_vars(Listener)
    /\ WF_vars(SendClient \/ MediaReturns \/ Spawn \/ SendExit \/ GetReply \/ ReplyFails \/ Close \/ Join)

FairSpec == Spec /\ Fairness

-----------------------------------------------------------------------------
(* Properties.                                                             *)

\* The commands that reach the server come in the order of the role that the
\* server relies on, and each reply is taken before the next command, however
\* the user, Ctrl-C and a dying server come in between.
Role == INSTANCE ClientRole
ImplementsRole == Role!RoleSpec

\* Once the server has dealt with EXIT and option 5 is over, the process ends:
\* EXIT on the other connection, its end or a call ends the listener join() waits
\* for.
ExitEnds == exit_selected /\ "EXIT" \in served ~> proc # "up"

\* A client that finds its server lost ends, once the server's process is over and
\* if it had connected back: the listener meets the end of that connection, after
\* the messages still in it, and join() returns.
LostServerExits == server_disconnected /\ srv = "dead" /\ cb # "none" ~> proc # "up"

\* "Client oncelikle login signup logout ve exit ozelliklerine sahip olacak"
\* (README.md:78): a client that has connected comes to its menu, unless Ctrl-C, its
\* own end or the server's is first.
MenuReached == pc = "media" ~> pc = "menu" \/ ~running \/ proc # "up" \/ srv \in {"dropped", "dead"}

=============================================================================
