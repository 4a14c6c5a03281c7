-------------------------- MODULE ServerCallProofs --------------------------
(***************************************************************************)
(* Proof that every handler that waits for an answer has exactly one       *)
(* INVITE or answer on the way for it, for any number of clients and of    *)
(* overlapping calls.                                                      *)
(***************************************************************************)
EXTENDS ServerProofs, FiniteSetTheorems

(***************************************************************************)
(* Counting INVITEs.                                                       *)
(***************************************************************************)

\* The INVITEs in a stream can be counted.
LEMMA InvitesFinite ==
    ASSUME NEW s \in Seq(ServerMessage)
    PROVE  IsFiniteSet(Invites(s)) /\ Cardinality(Invites(s)) \in Nat
  <1>1. Len(s) \in Nat
    OBVIOUS
  <1>2. IsFiniteSet(1..Len(s))
    BY <1>1, FS_Interval
  <1>3. Invites(s) \in SUBSET (1..Len(s))
    BY DEF Invites
  <1>4. IsFiniteSet(Invites(s))
    BY <1>2, <1>3, FS_Subset
  <1> QED BY <1>4, FS_CardinalityType

\* What a message at the end adds to the count.
LEMMA InvitesAppend ==
    ASSUME NEW s \in Seq(ServerMessage), NEW m \in ServerMessage
    PROVE  Cardinality(Invites(Append(s, m)))
                = Cardinality(Invites(s)) + (IF m.cmd = "INVITE" THEN 1 ELSE 0)
  <1> DEFINE n == Append(s, m)
             k == Len(s) + 1
  <1>1. /\ Len(s) \in Nat /\ Len(n) = k /\ n[k] = m
        /\ \A i \in 1..Len(s) : n[i] = s[i]
    OBVIOUS
  <1>2. k \notin Invites(s)
    BY <1>1 DEF Invites
  <1>3. Invites(n) = IF m.cmd = "INVITE" THEN Invites(s) \cup {k} ELSE Invites(s)
    <2> HIDE DEF n
    <2>1. 1..Len(n) = (1..Len(s)) \cup {k}
      BY <1>1
    <2> QED BY <1>1, <2>1 DEF Invites
  <1>4. Cardinality(Invites(s) \cup {k}) = Cardinality(Invites(s)) + 1
    BY <1>2, InvitesFinite, FS_AddElement
  <1> HIDE DEF n, k
  <1>5. Cardinality(Invites(s)) \in Nat
    BY InvitesFinite
  <1>6. Cardinality(Invites(n)) = Cardinality(Invites(s)) + (IF m.cmd = "INVITE" THEN 1 ELSE 0)
    BY <1>3, <1>4, <1>5
  <1> QED BY <1>6 DEF n

\* What the first message leaves of the count when it is taken.
LEMMA InvitesTail ==
    ASSUME NEW s \in Seq(ServerMessage), s # <<>>
    PROVE  Cardinality(Invites(s))
                = Cardinality(Invites(Tail(s))) + (IF Head(s).cmd = "INVITE" THEN 1 ELSE 0)
  <1> DEFINE n == Tail(s)
             S == Invites(s) \ {1}
             T == Invites(n)
             f == [i \in S |-> i - 1]
  <1>1. /\ Len(s) \in Nat \ {0} /\ Len(n) = Len(s) - 1 /\ Head(s) = s[1]
        /\ \A i \in 1..Len(n) : n[i] = s[i + 1]
    OBVIOUS
  <1>2. f \in Bijection(S, T)
    <2> HIDE DEF n
    <2>1. \A i \in S : i - 1 \in T /\ i \in Int
      BY <1>1 DEF Invites
    <2>2. \A j \in T : j + 1 \in S /\ j = (j + 1) - 1
      BY <1>1 DEF Invites
    <2>3. f \in [S -> T]
      BY <2>1
    <2>4. \A i, j \in S : f[i] = f[j] => i = j
      BY <2>1
    <2>5. \A j \in T : \E i \in S : f[i] = j
      BY <2>2
    <2> HIDE DEF f, S, T
    <2> QED BY <2>3, <2>4, <2>5 DEF Bijection, Injection, Surjection, IsInjective
  <1>3. IsFiniteSet(Invites(s)) /\ Cardinality(Invites(s)) \in Nat
    BY InvitesFinite
  <1>4. IsFiniteSet(S) /\ Cardinality(S) = IF 1 \in Invites(s) THEN Cardinality(Invites(s)) - 1
                                                              ELSE Cardinality(Invites(s))
    BY <1>3, FS_RemoveElement
  <1>5. 1 \in Invites(s) <=> Head(s).cmd = "INVITE"
    BY <1>1 DEF Invites
  <1> HIDE DEF f, S, T
  <1>6. Cardinality(T) = Cardinality(S)
    BY <1>2, <1>4, FS_Bijection DEF ExistsBijection
  <1>7. Cardinality(Invites(s)) = Cardinality(T) + (IF Head(s).cmd = "INVITE" THEN 1 ELSE 0)
    BY <1>3, <1>4, <1>5, <1>6
  <1> QED BY <1>7 DEF T

-----------------------------------------------------------------------------
(***************************************************************************)
(* What the steps of a handler do to the callback connections.             *)
(***************************************************************************)

\* Handler u waits, or is about to, for an answer on connection e.
WaitsOn(u, e) ==
    \/ pc[u] = "answer" /\ File(h[u].receiver_fd) = e
    \/ pc[u] = "await" /\ h[u].file = e

\* Callback connections are ends, different from each other and from the main
\* ones.
LEMMA CbEnds ==
    /\ Clients = Threads
    /\ \A c \in Threads : Cb(c) \in Ends /\ Main(c) \in Ends
    /\ \A c, d \in Threads : Cb(c) # Main(d) /\ (Cb(c) = Cb(d) => c = d)
  BY DEF Clients, Cb, Main, Ends

\* send() on a descriptor of connection e appends to e alone, if its client still
\* has it, and opens nothing.
LEMMA SendEffect ==
    ASSUME Typed, NEW STATE f, NEW STATE m, NEW e \in Ends, Has(f, e), Send(f, m), proc' = "up"
    PROVE  /\ \A x \in Ends : x # e => toClient'[x] = toClient[x] /\ peer'[x] = peer[x]
           /\ \/ toClient'[e] = toClient[e]
              \/ peer[e] = "open" /\ toClient'[e] = Append(toClient[e], m)
           /\ peer[e] = "open" => toClient'[e] = Append(toClient[e], m)
           /\ peer'[e] = "open" => peer[e] = "open"
  <1>1. File(f) = e /\ e # NoFile /\ e # Unconnected
    BY FileHas, Distinct
  <1>2. DOMAIN toClient = Ends /\ DOMAIN peer = Ends
    BY DEF Typed, TypeOK
  <1> QED BY <1>1, <1>2 DEF Send

\* What a step means for the callback connections when it neither sends an INVITE
\* nor waits for an answer.
Quiet(c) ==
    /\ toServer'[Cb(c)] = toServer[Cb(c)]
    /\ \/ toClient'[Cb(c)] = toClient[Cb(c)]
       \/ /\ peer[Cb(c)] = "open"
          /\ \E m \in ServerMessage : /\ m.cmd # "INVITE"
                                      /\ toClient'[Cb(c)] = Append(toClient[Cb(c)], m)
    /\ peer'[Cb(c)] = "open" => peer[Cb(c)] \in {"open", "none"}

\* Only SendInvite(), WaitAnswer(), NoReply() and GetAnswer() have to do with
\* waiting for answers.
LEMMA QuietStep ==
    ASSUME "shortRead" \notin Events, Typed, Owned, NEW t \in Threads, Handler(t), proc' = "up",
           ~SendInvite(t), ~WaitAnswer(t), ~NoReply(t), ~GetAnswer(t)
    PROVE  /\ pc[t] \notin {"answer", "await"} /\ pc'[t] \notin {"answer", "await"}
           /\ \A c \in Threads : Quiet(c)
  <1>0. /\ DOMAIN pc = Threads /\ TypeOK
        /\ DOMAIN peer = Ends /\ DOMAIN toServer = Ends
        /\ Greeting(t) /\ HandlerOwns(t)
    BY DEF Typed, TypeOK, Owned
  <1>1. ASSUME NEW STATE f, NEW STATE m, NEW e \in Ends, Has(f, e), Send(f, m),
               m \in ServerMessage, m.cmd # "INVITE", UNCHANGED toServer
        PROVE  \A c \in Threads : Quiet(c)
    <2>1. /\ \A x \in Ends : x # e => toClient'[x] = toClient[x] /\ peer'[x] = peer[x]
          /\ \/ toClient'[e] = toClient[e]
             \/ peer[e] = "open" /\ toClient'[e] = Append(toClient[e], m)
          /\ peer'[e] = "open" => peer[e] = "open"
      BY <1>1, SendEffect
    <2> QED BY <1>1, <2>1, CbEnds DEF Quiet
  <1>2. CASE Recv(t)
    <2>1. pc[t] = "recv" /\ h[t].file = Main(t)
      BY <1>0, <1>2 DEF Recv, HandlerAt, HandlerOwns
    <2>2. \E q : toServer' = [toServer EXCEPT ![Main(t)] = q]
      BY <1>2, <2>1 DEF Recv
    <2>3. \A c \in Threads : toServer'[Cb(c)] = toServer[Cb(c)]
      BY <1>0, <2>2, CbEnds
    <2>4. UNCHANGED <<toClient, peer>>
      BY <1>2 DEF Recv
    <2>5. pc'[t] \notin {"answer", "await"}
      BY <1>0, <1>2, <2>1 DEF Recv, Dispatch, Goto
    <2> QED BY <2>1, <2>3, <2>4, <2>5 DEF Quiet
  <1>3. CASE Connect(t)
    <2>1. pc[t] = "connect" /\ pc'[t] \in {"hello", "close"}
      BY <1>0, <1>3 DEF Connect, Step, HandlerAt, Goto
    <2>2. peer[Cb(t)] = "none" /\ (h[t].address \in Clients => h[t].address = t)
      BY <1>0, <2>1, ThreadAssumption DEF Greeting, HandlerOwns, Clients
    <2>3. UNCHANGED <<toServer, toClient>>
          /\ (UNCHANGED peer \/ peer' = [peer EXCEPT ![Cb(t)] = "open"])
      BY <1>3, <2>2 DEF Connect
    <2> QED BY <1>0, <2>1, <2>2, <2>3, CbEnds DEF Quiet
  <1>4. CASE Hello(t) \/ Forward(t) \/ ExitCb(t)
    <2>1. /\ pc[t] \in {"hello", "forward", "exitCb"} /\ pc'[t] \in {"loop", "close"}
          /\ UNCHANGED toServer
      BY <1>0, <1>4 DEF Hello, Forward, ExitCb, EndCall, Step, HandlerAt, Goto
    <2>2. Has(h[t].client_socket_fd, Cb(t))
      BY <1>0, <2>1 DEF HandlerOwns, Greeting
    <2>3. \E m \in ServerMessage : m.cmd # "INVITE" /\ Send(h[t].client_socket_fd, m)
      BY <1>0, <1>4, SentType DEF Hello, Forward, ExitCb
    <2> QED BY <1>1, <2>1, <2>2, <2>3, CbEnds
  <1>5. CASE Reply(t) \/ Exit(t)
    <2>1. /\ pc[t] \in {"signup", "login", "logout", "exit"} /\ pc'[t] \in {"loop", "close", "exitCb"}
          /\ UNCHANGED toServer
      BY <1>0, <1>5 DEF Reply, Exit, Step, HandlerAt, Goto
    <2>2. Has(h[t].client_socket, Main(t))
      BY <1>0, <2>1 DEF HandlerOwns, Serving
    <2>3. \E m \in ServerMessage : m.cmd # "INVITE" /\ Send(h[t].client_socket, m)
      BY <1>0, <1>5, SentType DEF Reply, Exit
    <2> QED BY <1>1, <2>1, <2>2, <2>3, CbEnds
  <1>6. CASE \/ Loop(t) \/ RecvEnd(t) \/ Socket(t) \/ NotLoggedIn(t) \/ LoggedIn(t) \/ KnownUser(t)
             \/ GotUser(t) \/ Close(t) \/ CloseAgain(t)
    <2>1. UNCHANGED netVars
      BY <1>6 DEF Loop, RecvEnd, Socket, NotLoggedIn, LoggedIn, KnownUser, GotUser, Close, CloseAgain
    <2>2. pc[t] \notin {"answer", "await"} /\ pc'[t] \notin {"answer", "await"}
      BY <1>0, <1>6 DEF Loop, RecvEnd, Socket, NotLoggedIn, LoggedIn, KnownUser, GotUser, Close,
           CloseAgain, EndCall, Step, HandlerAt, Goto
    <2> QED BY <2>1, <2>2 DEF Quiet, netVars
  <1> QED BY <1>2, <1>3, <1>4, <1>5, <1>6 DEF Handler, OwnStep

\* A handler that a step leaves alone goes on waiting where it waits.
LEMMA WaitsKept ==
    ASSUME "shortRead" \notin Events, Typed, Admission, Owned, [Next]_vars, Sound',
           NEW u \in Threads, h'[u] = h[u], pc'[u] = pc[u], NEW c \in Threads
    PROVE  WaitsOn(u, Cb(c))' <=> WaitsOn(u, Cb(c))
  <1>1. CASE pc[u] = "answer"
    <2>0. HasCb(h[u].receiver_fd)
      BY <1>1 DEF Owned, HandlerOwns, Keepable
    <2>1. PICK d \in Threads, f \in Fds : f = h[u].receiver_fd /\ fdTable[f] = Cb(d)
      BY <2>0, CbEnds DEF HasCb, Has
    <2>2. fdTable'[f] = Cb(d)
      BY <2>1, DescriptorsKept, CbEnds DEF Owned
    <2>3. File(h[u].receiver_fd) = Cb(d)
      BY <2>1, Distinct, CbEnds DEF File
    <2>4. File(h[u].receiver_fd)' = Cb(d)
      BY <2>1, <2>2, Distinct, CbEnds DEF File
    <2> QED BY <1>1, <2>3, <2>4 DEF WaitsOn
  <1>2. CASE pc[u] # "answer"
    BY <1>2 DEF WaitsOn
  <1> QED BY <1>1, <1>2

\* A handler's step gives a descriptor to a callback connection only when it
\* connects.
LEMMA HandlerGains ==
    ASSUME Typed, NEW t \in Threads, Handler(t), NEW c \in Threads, NEW f \in Fds,
           fdTable[f] # Cb(c), fdTable'[f] = Cb(c)
    PROVE  pc[t] = "connect" /\ pc'[t] = "hello"
  <1>0. DOMAIN pc = Threads /\ DOMAIN fdTable = Fds
    BY DEF Typed, TypeOK
  <1>1. CASE Connect(t)
    BY <1>0, <1>1 DEF Connect, Step, HandlerAt, Goto
  <1>2. CASE Socket(t) \/ Close(t) \/ CloseAgain(t)
    <2>1. \A g \in Fds : fdTable'[g] \in {fdTable[g], Unconnected, NoFile}
      BY <1>0, <1>2 DEF Socket, Close, CloseAgain, CloseFd
    <2> QED BY <2>1, Distinct, CbEnds
  <1>3. CASE UNCHANGED fdTable
    BY <1>3
  <1> QED BY <1>1, <1>2, <1>3 DEF Handler, OwnStep, Loop, RecvEnd, Recv, Hello, Reply, NotLoggedIn,
           LoggedIn, KnownUser, GotUser, SendInvite, WaitAnswer, NoReply, GetAnswer, Forward, Exit,
           ExitCb

\* Before connect() there is nothing of a callback connection: no descriptor,
\* nobody inside recv() on it, nothing under way.
Unopened(c) ==
    peer[Cb(c)] = "none" =>
        /\ toClient[Cb(c)] = <<>> /\ toServer[Cb(c)] = <<>>
        /\ \A f \in Fds : fdTable[f] # Cb(c)
        /\ \A u \in Threads : pc[u] = "await" => h[u].file # Cb(c)

\* The same for a step that leaves all of it alone.
LEMMA UnopenedKept ==
    ASSUME NEW c \in Threads, Unopened(c),
           peer'[Cb(c)] = "none" => peer[Cb(c)] = "none",
           peer[Cb(c)] = "none" => /\ toClient'[Cb(c)] = toClient[Cb(c)]
                                   /\ toServer'[Cb(c)] = toServer[Cb(c)],
           peer'[Cb(c)] = "none" => \A f \in Fds : fdTable'[f] = Cb(c) => fdTable[f] = Cb(c),
           peer'[Cb(c)] = "none" =>
                \A u \in Threads : pc'[u] = "await" /\ h'[u].file = Cb(c) =>
                    \/ pc[u] = "await" /\ h[u].file = Cb(c)
                    \/ \E f \in Fds : fdTable[f] = Cb(c)
    PROVE  Unopened(c)'
  BY DEF Unopened

\* A handler's step leaves a callback connection unopened or opens it.
LEMMA UnopenedHandler ==
    ASSUME "shortRead" \notin Events, Typed, Owned, NEW t \in Threads, Handler(t), proc' = "up",
           NEW c \in Threads, Unopened(c)
    PROVE  Unopened(c)'
  <1>0. /\ DOMAIN pc = Threads /\ DOMAIN h = Threads /\ DOMAIN toServer = Ends
        /\ HandlerOwns(t)
    BY DEF Typed, TypeOK, Owned
  <1>1. peer'[Cb(c)] = "none" => peer[Cb(c)] = "none"
    BY HandlerNet
  <1>2. peer[Cb(c)] = "none" => toServer'[Cb(c)] = toServer[Cb(c)]
    <2> SUFFICES ASSUME peer[Cb(c)] = "none" PROVE toServer'[Cb(c)] = toServer[Cb(c)]
      OBVIOUS
    <2>1. toServer[Cb(c)] = <<>>
      BY DEF Unopened
    <2>2. \/ UNCHANGED toServer
          \/ \E e \in Ends : \E q : e # Cb(c) /\ toServer' = [toServer EXCEPT ![e] = q]
      BY <2>1, HandlerStreams
    <2> QED BY <1>0, <2>2, CbEnds
  <1>3. peer[Cb(c)] = "none" => toClient'[Cb(c)] = toClient[Cb(c)]
    <2>1. CASE SendInvite(t)
      <3>1. pc[t] = "invite" /\ Send(h[t].receiver_fd, InviteMsg(t))
        BY <2>1 DEF SendInvite, Step, HandlerAt
      <3>2. PICK d \in Threads : Has(h[t].receiver_fd, Cb(d))
        BY <1>0, <3>1, CbEnds DEF HandlerOwns, Keepable, HasCb
      <3> QED BY <3>1, <3>2, SendEffect, CbEnds
    <2>2. CASE WaitAnswer(t) \/ NoReply(t) \/ GetAnswer(t)
      BY <2>2 DEF WaitAnswer, NoReply, GetAnswer, netVars
    <2>3. CASE ~(SendInvite(t) \/ WaitAnswer(t) \/ NoReply(t) \/ GetAnswer(t))
      BY <2>3, QuietStep DEF Quiet
    <2> QED BY <2>1, <2>2, <2>3
  <1>4. peer'[Cb(c)] = "none" => \A f \in Fds : fdTable'[f] = Cb(c) => fdTable[f] = Cb(c)
    <2> SUFFICES ASSUME NEW f \in Fds, fdTable'[f] = Cb(c), fdTable[f] # Cb(c), peer'[Cb(c)] = "none"
                 PROVE  FALSE
      OBVIOUS
    <2>1. pc[t] = "connect" /\ pc'[t] = "hello"
      BY HandlerGains
    <2>2. fdTable' = [fdTable EXCEPT ![h[t].client_socket_fd] = Cb(t)]
      <3>1. h[t].address \in Clients => h[t].address = t
        BY <1>0, ThreadAssumption DEF HandlerOwns, Clients
      <3> QED BY <2>1, <3>1, HandlerPeer
    <2>3. DOMAIN fdTable = Fds
      BY DEF Typed, TypeOK
    <2>4. c = t
      BY <2>2, <2>3, CbEnds
    <2> QED BY <2>1, <2>4, HandlerNet
  <1>5. \A u \in Threads : pc'[u] = "await" /\ h'[u].file = Cb(c) =>
            \/ pc[u] = "await" /\ h[u].file = Cb(c)
            \/ \E f \in Fds : fdTable[f] = Cb(c)
    <2>1. \A u \in Threads \ {t} : h'[u] = h[u] /\ pc'[u] = pc[u]
      BY HandlerLocals DEF Typed
    <2>2. CASE WaitAnswer(t)
      <3>1. \/ pc'[t] = "loop"
            \/ h'[t].file = File(h[t].receiver_fd)
        <4>1. \/ pc' = [pc EXCEPT ![t] = "loop"]
              \/ h' = [h EXCEPT ![t].file = File(h[t].receiver_fd)]
          BY <2>2 DEF WaitAnswer, EndCall, Step, Goto
        <4>2. "file" \in DOMAIN h[t]
          BY DEF Typed, TypeOK, Locals
        <4> QED BY <1>0, <4>1, <4>2
      <3>2. h'[t].file = Cb(c) /\ h'[t].file = File(h[t].receiver_fd) =>
                \E f \in Fds : fdTable[f] = Cb(c)
        BY Distinct, CbEnds DEF File
      <3> QED BY <2>1, <3>1, <3>2
    <2>3. CASE SendInvite(t) \/ NoReply(t) \/ GetAnswer(t)
      <3>1. pc'[t] # "await"
        BY <1>0, <2>3 DEF SendInvite, NoReply, GetAnswer, EndCall, Step, Goto
      <3> QED BY <2>1, <3>1
    <2>4. CASE ~(SendInvite(t) \/ WaitAnswer(t) \/ NoReply(t) \/ GetAnswer(t))
      BY <2>1, <2>4, QuietStep
    <2> QED BY <2>2, <2>3, <2>4
  <1> QED BY <1>1, <1>2, <1>3, <1>4, <1>5, UnopenedKept

\* main() and the store give no callback connection a descriptor and touch no
\* stream.
LEMMA InnerNet ==
    ASSUME Typed, Admission, proc' = "up",
           \/ MainCheck \/ Accept \/ Sigint \/ MainJoin
           \/ \E t \in Threads : StoreStep(t)
           \/ StoreCorrupted \/ UNCHANGED vars
    PROVE  /\ UNCHANGED netVars
           /\ \A f \in Fds, c \in Threads : fdTable'[f] = Cb(c) => fdTable[f] = Cb(c)
           /\ \A u \in Threads : \/ pc'[u] = pc[u] /\ h'[u] = h[u]
                                 \/ pc[u] = "none" /\ pc'[u] = "loop"
  <1>0. DOMAIN pc = Threads /\ DOMAIN h = Threads /\ DOMAIN fdTable = Fds /\ backlog \in Seq(Clients)
    BY DEF Typed, TypeOK
  <1>1. UNCHANGED netVars
    BY DEF MainCheck, Accept, Sigint, MainJoin, StoreStep, StoreCorrupted, vars
  <1>2. \A f \in Fds, c \in Threads : fdTable'[f] = Cb(c) => fdTable[f] = Cb(c)
    <2>1. \A f \in Fds : fdTable'[f] \in {fdTable[f], Reserved, NoFile}
                              \cup {Main(d) : d \in Threads}
      <3>1. CASE Accept
        <4>1. Head(backlog) \in Threads
          BY <1>0, <3>1, CbEnds DEF Accept
        <4> QED BY <1>0, <3>1, <4>1 DEF Accept
      <3>2. CASE ~Accept
        BY <1>0, <3>2 DEF MainCheck, Sigint, MainJoin, StoreStep, StoreCorrupted, vars
      <3> QED BY <3>1, <3>2
    <2> QED BY <2>1, Distinct, CbEnds
  <1>3. ASSUME NEW u \in Threads
        PROVE  \/ pc'[u] = pc[u] /\ h'[u] = h[u]
               \/ pc[u] = "none" /\ pc'[u] = "loop"
    <2>1. CASE Accept
      <3>1. 1 \in 1..Len(backlog) /\ Head(backlog) = backlog[1]
        BY <1>0, <2>1 DEF Accept
      <3>2. pc[Head(backlog)] = "none"
        BY <3>1 DEF Admission
      <3> QED BY <1>0, <2>1, <3>2 DEF Accept
    <2>2. CASE ~Accept
      BY <2>2 DEF MainCheck, Sigint, MainJoin, StoreStep, StoreCorrupted, vars
    <2> QED BY <2>1, <2>2
  <1> QED BY <1>1, <1>2, <1>3

\* Every step leaves a callback connection unopened or opens it.
LEMMA UnopenedStep ==
    ASSUME "shortRead" \notin Events, Typed, Admission, Owned, \A c \in Threads : Unopened(c),
           [Next]_vars, Sound'
    PROVE  \A c \in Threads : Unopened(c)'
  <1> SUFFICES ASSUME NEW c \in Threads PROVE Unopened(c)'
    OBVIOUS
  <1>0. proc' = "up" /\ Unopened(c)
    BY DEF Sound
  <1>1. CASE \E t \in Threads : Handler(t)
    BY <1>0, <1>1, UnopenedHandler
  <1>2. CASE \/ MainCheck \/ Accept \/ Sigint \/ MainJoin
             \/ \E t \in Threads : StoreStep(t)
             \/ StoreCorrupted \/ UNCHANGED vars
    <2>1. /\ UNCHANGED <<toServer, toClient, peer>>
          /\ \A f \in Fds : fdTable'[f] = Cb(c) => fdTable[f] = Cb(c)
          /\ \A u \in Threads : \/ pc'[u] = pc[u] /\ h'[u] = h[u]
                                \/ pc[u] = "none" /\ pc'[u] = "loop"
      BY <1>0, <1>2, InnerNet DEF netVars
    <2> QED BY <1>0, <2>1, UnopenedKept
  <1>3. CASE Environment
    <2>0. DOMAIN toServer = Ends /\ DOMAIN toClient = Ends /\ DOMAIN peer = Ends
      BY DEF Typed, TypeOK
    <2>1. PICK d \in Threads : \/ ClientConnects(d) \/ ClientSends(d)
                               \/ ClientListener(d) \/ ListenerEnds(d) \/ ClientLeaves(d)
      BY <1>3, CbEnds DEF Environment
    <2>2. UNCHANGED <<fdTable, pc, h>>
      BY <2>1 DEF ClientConnects, ClientSends, ClientListener, ListenerEnds, ClientLeaves, ClientFrame
    <2>3. (peer'[Cb(c)] = "none" => peer[Cb(c)] = "none")
      BY <2>0, <2>1, CbEnds DEF ClientConnects, ClientSends, ClientListener, ListenerEnds,
         ClientLeaves, Closed
    <2>4. ASSUME peer[Cb(c)] = "none"
          PROVE  toClient'[Cb(c)] = toClient[Cb(c)] /\ toServer'[Cb(c)] = toServer[Cb(c)]
      <3>1. toClient[Cb(c)] = <<>>
        BY <1>0, <2>4 DEF Unopened
      <3>2. CASE ClientConnects(d)
        BY <2>0, <3>2, CbEnds DEF ClientConnects
      <3>3. CASE ClientSends(d)
        BY <2>0, <3>3, CbEnds DEF ClientSends
      <3>4. CASE ClientListener(d)
        BY <2>0, <2>4, <3>4, CbEnds DEF ClientListener
      <3>5. CASE ListenerEnds(d) \/ ClientLeaves(d)
        BY <2>0, <3>1, <3>5, CbEnds DEF ListenerEnds, ClientLeaves
      <3> QED BY <2>1, <3>2, <3>3, <3>4, <3>5
    <2> QED BY <1>0, <2>2, <2>3, <2>4, UnopenedKept
  <1> QED BY <1>1, <1>2, <1>3 DEF Next

-----------------------------------------------------------------------------
(***************************************************************************)
(* One answer per call.                                                    *)
(***************************************************************************)

\* As many handlers wait on the callback connection of c as there are INVITEs on
\* the way to it and answers on the way back.
Balance(c) ==
    Cardinality(Waiters(Cb(c))) = Cardinality(Invites(toClient[Cb(c)])) + Len(toServer[Cb(c)])

Answered(c) == peer[Cb(c)] = "open" => Balance(c)

\* The handlers that wait can be counted.
LEMMA WaitersFinite ==
    ASSUME NEW c \in Threads
    PROVE  /\ IsFiniteSet(Waiters(Cb(c)))
           /\ Cardinality(Waiters(Cb(c))) \in Nat
           /\ Waiters(Cb(c)) = {u \in Threads : WaitsOn(u, Cb(c))}
  <1>1. Waiters(Cb(c)) \in SUBSET Threads
    BY DEF Waiters
  <1>2. IsFiniteSet(Waiters(Cb(c)))
    BY <1>1, ThreadsAssumption, FS_Subset
  <1>3. Cardinality(Waiters(Cb(c))) \in Nat
    BY <1>2, FS_CardinalityType
  <1>4. Waiters(Cb(c)) = {u \in Threads : WaitsOn(u, Cb(c))}
    BY DEF Waiters, WaitsOn
  <1> QED BY <1>2, <1>3, <1>4

\* Nobody waits on a connection that is not there yet.
LEMMA BalanceUnopened ==
    ASSUME NEW c \in Threads, Unopened(c), peer[Cb(c)] = "none"
    PROVE  Balance(c)
  <1>1. /\ toClient[Cb(c)] = <<>> /\ toServer[Cb(c)] = <<>>
        /\ \A f \in Fds : fdTable[f] # Cb(c)
        /\ \A u \in Threads : pc[u] = "await" => h[u].file # Cb(c)
    BY DEF Unopened
  <1>2. Waiters(Cb(c)) = {}
    BY <1>1, Distinct, CbEnds DEF Waiters, File
  <1>3. Invites(<<>>) = {} /\ Len(<<>>) = 0
    BY DEF Invites
  <1>4. Cardinality({}) = 0
    BY FS_EmptySet
  <1>5. 0 = 0 + 0
    OBVIOUS
  <1> QED BY <1>1, <1>2, <1>3, <1>4, <1>5 DEF Balance

\* A step that changes neither who waits nor what is counted keeps the balance.
LEMMA BalanceKept ==
    ASSUME Typed, NEW c \in Threads, Balance(c),
           \A u \in Threads : WaitsOn(u, Cb(c))' <=> WaitsOn(u, Cb(c)),
           toServer'[Cb(c)] = toServer[Cb(c)],
           \/ toClient'[Cb(c)] = toClient[Cb(c)]
           \/ \E m \in ServerMessage : m.cmd # "INVITE"
                                       /\ toClient'[Cb(c)] = Append(toClient[Cb(c)], m)
    PROVE  Balance(c)'
  <1>1. Waiters(Cb(c))' = Waiters(Cb(c))
    BY DEF Waiters, WaitsOn
  <1>2. toClient[Cb(c)] \in Seq(ServerMessage)
    BY CbEnds DEF Typed, TypeOK
  <1>3. Cardinality(Invites(toClient'[Cb(c)])) = Cardinality(Invites(toClient[Cb(c)]))
    <2>1. ASSUME NEW m \in ServerMessage, m.cmd # "INVITE",
                 toClient'[Cb(c)] = Append(toClient[Cb(c)], m)
          PROVE  Cardinality(Invites(toClient'[Cb(c)])) = Cardinality(Invites(toClient[Cb(c)]))
      <3>1. Cardinality(Invites(Append(toClient[Cb(c)], m))) = Cardinality(Invites(toClient[Cb(c)])) + 0
        BY <1>2, <2>1, InvitesAppend
      <3>2. Cardinality(Invites(toClient[Cb(c)])) \in Nat
        BY <1>2, InvitesFinite
      <3> QED BY <2>1, <3>1, <3>2
    <2> QED BY <2>1
  <1> QED BY <1>1, <1>3 DEF Balance

\* When messages arrive whole, recv() takes one message from the stream.
LEMMA ReadsOne ==
    ASSUME "shortRead" \notin Events, NEW s \in Seq(Items), s # <<>>, NEW r \in Reads(s)
    PROVE  Len(r.left) = Len(s) - 1
  <1>1. r.left = Tail(s)
    BY ReadsShape
  <1> QED BY <1>1

\* A handler's step keeps the balance of every open callback connection.
LEMMA AnsweredHandler ==
    ASSUME Typed, Admission, Owned, \A c \in Threads : Unopened(c) /\ Answered(c),
           "shortRead" \notin Events, NEW t \in Threads, Handler(t), [Next]_vars, Sound',
           NEW c \in Threads
    PROVE  Answered(c)'
  <1> SUFFICES ASSUME peer'[Cb(c)] = "open" PROVE Balance(c)'
    BY DEF Answered
  <1>0. /\ DOMAIN pc = Threads /\ DOMAIN h = Threads /\ DOMAIN toServer = Ends
        /\ HandlerOwns(t) /\ proc' = "up" /\ "file" \in DOMAIN h[t]
    BY DEF Typed, TypeOK, Owned, Sound, Locals
  <1>1. \A u \in Threads \ {t} : WaitsOn(u, Cb(c))' <=> WaitsOn(u, Cb(c))
    <2>1. \A u \in Threads \ {t} : h'[u] = h[u] /\ pc'[u] = pc[u]
      BY HandlerLocals DEF Typed
    <2> QED BY <2>1, WaitsKept
  <1>2. CASE ~(SendInvite(t) \/ WaitAnswer(t) \/ NoReply(t) \/ GetAnswer(t))
    <2>1. Quiet(c) /\ ~WaitsOn(t, Cb(c)) /\ ~WaitsOn(t, Cb(c))'
      BY <1>0, <1>2, QuietStep DEF WaitsOn
    <2>2. Balance(c)
      BY <2>1, BalanceUnopened DEF Quiet, Answered
    <2> QED BY <1>1, <2>1, <2>2, BalanceKept DEF Quiet
  <1>3. CASE SendInvite(t)
    <2>1. /\ pc[t] = "invite" /\ pc'[t] = "answer" /\ Send(h[t].receiver_fd, InviteMsg(t))
          /\ UNCHANGED <<fdTable, h, toServer>>
      BY <1>0, <1>3 DEF SendInvite, Step, HandlerAt, Goto
    <2>2. PICK d \in Threads : Has(h[t].receiver_fd, Cb(d))
      BY <1>0, <2>1, CbEnds DEF HandlerOwns, Keepable, HasCb
    <2>3. ~WaitsOn(t, Cb(c)) /\ (WaitsOn(t, Cb(c))' <=> c = d)
      <3>1. File(h[t].receiver_fd)' = Cb(d)
        BY <2>1, <2>2, Distinct, CbEnds DEF Has, File
      <3> QED BY <2>1, <3>1, CbEnds DEF WaitsOn
    <2>4. /\ \A x \in Ends : x # Cb(d) => toClient'[x] = toClient[x] /\ peer'[x] = peer[x]
          /\ peer[Cb(d)] = "open" => toClient'[Cb(d)] = Append(toClient[Cb(d)], InviteMsg(t))
          /\ peer'[Cb(d)] = "open" => peer[Cb(d)] = "open"
      BY <1>0, <2>1, <2>2, SendEffect, CbEnds
    <2>5. Balance(c)
      BY <2>4, CbEnds DEF Answered
    <2>6. CASE c # d
      BY <1>1, <2>1, <2>3, <2>4, <2>5, <2>6, BalanceKept, CbEnds
    <2>7. CASE c = d
      <3>1. toClient'[Cb(c)] = Append(toClient[Cb(c)], InviteMsg(t))
        BY <2>4, <2>7
      <3>2. /\ InviteMsg(t) \in ServerMessage /\ InviteMsg(t).cmd = "INVITE"
            /\ toClient[Cb(c)] \in Seq(ServerMessage) /\ Len(toServer[Cb(c)]) \in Nat
        <4>1. InviteMsg(t) \in ServerMessage
          BY SentType DEF Typed
        <4>2. InviteMsg(t).cmd = "INVITE"
          BY DEF InviteMsg
        <4>3. toClient[Cb(c)] \in Seq(ServerMessage) /\ toServer[Cb(c)] \in Seq(Items)
          BY CbEnds DEF Typed, TypeOK
        <4> QED BY <4>1, <4>2, <4>3
      <3>3. Cardinality(Invites(toClient'[Cb(c)])) = Cardinality(Invites(toClient[Cb(c)])) + 1
        BY <3>1, <3>2, InvitesAppend
      <3>4. t \notin Waiters(Cb(c)) /\ Waiters(Cb(c))' = Waiters(Cb(c)) \cup {t}
        BY <1>1, <2>3, <2>7 DEF Waiters, WaitsOn
      <3>5. Cardinality(Waiters(Cb(c))') = Cardinality(Waiters(Cb(c))) + 1
        BY <3>4, WaitersFinite, FS_AddElement
      <3>6. Cardinality(Invites(toClient[Cb(c)])) \in Nat
        BY <3>2, InvitesFinite
      <3> QED BY <2>1, <2>5, <3>2, <3>3, <3>5, <3>6 DEF Balance
    <2> QED BY <2>6, <2>7
  <1>4. CASE WaitAnswer(t)
    <2>1. pc[t] = "answer" /\ UNCHANGED <<toServer, toClient, peer>>
      BY <1>4 DEF WaitAnswer, EndCall, Step, HandlerAt, netVars
    <2>2. File(h[t].receiver_fd) \in Ends
      <3>1. HasCb(h[t].receiver_fd)
        BY <1>0, <2>1 DEF HandlerOwns, Keepable
      <3> QED BY <3>1, Distinct, CbEnds DEF HasCb, Has, File
    <2>3. pc' = [pc EXCEPT ![t] = "await"] /\ h' = [h EXCEPT ![t].file = File(h[t].receiver_fd)]
      BY <1>4, <2>2 DEF WaitAnswer, Step, Goto
    <2>4. pc'[t] = "await" /\ h'[t].file = File(h[t].receiver_fd)
      BY <1>0, <2>3
    <2>5. WaitsOn(t, Cb(c))' <=> WaitsOn(t, Cb(c))
      BY <2>1, <2>4 DEF WaitsOn
    <2>6. Balance(c)
      BY <2>1 DEF Answered
    <2> QED BY <1>1, <2>1, <2>5, <2>6, BalanceKept
  <1>5. CASE NoReply(t)
    <2>1. /\ pc[t] = "await" /\ pc'[t] = "loop" /\ Eof(h[t].file)
          /\ UNCHANGED <<toServer, toClient, peer>>
      BY <1>0, <1>5 DEF NoReply, EndCall, Step, HandlerAt, Goto, netVars
    <2>2. h[t].file # Cb(c)
      BY <2>1 DEF Eof
    <2>3. ~WaitsOn(t, Cb(c)) /\ ~WaitsOn(t, Cb(c))'
      BY <2>1, <2>2 DEF WaitsOn
    <2>4. Balance(c)
      BY <2>1 DEF Answered
    <2> QED BY <1>1, <2>1, <2>3, <2>4, BalanceKept
  <1>6. CASE GetAnswer(t)
    <2>1. /\ pc[t] = "await" /\ pc'[t] \notin {"answer", "await"} /\ UNCHANGED <<toClient, peer>>
          /\ toServer[h[t].file] # <<>>
      BY <1>0, <1>6 DEF GetAnswer, EndCall, Step, HandlerAt, Goto
    <2>2. PICK d \in Threads : h[t].file = Cb(d)
      BY <1>0, <2>1, CbEnds DEF HandlerOwns
    <2>3. PICK r \in Reads(toServer[Cb(d)]) : toServer' = [toServer EXCEPT ![Cb(d)] = r.left]
      BY <1>6, <2>2 DEF GetAnswer
    <2>4. toServer[Cb(d)] \in Seq(Items) /\ toServer[Cb(d)] # <<>>
      BY <2>1, <2>2, CbEnds DEF Typed, TypeOK
    <2>5. Balance(c)
      BY <2>1 DEF Answered
    <2>6. ~WaitsOn(t, Cb(c))' /\ (WaitsOn(t, Cb(c)) <=> c = d)
      BY <2>1, <2>2, CbEnds DEF WaitsOn
    <2>7. CASE c # d
      <3>1. toServer'[Cb(c)] = toServer[Cb(c)]
        BY <1>0, <2>3, <2>7, CbEnds
      <3> QED BY <1>1, <2>1, <2>5, <2>6, <2>7, <3>1, BalanceKept
    <2>8. CASE c = d
      <3>1. Len(toServer'[Cb(c)]) = Len(toServer[Cb(c)]) - 1
        <4>1. Len(r.left) = Len(toServer[Cb(d)]) - 1
          BY <2>4, ReadsOne
        <4>2. toServer'[Cb(d)] = r.left
          BY <1>0, <2>3, CbEnds
        <4> QED BY <2>8, <4>1, <4>2
      <3>2. t \in Waiters(Cb(c)) /\ Waiters(Cb(c))' = Waiters(Cb(c)) \ {t}
        BY <1>1, <2>6, <2>8 DEF Waiters, WaitsOn
      <3>3. Cardinality(Waiters(Cb(c))') = Cardinality(Waiters(Cb(c))) - 1
        BY <3>2, WaitersFinite, FS_RemoveElement
      <3>4. toClient[Cb(c)] \in Seq(ServerMessage)
        BY CbEnds DEF Typed, TypeOK
      <3>5. Cardinality(Invites(toClient[Cb(c)])) \in Nat /\ Len(toServer[Cb(c)]) \in Nat
        BY <2>4, <2>8, <3>4, InvitesFinite
      <3> QED BY <2>1, <2>5, <3>1, <3>3, <3>5 DEF Balance
    <2> QED BY <2>7, <2>8
  <1> QED BY <1>2, <1>3, <1>4, <1>5, <1>6

\* What a client sends, takes or leaves keeps the balance: an INVITE that its
\* listener takes becomes an answer.
LEMMA AnsweredEnvironment ==
    ASSUME "shortRead" \notin Events, Typed, Admission, Owned, \A c \in Threads : Answered(c),
           Environment, [Next]_vars, Sound', NEW c \in Threads
    PROVE  Answered(c)'
  <1> SUFFICES ASSUME peer'[Cb(c)] = "open" PROVE Balance(c)'
    BY DEF Answered
  <1>0. /\ DOMAIN toServer = Ends /\ DOMAIN toClient = Ends /\ DOMAIN peer = Ends
        /\ toServer[Cb(c)] \in Seq(Items) /\ toClient[Cb(c)] \in Seq(ServerMessage)
    BY CbEnds DEF Typed, TypeOK
  <1>1. PICK d \in Threads : \/ ClientConnects(d) \/ ClientSends(d)
                             \/ ClientListener(d) \/ ListenerEnds(d) \/ ClientLeaves(d)
    BY CbEnds DEF Environment
  <1>2. UNCHANGED <<fdTable, pc, h>>
    BY <1>1 DEF ClientConnects, ClientSends, ClientListener, ListenerEnds, ClientLeaves, ClientFrame
  <1>3. \A u \in Threads : WaitsOn(u, Cb(c))' <=> WaitsOn(u, Cb(c))
    BY <1>2, WaitsKept
  <1>4. peer[Cb(c)] = "open"
    BY <1>0, <1>1, CbEnds DEF ClientConnects, ClientSends, ClientListener, ListenerEnds,
       ClientLeaves, Closed
  <1>5. Balance(c)
    BY <1>4 DEF Answered
  <1>6. CASE toClient'[Cb(c)] = toClient[Cb(c)] /\ toServer'[Cb(c)] = toServer[Cb(c)]
    BY <1>3, <1>5, <1>6, BalanceKept
  <1>7. CASE ClientConnects(d)
    BY <1>0, <1>6, <1>7, CbEnds DEF ClientConnects
  <1>8. CASE ClientSends(d)
    BY <1>0, <1>6, <1>8, CbEnds DEF ClientSends
  <1>9. CASE ListenerEnds(d)
    <2>1. c # d
      BY <1>0, <1>9, CbEnds DEF ListenerEnds, Closed
    <2> QED BY <1>0, <1>6, <1>9, <2>1, CbEnds DEF ListenerEnds
  <1>10. CASE ClientLeaves(d)
    <2>1. c # d /\ Cb(c)[1] = c
      BY <1>0, <1>10, CbEnds DEF ClientLeaves, Closed, Cb
    <2> QED BY <1>0, <1>6, <1>10, <2>1, CbEnds DEF ClientLeaves
  <1>11. CASE ClientListener(d)
    <2>1. CASE c # d
      BY <1>0, <1>6, <1>11, <2>1, CbEnds DEF ClientListener
    <2>2. CASE c = d
      <3> DEFINE q == toClient[Cb(c)]
                 s == toServer[Cb(c)]
                 a == [cmd |-> "ACCEPT", sdp |-> c, re |-> Head(q).sdp]
      <3>1. q # <<>> /\ toClient'[Cb(c)] = Tail(q)
        BY <1>0, <1>11, <2>2, CbEnds DEF ClientListener
      <3>2. IF Head(q).cmd = "INVITE" THEN toServer'[Cb(c)] = Append(s, a) ELSE toServer'[Cb(c)] = s
        BY <1>0, <1>11, <2>2, CbEnds DEF ClientListener
      <3>3. Cardinality(Invites(q))
                = Cardinality(Invites(Tail(q))) + (IF Head(q).cmd = "INVITE" THEN 1 ELSE 0)
        BY <1>0, <3>1, InvitesTail
      <3>4. Cardinality(Invites(q)) \in Nat /\ Cardinality(Invites(Tail(q))) \in Nat
        <4>1. Tail(q) \in Seq(ServerMessage)
          BY <1>0, <3>1
        <4> QED BY <1>0, <4>1, InvitesFinite
      <3>5. Waiters(Cb(c))' = Waiters(Cb(c))
        BY <1>3 DEF Waiters, WaitsOn
      <3>6. Cardinality(Waiters(Cb(c))) = Cardinality(Invites(q)) + Len(s)
        BY <1>5 DEF Balance
      <3> HIDE DEF a
      <3>7. /\ Len(s) \in Nat
            /\ Len(toServer'[Cb(c)]) = Len(s) + (IF Head(q).cmd = "INVITE" THEN 1 ELSE 0)
        <4>1. Len(s) \in Nat
          BY <1>0
        <4>2. Len(Append(s, a)) = Len(s) + 1
          BY <1>0
        <4> HIDE DEF s, q
        <4> QED BY <3>2, <4>1, <4>2
      <3> HIDE DEF s, q
      <3>8. Cardinality(Waiters(Cb(c))) = Cardinality(Invites(Tail(q))) + Len(toServer'[Cb(c)])
        BY <3>3, <3>4, <3>6, <3>7
      <3> QED BY <3>1, <3>5, <3>8 DEF Balance
    <2> QED BY <2>1, <2>2
  <1> QED BY <1>1, <1>7, <1>8, <1>9, <1>10, <1>11

\* As long as no descriptor went wrong and messages arrive whole, every handler
\* that waits for an answer (server.cpp:196) has exactly one INVITE or answer on
\* the way for it, however many calls to one user overlap.
THEOREM OneAnswerForEachCall == Spec => []OneAnswerPerCall
  <1> DEFINE Calling == Sound /\ "shortRead" \notin Events =>
                            \A c \in Threads : Unopened(c) /\ Answered(c)
  <1>1. Init => Calling
    <2> SUFFICES ASSUME Init PROVE Calling
      OBVIOUS
    <2>1. /\ \A t \in Threads : pc[t] = "none"
          /\ \A f \in Fds : fdTable[f] = NoFile
          /\ \A e \in Ends : toServer[e] = <<>> /\ toClient[e] = <<>> /\ peer[e] = "none"
      BY DEF Init
    <2>2. \A c \in Threads : Unopened(c)
      BY <2>1, Distinct, CbEnds DEF Unopened
    <2>3. \A c \in Threads : Answered(c)
      BY <2>1, CbEnds DEF Answered
    <2> QED BY <2>2, <2>3
  <1>2. Keeping /\ Calling /\ [Next]_vars => Calling'
    <2> SUFFICES ASSUME Keeping, Calling, [Next]_vars, Sound', "shortRead" \notin Events
                 PROVE  \A c \in Threads : Unopened(c)' /\ Answered(c)'
      OBVIOUS
    <2>1. Typed /\ Admission /\ Owned /\ Sound /\ \A c \in Threads : Unopened(c)
      BY SoundBefore DEF Keeping
    <2>2. \A c \in Threads : Unopened(c)'
      BY <2>1, UnopenedStep
    <2>3. ASSUME NEW c \in Threads
          PROVE  Answered(c)'
      <3>1. \A d \in Threads : Answered(d)
        BY <2>1
      <3>2. CASE \E t \in Threads : Handler(t)
        BY <2>1, <2>3, <3>1, <3>2, AnsweredHandler
      <3>3. CASE \/ MainCheck \/ Accept \/ Sigint \/ MainJoin
                 \/ \E t \in Threads : StoreStep(t)
                 \/ StoreCorrupted \/ UNCHANGED vars
        <4>1. /\ UNCHANGED <<toServer, toClient, peer>>
              /\ \A u \in Threads : \/ pc'[u] = pc[u] /\ h'[u] = h[u]
                                    \/ pc[u] = "none" /\ pc'[u] = "loop"
          BY <2>1, <3>3, InnerNet DEF netVars, Sound
        <4>2. ASSUME NEW u \in Threads
              PROVE  WaitsOn(u, Cb(c))' <=> WaitsOn(u, Cb(c))
          <5>1. CASE pc'[u] = pc[u] /\ h'[u] = h[u]
            BY <2>1, <5>1, WaitsKept
          <5>2. CASE pc[u] = "none" /\ pc'[u] = "loop"
            BY <5>2 DEF WaitsOn
          <5> QED BY <4>1, <5>1, <5>2
        <4> QED BY <2>1, <3>1, <4>1, <4>2, BalanceKept DEF Answered
      <3>4. CASE Environment
        BY <2>1, <3>1, <3>4, AnsweredEnvironment
      <3> QED BY <3>2, <3>3, <3>4 DEF Next
    <2> QED BY <2>2, <2>3
  <1>3. Calling => OneAnswerPerCall
    BY CbEnds DEF Answered, Balance, OneAnswerPerCall, Sound
  <1> QED BY <1>1, <1>2, <1>3, KeepingInvariant, PTL DEF Spec

=============================================================================
