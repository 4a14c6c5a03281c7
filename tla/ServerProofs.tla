---------------------------- MODULE ServerProofs ----------------------------
(***************************************************************************)
(* Proofs about Server for any number of clients, names, passwords,        *)
(* descriptors, commands and events.                                       *)
(***************************************************************************)
EXTENDS Server, SequenceTheorems, TLAPS

(***************************************************************************)
(* Types.                                                                  *)
(***************************************************************************)

\* What the type of a command says of its parts.
LEMMA CommandParts ==
    ASSUME NEW m \in ClientCommand
    PROVE  /\ m.cmd \in {"LOGOUT", "EXIT", "SIGNUP", "LOGIN", "CALL", "CLIENT", "ACCEPT",
                         "nothing", "shortCall"}
           /\ m.cmd \in {"SIGNUP", "LOGIN"} => m.name \in Names /\ m.password \in Passwords
           /\ m.cmd = "CALL" => m.name \in Names /\ m.sdp \in Sdps
           /\ m.cmd = "CLIENT" => m.from \in Clients \cup {NoThread}
           /\ m.cmd = "ACCEPT" => m.sdp \in Sdps /\ m.re \in Sdps
  BY DEF ClientCommand, MenuCommand

\* A menu command is a command, of a kind that Protocol knows.
LEMMA MenuParts ==
    ASSUME NEW m \in MenuCommand
    PROVE  /\ m \in ClientCommand
           /\ m.cmd \in {"LOGOUT", "EXIT", "SIGNUP", "LOGIN", "CALL"}
           /\ m.cmd \in Commands
  BY DEF ClientCommand, MenuCommand, Commands

\* The beginning of a command is taken for a command, for CLIENT only if it was.
LEMMA BeginningsType ==
    ASSUME NEW m \in ClientCommand, NEW b \in Beginnings(m)
    PROVE  /\ b \in ClientCommand
           /\ b.cmd = "CLIENT" => m.cmd = "CLIENT" /\ b.from \in {m.from, NoThread}
  <1>1. Nothing \in ClientCommand /\ Nothing.cmd # "CLIENT"
    BY DEF Nothing, ClientCommand
  <1>2. CASE m.cmd = "CALL"
    <2>1. m \in [cmd : {"CALL"}, name : Names, sdp : Sdps]
      BY <1>2 DEF ClientCommand, MenuCommand
    <2>2. [m EXCEPT !.sdp = Truncated] \in [cmd : {"CALL"}, name : Names, sdp : Sdps]
      BY <2>1 DEF Sdps
    <2>3. [cmd |-> "shortCall"] \in ClientCommand
      BY DEF ClientCommand
    <2>4. b \in {m, Nothing, [m EXCEPT !.sdp = Truncated], [cmd |-> "shortCall"]}
      BY <1>2 DEF Beginnings
    <2> QED BY <1>1, <1>2, <2>2, <2>3, <2>4 DEF ClientCommand, MenuCommand
  <1>3. CASE m.cmd = "ACCEPT"
    <2>1. m \in [cmd : {"ACCEPT"}, sdp : Sdps, re : Sdps]
      BY <1>3 DEF ClientCommand, MenuCommand
    <2>2. [m EXCEPT !.sdp = Truncated] \in [cmd : {"ACCEPT"}, sdp : Sdps, re : Sdps]
      BY <2>1 DEF Sdps
    <2>3. b \in {m, Nothing, [m EXCEPT !.sdp = Truncated]}
      BY <1>3 DEF Beginnings
    <2> QED BY <1>1, <1>3, <2>2, <2>3 DEF ClientCommand
  <1>4. CASE m.cmd = "CLIENT"
    <2>1. m \in [cmd : {"CLIENT"}, from : Clients \cup {NoThread}]
      BY <1>4 DEF ClientCommand, MenuCommand
    <2>2. [m EXCEPT !.from = NoThread] \in [cmd : {"CLIENT"}, from : Clients \cup {NoThread}]
      BY <2>1
    <2>3. b \in {m, Nothing, [m EXCEPT !.from = NoThread]}
      BY <1>4 DEF Beginnings
    <2> QED BY <1>1, <1>4, <2>2, <2>3 DEF ClientCommand
  <1>5. CASE m.cmd \in {"SIGNUP", "LOGIN"}
    <2> DEFINE A == [cmd : {m.cmd}, name : Starts[m.name], password : {NoPassword}]
               B == [cmd : {m.cmd}, name : {m.name}, password : Starts[m.password]]
    <2>1. m.name \in Names /\ m.password \in Passwords
      BY <1>5, CommandParts
    <2>2. Starts[m.name] \subseteq Names /\ Starts[m.password] \subseteq Passwords
      BY <2>1, TextAssumption
    <2>3. A \cup B \subseteq [cmd : {"SIGNUP", "LOGIN"}, name : Names, password : Passwords]
      BY <1>5, <2>1, <2>2, PasswordAssumption
    <2>4. b \in {m, Nothing} \/ b \in A \cup B
      BY <1>5 DEF Beginnings
    <2> QED BY <1>1, <1>5, <2>3, <2>4 DEF ClientCommand, MenuCommand
  <1>6. CASE m.cmd \notin {"CALL", "ACCEPT", "CLIENT", "SIGNUP", "LOGIN"}
    <2>1. b \in {m, Nothing}
      BY <1>6 DEF Beginnings
    <2> QED BY <1>1, <2>1
  <1> QED BY <1>2, <1>3, <1>4, <1>5, <1>6

\* The end of a command is taken for a command other than CLIENT.
LEMMA EndingsType ==
    ASSUME NEW m \in ClientCommand, NEW b \in Endings(m)
    PROVE  b \in ClientCommand /\ b.cmd # "CLIENT"
  <1>1. Nothing \in ClientCommand /\ Nothing.cmd # "CLIENT"
    BY DEF Nothing, ClientCommand
  <1>2. Words(m) \subseteq Names \cup Passwords
    BY CommandParts DEF Words
  <1>3. \A w \in Words(m) : Inner[w] \subseteq MenuCommand \cup [cmd : {"shortCall"}]
    BY <1>2, TextAssumption
  <1>4. b = Nothing \/ (b = m /\ m.cmd = "EXIT") \/ \E w \in Words(m) : b \in Inner[w]
    <2> DEFINE X == {Inner[w] : w \in Words(m)}
               E == IF m.cmd = "EXIT" THEN {m} ELSE {}
    <2>1. b \in {Nothing} \cup (UNION X) \cup E
      BY DEF Endings
    <2>2. b \in UNION X => \E w \in Words(m) : b \in Inner[w]
      OBVIOUS
    <2>3. b \in E => b = m /\ m.cmd = "EXIT"
      OBVIOUS
    <2> HIDE DEF X, E
    <2> QED BY <2>1, <2>2, <2>3
  <1>5. \A c \in MenuCommand \cup [cmd : {"shortCall"}] : c \in ClientCommand /\ c.cmd # "CLIENT"
    BY DEF ClientCommand, MenuCommand
  <1> QED BY <1>1, <1>3, <1>4, <1>5

\* A stream consists of commands and of what is left of commands.
LEMMA ItemParts ==
    ASSUME NEW i \in Items
    PROVE  /\ Whole(i) \in ClientCommand
           /\ i # Whole(i) => i.cmd = "part" /\ "shortRead" \in Events
           /\ i.cmd = "part" => i # Whole(i)
           /\ i.cmd # "part" => i \in ClientCommand
           /\ ClientCommand \subseteq Items
  <1>1. \A m \in ClientCommand : m.cmd # "part"
    BY CommandParts
  <1>2. ClientCommand \subseteq Items
    BY DEF Items
  <1>3. CASE i \in ClientCommand
    BY <1>1, <1>2, <1>3 DEF Whole
  <1>4. CASE "shortRead" \in Events /\ \E m \in ClientCommand : i = Part(m)
    <2>1. PICK m \in ClientCommand : i = Part(m)
      BY <1>4
    <2>2. i.cmd = "part" /\ i.of = m
      BY <2>1 DEF Part
    <2> QED BY <1>1, <1>2, <1>4, <2>2 DEF Whole
  <1> QED BY <1>3, <1>4 DEF Items

\* What recv() returns and leaves: a command and a stream of items, of which the
\* first may be part of a command and the others come from behind the first.
\* Messages that arrive whole are read one by one.
LEMMA ReadsShape ==
    ASSUME NEW s \in Seq(Items), s # <<>>, NEW r \in Reads(s)
    PROVE  /\ r.msg \in ClientCommand
           /\ r.left \in Seq(Items)
           /\ r.msg.cmd = "CLIENT" => s[1].cmd = "CLIENT" /\ r.msg.from \in {s[1].from, NoThread}
           /\ \A i \in 1..Len(r.left) :
                r.left[i].cmd = "part" \/ \E j \in 2..Len(s) : r.left[i] = s[j]
           /\ "shortRead" \notin Events => r.msg = s[1] /\ r.left = Tail(s)
  <1> DEFINE m == Whole(Head(s))
             q == Tail(s)
  <1>1. Head(s) \in Items /\ Head(s) = s[1] /\ q \in Seq(Items)
    BY HeadTailProperties
  <1>2. Len(q) = Len(s) - 1 /\ Len(s) \in Nat \ {0} /\ \A i \in 1..Len(q) : q[i] = s[i + 1]
    <2>1. Len(q) = Len(s) - 1 /\ \A i \in 1..Len(q) : q[i] = s[i + 1]
      BY HeadTailProperties
    <2> QED BY <2>1, LenProperties, EmptySeq
  <1>3. m \in ClientCommand
    BY <1>1, ItemParts
  <1>4. ASSUME NEW c \in ClientCommand, "shortRead" \in Events
        PROVE  Part(c) \in Items /\ Part(c).cmd = "part"
    BY <1>4 DEF Items, Part
  <1>5. CASE r = [msg |-> m, left |-> q] /\ Head(s) = m
    <2>1. r.msg = s[1] /\ r.left = q
      BY <1>1, <1>5
    <2>2. \A i \in 1..Len(q) : \E j \in 2..Len(s) : q[i] = s[j]
      <3> SUFFICES ASSUME NEW i \in 1..Len(q) PROVE \E j \in 2..Len(s) : q[i] = s[j]
        OBVIOUS
      <3>1. i + 1 \in 2..Len(s)
        BY <1>2
      <3> QED BY <1>2, <3>1
    <2>3. r.left = Tail(s)
      BY <2>1
    <2> HIDE DEF q, m
    <2> QED BY <1>1, <1>3, <1>5, <2>1, <2>2, <2>3
  <1>6. CASE /\ "shortRead" \in Events
             /\ r \in [msg : Beginnings(m), left : {<<Part(m)>> \o q}]
             /\ Head(s) = m
    <2>1. r.msg \in Beginnings(m) /\ r.left = <<Part(m)>> \o q
      BY <1>6
    <2>2. Part(m) \in Items /\ Part(m).cmd = "part"
      BY <1>3, <1>4, <1>6
    <2>3. /\ <<Part(m)>> \o q \in Seq(Items)
          /\ Len(<<Part(m)>> \o q) = 1 + Len(q) /\ (<<Part(m)>> \o q)[1] = Part(m)
          /\ \A i \in 2..(1 + Len(q)) : (<<Part(m)>> \o q)[i] = q[i - 1]
      <3> HIDE DEF q, m
      <3> QED BY <1>1, <2>2
    <2>4. \A i \in 2..Len(s) : (<<Part(m)>> \o q)[i] = s[i]
      <3> SUFFICES ASSUME NEW i \in 2..Len(s) PROVE (<<Part(m)>> \o q)[i] = s[i]
        OBVIOUS
      <3>1. i - 1 \in 1..Len(q) /\ i \in 2..(1 + Len(q)) /\ (i - 1) + 1 = i
        BY <1>2
      <3> HIDE DEF q, m
      <3> QED BY <1>2, <2>3, <3>1
    <2>5. \A i \in 1..Len(r.left) :
            r.left[i].cmd = "part" \/ \E j \in 2..Len(s) : r.left[i] = s[j]
      <3> HIDE DEF q, m
      <3> QED BY <1>2, <2>1, <2>2, <2>3, <2>4
    <2> QED BY <1>1, <1>3, <1>6, <2>1, <2>3, <2>5, BeginningsType
  <1>7. CASE /\ Head(s) # m
             /\ r \in [msg : Endings(m),
                       left : {q, s} \cup
                              (IF Len(s) > 1 THEN {<<Part(Whole(s[2]))>> \o Tail(q)} ELSE {})]
    <2>1. "shortRead" \in Events /\ s[1].cmd = "part" /\ r.msg \in Endings(m)
      BY <1>1, <1>7, ItemParts
    <2>2. r.msg \in ClientCommand /\ r.msg.cmd # "CLIENT"
      BY <1>3, <2>1, EndingsType
    <2>3. CASE r.left = q
      <3>1. \A i \in 1..Len(q) : \E j \in 2..Len(s) : q[i] = s[j]
        <4> SUFFICES ASSUME NEW i \in 1..Len(q) PROVE \E j \in 2..Len(s) : q[i] = s[j]
          OBVIOUS
        <4>1. i + 1 \in 2..Len(s)
          BY <1>2
        <4> QED BY <1>2, <4>1
      <3> HIDE DEF q
      <3> QED BY <1>1, <2>1, <2>2, <2>3, <3>1
    <2>4. CASE r.left = s
      <3>1. \A i \in 1..Len(s) : i = 1 \/ i \in 2..Len(s)
        BY <1>2
      <3> QED BY <2>1, <2>2, <2>4, <3>1
    <2>5. CASE Len(s) > 1 /\ r.left = <<Part(Whole(s[2]))>> \o Tail(q)
      <3> DEFINE p == Part(Whole(s[2]))
                 w == Tail(q)
      <3>1. s[2] \in Items
        BY <1>2, <2>5, ElementOfSeq
      <3>2. p \in Items /\ p.cmd = "part"
        BY <1>4, <2>1, <3>1, ItemParts
      <3>3. q # <<>>
        <4>1. Len(q) # 0
          BY <1>2, <2>5
        <4> QED BY <1>1, <4>1, EmptySeq
      <3>4. w \in Seq(Items) /\ Len(w) = Len(q) - 1 /\ \A i \in 1..Len(w) : w[i] = q[i + 1]
        <4> HIDE DEF q
        <4> QED BY <1>1, <3>3, HeadTailProperties
      <3>5. /\ <<p>> \o w \in Seq(Items)
            /\ Len(<<p>> \o w) = 1 + Len(w) /\ (<<p>> \o w)[1] = p
            /\ \A i \in 2..(1 + Len(w)) : (<<p>> \o w)[i] = w[i - 1]
        <4> HIDE DEF p, w, q
        <4> QED BY <3>2, <3>4
      <3>6. \A i \in 2..(1 + Len(w)) : i + 1 \in 2..Len(s) /\ (<<p>> \o w)[i] = s[i + 1]
        <4> SUFFICES ASSUME NEW i \in 2..(1 + Len(w))
                     PROVE  i + 1 \in 2..Len(s) /\ (<<p>> \o w)[i] = s[i + 1]
          OBVIOUS
        <4>1. /\ Len(w) \in Nat /\ i - 1 \in 1..Len(w) /\ i \in 1..Len(q) /\ (i - 1) + 1 = i
              /\ i + 1 \in 2..Len(s)
          <5> HIDE DEF w, q
          <5> QED BY <1>2, <3>4, LenProperties
        <4>2. w[i - 1] = q[(i - 1) + 1]
          BY <3>4, <4>1
        <4> HIDE DEF p, w, q
        <4> QED BY <1>2, <3>5, <4>1, <4>2
      <3>7. \A i \in 1..Len(r.left) :
              r.left[i].cmd = "part" \/ \E j \in 2..Len(s) : r.left[i] = s[j]
        <4>1. Len(w) \in Nat
          BY <3>4, LenProperties
        <4> HIDE DEF p, w, q
        <4> QED BY <2>5, <3>2, <3>5, <3>6, <4>1 DEF p, w
      <3> QED BY <2>1, <2>2, <2>5, <3>5, <3>7
    <2> QED BY <1>7, <2>3, <2>4, <2>5
  <1>8. \/ Head(s) = m /\ r = [msg |-> m, left |-> q]
        \/ /\ "shortRead" \in Events /\ Head(s) = m
           /\ r \in [msg : Beginnings(m), left : {<<Part(m)>> \o q}]
        \/ /\ Head(s) # m
           /\ r \in [msg : Endings(m),
                     left : {q, s} \cup
                            (IF Len(s) > 1 THEN {<<Part(Whole(s[2]))>> \o Tail(q)} ELSE {})]
    BY DEF Reads
  <1> QED BY <1>5, <1>6, <1>7, <1>8

\* The locals of a new handler, and of one that one of its assignments changed.
LEMMA LocalsType ==
    /\ \A c \in Clients, f \in Fds \cup {NoFd} : NewHandler(c, f) \in Locals
    /\ \A x \in Locals :
        /\ \A f \in Fds \cup {NoFd} : /\ [x EXCEPT !.client_socket_fd = f] \in Locals
                                      /\ [x EXCEPT !.receiver_fd = f] \in Locals
        /\ \A e \in Ends \cup {NoFile} : [x EXCEPT !.file = e] \in Locals
        /\ \A c \in Clients \cup {NoThread} : [x EXCEPT !.address = c] \in Locals
        /\ \A n \in Names : [x EXCEPT !.username = n] \in Locals
        /\ \A n \in Names, s \in Sdps : [x EXCEPT !.receiver_username = n, !.sdp = s] \in Locals
        /\ \A s, r \in Sdps : [x EXCEPT !.file = NoFile, !.sdp = s, !.re = r] \in Locals
  <1>1. ASSUME NEW c \in Clients, NEW f \in Fds \cup {NoFd}
        PROVE  NewHandler(c, f) \in Locals
    BY NameAssumption DEF Locals, NewHandler, Sdps
  <1>2. ASSUME NEW x \in Locals
        PROVE  /\ \A f \in Fds \cup {NoFd} : /\ [x EXCEPT !.client_socket_fd = f] \in Locals
                                             /\ [x EXCEPT !.receiver_fd = f] \in Locals
               /\ \A e \in Ends \cup {NoFile} : [x EXCEPT !.file = e] \in Locals
               /\ \A c \in Clients \cup {NoThread} : [x EXCEPT !.address = c] \in Locals
    BY DEF Locals
  <1>3. ASSUME NEW x \in Locals
        PROVE  /\ \A n \in Names : [x EXCEPT !.username = n] \in Locals
               /\ \A n \in Names, s \in Sdps :
                    [x EXCEPT !.receiver_username = n, !.sdp = s] \in Locals
    BY DEF Locals
  <1>4. ASSUME NEW x \in Locals, NEW s \in Sdps, NEW r \in Sdps
        PROVE  [x EXCEPT !.file = NoFile, !.sdp = s, !.re = r] \in Locals
    BY DEF Locals
  <1> QED BY <1>1, <1>2, <1>3, <1>4

\* EndCall keeps the locals' type.
LEMMA EndCallType ==
    ASSUME NEW t \in Threads, NEW x \in Locals
    PROVE  [NewHandler(t, x.client_socket) EXCEPT !.client_socket_fd = x.client_socket_fd,
               !.address = x.address, !.username = x.username] \in Locals
  BY NameAssumption DEF Locals, NewHandler, Sdps, Clients

\* A call of the store, its effect and its return keep the directory's types.
LEMMA DirStepType ==
    ASSUME DirTypeOK, NEW t \in Threads,
           \/ \E r \in Calls : DirCall(t, r)
           \/ Apply(t) \/ Appear(t) \/ DirReturn(t) \/ Break \/ UNCHANGED dirVars
    PROVE  DirTypeOK'
  <1> USE DEF DirTypeOK
  <1>1. NoAnswer \in Answers /\ \A b \in BOOLEAN : Flag(b) \in Answers
    BY DEF NoAnswer, Flag, Answers
  <1>2. CASE \E r \in Calls : DirCall(t, r)
    BY <1>1, <1>2 DEF DirCall
  <1>3. CASE DirReturn(t)
    BY <1>1, <1>3 DEF DirReturn
  <1>4. CASE Break
    BY <1>4 DEF Break
  <1>5. CASE UNCHANGED dirVars
    BY <1>5 DEF dirVars
  <1>6. CASE Apply(t)
    <2>1. request[t].kind # "none" =>
            /\ request[t].name \in Names
            /\ request[t].kind = "addUser" => /\ request[t].password \in Passwords
                                             /\ request[t].socket_fd \in SocketFds
      BY DEF Calls, AddUserCalls, LoginUserCalls, NameCalls, NoCall
    <2>2. request[t].name \in Names
      BY <1>6, <2>1 DEF Apply
    <2>3. request[t].kind = "addUser" => Registered(request[t]) \in User
      BY <2>1 DEF Registered, User
    <2>4. dir[request[t].name] # NoUser =>
            [dir[request[t].name] EXCEPT !.islogin = TRUE] \in User
      BY <2>2 DEF User
    <2>5. [Entry(dir, request[t].name) EXCEPT !.islogin = FALSE] \in User
      BY <2>2, PasswordAssumption DEF Entry, User, DefaultUser
    <2>6. [ok |-> dir[request[t].name] # NoUser, user |-> dir[request[t].name]] \in Answers
      BY <2>2 DEF Answers
    <2>7. dir[request[t].name] # NoUser =>
            BoolRead(dir[request[t].name].islogin) \subseteq BOOLEAN
      <3>1. dir[request[t].name] # NoUser =>
              dir[request[t].name].islogin \in BOOLEAN \cup {Uninit}
        BY <2>2 DEF User
      <3> QED BY <3>1 DEF BoolRead
    <2>8. \E d \in [Names -> User \cup {NoUser}], a \in Answers : Finish(t, d, a)
      BY <1>1, <1>6, <2>2, <2>3, <2>4, <2>5, <2>6, <2>7 DEF Apply, Authentic
    <2> QED BY <2>8 DEF Finish
  <1>7. CASE Appear(t)
    <2>1. DefaultUser \in User
      BY PasswordAssumption DEF DefaultUser, User
    <2> QED BY <1>7, <2>1 DEF Appear
  <1> QED BY <1>2, <1>3, <1>4, <1>5, <1>6, <1>7

\* send() of a message keeps the types of what it may change.
LEMMA SendType ==
    ASSUME TypeOK, NEW STATE f, NEW STATE m, m \in ServerMessage, Send(f, m)
    PROVE  /\ toClient' \in [Ends -> Seq(ServerMessage)]
           /\ peer' \in [Ends -> {"none", "open", "closed", "reset"}]
           /\ proc' \in {"up", "exited", "sigpipe", "sigsegv"}
  <1>1. \/ UNCHANGED <<toClient, peer, proc>>
        \/ UNCHANGED <<toClient, peer>> /\ proc' \in {"up", "sigpipe"}
        \/ \E e \in Ends : \/ /\ toClient' = [toClient EXCEPT ![e] = Append(@, m)]
                               /\ UNCHANGED <<peer, proc>>
                            \/ /\ peer' = [peer EXCEPT ![e] = "reset"]
                               /\ UNCHANGED <<toClient, proc>>
    BY DEF Send
  <1>2. ASSUME NEW e \in Ends, toClient' = [toClient EXCEPT ![e] = Append(@, m)]
        PROVE  toClient' \in [Ends -> Seq(ServerMessage)]
    <2>1. Append(toClient[e], m) \in Seq(ServerMessage)
      BY DEF TypeOK
    <2> QED BY <1>2, <2>1 DEF TypeOK
  <1> QED BY <1>1, <1>2 DEF TypeOK

\* The markers in the descriptor table are no connections, and -1 no descriptor.
LEMMA Distinct ==
    /\ NoFd \notin Fds
    /\ NoFile \notin Ends /\ Reserved \notin Ends /\ Unconnected \notin Ends
    /\ NoFile # Reserved /\ NoFile # Unconnected /\ Reserved # Unconnected
  BY FdAssumption, FileAssumption DEF NoFd

\* The ends of a client's connections are ends.
LEMMA EndsOfClients ==
    \A c \in Clients : Main(c) \in Ends /\ Cb(c) \in Ends /\ Main(c) # Cb(c)
  BY DEF Ends, Main, Cb

\* What a descriptor denotes.
LEMMA FileType ==
    ASSUME TypeOK, NEW STATE f
    PROVE  /\ File(f) \in Ends \cup {NoFile, Unconnected}
           /\ File(f) # NoFile => f \in Fds /\ fdTable[f] = File(f)
  BY Distinct DEF File, TypeOK

\* close() keeps the type of the descriptor table.
LEMMA CloseType ==
    ASSUME TypeOK, NEW STATE f, CloseFd(f)
    PROVE  fdTable' \in [Fds -> Ends \cup {NoFile, Reserved, Unconnected}]
  BY FileType DEF CloseFd, TypeOK

\* main() keeps the types.
LEMMA MainType ==
    ASSUME TypeOK, MainCheck \/ Accept \/ Sigint \/ MainJoin
    PROVE  TypeOK'
  <1> USE DEF TypeOK
  <1>9. UNCHANGED dirVars => DirTypeOK'
    BY DEF DirTypeOK, dirVars
  <1>1. CASE MainCheck
    BY <1>1, <1>9 DEF MainCheck, netVars, clientVars
  <1>2. CASE Accept
    <2>1. Head(backlog) \in Clients /\ Tail(backlog) \in Seq(Clients)
      BY <1>2 DEF Accept
    <2>2. NewHandler(Head(backlog), acceptFd) \in Locals
      BY <2>1, LocalsType
    <2>3. Main(Head(backlog)) \in Ends
      BY <2>1, EndsOfClients
    <2> QED BY <1>2, <1>9, <2>1, <2>2, <2>3 DEF Accept, netVars, HandlerPcs
  <1>3. CASE Sigint
    BY <1>3, <1>9 DEF Sigint, netVars, clientVars
  <1>4. CASE MainJoin
    BY <1>4, <1>9 DEF MainJoin, netVars, clientVars
  <1> QED BY <1>1, <1>2, <1>3, <1>4

\* The clients keep the types.
LEMMA EnvironmentType ==
    ASSUME TypeOK, Environment
    PROVE  TypeOK'
  <1> USE DEF TypeOK
  <1>9. UNCHANGED dirVars => DirTypeOK'
    BY DEF DirTypeOK, dirVars
  <1> PICK c \in Clients : \/ ClientConnects(c) \/ ClientSends(c)
                          \/ ClientListener(c) \/ ListenerEnds(c) \/ ClientLeaves(c)
    BY DEF Environment
  <1>1. CASE ClientConnects(c)
    <2>1. <<[cmd |-> "CLIENT", from |-> c]>> \in Seq(Items)
      <3>1. [cmd |-> "CLIENT", from |-> c] \in ClientCommand
        BY DEF ClientCommand
      <3>2. [cmd |-> "CLIENT", from |-> c] \in Items
        BY <3>1 DEF Items
      <3> QED BY <3>2
    <2>2. toServer' \in [Ends -> Seq(Items)]
      BY <1>1, <2>1 DEF ClientConnects
    <2>3. backlog' \in Seq(Clients)
      BY <1>1 DEF ClientConnects
    <2> QED BY <1>1, <1>9, <2>2, <2>3 DEF ClientConnects, ClientFrame, procVars
  <1>2. CASE ClientSends(c)
    <2>1. Head(todo[c]) \in MenuCommand /\ Tail(todo[c]) \in Seq(MenuCommand)
      BY <1>2 DEF ClientSends
    <2>2. Head(todo[c]) \in ClientCommand /\ Head(todo[c]).cmd \in Commands
      BY <2>1, MenuParts
    <2>9. Head(todo[c]) \in Items
      BY <2>2 DEF Items
    <2>3. toClient' \in [Ends -> Seq(ServerMessage)]
      <3>1. toClient[Main(c)] # <<>> => Tail(toClient[Main(c)]) \in Seq(ServerMessage)
        BY EndsOfClients
      <3> QED BY <1>2, <3>1 DEF ClientSends
    <2>4. toServer' \in [Ends -> Seq(Items)]
      BY <1>2, <2>9, EndsOfClients DEF ClientSends
    <2> QED BY <1>2, <1>9, <2>1, <2>2, <2>3, <2>4 DEF ClientSends, ClientFrame, procVars
  <1>3. CASE ClientListener(c)
    <2>1. Head(toClient[Cb(c)]) \in ServerMessage /\ Tail(toClient[Cb(c)]) \in Seq(ServerMessage)
      BY <1>3, EndsOfClients DEF ClientListener
    <2>2. toServer' \in [Ends -> Seq(Items)]
      <3>1. CASE Head(toClient[Cb(c)]).cmd = "INVITE"
        <4>1. Head(toClient[Cb(c)]).sdp \in Sdps
          BY <2>1, <3>1 DEF ServerMessage
        <4>2. [cmd |-> "ACCEPT", sdp |-> c, re |-> Head(toClient[Cb(c)]).sdp] \in Items
          BY <4>1 DEF ClientCommand, Sdps, Items
        <4> QED BY <1>3, <3>1, <4>2, EndsOfClients DEF ClientListener
      <3>2. CASE Head(toClient[Cb(c)]).cmd # "INVITE"
        BY <1>3, <3>2 DEF ClientListener
      <3> QED BY <3>1, <3>2
    <2>3. toClient' \in [Ends -> Seq(ServerMessage)]
      BY <1>3, <2>1 DEF ClientListener
    <2>4. peer' \in [Ends -> {"none", "open", "closed", "reset"}]
      BY <1>3 DEF ClientListener
    <2> QED BY <1>3, <1>9, <2>2, <2>3, <2>4 DEF ClientListener, ClientFrame, procVars, clientVars
  <1>4. CASE ListenerEnds(c)
    <2>1. peer' \in [Ends -> {"none", "open", "closed", "reset"}]
      BY <1>4, EndsOfClients DEF ListenerEnds, Closed
    <2>0. <<>> \in Seq(ServerMessage)
      OBVIOUS
    <2>2. toClient' \in [Ends -> Seq(ServerMessage)]
      BY <1>4, <2>0 DEF ListenerEnds
    <2> QED BY <1>4, <1>9, <2>1, <2>2 DEF ListenerEnds, ClientFrame, procVars, clientVars
  <1>5. CASE ClientLeaves(c)
    BY <1>5, <1>9 DEF ClientLeaves, ClientFrame, procVars, Closed
  <1> QED BY <1>1, <1>2, <1>3, <1>4, <1>5

\* A step of a handler keeps the types, if it keeps those of the variables that
\* handlers change.
LEMMA HandlerTypeFrame ==
    ASSUME TypeOK, HandlerFrame, NEW t \in Threads,
           NEW to \in HandlerPcs, UNCHANGED pc \/ Goto(t, to),
           NEW STATE x, UNCHANGED h \/ (x \in Locals /\ h' = [h EXCEPT ![t] = x]),
           DirTypeOK', lost' \in BOOLEAN,
           proc' \in {"up", "exited", "sigpipe", "sigsegv"},
           fdTable' \in [Fds -> Ends \cup {NoFile, Reserved, Unconnected}],
           toServer' \in [Ends -> Seq(Items)],
           toClient' \in [Ends -> Seq(ServerMessage)],
           peer' \in [Ends -> {"none", "open", "closed", "reset"}]
    PROVE  TypeOK'
  BY DEF TypeOK, HandlerFrame, Goto, clientVars

\* A thread inside recv() sleeps on a connection.
RecvOnEnd == \A t \in Threads : pc[t] \in {"recv", "await"} => h[t].file \in Ends

\* What the handlers send are messages.
LEMMA SentType ==
    ASSUME TypeOK, NEW t \in Threads
    PROVE  /\ [cmd |-> "HELLO"] \in ServerMessage
           /\ [cmd |-> "EXIT"] \in ServerMessage
           /\ [cmd |-> "reply", to |-> "EXIT"] \in ServerMessage
           /\ \A l \in {"signup", "login", "logout"} :
                [cmd |-> "reply", to |-> ReplyTo(l)] \in ServerMessage
           /\ InviteMsg(t) \in ServerMessage
           /\ [cmd |-> "ACCEPT", sdp |-> h[t].sdp, re |-> h[t].re] \in ServerMessage
  BY DEF TypeOK, Locals, ServerMessage, ReplyTo, InviteMsg

\* The branches on a command change the handler's locals and call the store.
LEMMA DispatchType ==
    ASSUME TypeOK, NEW t \in Threads, NEW m \in ClientCommand, NEW STATE x, x \in Locals,
           Dispatch(t, m, x)
    PROVE  /\ DirTypeOK'
           /\ \E y \in Locals : h' = [h EXCEPT ![t] = y]
           /\ \E to \in HandlerPcs : Goto(t, to)
  <1>1. CASE m.cmd = "CLIENT"
    <2>1. [x EXCEPT !.address = m.from] \in Locals
      BY <1>1, CommandParts, LocalsType
    <2>2. h' = [h EXCEPT ![t] = [x EXCEPT !.address = m.from]] /\ UNCHANGED dirVars /\ Goto(t, "socket")
      BY <1>1 DEF Dispatch
    <2> QED BY <2>1, <2>2, DirStepType DEF TypeOK, HandlerPcs
  <1>2. CASE m.cmd \in {"EXIT", "ACCEPT", "nothing"}
    <2>1. h' = [h EXCEPT ![t] = x] /\ UNCHANGED dirVars /\ (Goto(t, "exit") \/ Goto(t, "loop"))
      BY <1>2 DEF Dispatch
    <2> QED BY <2>1, DirStepType DEF TypeOK, HandlerPcs
  <1>3. CASE m.cmd = "SIGNUP"
    <2>1. [x EXCEPT !.username = m.name] \in Locals
      BY <1>3, CommandParts, LocalsType
    <2>2. [kind |-> "addUser", name |-> m.name, password |-> m.password,
           socket_fd |-> x.client_socket_fd] \in Calls
      BY <1>3, CommandParts, FdAssumption DEF Locals, Calls, AddUserCalls
    <2>3. /\ h' = [h EXCEPT ![t] = [x EXCEPT !.username = m.name]]
          /\ Goto(t, "signup")
          /\ DirCall(t, [kind |-> "addUser", name |-> m.name, password |-> m.password,
                         socket_fd |-> x.client_socket_fd])
      BY <1>3 DEF Dispatch
    <2> QED BY <2>1, <2>2, <2>3, DirStepType DEF TypeOK, HandlerPcs
  <1>4. CASE m.cmd = "LOGIN"
    <2>1. [x EXCEPT !.username = m.name] \in Locals
      BY <1>4, CommandParts, LocalsType
    <2>2. [kind |-> "loginUser", name |-> m.name, password |-> m.password] \in Calls
      BY <1>4, CommandParts DEF Calls, LoginUserCalls
    <2>3. /\ h' = [h EXCEPT ![t] = [x EXCEPT !.username = m.name]]
          /\ Goto(t, "login")
          /\ DirCall(t, [kind |-> "loginUser", name |-> m.name, password |-> m.password])
      BY <1>4 DEF Dispatch
    <2> QED BY <2>1, <2>2, <2>3, DirStepType DEF TypeOK, HandlerPcs
  <1>5. CASE m.cmd = "LOGOUT"
    <2>1. [kind |-> "logOutUser", name |-> x.username] \in Calls
      BY DEF Locals, Calls, NameCalls
    <2>2. /\ h' = [h EXCEPT ![t] = x]
          /\ Goto(t, "logout")
          /\ DirCall(t, [kind |-> "logOutUser", name |-> x.username])
      BY <1>5 DEF Dispatch
    <2> QED BY <2>1, <2>2, DirStepType DEF TypeOK, HandlerPcs
  <1>6. CASE m.cmd = "CALL"
    <2>1. [x EXCEPT !.receiver_username = m.name, !.sdp = m.sdp] \in Locals
      BY <1>6, CommandParts, LocalsType
    <2>2. [kind |-> "isLogin", name |-> m.name] \in Calls
      BY <1>6, CommandParts DEF Calls, NameCalls
    <2>3. /\ h' = [h EXCEPT ![t] = [x EXCEPT !.receiver_username = m.name, !.sdp = m.sdp]]
          /\ Goto(t, "isLogin")
          /\ DirCall(t, [kind |-> "isLogin", name |-> m.name])
      BY <1>6 DEF Dispatch
    <2> QED BY <2>1, <2>2, <2>3, DirStepType DEF TypeOK, HandlerPcs
  <1> QED BY <1>1, <1>2, <1>3, <1>4, <1>5, <1>6 DEF Dispatch

\* The handlers keep the types.
LEMMA HandlerType ==
    ASSUME TypeOK, RecvOnEnd, NEW t \in Threads, Handler(t)
    PROVE  TypeOK'
  <1> DEFINE NetType == /\ toServer' \in [Ends -> Seq(Items)]
                        /\ toClient' \in [Ends -> Seq(ServerMessage)]
                        /\ peer' \in [Ends -> {"none", "open", "closed", "reset"}]
             ProcType == proc' \in {"up", "exited", "sigpipe", "sigsegv"}
             FdType == fdTable' \in [Fds -> Ends \cup {NoFile, Reserved, Unconnected}]
  <1>1. h[t] \in Locals /\ NoFile \in Ends \cup {NoFile}
    BY DEF TypeOK
  <1>2. /\ UNCHANGED netVars => NetType
        /\ UNCHANGED proc => ProcType
        /\ UNCHANGED fdTable => FdType
        /\ UNCHANGED lost => lost' \in BOOLEAN
        /\ (UNCHANGED dirVars \/ DirReturn(t)) => DirTypeOK'
    BY DirStepType DEF TypeOK, netVars
  <1>3. ASSUME NEW STATE f, NEW STATE m, m \in ServerMessage, Send(f, m), UNCHANGED toServer
        PROVE  NetType /\ ProcType
    BY <1>3, SendType DEF TypeOK
  <1>4. ASSUME NEW from, EndCall(t, from), NetType, ProcType, FdType, DirTypeOK', UNCHANGED lost
        PROVE  TypeOK'
    BY <1>1, <1>2, <1>4, EndCallType, HandlerTypeFrame DEF EndCall, Step, HandlerPcs
  <1>5. CASE Loop(t) /\ UNCHANGED lost
    <2>1. File(h[t].client_socket) \in Ends => [h[t] EXCEPT !.file = File(h[t].client_socket)] \in Locals
      BY <1>1, LocalsType
    <2> QED BY <1>2, <1>5, <2>1, HandlerTypeFrame DEF Loop, Step, HandlerPcs
  <1>6. CASE RecvEnd(t) /\ UNCHANGED lost
    BY <1>1, <1>2, <1>6, LocalsType, HandlerTypeFrame DEF RecvEnd, Step, HandlerPcs
  <1>7. CASE Recv(t) /\ UNCHANGED lost
    <2>1. h[t].file \in Ends /\ toServer[h[t].file] \in Seq(Items)
      BY <1>7 DEF TypeOK, Recv, HandlerAt, RecvOnEnd
    <2>2. PICK r \in Reads(toServer[h[t].file]) :
            /\ toServer' = [toServer EXCEPT ![h[t].file] = r.left]
            /\ \/ Dispatch(t, r.msg, [h[t] EXCEPT !.file = NoFile]) /\ UNCHANGED proc
               \/ proc' = "sigsegv" /\ UNCHANGED <<dirVars, pc, h>>
               \/ /\ h' = [h EXCEPT ![t] = [h[t] EXCEPT !.file = NoFile]]
                  /\ Goto(t, "close")
                  /\ UNCHANGED <<dirVars, proc>>
      BY <1>7 DEF Recv
    <2>3. r.msg \in ClientCommand /\ r.left \in Seq(Items)
      BY <1>7, <2>1, ReadsShape DEF Recv
    <2>4. NetType /\ FdType /\ HandlerFrame
      BY <1>7, <2>2, <2>3 DEF Recv, TypeOK
    <2>5. [h[t] EXCEPT !.file = NoFile] \in Locals
      BY <1>1, LocalsType
    <2>6. CASE Dispatch(t, r.msg, [h[t] EXCEPT !.file = NoFile]) /\ UNCHANGED proc
      <3>1. /\ DirTypeOK'
            /\ \E y \in Locals : h' = [h EXCEPT ![t] = y]
            /\ \E to \in HandlerPcs : Goto(t, to)
        BY <2>3, <2>5, <2>6, DispatchType
      <3> QED BY <1>2, <1>7, <2>4, <2>6, <3>1, HandlerTypeFrame
    <2>7. CASE proc' = "sigsegv" /\ UNCHANGED <<dirVars, pc, h>>
      BY <1>2, <1>7, <2>4, <2>7, HandlerTypeFrame DEF HandlerPcs
    <2>8. CASE /\ h' = [h EXCEPT ![t] = [h[t] EXCEPT !.file = NoFile]]
               /\ Goto(t, "close")
               /\ UNCHANGED <<dirVars, proc>>
      BY <1>2, <1>7, <2>4, <2>5, <2>8, HandlerTypeFrame DEF HandlerPcs
    <2> QED BY <2>2, <2>6, <2>7, <2>8
  <1>8. CASE Socket(t) /\ UNCHANGED lost
    <2>1. FdType
      BY <1>8 DEF Socket, TypeOK
    <2>2. \E f \in Fds \cup {NoFd} : h' = [h EXCEPT ![t] = [h[t] EXCEPT !.client_socket_fd = f]]
      BY <1>8 DEF Socket
    <2>3. PICK f \in Fds \cup {NoFd} : h' = [h EXCEPT ![t] = [h[t] EXCEPT !.client_socket_fd = f]]
      BY <2>2
    <2>4. [h[t] EXCEPT !.client_socket_fd = f] \in Locals
      BY <1>1, LocalsType
    <2>5. HandlerFrame /\ UNCHANGED <<dirVars, proc, netVars>>
      BY <1>8 DEF Socket, Step
    <2>6. \E to \in HandlerPcs : Goto(t, to)
      BY <1>8 DEF Socket, Step, HandlerPcs
    <2> QED BY <1>2, <1>8, <2>1, <2>3, <2>4, <2>5, <2>6, HandlerTypeFrame
  <1>9. CASE Connect(t) /\ UNCHANGED lost
    <2>1. h[t].address \in Clients => Cb(h[t].address) \in Ends
      BY EndsOfClients
    <2>2. NetType /\ FdType
      BY <1>9, <2>1 DEF Connect, TypeOK
    <2> QED BY <1>2, <1>9, <2>2, HandlerTypeFrame DEF Connect, Step, HandlerPcs
  <1>10. CASE Hello(t) /\ UNCHANGED lost
    <2>1. NetType /\ ProcType
      BY <1>3, <1>10, SentType DEF Hello
    <2> QED BY <1>2, <1>10, <2>1, HandlerTypeFrame DEF Hello, Step, HandlerPcs
  <1>11. CASE Reply(t) /\ UNCHANGED lost
    <2>1. NetType /\ ProcType
      BY <1>3, <1>11, SentType DEF Reply
    <2> QED BY <1>2, <1>11, <2>1, HandlerTypeFrame DEF Reply, Step, HandlerPcs
  <1>12. CASE NotLoggedIn(t) /\ UNCHANGED lost
    BY <1>2, <1>4, <1>12 DEF NotLoggedIn
  <1>13. CASE LoggedIn(t) /\ UNCHANGED lost
    <2>1. [kind |-> "hasUser", name |-> h[t].receiver_username] \in Calls
      BY <1>1 DEF Locals, Calls, NameCalls
    <2>2. DirTypeOK'
      BY <1>13, <2>1, DirStepType DEF LoggedIn, TypeOK
    <2> QED BY <1>2, <1>13, <2>2, HandlerTypeFrame DEF LoggedIn, Step, HandlerPcs
  <1>14. CASE KnownUser(t) /\ UNCHANGED lost
    <2>1. [kind |-> "getUser", name |-> h[t].receiver_username] \in Calls
      BY <1>1 DEF Locals, Calls, NameCalls
    <2>2. DirTypeOK'
      BY <1>2, <1>14, <2>1, DirStepType DEF KnownUser, TypeOK
    <2>3. CASE EndCall(t, "hasUser")
      BY <1>2, <1>4, <1>14, <2>2, <2>3 DEF KnownUser
    <2>4. CASE Step(t, "hasUser", "getUser") /\ UNCHANGED h
      BY <1>2, <1>14, <2>2, <2>4, HandlerTypeFrame DEF KnownUser, Step, HandlerPcs
    <2> QED BY <1>14, <2>3, <2>4 DEF KnownUser
  <1>15. CASE GotUser(t)
    <2>1. DirTypeOK' /\ NetType /\ ProcType /\ FdType
      BY <1>2, <1>15 DEF GotUser
    <2>2. CASE EndCall(t, "getUser") /\ UNCHANGED lost
      BY <1>4, <2>1, <2>2
    <2>3. CASE /\ answer[t].user # NoUser
               /\ Step(t, "getUser", "invite")
               /\ \E f \in FdRead(answer[t].user.socket_fd) : h' = [h EXCEPT ![t].receiver_fd = f]
               /\ lost' = (lost \/ answer[t].user.socket_fd = Uninit)
      <3>1. FdRead(answer[t].user.socket_fd) \subseteq Fds \cup {NoFd}
        <4>1. answer[t].user.socket_fd \in SocketFds \cup {Uninit}
          BY <2>3 DEF TypeOK, DirTypeOK, Answers, User
        <4> QED BY <4>1, FdAssumption DEF FdRead
      <3>2. PICK f \in Fds \cup {NoFd} : h' = [h EXCEPT ![t].receiver_fd = f]
        BY <2>3, <3>1
      <3>3. lost' \in BOOLEAN
        BY <2>3
      <3> QED BY <1>1, <2>1, <2>3, <3>2, <3>3, LocalsType, HandlerTypeFrame DEF Step, HandlerPcs
    <2> QED BY <1>15, <2>2, <2>3 DEF GotUser
  <1>16. CASE SendInvite(t) /\ UNCHANGED lost
    <2>1. NetType /\ ProcType
      BY <1>3, <1>16, SentType DEF SendInvite
    <2> QED BY <1>2, <1>16, <2>1, HandlerTypeFrame DEF SendInvite, Step, HandlerPcs
  <1>17. CASE WaitAnswer(t) /\ UNCHANGED lost
    <2>1. CASE EndCall(t, "answer")
      BY <1>2, <1>4, <1>17, <2>1 DEF WaitAnswer
    <2>2. CASE /\ Step(t, "answer", "await")
               /\ File(h[t].receiver_fd) \in Ends
               /\ h' = [h EXCEPT ![t].file = File(h[t].receiver_fd)]
      <3>1. [h[t] EXCEPT !.file = File(h[t].receiver_fd)] \in Locals
        BY <1>1, <2>2, LocalsType
      <3> QED BY <1>2, <1>17, <2>2, <3>1, HandlerTypeFrame DEF WaitAnswer, Step, HandlerPcs
    <2> QED BY <1>17, <2>1, <2>2 DEF WaitAnswer
  <1>18. CASE NoReply(t) /\ UNCHANGED lost
    BY <1>2, <1>4, <1>18 DEF NoReply
  <1>19. CASE GetAnswer(t) /\ UNCHANGED lost
    <2>1. h[t].file \in Ends /\ toServer[h[t].file] \in Seq(Items)
      BY <1>19 DEF TypeOK, GetAnswer, HandlerAt, RecvOnEnd
    <2>2. PICK r \in Reads(toServer[h[t].file]) :
            /\ toServer' = [toServer EXCEPT ![h[t].file] = r.left]
            /\ \/ /\ Step(t, "await", "forward")
                  /\ r.msg.cmd = "ACCEPT"
                  /\ h' = [h EXCEPT ![t] = [h[t] EXCEPT !.file = NoFile, !.sdp = r.msg.sdp,
                                                         !.re = r.msg.re]]
               \/ EndCall(t, "await")
      BY <1>19 DEF GetAnswer
    <2>3. r.msg \in ClientCommand /\ r.left \in Seq(Items)
      BY <1>19, <2>1, ReadsShape DEF GetAnswer
    <2>4. NetType /\ FdType /\ ProcType /\ DirTypeOK'
      BY <1>2, <1>19, <2>2, <2>3 DEF GetAnswer, TypeOK
    <2>5. r.msg.cmd = "ACCEPT" =>
            [h[t] EXCEPT !.file = NoFile, !.sdp = r.msg.sdp, !.re = r.msg.re] \in Locals
      BY <1>1, <2>3, LocalsType, CommandParts
    <2>6. CASE EndCall(t, "await")
      BY <1>4, <1>19, <2>4, <2>6
    <2>7. CASE /\ Step(t, "await", "forward")
               /\ r.msg.cmd = "ACCEPT"
               /\ h' = [h EXCEPT ![t] = [h[t] EXCEPT !.file = NoFile, !.sdp = r.msg.sdp,
                                                      !.re = r.msg.re]]
      BY <1>2, <1>19, <2>4, <2>5, <2>7, HandlerTypeFrame DEF Step, HandlerPcs
    <2> QED BY <2>2, <2>6, <2>7
  <1>20. CASE Forward(t) /\ UNCHANGED lost
    <2>1. NetType /\ ProcType
      BY <1>3, <1>20, SentType DEF Forward
    <2> QED BY <1>2, <1>4, <1>20, <2>1 DEF Forward
  <1>21. CASE Exit(t) /\ UNCHANGED lost
    <2>1. NetType /\ ProcType
      BY <1>3, <1>21, SentType DEF Exit
    <2> QED BY <1>2, <1>21, <2>1, HandlerTypeFrame DEF Exit, Step, HandlerPcs
  <1>22. CASE ExitCb(t) /\ UNCHANGED lost
    <2>1. NetType /\ ProcType
      BY <1>3, <1>22, SentType DEF ExitCb
    <2> QED BY <1>2, <1>22, <2>1, HandlerTypeFrame DEF ExitCb, Step, HandlerPcs
  <1>23. CASE Close(t) /\ UNCHANGED lost
    <2>1. FdType
      BY <1>23, CloseType DEF Close
    <2> QED BY <1>2, <1>23, <2>1, HandlerTypeFrame DEF Close, Step, HandlerPcs
  <1>24. CASE CloseAgain(t)
    <2>1. FdType
      BY <1>24, CloseType DEF CloseAgain
    <2>2. lost' \in BOOLEAN
      BY <1>24 DEF CloseAgain
    <2> QED BY <1>2, <1>24, <2>1, <2>2, HandlerTypeFrame DEF CloseAgain, Step, HandlerPcs
  <1> QED BY <1>5, <1>6, <1>7, <1>8, <1>9, <1>10, <1>11, <1>12, <1>13, <1>14, <1>15, <1>16,
             <1>17, <1>18, <1>19, <1>20, <1>21, <1>22, <1>23, <1>24 DEF Handler, OwnStep

-----------------------------------------------------------------------------

\* A handler's step changes nothing of another handler, and leaves the client's
\* socket and, but for the steps that set them, its other descriptors alone.
LEMMA HandlerLocals ==
    ASSUME TypeOK, RecvOnEnd, NEW t \in Threads, Handler(t)
    PROVE  /\ HandlerFrame /\ Up
           /\ \A u \in Threads \ {t} : h'[u] = h[u] /\ pc'[u] = pc[u]
           /\ h'[t].client_socket = h[t].client_socket
           /\ pc[t] # "socket" => h'[t].client_socket_fd = h[t].client_socket_fd
           /\ pc[t] # "recv" => h'[t].address = h[t].address
           /\ pc'[t] \in {"recv", "await"} => h'[t].file \in Ends
  <1>0. /\ DOMAIN h = Threads /\ DOMAIN pc = Threads
        /\ h = [u \in Threads |-> h[u]] /\ pc = [u \in Threads |-> pc[u]]
        /\ DOMAIN h[t] = {"client_socket", "client_socket_fd", "address", "username",
                          "receiver_username", "receiver_fd", "sdp", "re", "file"}
    BY DEF TypeOK, Locals
  <1>1. ASSUME NEW from, EndCall(t, from)
        PROVE  /\ HandlerFrame /\ Up
               /\ \A u \in Threads \ {t} : h'[u] = h[u] /\ pc'[u] = pc[u]
               /\ h'[t].client_socket = h[t].client_socket
               /\ h'[t].client_socket_fd = h[t].client_socket_fd
               /\ h'[t].address = h[t].address
               /\ pc'[t] = "loop"
    BY <1>0, <1>1 DEF EndCall, Step, NewHandler, Goto, HandlerAt
  <1>2. ASSUME NEW from, NEW to, Step(t, from, to), UNCHANGED h, to \notin {"recv", "await"}
        PROVE  /\ HandlerFrame /\ Up
               /\ \A u \in Threads \ {t} : h'[u] = h[u] /\ pc'[u] = pc[u]
               /\ h'[t] = h[t]
               /\ pc'[t] = to
    BY <1>0, <1>2 DEF Step, Goto, HandlerAt
  <1>5. CASE Loop(t)
    <2>1. CASE Step(t, "loop", "close") /\ UNCHANGED h
      BY <2>1, <1>2
    <2>2. CASE /\ Step(t, "loop", "recv") /\ File(h[t].client_socket) \in Ends
               /\ h' = [h EXCEPT ![t].file = File(h[t].client_socket)]
      BY <1>0, <2>2 DEF Step, Goto, HandlerAt
    <2> QED BY <1>5, <2>1, <2>2 DEF Loop
  <1>6. CASE RecvEnd(t)
    BY <1>0, <1>6 DEF RecvEnd, Step, Goto, HandlerAt
  <1>7. CASE Recv(t)
    <2>1. PICK m : \/ Dispatch(t, m, [h[t] EXCEPT !.file = NoFile])
                   \/ UNCHANGED <<pc, h>>
                   \/ /\ h' = [h EXCEPT ![t].file = NoFile]
                      /\ Goto(t, "close")
      BY <1>7 DEF Recv
    <2>2. HandlerFrame /\ Up /\ pc[t] = "recv"
      BY <1>7 DEF Recv, HandlerAt
    <2>3. CASE Dispatch(t, m, [h[t] EXCEPT !.file = NoFile])
      <3> DEFINE x == [h[t] EXCEPT !.file = NoFile]
      <3>1. /\ x.client_socket = h[t].client_socket
            /\ x.client_socket_fd = h[t].client_socket_fd
            /\ DOMAIN x = DOMAIN h[t]
            /\ x = [k \in DOMAIN x |-> x[k]]
        BY <1>0
      <3>2. Dispatch(t, m, x)
        BY <2>3
      <3> HIDE DEF x
      <3>3. \E to \in HandlerPcs \ {"recv", "await"} : Goto(t, to)
        BY <3>2 DEF Dispatch, HandlerPcs
      <3>4. \E y : /\ h' = [h EXCEPT ![t] = y]
                   /\ y.client_socket = x.client_socket
                   /\ y.client_socket_fd = x.client_socket_fd
        <4>1. \/ h' = [h EXCEPT ![t] = x]
              \/ h' = [h EXCEPT ![t] = [x EXCEPT !.address = m.from]]
              \/ h' = [h EXCEPT ![t] = [x EXCEPT !.username = m.name]]
              \/ h' = [h EXCEPT ![t] = [x EXCEPT !.receiver_username = m.name, !.sdp = m.sdp]]
          BY <3>2 DEF Dispatch
        <4>2. /\ [x EXCEPT !.address = m.from].client_socket = x.client_socket
              /\ [x EXCEPT !.address = m.from].client_socket_fd = x.client_socket_fd
              /\ [x EXCEPT !.username = m.name].client_socket = x.client_socket
              /\ [x EXCEPT !.username = m.name].client_socket_fd = x.client_socket_fd
          BY <1>0, <3>1
        <4>3. /\ [x EXCEPT !.receiver_username = m.name, !.sdp = m.sdp].client_socket = x.client_socket
              /\ [x EXCEPT !.receiver_username = m.name, !.sdp = m.sdp].client_socket_fd = x.client_socket_fd
          BY <1>0, <3>1
        <4> QED BY <4>1, <4>2, <4>3
      <3> QED BY <1>0, <2>2, <3>1, <3>3, <3>4 DEF Goto
    <2>4. CASE UNCHANGED <<pc, h>>
      BY <2>2, <2>4, <1>7 DEF RecvOnEnd
    <2>5. CASE h' = [h EXCEPT ![t].file = NoFile] /\ Goto(t, "close")
      BY <1>0, <2>2, <2>5 DEF Goto
    <2> QED BY <2>1, <2>3, <2>4, <2>5
  <1>8. CASE Socket(t)
    BY <1>0, <1>8 DEF Socket, Step, Goto, HandlerAt
  <1>9. CASE Connect(t)
    BY <1>2, <1>9 DEF Connect
  <1>10. CASE Hello(t)
    BY <1>2, <1>10 DEF Hello
  <1>11. CASE Reply(t)
    BY <1>2, <1>11 DEF Reply
  <1>12. CASE NotLoggedIn(t)
    BY <1>1, <1>12 DEF NotLoggedIn
  <1>13. CASE LoggedIn(t)
    BY <1>2, <1>13 DEF LoggedIn
  <1>14. CASE KnownUser(t)
    BY <1>1, <1>2, <1>14 DEF KnownUser
  <1>15. CASE GotUser(t)
    <2>1. CASE EndCall(t, "getUser")
      BY <1>1, <2>1
    <2>2. CASE Step(t, "getUser", "invite") /\ \E f : h' = [h EXCEPT ![t].receiver_fd = f]
      BY <1>0, <2>2 DEF Step, Goto, HandlerAt
    <2> QED BY <1>15, <2>1, <2>2 DEF GotUser
  <1>16. CASE SendInvite(t)
    BY <1>2, <1>16 DEF SendInvite
  <1>17. CASE WaitAnswer(t)
    <2>1. CASE EndCall(t, "answer")
      BY <1>1, <2>1
    <2>2. CASE /\ Step(t, "answer", "await") /\ File(h[t].receiver_fd) \in Ends
               /\ h' = [h EXCEPT ![t].file = File(h[t].receiver_fd)]
      BY <1>0, <2>2 DEF Step, Goto, HandlerAt
    <2> QED BY <1>17, <2>1, <2>2 DEF WaitAnswer
  <1>18. CASE NoReply(t)
    BY <1>1, <1>18 DEF NoReply
  <1>19. CASE GetAnswer(t)
    <2>1. CASE EndCall(t, "await")
      BY <1>1, <2>1
    <2>2. CASE /\ Step(t, "await", "forward")
               /\ \E a, b : h' = [h EXCEPT ![t] = [h[t] EXCEPT !.file = NoFile, !.sdp = a, !.re = b]]
      <3>1. PICK a, b : h' = [h EXCEPT ![t] = [h[t] EXCEPT !.file = NoFile, !.sdp = a, !.re = b]]
        BY <2>2
      <3> DEFINE y == [h[t] EXCEPT !.file = NoFile, !.sdp = a, !.re = b]
      <3>2. /\ y.client_socket = h[t].client_socket
            /\ y.client_socket_fd = h[t].client_socket_fd
            /\ y.address = h[t].address
        BY <1>0
      <3>3. h' = [h EXCEPT ![t] = y]
        BY <3>1
      <3> HIDE DEF y
      <3> QED BY <1>0, <2>2, <3>2, <3>3 DEF Step, Goto, HandlerAt
    <2> QED BY <1>19, <2>1, <2>2 DEF GetAnswer
  <1>20. CASE Forward(t)
    BY <1>1, <1>20 DEF Forward
  <1>21. CASE Exit(t)
    BY <1>2, <1>21 DEF Exit
  <1>22. CASE ExitCb(t)
    BY <1>2, <1>22 DEF ExitCb
  <1>23. CASE Close(t)
    BY <1>2, <1>23 DEF Close
  <1>24. CASE CloseAgain(t)
    BY <1>2, <1>24 DEF CloseAgain
  <1> QED BY <1>5, <1>6, <1>7, <1>8, <1>9, <1>10, <1>11, <1>12, <1>13, <1>14, <1>15, <1>16,
             <1>17, <1>18, <1>19, <1>20, <1>21, <1>22, <1>23, <1>24 DEF Handler, OwnStep

\* The steps of the store, of main() and of the clients leave the handlers alone,
\* but for the one that main() starts.
LEMMA OthersKeepHandlers ==
    ASSUME TypeOK,
           \/ MainCheck \/ Accept \/ Sigint \/ MainJoin
           \/ \E t \in Threads : StoreStep(t)
           \/ StoreCorrupted \/ Environment
    PROVE  /\ Up /\ UNCHANGED lost
           /\ \/ UNCHANGED <<pc, h>>
              \/ /\ Accept /\ running /\ Head(backlog) \in Threads
                 /\ pc' = [pc EXCEPT ![Head(backlog)] = "loop"]
                 /\ h' = [h EXCEPT ![Head(backlog)] = NewHandler(Head(backlog), acceptFd)]
  <1>1. CASE MainCheck \/ Sigint \/ MainJoin
    BY <1>1 DEF MainCheck, Sigint, MainJoin
  <1>2. CASE Accept
    BY <1>2 DEF Accept, TypeOK, Clients
  <1>3. CASE StoreCorrupted \/ \E t \in Threads : StoreStep(t)
    BY <1>3 DEF StoreCorrupted, StoreStep
  <1>4. CASE Environment
    <2> PICK c \in Clients : \/ ClientConnects(c) \/ ClientSends(c)
                            \/ ClientListener(c) \/ ListenerEnds(c) \/ ClientLeaves(c)
      BY <1>4 DEF Environment
    <2>1. ClientFrame
      BY DEF ClientConnects, ClientSends, ClientListener, ListenerEnds, ClientLeaves
    <2> QED BY <2>1 DEF ClientFrame
  <1> QED BY <1>1, <1>2, <1>3, <1>4

\* The inductive invariant of the types.
Typed == TypeOK /\ RecvOnEnd

\* Every step keeps the types, and the threads in recv() on connections.
LEMMA TypedStep ==
    ASSUME Typed, [Next]_vars
    PROVE  Typed'
  <1> USE DEF Typed
  <1>1. CASE \E t \in Threads : Handler(t)
    <2> PICK t \in Threads : Handler(t)
      BY <1>1
    <2>1. TypeOK'
      BY HandlerType
    <2>2. RecvOnEnd'
      BY HandlerLocals DEF RecvOnEnd
    <2> QED BY <2>1, <2>2
  <1>2. CASE \/ MainCheck \/ Accept \/ Sigint \/ MainJoin
             \/ \E t \in Threads : StoreStep(t)
             \/ StoreCorrupted \/ Environment
    <2>1. CASE \/ StoreCorrupted \/ \E t \in Threads : StoreStep(t)
      <3>1. \E t \in Threads : Apply(t) \/ Appear(t) \/ Break
        <4>1. Break => \E t \in Threads : TRUE
          BY DEF Break
        <4> QED BY <2>1, <4>1 DEF StoreCorrupted, StoreStep
      <3>2. DirTypeOK'
        BY <3>1, DirStepType DEF TypeOK
      <3>3. UNCHANGED <<procVars, fdTable, pc, h, netVars, clientVars, lost>>
        BY <2>1 DEF StoreCorrupted, StoreStep
      <3> QED BY <3>2, <3>3 DEF TypeOK, RecvOnEnd, procVars, netVars, clientVars
    <2>2. TypeOK'
      BY <1>2, <2>1, MainType, EnvironmentType
    <2>3. RecvOnEnd'
      <3>1. CASE UNCHANGED <<pc, h>>
        BY <3>1 DEF RecvOnEnd
      <3>2. CASE /\ Head(backlog) \in Threads
                 /\ pc' = [pc EXCEPT ![Head(backlog)] = "loop"]
                 /\ h' = [h EXCEPT ![Head(backlog)] = NewHandler(Head(backlog), acceptFd)]
        BY <3>2 DEF RecvOnEnd, TypeOK
      <3> QED BY <1>2, <3>1, <3>2, OthersKeepHandlers
    <2> QED BY <2>2, <2>3
  <1>3. CASE UNCHANGED vars
    BY <1>3 DEF TypeOK, DirTypeOK, RecvOnEnd, vars, dirVars, procVars, netVars, clientVars
  <1> QED BY <1>1, <1>2, <1>3 DEF Next

\* The types hold at the start.
LEMMA TypedInit ==
    ASSUME Init
    PROVE  Typed
  <1>1. DirTypeOK
    BY DEF Init, DirInit, DirTypeOK, NoAnswer, Answers
  <1>2. h \in [Threads -> Locals]
    BY LocalsType DEF Init, Clients
  <1>3. todo \in [Clients -> Seq(MenuCommand)]
    BY ScriptAssumption DEF Init
  <1>4. toServer \in [Ends -> Seq(Items)] /\ toClient \in [Ends -> Seq(ServerMessage)]
    <2>1. <<>> \in Seq(Items) /\ <<>> \in Seq(ServerMessage)
      OBVIOUS
    <2> QED BY <2>1 DEF Init
  <1>5. backlog \in Seq(Clients)
    BY DEF Init
  <1> QED BY <1>1, <1>2, <1>3, <1>4, <1>5 DEF Init, Typed, TypeOK, RecvOnEnd, HandlerPcs, Commands

\* Every variable of the server keeps its type: the locals of client_handler()
\* and what travels on the sockets are what the code makes of what it received,
\* cut or not, for any clients, names, scripts and events (server.cpp:40-451).
THEOREM ServerTypeCorrect == Spec => []TypeOK
  <1>1. Init => Typed
    BY TypedInit
  <1>2. Typed /\ [Next]_vars => Typed'
    BY TypedStep
  <1>3. Typed => TypeOK
    BY DEF Typed
  <1> QED BY <1>1, <1>2, <1>3, PTL DEF Spec

-----------------------------------------------------------------------------
(***************************************************************************)
(* The user table and the calls under way.                                 *)
(***************************************************************************)

\* The effect of a call: no name ever leaves the table, a descriptor comes into
\* it with addUser() only, and the answer tells what the table held.
LEMMA ApplyEffect ==
    ASSUME DirTypeOK, NEW t \in Threads, Apply(t)
    PROVE  /\ UNCHANGED <<request, broken>> /\ ~broken
           /\ phase[t] = "pending" /\ phase'[t] = "done"
           /\ \A u \in Threads \ {t} : answer'[u] = answer[u] /\ phase'[u] = phase[u]
           /\ \A n \in Names : dir[n] # NoUser => dir'[n] # NoUser
           /\ \A n \in Names : dir'[n] # NoUser =>
                \/ /\ dir[n] # NoUser
                   /\ dir'[n].socket_fd = dir[n].socket_fd
                   /\ dir'[n].password = dir[n].password
                \/ /\ dir'[n].socket_fd = Uninit
                   /\ dir'[n].password = NoPassword
                \/ /\ request[t].kind = "addUser"
                   /\ dir'[n].socket_fd = request[t].socket_fd
                   /\ request[t].socket_fd \in SocketFds
           /\ request[t].kind \in {"isLogin", "hasUser"} /\ answer'[t].ok
                => dir[request[t].name] # NoUser
           /\ request[t].kind = "hasUser" /\ dir[request[t].name] # NoUser => answer'[t].ok
           /\ answer'[t].user # NoUser =>
                request[t].kind = "getUser" /\ answer'[t].user = dir[request[t].name]
           /\ request[t].kind = "getUser" => answer'[t].user = dir[request[t].name]
  <1>1. /\ DOMAIN dir = Names /\ DOMAIN phase = Threads /\ DOMAIN answer = Threads
        /\ \A n \in Names : dir[n] # NoUser => dir[n] \in User
    BY DEF DirTypeOK
  <1>2. /\ request[t].kind # "none"
        /\ request[t].name \in Names
        /\ request[t].kind = "addUser" => request[t].socket_fd \in SocketFds
                                           /\ request[t].password \in Passwords
    <2>1. request[t].kind # "none" =>
            /\ request[t].name \in Names
            /\ request[t].kind = "addUser" => request[t].socket_fd \in SocketFds
                                               /\ request[t].password \in Passwords
      BY DEF DirTypeOK, Calls, AddUserCalls, LoginUserCalls, NameCalls, NoCall
    <2> QED BY <2>1 DEF Apply
  <1>3. \A u \in User : u # NoUser
    BY NoUserAssumption
  <1> DEFINE r == request[t]
             n0 == request[t].name
  <1>4. ~broken /\ phase[t] = "pending" /\ n0 \in Names
    BY <1>2 DEF Apply
  <1>5. ASSUME NEW d, NEW a, Finish(t, d, a)
        PROVE  /\ dir' = d /\ answer'[t] = a
               /\ UNCHANGED <<request, broken>> /\ phase'[t] = "done"
               /\ \A u \in Threads \ {t} : answer'[u] = answer[u] /\ phase'[u] = phase[u]
    BY <1>1, <1>5 DEF Finish
  <1>6. CASE r.kind = "addUser" /\ Finish(t, [dir EXCEPT ![n0] = Registered(r)], NoAnswer)
    <2>1. Registered(r) \in User /\ Registered(r).socket_fd = r.socket_fd
      BY <1>2, <1>6 DEF Registered, User
    <2>2. /\ dir'[n0] = Registered(r) /\ \A n \in Names \ {n0} : dir'[n] = dir[n]
          /\ answer'[t] = NoAnswer
      <3>1. dir' = [dir EXCEPT ![n0] = Registered(r)]
        BY <1>5, <1>6
      <3> QED BY <1>1, <1>4, <1>5, <1>6, <3>1
    <2> HIDE DEF n0
    <2> QED BY <1>2, <1>3, <1>4, <1>5, <1>6, <2>1, <2>2 DEF NoAnswer
  <1>7. CASE /\ r.kind = "loginUser" /\ Authentic(n0, r.password)
             /\ Finish(t, [dir EXCEPT ![n0] = [dir[n0] EXCEPT !.islogin = TRUE]], Flag(TRUE))
    <2> DEFINE v == [dir[n0] EXCEPT !.islogin = TRUE]
    <2>1. /\ v \in User /\ v.socket_fd = dir[n0].socket_fd /\ v.password = dir[n0].password
          /\ dir[n0] # NoUser
      BY <1>1, <1>4, <1>7 DEF Authentic, User
    <2>2. /\ dir'[n0] = v /\ \A n \in Names \ {n0} : dir'[n] = dir[n]
          /\ answer'[t] = Flag(TRUE)
      <3>1. dir' = [dir EXCEPT ![n0] = v]
        BY <1>5, <1>7
      <3> QED BY <1>1, <1>4, <1>5, <1>7, <3>1
    <2> HIDE DEF n0, v
    <2> QED BY <1>3, <1>4, <1>5, <1>7, <2>1, <2>2 DEF Flag
  <1>8. CASE r.kind = "loginUser" /\ Finish(t, dir, Flag(FALSE))
    BY <1>4, <1>5, <1>8 DEF Flag
  <1>9. CASE /\ r.kind = "logOutUser"
             /\ Finish(t, [dir EXCEPT ![n0] = [Entry(dir, n0) EXCEPT !.islogin = FALSE]], NoAnswer)
    <2> DEFINE v == [Entry(dir, n0) EXCEPT !.islogin = FALSE]
    <2>1. /\ v \in User
          /\ dir[n0] # NoUser => v.socket_fd = dir[n0].socket_fd /\ v.password = dir[n0].password
          /\ dir[n0] = NoUser => v.socket_fd = Uninit /\ v.password = NoPassword
      BY <1>1, <1>4, PasswordAssumption DEF Entry, DefaultUser, User
    <2>2. /\ dir'[n0] = v /\ \A n \in Names \ {n0} : dir'[n] = dir[n]
          /\ answer'[t] = NoAnswer
      <3>1. dir' = [dir EXCEPT ![n0] = v]
        BY <1>5, <1>9
      <3> QED BY <1>1, <1>4, <1>5, <1>9, <3>1
    <2> HIDE DEF n0, v
    <2> QED BY <1>3, <1>4, <1>5, <1>9, <2>1, <2>2 DEF NoAnswer
  <1>10. CASE r.kind = "hasUser" /\ Finish(t, dir, Flag(dir[n0] # NoUser))
    <2> DEFINE b == dir[n0] # NoUser
    <2>1. dir' = dir /\ answer'[t] = Flag(b)
      BY <1>5, <1>10
    <2>2. answer'[t].user = NoUser /\ (answer'[t].ok <=> b)
      <3>1. b \in BOOLEAN
        OBVIOUS
      <3> HIDE DEF b
      <3> QED BY <2>1, <3>1 DEF Flag
    <2> QED BY <1>4, <1>5, <1>10, <2>1, <2>2
  <1>11. CASE r.kind = "isLogin" /\ dir[n0] = NoUser /\ Finish(t, dir, Flag(FALSE))
    <2>1. dir' = dir /\ answer'[t] = Flag(FALSE)
      BY <1>5, <1>11
    <2>2. answer'[t].user = NoUser /\ ~answer'[t].ok
      BY <2>1 DEF Flag
    <2> QED BY <1>4, <1>5, <1>11, <2>1, <2>2
  <1>13. CASE /\ r.kind = "isLogin" /\ dir[n0] # NoUser
              /\ \E b \in BoolRead(dir[n0].islogin) : Finish(t, dir, Flag(b))
    <2>1. PICK b : Finish(t, dir, Flag(b))
      BY <1>13
    <2>2. dir' = dir /\ answer'[t] = Flag(b)
      BY <1>5, <2>1
    <2>3. answer'[t].user = NoUser
      BY <2>2 DEF Flag
    <2> QED BY <1>4, <1>5, <1>13, <2>1, <2>2, <2>3
  <1>12. CASE r.kind = "getUser" /\ Finish(t, dir, [ok |-> dir[n0] # NoUser, user |-> dir[n0]])
    <2>1. dir' = dir /\ answer'[t] = [ok |-> dir[n0] # NoUser, user |-> dir[n0]]
      BY <1>5, <1>12
    <2>2. answer'[t].user = dir[n0]
      BY <2>1
    <2> QED BY <1>4, <1>5, <1>12, <2>1, <2>2
  <1> QED BY <1>6, <1>7, <1>8, <1>9, <1>10, <1>11, <1>12, <1>13 DEF Apply

\* What appears in the table has neither a password nor a descriptor.
LEMMA AppearEffect ==
    ASSUME DirTypeOK, NEW t \in Threads, Appear(t)
    PROVE  /\ UNCHANGED <<phase, request, answer, broken>> /\ ~broken
           /\ \A n \in Names : dir[n] # NoUser => dir'[n] = dir[n]
           /\ \A n \in Names : dir'[n] # NoUser =>
                dir'[n] = dir[n] \/ (dir'[n].socket_fd = Uninit /\ dir'[n].password = NoPassword)
  BY DEF Appear, DirTypeOK, DefaultUser

\* What a handler's step does to the store: nothing to the table, and to its own
\* call only.  A call that concerns the receiver is made for the name it was
\* given, hasUser() only after isLogin() said yes, getUser() only after hasUser().
LEMMA HandlerDir ==
    ASSUME Typed, NEW t \in Threads, Handler(t)
    PROVE  /\ UNCHANGED <<dir, broken>>
           /\ \A u \in Threads \ {t} : /\ request'[u] = request[u]
                                       /\ answer'[u] = answer[u]
                                       /\ phase'[u] = phase[u]
           /\ answer'[t] \in {answer[t], NoAnswer}
           /\ \/ request'[t] = request[t] /\ phase'[t] = phase[t]
              \/ request'[t] = NoCall /\ phase'[t] = "idle"
              \/ /\ phase'[t] = "pending"
                 /\ \/ request'[t].kind \in {"loginUser", "logOutUser", "hasUser", "isLogin", "getUser"}
                    \/ /\ request'[t].kind = "addUser"
                       /\ request'[t].socket_fd = h[t].client_socket_fd
                       /\ pc[t] = "recv" /\ pc'[t] = "signup"
           /\ pc'[t] \in {"isLogin", "hasUser", "getUser"} =>
                /\ request'[t] = [kind |-> pc'[t], name |-> h'[t].receiver_username]
                /\ phase'[t] = "pending" /\ answer'[t] = NoAnswer
           /\ pc'[t] = "hasUser" => /\ pc[t] = "isLogin" /\ phase[t] = "done" /\ answer[t].ok
                                    /\ h'[t].receiver_username = h[t].receiver_username
           /\ pc'[t] = "getUser" => /\ pc[t] = "hasUser"
                                    /\ h'[t].receiver_username = h[t].receiver_username
  <1>0. /\ DOMAIN h = Threads /\ DOMAIN pc = Threads
        /\ DOMAIN request = Threads /\ DOMAIN answer = Threads /\ DOMAIN phase = Threads
    BY DEF Typed, TypeOK, DirTypeOK
  <1>01. h[t] \in Locals
    BY DEF Typed, TypeOK
  <1>1. CASE UNCHANGED dirVars /\ pc'[t] \notin {"isLogin", "hasUser", "getUser"}
    BY <1>1 DEF dirVars
  <1>2. CASE DirReturn(t) /\ pc'[t] \notin {"isLogin", "hasUser", "getUser"}
    BY <1>0, <1>2 DEF DirReturn
  <1>3. ASSUME NEW r, DirCall(t, r)
        PROVE  /\ UNCHANGED <<dir, broken>>
               /\ \A u \in Threads \ {t} : /\ request'[u] = request[u]
                                           /\ answer'[u] = answer[u]
                                           /\ phase'[u] = phase[u]
               /\ request'[t] = r /\ phase'[t] = "pending" /\ answer'[t] = NoAnswer
    BY <1>0, <1>3 DEF DirCall
  <1>4. ASSUME NEW from, NEW to, Step(t, from, to)
        PROVE  pc[t] = from /\ pc'[t] = to
    BY <1>0, <1>4 DEF Step, HandlerAt, Goto
  <1>5. ASSUME NEW from, EndCall(t, from)
        PROVE  pc[t] = from /\ pc'[t] = "loop"
    BY <1>4, <1>5 DEF EndCall
  <1>6. CASE \/ Loop(t) \/ RecvEnd(t) \/ Socket(t) \/ Connect(t) \/ Hello(t) \/ SendInvite(t)
             \/ WaitAnswer(t) \/ NoReply(t) \/ Forward(t)
    BY <1>1, <1>4, <1>5, <1>6 DEF Loop, RecvEnd, Socket, Connect, Hello, SendInvite, WaitAnswer,
         NoReply, Forward
  <1>7. CASE GetAnswer(t) \/ Exit(t) \/ ExitCb(t) \/ Close(t) \/ CloseAgain(t)
    <2>1. Exit(t) => pc'[t] \in {"exitCb", "close"}
      BY <1>4 DEF Exit
    <2>2. Close(t) => pc'[t] \in {"done", "closeAgain"}
      BY <1>0 DEF Close, Step, Goto
    <2>3. GetAnswer(t) => pc'[t] \in {"forward", "loop"}
      BY <1>4, <1>5 DEF GetAnswer
    <2>4. ExitCb(t) \/ CloseAgain(t) => pc'[t] \in {"close", "done"}
      BY <1>4 DEF ExitCb, CloseAgain
    <2>5. UNCHANGED dirVars
      BY <1>7 DEF GetAnswer, Exit, ExitCb, Close, CloseAgain
    <2> QED BY <1>1, <1>7, <2>1, <2>2, <2>3, <2>4, <2>5
  <1>8. CASE Reply(t) \/ NotLoggedIn(t) \/ GotUser(t)
    BY <1>2, <1>4, <1>5, <1>8 DEF Reply, NotLoggedIn, GotUser
  <1>9. CASE LoggedIn(t)
    BY <1>3, <1>4, <1>9 DEF LoggedIn
  <1>10. CASE KnownUser(t)
    <2>1. CASE EndCall(t, "hasUser") /\ DirReturn(t)
      BY <1>2, <1>5, <2>1
    <2>2. CASE /\ Step(t, "hasUser", "getUser")
               /\ DirCall(t, [kind |-> "getUser", name |-> h[t].receiver_username])
               /\ UNCHANGED h
      BY <1>3, <1>4, <2>2
    <2> QED BY <1>10, <2>1, <2>2 DEF KnownUser
  <1>11. CASE Recv(t)
    <2>1. PICK m : \/ Dispatch(t, m, [h[t] EXCEPT !.file = NoFile])
                   \/ UNCHANGED <<dirVars, pc>>
                   \/ UNCHANGED dirVars /\ Goto(t, "close")
      BY <1>11 DEF Recv
    <2>2. pc[t] = "recv"
      BY <1>11 DEF Recv, HandlerAt
    <2>3. ASSUME NEW to, Goto(t, to)
          PROVE  pc'[t] = to
      BY <1>0, <2>3 DEF Goto
    <2>4. CASE Dispatch(t, m, [h[t] EXCEPT !.file = NoFile])
      <3> DEFINE x == [h[t] EXCEPT !.file = NoFile]
      <3>1. /\ x.client_socket_fd = h[t].client_socket_fd
            /\ x \in Locals
        BY <1>01, LocalsType DEF Locals
      <3>2. Dispatch(t, m, x)
        BY <2>4
      <3> HIDE DEF x
      <3>3. CASE Goto(t, "socket") /\ UNCHANGED dirVars
        BY <1>1, <2>3, <3>3
      <3>4. CASE (Goto(t, "exit") \/ Goto(t, "loop")) /\ UNCHANGED dirVars
        BY <1>1, <2>3, <3>4
      <3>5. CASE /\ Goto(t, "signup")
                 /\ DirCall(t, [kind |-> "addUser", name |-> m.name, password |-> m.password,
                                socket_fd |-> x.client_socket_fd])
        BY <1>3, <2>2, <2>3, <3>1, <3>5
      <3>6. CASE /\ Goto(t, "login")
                 /\ DirCall(t, [kind |-> "loginUser", name |-> m.name, password |-> m.password])
        BY <1>3, <2>3, <3>6
      <3>7. CASE /\ Goto(t, "logout")
                 /\ DirCall(t, [kind |-> "logOutUser", name |-> x.username])
        BY <1>3, <2>3, <3>7
      <3>8. CASE /\ Goto(t, "isLogin")
                 /\ h' = [h EXCEPT ![t] = [x EXCEPT !.receiver_username = m.name, !.sdp = m.sdp]]
                 /\ DirCall(t, [kind |-> "isLogin", name |-> m.name])
        <4>1. [x EXCEPT !.receiver_username = m.name, !.sdp = m.sdp].receiver_username = m.name
          BY <3>1 DEF Locals
        <4>2. h'[t].receiver_username = m.name
          BY <1>0, <3>8, <4>1
        <4> QED BY <1>3, <2>3, <3>8, <4>2
      <3> QED BY <3>2, <3>3, <3>4, <3>5, <3>6, <3>7, <3>8 DEF Dispatch
    <2>5. CASE UNCHANGED <<dirVars, pc>>
      BY <1>1, <2>2, <2>5
    <2>6. CASE UNCHANGED dirVars /\ Goto(t, "close")
      BY <1>1, <2>3, <2>6
    <2> QED BY <2>1, <2>4, <2>5, <2>6
  <1> QED BY <1>6, <1>7, <1>8, <1>9, <1>10, <1>11 DEF Handler, OwnStep

\* The call a handler in the CALL branch makes, and what its answer has shown.
ReceiverKnown ==
    \A t \in Threads : pc[t] \in {"isLogin", "hasUser", "getUser"} =>
        /\ request[t] = [kind |-> pc[t], name |-> h[t].receiver_username]
        /\ pc[t] = "isLogin" /\ phase[t] = "done" /\ answer[t].ok
              => dir[h[t].receiver_username] # NoUser
        /\ pc[t] # "isLogin" => dir[h[t].receiver_username] # NoUser
        /\ pc[t] = "hasUser" /\ phase[t] = "done" => answer[t].ok
        /\ pc[t] = "getUser" /\ phase[t] = "done" => answer[t].user # NoUser

\* Who signed up left a descriptor; only logOutUser() makes an entry without one,
\* and that has the empty password.
DescriptorAssigned ==
    \A n \in Names : dir[n] # NoUser /\ dir[n].password # NoPassword => dir[n].socket_fd \in SocketFds

\* Every step keeps what is known of the receiver.
LEMMA ReceiverKnownStep ==
    ASSUME Typed, ReceiverKnown, DescriptorAssigned, [Next]_vars
    PROVE  ReceiverKnown' /\ DescriptorAssigned'
  <1>0. /\ DirTypeOK /\ \A t \in Threads : h[t].receiver_username \in Names
        /\ \A u \in Threads : answer[u] \in Answers
    BY DEF Typed, TypeOK, DirTypeOK, Locals
  <1>1. CASE \E t \in Threads : Handler(t)
    <2> PICK t \in Threads : Handler(t)
      BY <1>1
    <2>1. \A u \in Threads \ {t} : h'[u] = h[u] /\ pc'[u] = pc[u]
      BY HandlerLocals DEF Typed
    <2>2. UNCHANGED dir
      BY HandlerDir
    <2>3. DescriptorAssigned'
      BY <2>2 DEF DescriptorAssigned
    <2>4. ASSUME NEW u \in Threads, u # t, pc'[u] \in {"isLogin", "hasUser", "getUser"}
          PROVE  /\ request'[u] = [kind |-> pc'[u], name |-> h'[u].receiver_username]
                 /\ pc'[u] = "isLogin" /\ phase'[u] = "done" /\ answer'[u].ok
                       => dir'[h'[u].receiver_username] # NoUser
                 /\ pc'[u] # "isLogin" => dir'[h'[u].receiver_username] # NoUser
                 /\ pc'[u] = "hasUser" /\ phase'[u] = "done" => answer'[u].ok
                 /\ pc'[u] = "getUser" /\ phase'[u] = "done" => answer'[u].user # NoUser
      <3>0. u \in Threads \ {t}
        BY <2>4
      <3>1. request'[u] = request[u] /\ answer'[u] = answer[u] /\ phase'[u] = phase[u]
        BY <3>0, HandlerDir
      <3>2. h'[u] = h[u] /\ pc'[u] = pc[u]
        BY <2>1, <3>0
      <3> QED BY <2>2, <2>4, <3>1, <3>2 DEF ReceiverKnown
    <2>5. ASSUME pc'[t] \in {"isLogin", "hasUser", "getUser"}
          PROVE  /\ request'[t] = [kind |-> pc'[t], name |-> h'[t].receiver_username]
                 /\ phase'[t] = "pending"
                 /\ pc'[t] # "isLogin" => dir'[h'[t].receiver_username] # NoUser
      <3>1. /\ request'[t] = [kind |-> pc'[t], name |-> h'[t].receiver_username]
            /\ phase'[t] = "pending"
        BY <2>5, HandlerDir
      <3>2. pc'[t] = "hasUser" => /\ pc[t] = "isLogin" /\ phase[t] = "done" /\ answer[t].ok
                                  /\ h'[t].receiver_username = h[t].receiver_username
        BY HandlerDir
      <3>3. pc'[t] = "getUser" => /\ pc[t] = "hasUser"
                                  /\ h'[t].receiver_username = h[t].receiver_username
        BY HandlerDir
      <3> QED BY <2>2, <2>5, <3>1, <3>2, <3>3 DEF ReceiverKnown
    <2>6. ReceiverKnown'
      BY <2>4, <2>5 DEF ReceiverKnown
    <2> QED BY <2>3, <2>6
  <1>4. CASE \E t \in Threads : Appear(t) /\ UNCHANGED <<pc, h>>
    <2> PICK t \in Threads : Appear(t) /\ UNCHANGED <<pc, h>>
      BY <1>4
    <2>1. /\ UNCHANGED <<phase, request, answer>>
          /\ \A n \in Names : dir[n] # NoUser => dir'[n] = dir[n]
          /\ \A n \in Names : dir'[n] # NoUser => dir'[n] = dir[n] \/ dir'[n].password = NoPassword
      BY <1>0, AppearEffect
    <2>2. DescriptorAssigned'
      BY <2>1 DEF DescriptorAssigned
    <2>3. ReceiverKnown'
      BY <1>0, <2>1 DEF ReceiverKnown
    <2> QED BY <2>2, <2>3
  <1>2. CASE \E t \in Threads : Apply(t) /\ UNCHANGED <<pc, h>>
    <2> PICK t \in Threads : Apply(t) /\ UNCHANGED <<pc, h>>
      BY <1>2
    <2>1. Apply(t) /\ UNCHANGED <<pc, h>>
      OBVIOUS
    <2>2. UNCHANGED request /\ phase[t] = "pending"
      BY <1>0, <2>1, ApplyEffect
    <2>3. DescriptorAssigned'
      BY <1>0, <2>1, ApplyEffect DEF DescriptorAssigned
    <2>4. \A n \in Names : dir[n] # NoUser => dir'[n] # NoUser
      BY <1>0, <2>1, ApplyEffect
    <2>5. ASSUME NEW u \in Threads, u # t, pc[u] \in {"isLogin", "hasUser", "getUser"}
          PROVE  /\ request'[u] = [kind |-> pc[u], name |-> h[u].receiver_username]
                 /\ pc[u] = "isLogin" /\ phase'[u] = "done" /\ answer'[u].ok
                       => dir'[h[u].receiver_username] # NoUser
                 /\ pc[u] # "isLogin" => dir'[h[u].receiver_username] # NoUser
                 /\ pc[u] = "hasUser" /\ phase'[u] = "done" => answer'[u].ok
                 /\ pc[u] = "getUser" /\ phase'[u] = "done" => answer'[u].user # NoUser
      <3>1. answer'[u] = answer[u] /\ phase'[u] = phase[u]
        BY <1>0, <2>1, <2>5, ApplyEffect
      <3> QED BY <1>0, <2>2, <2>4, <2>5, <3>1 DEF ReceiverKnown
    <2>6. ASSUME pc[t] \in {"isLogin", "hasUser", "getUser"}
          PROVE  /\ request'[t] = [kind |-> pc[t], name |-> h[t].receiver_username]
                 /\ pc[t] = "isLogin" /\ phase'[t] = "done" /\ answer'[t].ok
                       => dir'[h[t].receiver_username] # NoUser
                 /\ pc[t] # "isLogin" => dir'[h[t].receiver_username] # NoUser
                 /\ pc[t] = "hasUser" /\ phase'[t] = "done" => answer'[t].ok
                 /\ pc[t] = "getUser" /\ phase'[t] = "done" => answer'[t].user # NoUser
      <3>1. /\ request[t].kind = pc[t] /\ request[t].name = h[t].receiver_username
            /\ request[t] = [kind |-> pc[t], name |-> h[t].receiver_username]
            /\ pc[t] # "isLogin" => dir[h[t].receiver_username] # NoUser
        BY <2>6 DEF ReceiverKnown
      <3>2. /\ request[t].kind \in {"isLogin", "hasUser"} /\ answer'[t].ok
                 => dir[request[t].name] # NoUser
            /\ request[t].kind = "hasUser" /\ dir[request[t].name] # NoUser => answer'[t].ok
            /\ request[t].kind = "getUser" => answer'[t].user = dir[request[t].name]
        BY <1>0, <2>1, ApplyEffect
      <3> QED BY <1>0, <2>2, <2>4, <2>6, <3>1, <3>2
    <2>7. ReceiverKnown'
      BY <2>1, <2>5, <2>6 DEF ReceiverKnown
    <2> QED BY <2>3, <2>7
  <1>3. CASE \/ MainCheck \/ Accept \/ Sigint \/ MainJoin \/ Environment
             \/ StoreCorrupted \/ UNCHANGED vars
    <2>1. UNCHANGED <<dir, phase, request, answer>>
      <3>1. MainCheck \/ Accept \/ Sigint \/ MainJoin \/ UNCHANGED vars => UNCHANGED dirVars
        BY DEF MainCheck, Accept, Sigint, MainJoin, vars
      <3>2. StoreCorrupted => UNCHANGED <<dir, phase, request, answer>>
        BY DEF StoreCorrupted, Break
      <3>3. Environment => UNCHANGED dirVars
        BY DEF Environment, ClientConnects, ClientSends, ClientListener, ListenerEnds,
               ClientLeaves, ClientFrame
      <3> QED BY <1>3, <3>1, <3>2, <3>3 DEF dirVars
    <2>2. DescriptorAssigned'
      BY <2>1 DEF DescriptorAssigned
    <2>3. CASE UNCHANGED <<pc, h>>
      BY <2>1, <2>2, <2>3 DEF ReceiverKnown
    <2>4. CASE /\ Head(backlog) \in Threads
               /\ pc' = [pc EXCEPT ![Head(backlog)] = "loop"]
               /\ h' = [h EXCEPT ![Head(backlog)] = NewHandler(Head(backlog), acceptFd)]
      BY <2>1, <2>2, <2>4 DEF ReceiverKnown, Typed, TypeOK
    <2>5. UNCHANGED vars => UNCHANGED <<pc, h>>
      BY DEF vars
    <2> QED BY <1>3, <2>2, <2>3, <2>4, <2>5, OthersKeepHandlers DEF Typed
  <1> QED BY <1>1, <1>2, <1>3, <1>4 DEF Next, StoreStep

\* Whoever is called after the isLogin() check is in the user table for as long
\* as the call is looked up, whatever the other handlers do to the table between
\* the three separate UserStore calls of the CALL branch, and has a descriptor
\* unless the empty password let somebody in (server.cpp:168-179).
THEOREM CalleeRegistered == Spec => []CalleeIsRegistered
  <1>1. Init => Typed /\ ReceiverKnown /\ DescriptorAssigned
    <2>1. Init => ReceiverKnown /\ DescriptorAssigned
      BY DEF Init, DirInit, ReceiverKnown, DescriptorAssigned
    <2> QED BY <2>1, TypedInit
  <1>2. Typed /\ ReceiverKnown /\ DescriptorAssigned /\ [Next]_vars
            => (Typed /\ ReceiverKnown /\ DescriptorAssigned)'
    BY TypedStep, ReceiverKnownStep
  <1>3. Typed /\ ReceiverKnown /\ DescriptorAssigned => CalleeIsRegistered
    <2> SUFFICES ASSUME Typed, ReceiverKnown, DescriptorAssigned, NEW t \in Threads,
                        pc[t] \in {"hasUser", "getUser"}
                 PROVE  LET u == dir[h[t].receiver_username]
                        IN  u # NoUser /\ (u.password # NoPassword => u.socket_fd \in SocketFds)
      BY DEF CalleeIsRegistered
    <2>1. h[t].receiver_username \in Names
      BY DEF Typed, TypeOK, Locals
    <2>2. dir[h[t].receiver_username] # NoUser
      BY DEF ReceiverKnown
    <2> QED BY <2>1, <2>2 DEF DescriptorAssigned
  <1> QED BY <1>1, <1>2, <1>3, PTL DEF Spec

-----------------------------------------------------------------------------
(***************************************************************************)
(* What a handler's step does to the sockets and the descriptors.          *)
(***************************************************************************)

\* Where a handler's step leads, by where it is; what it makes of its locals on
\* the way to another recv() or INVITE.
LEMMA HandlerPc ==
    ASSUME Typed, NEW t \in Threads, Handler(t)
    PROVE  /\ pc[t] = "loop" => pc'[t] \in {"recv", "close"}
           /\ pc[t] = "socket" => pc'[t] \in {"connect", "close"}
           /\ pc[t] = "connect" => pc'[t] \in {"hello", "close"}
           /\ pc[t] = "close" => pc'[t] \in {"closeAgain", "done"}
           /\ pc[t] = "closeAgain" => pc'[t] = "done"
           /\ pc[t] = "exit" => pc'[t] \in {"exitCb", "close"}
           /\ pc[t] \in {"signup", "login", "logout"} => pc'[t] = "loop"
           /\ pc[t] \in {"hello", "isLogin", "hasUser", "getUser", "invite",
                         "answer", "await", "forward", "exitCb"} =>
                pc'[t] \in {"hasUser", "getUser", "invite", "answer", "await", "forward",
                            "loop", "close"}
           /\ pc[t] \notin {"none", "done"}
           /\ pc'[t] = "recv" /\ proc' = "up" =>
                pc[t] = "loop" /\ h'[t].file = File(h[t].client_socket)
           /\ pc'[t] = "await" => pc[t] = "answer" /\ h'[t].file = File(h[t].receiver_fd)
           /\ pc'[t] = "answer" => pc[t] = "invite" /\ h'[t].receiver_fd = h[t].receiver_fd
           /\ pc'[t] = "invite" /\ ~lost' =>
                /\ pc[t] = "getUser" /\ answer[t].user # NoUser
                /\ answer[t].user.socket_fd # Uninit
                /\ h'[t].receiver_fd = answer[t].user.socket_fd
  <1>0. /\ DOMAIN h = Threads /\ DOMAIN pc = Threads
        /\ h = [u \in Threads |-> h[u]] /\ pc = [u \in Threads |-> pc[u]]
        /\ DOMAIN h[t] = {"client_socket", "client_socket_fd", "address", "username",
                          "receiver_username", "receiver_fd", "sdp", "re", "file"}
    BY DEF Typed, TypeOK, Locals
  <1>1. ASSUME NEW from, NEW to, Step(t, from, to)
        PROVE  pc[t] = from /\ pc'[t] = to
    BY <1>0, <1>1 DEF Step, HandlerAt, Goto
  <1>2. ASSUME NEW from, EndCall(t, from)
        PROVE  pc[t] = from /\ pc'[t] = "loop"
    BY <1>1, <1>2 DEF EndCall
  <1>5. CASE Loop(t)
    <2>1. \/ pc[t] = "loop" /\ pc'[t] = "close"
          \/ pc[t] = "loop" /\ pc'[t] = "recv" /\ h' = [h EXCEPT ![t].file = File(h[t].client_socket)]
      BY <1>1, <1>5 DEF Loop
    <2> QED BY <1>0, <2>1
  <1>6. CASE Recv(t)
    <2>1. pc[t] = "recv"
      BY <1>6 DEF Recv, HandlerAt
    <2>2. pc'[t] \notin {"recv", "await", "answer", "invite"} \/ proc' # "up"
      <3>1. PICK m : \/ Dispatch(t, m, [h[t] EXCEPT !.file = NoFile])
                     \/ proc' = "sigsegv"
                     \/ Goto(t, "close")
        BY <1>6 DEF Recv
      <3>2. ASSUME NEW to, Goto(t, to) PROVE pc'[t] = to
        BY <1>0, <3>2 DEF Goto
      <3> QED BY <3>1, <3>2 DEF Dispatch
    <2>3. proc' # "up" => UNCHANGED pc
      BY <1>6 DEF Recv, HandlerAt, Up
    <2> QED BY <2>1, <2>2, <2>3
  <1>7. CASE \/ RecvEnd(t) \/ Socket(t) \/ Connect(t) \/ Hello(t) \/ Reply(t)
    <2>1. \/ pc[t] \in {"recv", "socket", "connect"} /\ pc'[t] = "close"
          \/ pc[t] = "socket" /\ pc'[t] = "connect"
          \/ pc[t] = "connect" /\ pc'[t] = "hello"
          \/ pc[t] \in {"hello", "signup", "login", "logout"} /\ pc'[t] = "loop"
      BY <1>1, <1>7 DEF RecvEnd, Socket, Connect, Hello, Reply
    <2> QED BY <2>1
  <1>8. CASE \/ NotLoggedIn(t) \/ LoggedIn(t) \/ KnownUser(t) \/ NoReply(t) \/ Forward(t) \/ ExitCb(t)
    <2>1. \/ pc[t] \in {"isLogin", "hasUser", "await", "forward"} /\ pc'[t] = "loop"
          \/ pc[t] = "isLogin" /\ pc'[t] = "hasUser"
          \/ pc[t] = "hasUser" /\ pc'[t] = "getUser"
          \/ pc[t] = "exitCb" /\ pc'[t] = "close"
      BY <1>1, <1>2, <1>8 DEF NotLoggedIn, LoggedIn, KnownUser, NoReply, Forward, ExitCb
    <2> QED BY <2>1
  <1>9. CASE GotUser(t)
    <2>1. CASE EndCall(t, "getUser")
      BY <1>2, <2>1
    <2>2. CASE /\ answer[t].user # NoUser
               /\ Step(t, "getUser", "invite")
               /\ \E f \in FdRead(answer[t].user.socket_fd) : h' = [h EXCEPT ![t].receiver_fd = f]
               /\ lost' = (lost \/ answer[t].user.socket_fd = Uninit)
      <3>1. pc[t] = "getUser" /\ pc'[t] = "invite"
        BY <1>1, <2>2
      <3>2. ~lost' => answer[t].user.socket_fd # Uninit
        BY <2>2
      <3>3. ~lost' => h'[t].receiver_fd = answer[t].user.socket_fd
        BY <1>0, <2>2, <3>2 DEF FdRead
      <3> QED BY <2>2, <3>1, <3>2, <3>3
    <2> QED BY <1>9, <2>1, <2>2 DEF GotUser
  <1>10. CASE SendInvite(t)
    <2>1. pc[t] = "invite" /\ pc'[t] = "answer" /\ UNCHANGED h
      BY <1>1, <1>10 DEF SendInvite
    <2> QED BY <2>1
  <1>11. CASE WaitAnswer(t)
    <2>1. \/ pc[t] = "answer" /\ pc'[t] = "loop"
          \/ /\ pc[t] = "answer" /\ pc'[t] = "await"
             /\ h' = [h EXCEPT ![t].file = File(h[t].receiver_fd)]
      BY <1>1, <1>2, <1>11 DEF WaitAnswer
    <2> QED BY <1>0, <2>1
  <1>12. CASE GetAnswer(t)
    <2>1. pc[t] = "await" /\ pc'[t] \in {"forward", "loop"}
      BY <1>1, <1>2, <1>12 DEF GetAnswer
    <2> QED BY <2>1
  <1>13. CASE Exit(t)
    <2>1. pc[t] = "exit" /\ pc'[t] \in {"exitCb", "close"}
      BY <1>1, <1>13 DEF Exit
    <2> QED BY <2>1
  <1>14. CASE Close(t)
    <2>1. pc[t] = "close" /\ pc'[t] \in {"closeAgain", "done"}
      BY <1>0, <1>14 DEF Close, Step, HandlerAt, Goto
    <2> QED BY <2>1
  <1>15. CASE CloseAgain(t)
    <2>1. pc[t] = "closeAgain" /\ pc'[t] = "done"
      BY <1>1, <1>15 DEF CloseAgain
    <2> QED BY <2>1
  <1> QED BY <1>5, <1>6, <1>7, <1>8, <1>9, <1>10, <1>11, <1>12, <1>13, <1>14, <1>15
          DEF Handler, OwnStep

\* send() leaves the connection table of a client as it is: what is connected
\* stays so, open or not.
LEMMA SendPeer ==
    ASSUME Typed, NEW STATE f, NEW STATE m, Send(f, m)
    PROVE  \A e \in Ends : peer[e] = "none" <=> peer'[e] = "none"
  <1>1. DOMAIN peer = Ends
    BY DEF Typed, TypeOK
  <1> QED BY <1>1 DEF Send

\* A connection to a client's listener comes into being when connect() succeeds,
\* at the descriptor the handler keeps, and is never unmade.
LEMMA HandlerPeer ==
    ASSUME Typed, NEW t \in Threads, Handler(t)
    PROVE  /\ \A e \in Ends : peer[e] # "none" => peer'[e] # "none"
           /\ pc[t] # "connect" => \A e \in Ends : peer[e] = "none" => peer'[e] = "none"
           /\ pc[t] = "connect" /\ pc'[t] # "hello" => UNCHANGED peer
           /\ pc[t] = "connect" /\ pc'[t] = "hello" =>
                /\ UNCHANGED h
                /\ h[t].address \in Clients /\ client[h[t].address] = "up"
                /\ peer' = [peer EXCEPT ![Cb(h[t].address)] = "open"]
                /\ h[t].client_socket_fd \in Fds
                /\ fdTable[h[t].client_socket_fd] = Unconnected
                /\ fdTable' = [fdTable EXCEPT ![h[t].client_socket_fd] = Cb(h[t].address)]
  <1>0. DOMAIN peer = Ends /\ DOMAIN pc = Threads
    BY DEF Typed, TypeOK
  <1>1. ASSUME NEW from, NEW to, Step(t, from, to)
        PROVE  pc[t] = from /\ pc'[t] = to
    BY <1>0, <1>1 DEF Step, HandlerAt, Goto
  <1>2. CASE Connect(t)
    <2>1. CASE /\ Step(t, "connect", "hello")
               /\ File(h[t].client_socket_fd) = Unconnected
               /\ h[t].address \in Clients /\ client[h[t].address] = "up"
               /\ fdTable' = [fdTable EXCEPT ![h[t].client_socket_fd] = Cb(h[t].address)]
               /\ peer' = [peer EXCEPT ![Cb(h[t].address)] = "open"]
      <3>1. h[t].client_socket_fd \in Fds /\ fdTable[h[t].client_socket_fd] = Unconnected
        BY <2>1, Distinct DEF File
      <3>2. pc[t] = "connect" /\ pc'[t] = "hello" /\ UNCHANGED h
        BY <1>1, <1>2, <2>1 DEF Connect
      <3> QED BY <1>0, <2>1, <3>1, <3>2
    <2>2. CASE Step(t, "connect", "close") /\ UNCHANGED peer
      BY <1>1, <2>2
    <2> QED BY <1>2, <2>1, <2>2 DEF Connect
  <1>3. CASE ~Connect(t)
    <2>1. pc[t] # "connect"
      BY <1>3 DEF Handler, OwnStep, Loop, RecvEnd, Recv, Socket, Hello, Reply, NotLoggedIn,
           LoggedIn, KnownUser, GotUser, SendInvite, WaitAnswer, NoReply, GetAnswer, Forward, Exit,
           ExitCb, Close, CloseAgain, EndCall, Step, HandlerAt
    <2>2. \A e \in Ends : peer[e] = "none" <=> peer'[e] = "none"
      <3>1. CASE Hello(t) \/ Reply(t) \/ SendInvite(t) \/ Forward(t) \/ Exit(t) \/ ExitCb(t)
        BY <3>1, SendPeer DEF Hello, Reply, SendInvite, Forward, Exit, ExitCb
      <3>2. CASE UNCHANGED peer
        BY <3>2
      <3> QED BY <1>3, <3>1, <3>2 DEF Handler, OwnStep, Loop, RecvEnd, Recv, Socket, NotLoggedIn,
           LoggedIn, KnownUser, GotUser, WaitAnswer, NoReply, GetAnswer, Close, CloseAgain, netVars
    <2> QED BY <2>1, <2>2
  <1> QED BY <1>2, <1>3

\* close() unmakes at most the descriptor it is given, and never a reserved one;
\* the other steps only fill descriptors that are free or not connected.
LEMMA HandlerTable ==
    ASSUME Typed, NEW t \in Threads, Handler(t)
    PROVE  /\ \A f \in Fds : fdTable[f] = Reserved => fdTable'[f] = Reserved
           /\ ~lost' => \A f \in Fds : fdTable[f] \in Ends =>
                \/ fdTable'[f] = fdTable[f]
                \/ pc[t] = "close" /\ f = h[t].client_socket
  <1>0. DOMAIN fdTable = Fds /\ DOMAIN pc = Threads
    BY DEF Typed, TypeOK
  <1>1. ASSUME NEW from, NEW to, Step(t, from, to)
        PROVE  pc[t] = from /\ pc'[t] = to
    BY <1>0, <1>1 DEF Step, HandlerAt, Goto
  <1>2. CASE Socket(t)
    BY <1>0, <1>2, Distinct DEF Socket, LowestFree, FreeFds
  <1>3. CASE Connect(t)
    BY <1>0, <1>3, Distinct DEF Connect, File
  <1>4. CASE Close(t)
    <2>1. pc[t] = "close"
      BY <1>4 DEF Close, Step, HandlerAt
    <2> QED BY <1>0, <1>4, <2>1, Distinct DEF Close, CloseFd, File
  <1>5. CASE CloseAgain(t)
    <2>1. ~lost' => UNCHANGED fdTable
      BY <1>5 DEF CloseAgain, CloseFd
    <2>2. \A f \in Fds : fdTable[f] = Reserved => fdTable'[f] = Reserved
      BY <1>0, <1>5, Distinct DEF CloseAgain, CloseFd, File
    <2> QED BY <2>1, <2>2
  <1>6. CASE UNCHANGED fdTable
    BY <1>6
  <1> QED BY <1>2, <1>3, <1>4, <1>5, <1>6 DEF Handler, OwnStep, Loop, RecvEnd, Recv, Hello, Reply,
           NotLoggedIn, LoggedIn, KnownUser, GotUser, SendInvite, WaitAnswer, NoReply, GetAnswer,
           Forward, Exit, ExitCb

\* The branch of client_handler() each command leads to.
Branches == {<<"CLIENT", "socket">>, <<"SIGNUP", "signup">>, <<"LOGIN", "login">>,
             <<"LOGOUT", "logout">>, <<"CALL", "isLogin">>, <<"EXIT", "exit">>,
             <<"ACCEPT", "loop">>, <<"nothing", "loop">>}

\* A handler takes from a stream only inside recv(), and only at its head.
LEMMA HandlerStreams ==
    ASSUME Typed, NEW t \in Threads, Handler(t)
    PROVE  /\ pc[t] \notin {"recv", "await"} => UNCHANGED toServer
           /\ \/ UNCHANGED toServer
              \/ /\ h[t].file \in Ends /\ toServer[h[t].file] # <<>>
                 /\ \E r \in Reads(toServer[h[t].file]) :
                        toServer' = [toServer EXCEPT ![h[t].file] = r.left]
  <1>1. CASE Recv(t)
    BY <1>1 DEF Typed, RecvOnEnd, Recv, HandlerAt
  <1>2. CASE GetAnswer(t)
    BY <1>2 DEF Typed, RecvOnEnd, GetAnswer, HandlerAt
  <1>3. CASE UNCHANGED toServer
    BY <1>3
  <1> QED BY <1>1, <1>2, <1>3 DEF Handler, OwnStep, Loop, RecvEnd, Socket, Connect, Hello, Reply,
           NotLoggedIn, LoggedIn, KnownUser, GotUser, SendInvite, WaitAnswer, NoReply,
           Forward, Exit, ExitCb, Close, CloseAgain, netVars

\* A handler that comes out of recv(client_socket) ends, or takes the branch of
\* what it has read.
LEMMA HandlerRecv ==
    ASSUME Typed, NEW t \in Threads, Handler(t), pc[t] = "recv", proc' = "up"
    PROVE  /\ UNCHANGED <<toClient, peer, fdTable>>
           /\ \/ UNCHANGED toServer /\ pc'[t] = "close" /\ h'[t].address = h[t].address
              \/ /\ h[t].file \in Ends /\ toServer[h[t].file] # <<>>
                 /\ \E r \in Reads(toServer[h[t].file]) :
                      /\ toServer' = [toServer EXCEPT ![h[t].file] = r.left]
                      /\ \/ pc'[t] = "close"
                         \/ <<r.msg.cmd, pc'[t]>> \in Branches
                      /\ \/ h'[t].address = h[t].address
                         \/ pc'[t] = "socket" /\ r.msg.cmd = "CLIENT" /\ h'[t].address = r.msg.from
  <1>0. DOMAIN h = Threads /\ DOMAIN pc = Threads /\ h[t] \in Locals
    BY DEF Typed, TypeOK
  <1>1. RecvEnd(t) \/ Recv(t)
    BY DEF Handler, OwnStep, Loop, RecvEnd, Socket, Connect, Hello, Reply,
           NotLoggedIn, LoggedIn, KnownUser, GotUser, SendInvite, WaitAnswer, NoReply, GetAnswer,
           Forward, Exit, ExitCb, Close, CloseAgain, EndCall, Step, HandlerAt
  <1>2. CASE RecvEnd(t)
    <2>1. h'[t].address = h[t].address
      BY <1>0, <1>2 DEF RecvEnd, Locals
    <2>2. pc'[t] = "close" /\ UNCHANGED <<toServer, toClient, peer, fdTable>>
      BY <1>0, <1>2 DEF RecvEnd, Step, Goto, netVars
    <2> QED BY <2>1, <2>2
  <1>3. CASE Recv(t)
    <2> DEFINE x == [h[t] EXCEPT !.file = NoFile]
    <2>1. h[t].file \in Ends /\ toServer[h[t].file] # <<>> /\ UNCHANGED <<toClient, peer, fdTable>>
      BY <1>3 DEF Typed, RecvOnEnd, Recv, HandlerAt
    <2>2. PICK r \in Reads(toServer[h[t].file]) :
            /\ toServer' = [toServer EXCEPT ![h[t].file] = r.left]
            /\ \/ Dispatch(t, r.msg, x)
               \/ h' = [h EXCEPT ![t] = x] /\ Goto(t, "close")
      BY <1>3 DEF Recv
    <2>3. x \in Locals /\ x.address = h[t].address
      BY <1>0, LocalsType DEF Locals
    <2> HIDE DEF x
    <2>4. ASSUME NEW to, Goto(t, to) PROVE pc'[t] = to
      BY <1>0, <2>4 DEF Goto
    <2>5. CASE h' = [h EXCEPT ![t] = x] /\ Goto(t, "close")
      BY <1>0, <2>1, <2>2, <2>3, <2>4, <2>5
    <2>6. CASE Dispatch(t, r.msg, x)
      <3>1. <<r.msg.cmd, pc'[t]>> \in Branches
        BY <2>4, <2>6 DEF Dispatch, Branches
      <3>2. \/ h'[t].address = h[t].address
            \/ pc'[t] = "socket" /\ r.msg.cmd = "CLIENT" /\ h'[t].address = r.msg.from
        <4> DEFINE m == r.msg
        <4> HIDE DEF m
        <4>1. /\ [x EXCEPT !.address = m.from].address = m.from
              /\ [x EXCEPT !.username = m.name].address = x.address
              /\ [x EXCEPT !.receiver_username = m.name, !.sdp = m.sdp].address = x.address
          BY <2>3 DEF Locals
        <4>2. \/ h' = [h EXCEPT ![t] = x]
              \/ /\ m.cmd = "CLIENT" /\ Goto(t, "socket")
                 /\ h' = [h EXCEPT ![t] = [x EXCEPT !.address = m.from]]
              \/ h' = [h EXCEPT ![t] = [x EXCEPT !.username = m.name]]
              \/ h' = [h EXCEPT ![t] = [x EXCEPT !.receiver_username = m.name, !.sdp = m.sdp]]
          BY <2>6 DEF Dispatch, m
        <4>3. \/ h'[t].address = x.address
              \/ /\ m.cmd = "CLIENT" /\ pc'[t] = "socket"
                 /\ h'[t].address = m.from
          BY <1>0, <2>4, <4>1, <4>2
        <4> QED BY <2>3, <4>3 DEF m
      <3> QED BY <2>1, <2>2, <3>1, <3>2
    <2> QED BY <2>2, <2>5, <2>6
  <1> QED BY <1>1, <1>2, <1>3

-----------------------------------------------------------------------------
(***************************************************************************)
(* Who owns which descriptor.                                              *)
(***************************************************************************)

\* Descriptor f denotes e.
Has(f, e) == f \in Fds /\ fdTable[f] = e

\* f denotes a connection to some client's listener.
HasCb(f) == \E c \in Clients : Has(f, Cb(c))

\* accept() keeps the descriptor it has reserved while it waits; the connections
\* it has not returned yet are those of different clients without a handler.
Admission ==
    /\ mainPc = "accept" => Has(acceptFd, Reserved)
    /\ \A i \in 1..Len(backlog) : pc[backlog[i]] = "none" /\ client[backlog[i]] # "new"
    /\ \A i, j \in 1..Len(backlog) : backlog[i] = backlog[j] => i = j
    /\ \A c \in Clients : client[c] = "new" => pc[c] = "none"

\* Every step keeps accept()'s descriptor and the queue of connections in order.
LEMMA AdmissionStep ==
    ASSUME Typed, Admission, [Next]_vars
    PROVE  Admission'
  <1>0. /\ backlog \in Seq(Clients) /\ DOMAIN pc = Threads /\ DOMAIN fdTable = Fds
        /\ DOMAIN client = Clients /\ Clients = Threads
        /\ \A i \in 1..Len(backlog) : backlog[i] \in Clients
    BY DEF Typed, TypeOK, Clients
  <1>1. CASE \E t \in Threads : Handler(t)
    <2> PICK t \in Threads : Handler(t)
      BY <1>1
    <2>1. /\ UNCHANGED <<mainPc, acceptFd, backlog, client>>
          /\ \A u \in Threads \ {t} : pc'[u] = pc[u]
      BY HandlerLocals DEF Typed, HandlerFrame, clientVars
    <2>2. pc[t] # "none"
      BY HandlerPc
    <2>3. \A f \in Fds : fdTable[f] = Reserved => fdTable'[f] = Reserved
      BY HandlerTable
    <2>4. mainPc' = "accept" => Has(acceptFd, Reserved)'
      BY <2>1, <2>3 DEF Admission, Has
    <2>5. \A i \in 1..Len(backlog') : pc'[backlog'[i]] = "none" /\ client'[backlog'[i]] # "new"
      BY <1>0, <2>1, <2>2 DEF Admission
    <2>6. \A c \in Clients : client'[c] = "new" => pc'[c] = "none"
      BY <1>0, <2>1, <2>2 DEF Admission
    <2> QED BY <2>1, <2>4, <2>5, <2>6 DEF Admission
  <1>2. CASE MainCheck
    BY <1>0, <1>2 DEF Admission, MainCheck, Has, clientVars, LowestFree, FreeFds
  <1>3. CASE Sigint \/ MainJoin
    BY <1>3 DEF Admission, Sigint, MainJoin, Has, clientVars
  <1>4. CASE UNCHANGED vars \/ StoreCorrupted \/ \E t \in Threads : StoreStep(t)
    <2>1. UNCHANGED <<mainPc, acceptFd, fdTable, pc, backlog, client>>
      BY <1>4 DEF vars, StoreCorrupted, StoreStep, procVars, clientVars
    <2> QED BY <2>1 DEF Admission, Has
  <1>5. CASE Accept
    <2>1. backlog # <<>> /\ mainPc' # "accept" /\ backlog' = Tail(backlog) /\ UNCHANGED client
      BY <1>5 DEF Accept
    <2>2. /\ Len(Tail(backlog)) = Len(backlog) - 1 /\ Len(backlog) \in Nat \ {0}
          /\ Head(backlog) = backlog[1]
          /\ \A i \in 1..Len(Tail(backlog)) : Tail(backlog)[i] = backlog[i + 1]
      BY <1>0, <2>1
    <2>3. \A u \in Threads : u # backlog[1] => pc'[u] = pc[u]
      BY <1>0, <1>5, <2>2 DEF Accept
    <2>4. client[backlog[1]] # "new"
      BY <2>2 DEF Admission
    <2>5. \A i \in 1..Len(backlog') : i + 1 \in 1..Len(backlog) /\ backlog'[i] = backlog[i + 1]
      BY <2>1, <2>2
    <2>6. \A i \in 1..Len(backlog') : backlog'[i] # backlog[1]
      <3>1. \A i \in 1..Len(backlog') : i + 1 # 1 /\ 1 \in 1..Len(backlog)
        BY <2>2
      <3> QED BY <2>5, <3>1 DEF Admission
    <2>7. \A i \in 1..Len(backlog') : pc'[backlog'[i]] = "none" /\ client'[backlog'[i]] # "new"
      BY <1>0, <2>1, <2>3, <2>5, <2>6 DEF Admission
    <2>8. \A i, j \in 1..Len(backlog') : backlog'[i] = backlog'[j] => i = j
      <3> SUFFICES ASSUME NEW i \in 1..Len(backlog'), NEW j \in 1..Len(backlog'),
                          backlog'[i] = backlog'[j]
                   PROVE  i = j
        OBVIOUS
      <3>1. i + 1 = j + 1
        BY <2>5 DEF Admission
      <3>2. i \in Int /\ j \in Int
        OBVIOUS
      <3> QED BY <3>1, <3>2
    <2>9. \A c \in Clients : client'[c] = "new" => pc'[c] = "none"
      BY <1>0, <2>1, <2>3, <2>4 DEF Admission
    <2> QED BY <2>1, <2>7, <2>8, <2>9 DEF Admission
  <1>6. CASE Environment
    <2> PICK c \in Clients : \/ ClientConnects(c) \/ ClientSends(c)
                            \/ ClientListener(c) \/ ListenerEnds(c) \/ ClientLeaves(c)
      BY <1>6 DEF Environment
    <2>1. UNCHANGED <<mainPc, acceptFd, fdTable, pc>>
      BY DEF ClientConnects, ClientSends, ClientListener, ListenerEnds, ClientLeaves, ClientFrame,
             procVars
    <2>2. CASE ClientConnects(c)
      <3>1. /\ client[c] = "new" /\ client' = [client EXCEPT ![c] = "up"]
            /\ backlog' = Append(backlog, c)
        BY <2>2 DEF ClientConnects
      <3>2. /\ Len(backlog') = Len(backlog) + 1 /\ Len(backlog) \in Nat
            /\ backlog'[Len(backlog) + 1] = c
            /\ \A i \in 1..Len(backlog) : backlog'[i] = backlog[i]
        BY <1>0, <3>1
      <3>3. \A i \in 1..Len(backlog) : backlog[i] # c
        BY <3>1 DEF Admission
      <3>4. pc[c] = "none"
        BY <3>1 DEF Admission
      <3>5. \A i \in 1..Len(backlog') : i \in 1..Len(backlog) \/ i = Len(backlog) + 1
        BY <3>2
      <3>6. \A i \in 1..Len(backlog') : pc'[backlog'[i]] = "none" /\ client'[backlog'[i]] # "new"
        BY <1>0, <2>1, <3>1, <3>2, <3>3, <3>4, <3>5 DEF Admission
      <3>7. \A i, j \in 1..Len(backlog') : backlog'[i] = backlog'[j] => i = j
        BY <3>2, <3>3, <3>5 DEF Admission
      <3>8. \A d \in Clients : client'[d] = "new" => pc'[d] = "none"
        BY <1>0, <2>1, <3>1 DEF Admission
      <3> QED BY <2>1, <3>6, <3>7, <3>8 DEF Admission, Has
    <2>3. CASE ClientLeaves(c)
      BY <1>0, <2>1, <2>3 DEF Admission, Has, ClientLeaves
    <2>4. CASE UNCHANGED <<backlog, client>>
      BY <2>1, <2>4 DEF Admission, Has
    <2> QED BY <2>2, <2>3, <2>4 DEF ClientSends, ClientListener, ListenerEnds, clientVars
  <1> QED BY <1>1, <1>2, <1>3, <1>4, <1>5, <1>6 DEF Next

\* The client's first message is CLIENT: it stays in front until the handler
\* has read it, and there is a connection to the client's listener in every
\* branch that later messages lead to.
Greeting(c) ==
    LET s == toServer[Main(c)]
    IN  /\ \A i \in 1..Len(s) : s[i].cmd = "CLIENT" =>
              /\ i = 1 /\ s[i].from = c
              /\ peer[Cb(c)] = "none"
              /\ pc[c] \in {"none", "loop", "recv", "close", "closeAgain", "done"}
        /\ peer[Cb(c)] = "none" /\ "shortRead" \notin Events
              /\ (pc[c] \in {"loop", "recv"} \/ \E i \in 1..Len(backlog) : backlog[i] = c)
              => s # <<>> /\ s[1].cmd = "CLIENT"
        /\ pc[c] \in {"none", "socket", "connect"} => peer[Cb(c)] = "none"
        /\ pc[c] = "hello" => peer[Cb(c)] # "none"
        /\ "shortRead" \notin Events
              /\ pc[c] \notin {"none", "loop", "recv", "socket", "connect", "close", "closeAgain", "done"}
              => peer[Cb(c)] # "none"

\* A number that may be kept: of a connection to a listener, or the -1 of a
\* handler that read its CLIENT message in pieces.
Keepable(f) == HasCb(f) \/ (f = NoFd /\ "shortRead" \in Events)

\* What a handler holds, or has asked the store to keep, or was told by it.
HandlerOwns(t) ==
    /\ peer[Cb(t)] # "none" => Has(h[t].client_socket_fd, Cb(t))
    /\ Serving(t) => Has(h[t].client_socket, Main(t))
    /\ peer[Cb(t)] = "none" /\ pc[t] \notin {"connect", "close", "closeAgain", "done"}
          => h[t].client_socket_fd = NoFd
    /\ h[t].address \in {t, NoThread}
    /\ pc[t] = "recv" => h[t].file = Main(t)
    /\ pc[t] = "await" => \E c \in Clients : h[t].file = Cb(c)
    /\ pc[t] \in {"invite", "answer"} => Keepable(h[t].receiver_fd)
    /\ request[t].kind = "addUser" => Keepable(request[t].socket_fd)
    /\ answer[t].user # NoUser /\ answer[t].user.socket_fd # Uninit => Keepable(answer[t].user.socket_fd)

TableOwns ==
    \A n \in Names : dir[n] # NoUser /\ dir[n].socket_fd # Uninit => Keepable(dir[n].socket_fd)

Owned == (\A t \in Threads : Greeting(t)) /\ (\A t \in Threads : HandlerOwns(t)) /\ TableOwns

\* No descriptor went wrong and the process lives.
Sound == ~lost /\ proc = "up"

\* What was lost stays lost, and a process that is up was so before.
LEMMA SoundBefore ==
    ASSUME Typed, [Next]_vars, Sound'
    PROVE  Sound
  <1>1. CASE \E t \in Threads : Handler(t)
    <2> PICK t \in Threads : Handler(t)
      BY <1>1
    <2>1. Up
      BY HandlerLocals DEF Typed
    <2>2. ~lost
      BY DEF Sound, Handler, GotUser, CloseAgain
    <2> QED BY <2>1, <2>2 DEF Sound, Up
  <1>2. CASE \/ MainCheck \/ Accept \/ Sigint \/ MainJoin
             \/ \E t \in Threads : StoreStep(t)
             \/ StoreCorrupted \/ Environment
    BY <1>2, OthersKeepHandlers DEF Typed, Sound, Up
  <1>3. CASE UNCHANGED vars
    BY <1>3 DEF vars, procVars, Sound
  <1> QED BY <1>1, <1>2, <1>3 DEF Next

\* A connection to a listener keeps its descriptor for ever, a client's own
\* connection until its handler closes it.
LEMMA DescriptorsKept ==
    ASSUME Typed, Admission, \A t \in Threads : HandlerOwns(t), [Next]_vars, Sound'
    PROVE  /\ \A f \in Fds, c \in Clients : fdTable[f] = Cb(c) => fdTable'[f] = Cb(c)
           /\ \A f \in Fds, c \in Clients : fdTable[f] = Main(c) =>
                \/ fdTable'[f] = Main(c)
                \/ Handler(c) /\ pc[c] = "close"
  <1>0. /\ DOMAIN fdTable = Fds /\ Clients = Threads
        /\ \A c, d \in Clients : Cb(c) # Main(d) /\ (Main(c) = Main(d) => c = d)
        /\ \A c \in Clients : Cb(c) \in Ends /\ Main(c) \in Ends
    BY DEF Typed, TypeOK, Clients, Cb, Main, Ends
  <1>1. CASE \E t \in Threads : Handler(t)
    <2> PICK t \in Threads : Handler(t)
      BY <1>1
    <2>1. \A f \in Fds : fdTable[f] \in Ends => \/ fdTable'[f] = fdTable[f]
                                                \/ pc[t] = "close" /\ f = h[t].client_socket
      BY HandlerTable DEF Sound
    <2>2. pc[t] = "close" => fdTable[h[t].client_socket] = Main(t)
      BY DEF HandlerOwns, Has, Serving
    <2> QED BY <1>0, <2>1, <2>2
  <1>2. CASE MainCheck
    BY <1>0, <1>2, Distinct DEF MainCheck, LowestFree, FreeFds
  <1>3. CASE Accept \/ Sigint
    <2>1. mainPc = "accept" => fdTable[acceptFd] = Reserved
      BY DEF Admission, Has
    <2> QED BY <1>0, <1>3, <2>1, Distinct DEF Accept, Sigint
  <1>4. CASE MainJoin
    BY <1>4 DEF MainJoin, Sound
  <1>5. CASE UNCHANGED vars \/ StoreCorrupted \/ (\E t \in Threads : StoreStep(t)) \/ Environment
    <2>1. UNCHANGED fdTable
      BY <1>5 DEF vars, StoreCorrupted, StoreStep, Environment, ClientConnects, ClientSends,
           ClientListener, ListenerEnds, ClientLeaves, ClientFrame
    <2> QED BY <2>1
  <1> QED BY <1>1, <1>2, <1>3, <1>4, <1>5 DEF Next

\* As long as all is owned, a handler's step touches the streams and the state of
\* its own client's connections only, but for the answers it waits for.
LEMMA HandlerNet ==
    ASSUME Typed, Owned, NEW t \in Threads, Handler(t)
    PROVE  /\ \A c \in Threads : c # t \/ pc[t] # "recv" => toServer'[Main(c)] = toServer[Main(c)]
           /\ \A c \in Threads : peer[Cb(c)] # "none" => peer'[Cb(c)] # "none"
           /\ \A c \in Threads : peer[Cb(c)] = "none" /\ peer'[Cb(c)] # "none" =>
                /\ c = t /\ pc[t] = "connect" /\ pc'[t] = "hello"
                /\ UNCHANGED h
                /\ h[t].client_socket_fd \in Fds /\ fdTable'[h[t].client_socket_fd] = Cb(t)
           /\ pc[t] = "connect" /\ pc'[t] = "hello" => peer'[Cb(t)] # "none"
  <1>0. /\ DOMAIN peer = Ends /\ DOMAIN toServer = Ends /\ DOMAIN fdTable = Fds /\ Clients = Threads
        /\ \A c, d \in Threads : /\ Cb(c) # Main(d) /\ (Main(c) = Main(d) => c = d)
                                 /\ (Cb(c) = Cb(d) => c = d)
        /\ \A c \in Threads : Cb(c) \in Ends /\ Main(c) \in Ends
    BY DEF Typed, TypeOK, Clients, Cb, Main, Ends
  <1>1. /\ h[t].address \in Clients => h[t].address = t
        /\ pc[t] = "recv" => h[t].file = Main(t)
        /\ pc[t] = "await" => \E c \in Threads : h[t].file = Cb(c)
    BY <1>0, ThreadAssumption DEF Owned, HandlerOwns
  <1>2. \A c \in Threads : c # t \/ pc[t] # "recv" => toServer'[Main(c)] = toServer[Main(c)]
    <2> SUFFICES ASSUME NEW c \in Threads, c # t \/ pc[t] # "recv"
                 PROVE  toServer'[Main(c)] = toServer[Main(c)]
      OBVIOUS
    <2>1. pc[t] \in {"recv", "await"} => h[t].file # Main(c)
      BY <1>0, <1>1
    <2>2. CASE UNCHANGED toServer
      BY <2>2
    <2>3. CASE \E q : toServer' = [toServer EXCEPT ![h[t].file] = q] /\ pc[t] \in {"recv", "await"}
      BY <1>0, <2>1, <2>3
    <2>4. pc[t] \notin {"recv", "await"} => UNCHANGED toServer
      BY HandlerStreams
    <2>5. UNCHANGED toServer \/ \E q : toServer' = [toServer EXCEPT ![h[t].file] = q]
      BY HandlerStreams
    <2> QED BY <2>2, <2>3, <2>4, <2>5
  <1>3. \A c \in Threads : peer[Cb(c)] # "none" => peer'[Cb(c)] # "none"
    BY <1>0, HandlerPeer
  <1>4. CASE pc[t] # "connect" \/ pc'[t] # "hello"
    <2>1. \A c \in Threads : peer[Cb(c)] = "none" => peer'[Cb(c)] = "none"
      BY <1>0, <1>4, HandlerPeer
    <2> QED BY <1>2, <1>3, <1>4, <2>1
  <1>5. CASE pc[t] = "connect" /\ pc'[t] = "hello"
    <2>1. /\ UNCHANGED h
          /\ peer' = [peer EXCEPT ![Cb(t)] = "open"]
          /\ h[t].client_socket_fd \in Fds
          /\ fdTable' = [fdTable EXCEPT ![h[t].client_socket_fd] = Cb(t)]
      <3>1. /\ UNCHANGED h /\ h[t].address \in Clients
            /\ peer' = [peer EXCEPT ![Cb(h[t].address)] = "open"]
            /\ h[t].client_socket_fd \in Fds
            /\ fdTable' = [fdTable EXCEPT ![h[t].client_socket_fd] = Cb(h[t].address)]
        BY <1>5, HandlerPeer
      <3> QED BY <1>1, <3>1
    <2> QED BY <1>0, <1>2, <1>3, <1>5, <2>1
  <1> QED BY <1>4, <1>5

\* A handler's step keeps the greeting of every client.
LEMMA GreetingHandler ==
    ASSUME Typed, Admission, Owned, NEW t \in Threads, Handler(t), Sound'
    PROVE  \A c \in Threads : Greeting(c)'
  <1>0. Clients = Threads /\ t \in Clients /\ proc' = "up"
    BY DEF Clients, Sound
  <1>1. /\ UNCHANGED backlog
        /\ \A u \in Threads \ {t} : pc'[u] = pc[u]
    BY HandlerLocals DEF Typed, HandlerFrame, clientVars
  <1>10. \A i \in 1..Len(backlog) : backlog[i] # t
    BY HandlerPc DEF Admission
  <1>2. ASSUME NEW c \in Threads, c # t
        PROVE  Greeting(c)'
    <2>1. Greeting(c) /\ pc'[c] = pc[c]
      BY <1>1, <1>2 DEF Owned
    <2>2. toServer'[Main(c)] = toServer[Main(c)]
      BY <1>2, HandlerNet
    <2>3. peer[Cb(c)] = "none" <=> peer'[Cb(c)] = "none"
      BY <1>2, HandlerNet
    <2> QED BY <1>1, <2>1, <2>2, <2>3 DEF Greeting
  <1>3. Greeting(t)'
    <2> DEFINE s == toServer[Main(t)]
               none == peer[Cb(t)] = "none"
    <2>0. Greeting(t) /\ pc[t] \notin {"none", "done"}
      BY HandlerPc DEF Owned
    <2>1. CASE pc[t] = "recv"
      <3>1. /\ h[t].file = Main(t) /\ Main(t) \in Ends
            /\ toServer[Main(t)] \in Seq(Items) /\ DOMAIN toServer = Ends
        BY <1>0, <2>1, EndsOfClients DEF Owned, HandlerOwns, Typed, TypeOK
      <3>2. UNCHANGED peer
        BY <1>0, <2>1, HandlerRecv
      <3>3. CASE UNCHANGED toServer /\ pc'[t] = "close"
        <4>1. toServer'[Main(t)] = toServer[Main(t)] /\ peer'[Cb(t)] = peer[Cb(t)]
          BY <3>2, <3>3
        <4> QED BY <1>1, <1>10, <2>0, <2>1, <3>3, <4>1 DEF Greeting
      <3>4. CASE ~(UNCHANGED toServer /\ pc'[t] = "close")
        <4>1. s # <<>>
          BY <1>0, <2>1, <3>1, <3>4, HandlerRecv
        <4>2. PICK r \in Reads(s) : /\ toServer' = [toServer EXCEPT ![Main(t)] = r.left]
                                    /\ \/ pc'[t] = "close"
                                       \/ <<r.msg.cmd, pc'[t]>> \in Branches
          BY <1>0, <2>1, <3>1, <3>4, HandlerRecv
        <4>3. toServer'[Main(t)] = r.left
          BY <3>1, <4>2
        <4>4. \A i \in 1..Len(r.left) : r.left[i].cmd # "CLIENT"
          <5>1. \A i \in 1..Len(r.left) :
                  r.left[i].cmd = "part" \/ \E j \in 2..Len(s) : r.left[i] = s[j]
            BY <3>1, <4>1, ReadsShape
          <5>2. \A j \in 2..Len(s) : j \in 1..Len(s) /\ j # 1
            OBVIOUS
          <5>3. \A j \in 2..Len(s) : s[j].cmd # "CLIENT"
            BY <2>0, <5>2 DEF Greeting
          <5> HIDE DEF s
          <5> QED BY <5>1, <5>3
        <4>5. /\ r.msg.cmd = "CLIENT" => s[1].cmd = "CLIENT"
              /\ "shortRead" \notin Events => r.msg = s[1]
          BY <3>1, <4>1, ReadsShape
        <4>6. none /\ "shortRead" \notin Events => s[1].cmd = "CLIENT"
          BY <2>0, <2>1 DEF Greeting
        <4>7. peer'[Cb(t)] = peer[Cb(t)]
          BY <3>2
        <4>8. s[1].cmd = "CLIENT" => none
          <5>1. 1 \in 1..Len(s)
            BY <3>1, <4>1
          <5> QED BY <2>0, <5>1 DEF Greeting
        <4>9. CASE pc'[t] = "close"
          BY <1>1, <1>10, <4>3, <4>4, <4>9 DEF Greeting
        <4>10. CASE <<r.msg.cmd, pc'[t]>> \in Branches
          <5>1. /\ pc'[t] = "socket" => none
                /\ none /\ "shortRead" \notin Events => pc'[t] = "socket"
            BY <4>5, <4>6, <4>8, <4>10 DEF Branches
          <5>2. pc'[t] \notin {"recv", "none", "connect", "hello"}
            BY <4>10 DEF Branches
          <5> HIDE DEF s
          <5> QED BY <1>1, <1>10, <4>3, <4>4, <4>7, <5>1, <5>2 DEF Greeting
        <4> QED BY <4>2, <4>9, <4>10
      <3> QED BY <3>3, <3>4
    <2>2. CASE pc[t] # "recv"
      <3>1. toServer'[Main(t)] = toServer[Main(t)]
        BY <2>2, HandlerNet
      <3>2. peer[Cb(t)] # "none" => peer'[Cb(t)] # "none"
        BY HandlerNet
      <3>3. peer[Cb(t)] = "none" /\ peer'[Cb(t)] # "none" => pc[t] = "connect" /\ pc'[t] = "hello"
        BY HandlerNet
      <3>4. pc[t] = "connect" /\ pc'[t] = "hello" => peer'[Cb(t)] # "none"
        BY HandlerNet
      <3>5. CASE pc[t] = "loop"
        <4>1. pc'[t] \in {"recv", "close"}
          BY <3>5, HandlerPc
        <4> QED BY <1>1, <1>10, <2>0, <3>1, <3>2, <3>3, <3>5, <4>1 DEF Greeting
      <3>6. CASE pc[t] \in {"socket", "connect"}
        <4>1. pc'[t] \in {"connect", "hello", "close"} /\ (pc'[t] = "hello" => pc[t] = "connect")
          BY <3>6, HandlerPc
        <4>2. \A i \in 1..Len(s) : s[i].cmd # "CLIENT"
          BY <2>0, <3>6 DEF Greeting
        <4>3. peer'[Cb(t)] # "none" <=> pc'[t] = "hello"
          BY <2>0, <3>3, <3>4, <3>6, <4>1 DEF Greeting
        <4> QED BY <1>1, <1>10, <3>1, <4>1, <4>2, <4>3 DEF Greeting
      <3>7. CASE pc[t] \in {"close", "closeAgain"}
        <4>1. pc'[t] \in {"closeAgain", "done"}
          BY <3>7, HandlerPc
        <4> QED BY <1>1, <1>10, <2>0, <3>1, <3>2, <3>3, <3>7, <4>1 DEF Greeting
      <3>8. CASE pc[t] \notin {"loop", "socket", "connect", "close", "closeAgain"}
        <4>1. pc[t] \in {"hello", "isLogin", "hasUser", "getUser", "invite", "answer", "await",
                         "forward", "exitCb", "exit", "signup", "login", "logout"}
          BY <2>0, <2>2, <3>8 DEF Typed, TypeOK, HandlerPcs
        <4>2. pc'[t] \in {"hasUser", "getUser", "invite", "answer", "await", "forward",
                          "loop", "close", "exitCb"}
          BY <4>1, HandlerPc
        <4>3. "shortRead" \notin Events => peer[Cb(t)] # "none" /\ peer'[Cb(t)] # "none"
          BY <2>0, <3>2, <4>1 DEF Greeting
        <4>4. \A i \in 1..Len(s) : s[i].cmd # "CLIENT"
          BY <2>0, <4>1 DEF Greeting
        <4> QED BY <1>1, <1>10, <3>1, <4>2, <4>3, <4>4 DEF Greeting
      <3> QED BY <3>5, <3>6, <3>7, <3>8
    <2> QED BY <2>1, <2>2
  <1> QED BY <1>2, <1>3

\* For an end of a connection, File and Has say the same.
LEMMA FileHas ==
    ASSUME NEW STATE f, NEW e \in Ends
    PROVE  File(f) = e <=> Has(f, e)
  BY Distinct DEF File, Has

\* A step that leaves a handler alone leaves it what it owns, if what the store
\* tells it is owned.
LEMMA OwnsKept ==
    ASSUME Typed, Admission, Owned, [Next]_vars, Sound', NEW u \in Threads,
           h'[u] = h[u], pc'[u] = pc[u], request'[u] = request[u],
           peer[Cb(u)] = "none" <=> peer'[Cb(u)] = "none",
           answer'[u].user # NoUser /\ answer'[u].user.socket_fd # Uninit
               => \E f : f = answer'[u].user.socket_fd /\ Keepable(f)
    PROVE  HandlerOwns(u)'
  <1>0. Clients = Threads /\ u \in Clients /\ HandlerOwns(u)
    BY DEF Clients, Owned
  <1>1. /\ \A f \in Fds, c \in Clients : fdTable[f] = Cb(c) => fdTable'[f] = Cb(c)
        /\ \A f \in Fds, c \in Clients : fdTable[f] = Main(c) =>
                \/ fdTable'[f] = Main(c)
                \/ Handler(c) /\ pc[c] = "close"
    BY DescriptorsKept DEF Owned
  <1>2. \A f : Keepable(f) => \/ \E c \in Clients : f \in Fds /\ fdTable'[f] = Cb(c)
                              \/ f = NoFd /\ "shortRead" \in Events
    BY <1>1 DEF Keepable, HasCb, Has
  <1>3. peer'[Cb(u)] # "none" => Has(h[u].client_socket_fd, Cb(u))'
    BY <1>0, <1>1 DEF HandlerOwns, Has
  <1>4. Serving(u)' => Has(h[u].client_socket, Main(u))'
    <2>1. ~(Handler(u) /\ pc[u] = "close")
      BY HandlerPc
    <2> QED BY <1>0, <1>1, <2>1 DEF HandlerOwns, Has, Serving
  <1>5. pc'[u] \in {"invite", "answer"} => Keepable(h[u].receiver_fd)'
    BY <1>0, <1>2 DEF HandlerOwns, Keepable, HasCb, Has
  <1>6. request'[u].kind = "addUser" => Keepable(request[u].socket_fd)'
    BY <1>0, <1>2 DEF HandlerOwns, Keepable, HasCb, Has
  <1>7. answer'[u].user # NoUser /\ answer'[u].user.socket_fd # Uninit
          => Keepable(answer[u].user.socket_fd)'
    BY <1>2 DEF Keepable, HasCb, Has
  <1> QED BY <1>0, <1>3, <1>4, <1>5, <1>6, <1>7 DEF HandlerOwns

\* A handler's step keeps what it and the others own.
LEMMA OwnsHandler ==
    ASSUME Typed, Admission, Owned, NEW t \in Threads, Handler(t), [Next]_vars, Sound'
    PROVE  (\A u \in Threads : HandlerOwns(u)') /\ TableOwns'
  <1>0. /\ Clients = Threads /\ proc' = "up" /\ ~lost'
        /\ \A c \in Threads : Cb(c) \in Ends /\ Main(c) \in Ends
        /\ \A u \in Threads : HandlerOwns(u) /\ Greeting(u)
    BY EndsOfClients DEF Clients, Sound, Owned
  <1>1. /\ \A f \in Fds, c \in Clients : fdTable[f] = Cb(c) => fdTable'[f] = Cb(c)
        /\ \A f \in Fds, c \in Clients : fdTable[f] = Main(c) =>
                \/ fdTable'[f] = Main(c)
                \/ Handler(c) /\ pc[c] = "close"
    BY DescriptorsKept DEF Owned
  <1>2. \A f : Keepable(f) => \/ \E c \in Clients : f \in Fds /\ fdTable'[f] = Cb(c)
                              \/ f = NoFd /\ "shortRead" \in Events
    BY <1>1 DEF Keepable, HasCb, Has
  <1>3. /\ \A u \in Threads \ {t} : h'[u] = h[u] /\ pc'[u] = pc[u]
        /\ h'[t].client_socket = h[t].client_socket
        /\ pc[t] # "socket" => h'[t].client_socket_fd = h[t].client_socket_fd
        /\ pc[t] # "recv" => h'[t].address = h[t].address
    BY HandlerLocals DEF Typed
  <1>4. /\ UNCHANGED dir
        /\ \A u \in Threads \ {t} : request'[u] = request[u] /\ answer'[u] = answer[u]
        /\ answer'[t] \in {answer[t], NoAnswer}
        /\ \/ request'[t] = request[t]
           \/ request'[t].kind # "addUser"
           \/ /\ request'[t].kind = "addUser"
              /\ request'[t].socket_fd = h[t].client_socket_fd
              /\ pc[t] = "recv" /\ pc'[t] = "signup"
    <2>1. NoCall.kind # "addUser"
      BY DEF NoCall
    <2> QED BY <2>1, HandlerDir
  <1>5. TableOwns'
    BY <1>2, <1>4 DEF Owned, TableOwns, Keepable, HasCb, Has
  <1>6. ASSUME NEW u \in Threads, u # t
        PROVE  HandlerOwns(u)'
    <2>1. /\ h'[u] = h[u] /\ pc'[u] = pc[u] /\ request'[u] = request[u] /\ answer'[u] = answer[u]
          /\ HandlerOwns(u)
      BY <1>0, <1>3, <1>4, <1>6
    <2>2. peer[Cb(u)] = "none" <=> peer'[Cb(u)] = "none"
      BY <1>6, HandlerNet
    <2>3. answer'[u].user # NoUser /\ answer'[u].user.socket_fd # Uninit
            => Keepable(answer[u].user.socket_fd)
      BY <2>1 DEF HandlerOwns
    <2> QED BY <2>1, <2>2, <2>3, OwnsKept
  <1>7. HandlerOwns(t)'
    <2>0. HandlerOwns(t) /\ Greeting(t) /\ pc[t] \notin {"none", "done"}
      BY <1>0, HandlerPc
    <2>1. peer'[Cb(t)] # "none" => Has(h[t].client_socket_fd, Cb(t))'
      <3>1. CASE peer[Cb(t)] # "none"
        <4>1. pc[t] # "socket"
          BY <2>0, <3>1 DEF Greeting
        <4> QED BY <1>0, <1>1, <1>3, <2>0, <3>1, <4>1 DEF HandlerOwns, Has
      <3>2. CASE peer[Cb(t)] = "none"
        BY <3>2, HandlerNet DEF Has
      <3> QED BY <3>1, <3>2
    <2>2. Serving(t)' => Has(h[t].client_socket, Main(t))'
      <3>1. Serving(t)' => Serving(t) /\ pc[t] # "close"
        BY <2>0, HandlerPc DEF Serving
      <3> QED BY <1>0, <1>1, <1>3, <2>0, <3>1 DEF HandlerOwns, Has
    <2>3. ASSUME pc[t] = "recv"
          PROVE  /\ h'[t].address \in {t, NoThread}
                 /\ pc'[t] = "signup" /\ peer[Cb(t)] = "none" => "shortRead" \in Events
      <3>1. /\ h[t].file = Main(t)
            /\ toServer[Main(t)] \in Seq(Items)
            /\ h[t].address \in {t, NoThread}
        BY <1>0, <2>0, <2>3 DEF HandlerOwns, Typed, TypeOK
      <3>2. CASE pc'[t] = "close" /\ h'[t].address = h[t].address
        BY <3>1, <3>2
      <3>3. CASE ~(pc'[t] = "close" /\ h'[t].address = h[t].address)
        <4> DEFINE s == toServer[Main(t)]
        <4>1. /\ s # <<>>
              /\ \E r \in Reads(s) :
                    /\ \/ pc'[t] = "close"
                       \/ <<r.msg.cmd, pc'[t]>> \in Branches
                    /\ \/ h'[t].address = h[t].address
                       \/ pc'[t] = "socket" /\ r.msg.cmd = "CLIENT" /\ h'[t].address = r.msg.from
          BY <1>0, <2>3, <3>1, <3>3, HandlerRecv
        <4>2. PICK r \in Reads(s) :
                    /\ \/ pc'[t] = "close"
                       \/ <<r.msg.cmd, pc'[t]>> \in Branches
                    /\ \/ h'[t].address = h[t].address
                       \/ pc'[t] = "socket" /\ r.msg.cmd = "CLIENT" /\ h'[t].address = r.msg.from
          BY <4>1
        <4>3. /\ r.msg.cmd = "CLIENT" => s[1].cmd = "CLIENT" /\ r.msg.from \in {s[1].from, NoThread}
              /\ "shortRead" \notin Events => r.msg = s[1]
              /\ 1 \in 1..Len(s)
          BY <3>1, <4>1, ReadsShape
        <4>4. s[1].cmd = "CLIENT" => s[1].from = t
          BY <2>0, <4>3 DEF Greeting
        <4>5. h'[t].address \in {t, NoThread}
          BY <3>1, <4>2, <4>3, <4>4
        <4>6. pc'[t] = "signup" => r.msg.cmd = "SIGNUP"
          BY <4>2 DEF Branches
        <4>7. peer[Cb(t)] = "none" /\ "shortRead" \notin Events => s[1].cmd = "CLIENT"
          BY <2>0, <2>3 DEF Greeting
        <4> QED BY <4>3, <4>5, <4>6, <4>7
      <3> QED BY <3>2, <3>3
    <2>4. h'[t].address \in {t, NoThread}
      BY <1>3, <2>0, <2>3 DEF HandlerOwns
    <2>10. peer'[Cb(t)] = "none" /\ pc'[t] \notin {"connect", "close", "closeAgain", "done"}
             => h'[t].client_socket_fd = NoFd
      <3> SUFFICES ASSUME peer'[Cb(t)] = "none",
                          pc'[t] \notin {"connect", "close", "closeAgain", "done"}
                   PROVE  h'[t].client_socket_fd = NoFd
        OBVIOUS
      <3>1. peer[Cb(t)] = "none" /\ ~(pc[t] = "connect" /\ pc'[t] = "hello")
        BY HandlerNet
      <3>2. pc[t] \notin {"socket", "connect", "close", "closeAgain", "done"}
        BY <2>0, <3>1, HandlerPc
      <3> QED BY <1>3, <2>0, <3>1, <3>2 DEF HandlerOwns
    <2>5. pc'[t] = "recv" => h'[t].file = Main(t)
      <3>1. pc'[t] = "recv" => pc[t] = "loop" /\ h'[t].file = File(h[t].client_socket)
        BY <1>0, HandlerPc
      <3>2. pc[t] = "loop" => File(h[t].client_socket) = Main(t)
        BY <1>0, <2>0, FileHas DEF HandlerOwns, Serving
      <3> QED BY <3>1, <3>2
    <2>6. pc'[t] = "await" => \E c \in Clients : h'[t].file = Cb(c)
      <3>1. pc'[t] = "await" => pc[t] = "answer" /\ h'[t].file = File(h[t].receiver_fd)
        BY HandlerPc
      <3>2. pc'[t] = "await" => h'[t].file \in Ends
        BY TypedStep DEF Typed, RecvOnEnd
      <3>3. File(NoFd) \notin Ends
        BY Distinct DEF File
      <3>4. pc'[t] = "await" => \E c \in Clients : Has(h[t].receiver_fd, Cb(c))
        BY <2>0, <3>1, <3>2, <3>3 DEF HandlerOwns, Keepable, HasCb
      <3> QED BY <1>0, <3>1, <3>4, FileHas
    <2>7. pc'[t] \in {"invite", "answer"} => Keepable(h[t].receiver_fd)'
      <3>1. pc'[t] = "answer" => pc[t] = "invite" /\ h'[t].receiver_fd = h[t].receiver_fd
        BY HandlerPc
      <3>2. pc'[t] = "invite" =>
                /\ answer[t].user # NoUser
                /\ answer[t].user.socket_fd # Uninit
                /\ h'[t].receiver_fd = answer[t].user.socket_fd
        BY <1>0, HandlerPc
      <3> QED BY <1>2, <2>0, <3>1, <3>2 DEF HandlerOwns, Keepable, HasCb, Has
    <2>8. request'[t].kind = "addUser" => Keepable(request[t].socket_fd)'
      <3>1. CASE request'[t] = request[t]
        BY <1>2, <2>0, <3>1 DEF HandlerOwns, Keepable, HasCb, Has
      <3>2. CASE /\ request'[t].socket_fd = h[t].client_socket_fd
                 /\ pc[t] = "recv" /\ pc'[t] = "signup"
        <4>1. \/ Has(h[t].client_socket_fd, Cb(t))
              \/ h[t].client_socket_fd = NoFd /\ "shortRead" \in Events
          BY <2>0, <2>3, <3>2 DEF HandlerOwns
        <4>2. Keepable(h[t].client_socket_fd)
          BY <1>0, <4>1 DEF Keepable, HasCb
        <4> QED BY <1>2, <3>2, <4>2 DEF Keepable, HasCb, Has
      <3> QED BY <1>4, <3>1, <3>2
    <2>9. answer'[t].user # NoUser /\ answer'[t].user.socket_fd # Uninit
            => Keepable(answer[t].user.socket_fd)'
      <3>1. CASE answer'[t] = answer[t]
        BY <1>2, <2>0, <3>1 DEF HandlerOwns, Keepable, HasCb, Has
      <3>2. CASE answer'[t] = NoAnswer
        BY <3>2 DEF NoAnswer
      <3> QED BY <1>4, <3>1, <3>2
    <2> QED BY <2>1, <2>2, <2>4, <2>5, <2>6, <2>7, <2>8, <2>9, <2>10 DEF HandlerOwns
  <1> QED BY <1>5, <1>6, <1>7

\* A step that leaves a client's handler and its stream alone keeps its greeting.
LEMMA GreetingKept ==
    ASSUME NEW c \in Threads, Greeting(c),
           pc'[c] = pc[c], toServer'[Main(c)] = toServer[Main(c)],
           peer[Cb(c)] = "none" <=> peer'[Cb(c)] = "none",
           (\E i \in 1..Len(backlog') : backlog'[i] = c) => \E i \in 1..Len(backlog) : backlog[i] = c
    PROVE  Greeting(c)'
  BY DEF Greeting

\* main() and the store keep what the handlers and the table own.
LEMMA OwnedInner ==
    ASSUME Typed, Admission, Owned, [Next]_vars, Sound',
           \/ MainCheck \/ Accept \/ Sigint \/ MainJoin
           \/ \E t \in Threads : StoreStep(t)
           \/ StoreCorrupted
    PROVE  Owned'
  <1>0. /\ Clients = Threads /\ backlog \in Seq(Clients)
        /\ DOMAIN h = Threads /\ DOMAIN pc = Threads /\ DOMAIN fdTable = Fds
        /\ \A u \in Threads : HandlerOwns(u) /\ Greeting(u)
    BY DEF Clients, Owned, Typed, TypeOK
  <1>1. UNCHANGED netVars
    BY DEF MainCheck, Accept, Sigint, MainJoin, StoreStep, StoreCorrupted
  <1>2. \A f : Keepable(f) => \/ \E c \in Clients : f \in Fds /\ fdTable'[f] = Cb(c)
                              \/ f = NoFd /\ "shortRead" \in Events
    <2>1. \A f \in Fds, c \in Clients : fdTable[f] = Cb(c) => fdTable'[f] = Cb(c)
      BY DescriptorsKept DEF Owned
    <2> QED BY <2>1 DEF Keepable, HasCb, Has
  <1>30. CASE \E t \in Threads : Appear(t) /\ StoreStep(t)
    <2> PICK t \in Threads : Appear(t) /\ StoreStep(t)
      BY <1>30
    <2>1. UNCHANGED <<pc, h, backlog>> /\ DirTypeOK
      BY DEF StoreStep, clientVars, Typed, TypeOK
    <2>2. /\ UNCHANGED <<request, answer>>
          /\ \A n \in Names : dir'[n] # NoUser => dir'[n] = dir[n] \/ dir'[n].socket_fd = Uninit
      BY <2>1, AppearEffect
    <2>3. TableOwns'
      <3> SUFFICES ASSUME NEW n \in Names, dir'[n] # NoUser, dir'[n].socket_fd # Uninit
                   PROVE  Keepable(dir[n].socket_fd)'
        BY DEF TableOwns
      <3>1. \E f : f = dir'[n].socket_fd /\ Keepable(f)
        BY <2>2 DEF Owned, TableOwns
      <3> QED BY <1>2, <3>1 DEF Keepable, HasCb, Has
    <2>4. ASSUME NEW u \in Threads
          PROVE  HandlerOwns(u)'
      <3>1. answer'[u].user # NoUser /\ answer'[u].user.socket_fd # Uninit
               => \E f : f = answer'[u].user.socket_fd /\ Keepable(f)
        BY <1>0, <2>2 DEF HandlerOwns
      <3> QED BY <1>1, <2>1, <2>2, <3>1, OwnsKept DEF netVars
    <2>5. \A c \in Threads : Greeting(c)'
      BY <1>0, <1>1, <2>1, GreetingKept DEF netVars
    <2> QED BY <2>3, <2>4, <2>5 DEF Owned
  <1>3. CASE \E t \in Threads : Apply(t) /\ StoreStep(t)
    <2> PICK t \in Threads : Apply(t) /\ StoreStep(t)
      BY <1>3
    <2>1. Apply(t) /\ UNCHANGED <<pc, h, backlog>> /\ DirTypeOK
      BY DEF StoreStep, clientVars, Typed, TypeOK
    <2>2. /\ UNCHANGED request
          /\ \A u \in Threads \ {t} : answer'[u] = answer[u]
          /\ \A n \in Names : dir'[n] # NoUser =>
                \/ dir[n] # NoUser /\ dir'[n].socket_fd = dir[n].socket_fd
                \/ dir'[n].socket_fd = Uninit
                \/ request[t].kind = "addUser" /\ dir'[n].socket_fd = request[t].socket_fd
          /\ answer'[t].user # NoUser => answer'[t].user = dir[request[t].name]
      BY <2>1, ApplyEffect
    <2>3. TableOwns'
      <3> SUFFICES ASSUME NEW n \in Names, dir'[n] # NoUser, dir'[n].socket_fd # Uninit
                   PROVE  Keepable(dir[n].socket_fd)'
        BY DEF TableOwns
      <3>1. \E f : f = dir'[n].socket_fd /\ Keepable(f)
        BY <1>0, <2>2 DEF Owned, TableOwns, HandlerOwns
      <3> QED BY <1>2, <3>1 DEF Keepable, HasCb, Has
    <2>4. ASSUME NEW u \in Threads
          PROVE  HandlerOwns(u)'
      <3>1. answer'[u].user # NoUser /\ answer'[u].user.socket_fd # Uninit
               => \E f : f = answer'[u].user.socket_fd /\ Keepable(f)
        <4>1. CASE u # t
          BY <1>0, <2>2, <4>1 DEF HandlerOwns
        <4>2. CASE u = t
          <5>1. request[t].name \in Names
            <6>1. request[t].kind # "none" => request[t].name \in Names
              BY <2>1 DEF DirTypeOK, Calls, AddUserCalls, LoginUserCalls, NameCalls, NoCall
            <6> QED BY <2>1, <6>1 DEF Apply
          <5> QED BY <2>2, <4>2, <5>1 DEF Owned, TableOwns
        <4> QED BY <4>1, <4>2
      <3> QED BY <1>1, <2>1, <2>2, <3>1, OwnsKept DEF netVars
    <2>5. \A c \in Threads : Greeting(c)'
      BY <1>0, <1>1, <2>1, GreetingKept DEF netVars
    <2> QED BY <2>3, <2>4, <2>5 DEF Owned
  <1>4. ASSUME UNCHANGED <<dir, request, answer>>
        PROVE  /\ TableOwns'
               /\ \A u \in Threads : h'[u] = h[u] /\ pc'[u] = pc[u] => HandlerOwns(u)'
    <2>1. TableOwns'
      BY <1>2, <1>4 DEF Owned, TableOwns, Keepable, HasCb, Has
    <2>2. ASSUME NEW u \in Threads, h'[u] = h[u], pc'[u] = pc[u]
          PROVE  HandlerOwns(u)'
      <3>1. answer'[u].user # NoUser /\ answer'[u].user.socket_fd # Uninit
               => \E f : f = answer'[u].user.socket_fd /\ Keepable(f)
        BY <1>0, <1>4 DEF HandlerOwns
      <3> QED BY <1>1, <1>4, <2>2, <3>1, OwnsKept DEF netVars
    <2> QED BY <2>1, <2>2
  <1>5. CASE MainCheck \/ Sigint \/ MainJoin \/ StoreCorrupted
    <2>1. UNCHANGED <<dir, request, answer, pc, h, backlog>>
      BY <1>5 DEF MainCheck, Sigint, MainJoin, StoreCorrupted, Break, dirVars, clientVars
    <2>2. \A c \in Threads : Greeting(c)'
      BY <1>0, <1>1, <2>1, GreetingKept DEF netVars
    <2> QED BY <1>4, <2>1, <2>2 DEF Owned
  <1>6. CASE Accept
    <2>0. PICK c \in Threads : c = Head(backlog)
      BY <1>0, <1>6 DEF Accept
    <2>1. /\ UNCHANGED <<dir, request, answer>>
          /\ mainPc = "accept" /\ backlog # <<>> /\ backlog' = Tail(backlog)
          /\ fdTable' = [fdTable EXCEPT ![acceptFd] = Main(c)]
      BY <1>6, <2>0 DEF Accept, dirVars
    <2>2. /\ c = backlog[1] /\ 1 \in 1..Len(backlog)
          /\ \A i \in 1..Len(backlog') : i + 1 \in 1..Len(backlog) /\ backlog'[i] = backlog[i + 1]
      BY <1>0, <2>0, <2>1
    <2>3. /\ pc[c] = "none" /\ acceptFd \in Fds /\ peer[Cb(c)] = "none"
          /\ "shortRead" \notin Events =>
                toServer[Main(c)] # <<>> /\ toServer[Main(c)][1].cmd = "CLIENT"
      <3>1. pc[c] = "none" /\ acceptFd \in Fds
        BY <2>1, <2>2 DEF Admission, Has
      <3>2. Greeting(c) /\ \E i \in 1..Len(backlog) : backlog[i] = c
        BY <1>0, <2>2
      <3> QED BY <3>1, <3>2 DEF Greeting
    <2>4. \/ UNCHANGED <<pc, h>>
          \/ /\ pc' = [pc EXCEPT ![c] = "loop"]
             /\ h' = [h EXCEPT ![c] = NewHandler(c, acceptFd)]
      BY <1>6, <2>0 DEF Accept
    <2>5. \A u \in Threads : u # c => h'[u] = h[u] /\ pc'[u] = pc[u]
      BY <1>0, <2>4
    <2>6. ASSUME NEW u \in Threads, pc'[u] = pc[u]
          PROVE  Greeting(u)'
      <3>1. (\E i \in 1..Len(backlog') : backlog'[i] = u) => \E i \in 1..Len(backlog) : backlog[i] = u
        BY <2>2
      <3> QED BY <1>0, <1>1, <2>6, <3>1, GreetingKept DEF netVars
    <2>7. CASE UNCHANGED <<pc, h>>
      BY <1>4, <2>1, <2>6, <2>7 DEF Owned
    <2>8. CASE /\ pc' = [pc EXCEPT ![c] = "loop"]
               /\ h' = [h EXCEPT ![c] = NewHandler(c, acceptFd)]
      <3>1. pc'[c] = "loop" /\ h'[c] = NewHandler(c, acceptFd)
        BY <1>0, <2>2, <2>8
      <3>2. Greeting(c)'
        <4>1. Greeting(c)
          BY <1>0, <2>2
        <4> QED BY <1>1, <2>3, <3>1, <4>1 DEF Greeting, netVars
      <3>3. HandlerOwns(c)'
        <4>1. h'[c].client_socket = acceptFd /\ h'[c].address = c /\ h'[c].client_socket_fd = NoFd
          BY <3>1 DEF NewHandler
        <4>2. Has(h[c].client_socket, Main(c))'
          BY <1>0, <2>1, <2>3, <4>1 DEF Has
        <4>3. HandlerOwns(c)
          BY <1>0, <2>2
        <4>4. request'[c].kind = "addUser" => Keepable(request[c].socket_fd)'
          BY <1>2, <2>1, <4>3 DEF HandlerOwns, Keepable, HasCb, Has
        <4>5. answer'[c].user # NoUser /\ answer'[c].user.socket_fd # Uninit
                => Keepable(answer[c].user.socket_fd)'
          BY <1>2, <2>1, <4>3 DEF HandlerOwns, Keepable, HasCb, Has
        <4>6. peer'[Cb(c)] = "none"
          BY <1>1, <2>3 DEF netVars
        <4> QED BY <3>1, <4>1, <4>2, <4>4, <4>5, <4>6 DEF HandlerOwns
      <3> QED BY <1>4, <2>1, <2>5, <2>6, <3>2, <3>3 DEF Owned
    <2> QED BY <2>4, <2>7, <2>8
  <1> QED BY <1>3, <1>30, <1>5, <1>6 DEF StoreStep

\* What the clients send and their ends of the connections leave the server what
\* it owns.
LEMMA OwnedEnvironment ==
    ASSUME Typed, Admission, Owned, [Next]_vars, Sound', Environment
    PROVE  Owned'
  <1>0. /\ Clients = Threads
        /\ DOMAIN peer = Ends /\ DOMAIN toServer = Ends
        /\ \A u \in Threads : HandlerOwns(u) /\ Greeting(u)
        /\ \A c, d \in Threads : /\ Cb(c) # Main(d) /\ (Main(c) = Main(d) => c = d)
                                 /\ (Cb(c) = Cb(d) => c = d)
        /\ \A c \in Threads : Cb(c) \in Ends /\ Main(c) \in Ends
    BY DEF Clients, Owned, Typed, TypeOK, Cb, Main, Ends
  <1>00. \A c \in Threads : toServer[Main(c)] \in Seq(Items)
    BY <1>0 DEF Typed, TypeOK
  <1> PICK c \in Clients : \/ ClientConnects(c) \/ ClientSends(c)
                          \/ ClientListener(c) \/ ListenerEnds(c) \/ ClientLeaves(c)
    BY DEF Environment
  <1>1. UNCHANGED <<dir, request, answer, fdTable, pc, h>> /\ UNCHANGED dirVars
    BY DEF ClientConnects, ClientSends, ClientListener, ListenerEnds, ClientLeaves, ClientFrame,
           dirVars
  <1>2. \A u \in Threads : peer[Cb(u)] = "none" <=> peer'[Cb(u)] = "none"
    <2>1. CASE ClientConnects(c)
      BY <1>0, <2>1 DEF ClientConnects
    <2>2. CASE ClientSends(c)
      BY <2>2 DEF ClientSends
    <2>3. CASE ClientListener(c)
      BY <1>0, <2>3 DEF ClientListener
    <2>4. CASE ListenerEnds(c)
      BY <1>0, <2>4 DEF ListenerEnds, Closed
    <2>5. CASE ClientLeaves(c)
      BY <1>0, <2>5 DEF ClientLeaves, Closed
    <2> QED BY <2>1, <2>2, <2>3, <2>4, <2>5
  <1>3. TableOwns'
    BY <1>1 DEF Owned, TableOwns, Keepable, HasCb, Has
  <1>4. ASSUME NEW u \in Threads
        PROVE  HandlerOwns(u)'
    <2>1. answer'[u].user # NoUser /\ answer'[u].user.socket_fd # Uninit
             => \E f : f = answer'[u].user.socket_fd /\ Keepable(f)
      BY <1>0, <1>1 DEF HandlerOwns
    <2> QED BY <1>1, <1>2, <2>1, OwnsKept
  <1>5. CASE ClientConnects(c)
    <2>1. /\ client[c] = "new" /\ backlog' = Append(backlog, c)
          /\ toServer' = [toServer EXCEPT ![Main(c)] = <<[cmd |-> "CLIENT", from |-> c]>>]
      BY <1>5 DEF ClientConnects
    <2>2. ASSUME NEW u \in Threads, u # c
          PROVE  Greeting(u)'
      <3>1. toServer'[Main(u)] = toServer[Main(u)]
        BY <1>0, <2>1, <2>2
      <3>2. (\E i \in 1..Len(backlog') : backlog'[i] = u) => \E i \in 1..Len(backlog) : backlog[i] = u
        <4>1. backlog \in Seq(Clients)
          BY DEF Typed, TypeOK
        <4> QED BY <2>1, <2>2, <4>1
      <3> QED BY <1>0, <1>1, <1>2, <3>1, <3>2, GreetingKept
    <2>3. Greeting(c)'
      <3> DEFINE m == [cmd |-> "CLIENT", from |-> c]
      <3>1. pc[c] = "none" /\ peer[Cb(c)] = "none"
        BY <1>0, <2>1 DEF Admission, Greeting
      <3>2. toServer'[Main(c)] = <<m>> /\ m.cmd = "CLIENT" /\ m.from = c
        BY <1>0, <2>1
      <3> HIDE DEF m
      <3>3. <<m>> # <<>> /\ Len(<<m>>) = 1 /\ <<m>>[1] = m
        OBVIOUS
      <3>4. \A i \in 1..Len(toServer'[Main(c)]) : i = 1 /\ toServer'[Main(c)][i] = m
        BY <3>2, <3>3
      <3> QED BY <1>0, <1>1, <1>2, <3>1, <3>2, <3>3, <3>4 DEF Greeting
    <2> QED BY <1>3, <1>4, <2>2, <2>3 DEF Owned
  <1>6. CASE ClientSends(c)
    <2>1. /\ toServer' = [toServer EXCEPT ![Main(c)] = Append(@, Head(todo[c]))]
          /\ UNCHANGED backlog /\ Head(todo[c]).cmd # "CLIENT"
          /\ Head(todo[c]) \in Items
      <3>1. /\ todo[c] # <<>>
            /\ toServer' = [toServer EXCEPT ![Main(c)] = Append(@, Head(todo[c]))]
            /\ UNCHANGED backlog
        BY <1>6 DEF ClientSends
      <3>2. Head(todo[c]) \in MenuCommand
        BY <3>1 DEF Typed, TypeOK
      <3> QED BY <3>1, <3>2, MenuParts DEF Items
    <2>2. ASSUME NEW u \in Threads, u # c
          PROVE  Greeting(u)'
      <3>1. toServer'[Main(u)] = toServer[Main(u)]
        BY <1>0, <2>1, <2>2
      <3> QED BY <1>0, <1>1, <1>2, <2>1, <3>1, GreetingKept
    <2>3. Greeting(c)'
      <3> DEFINE s == toServer[Main(c)]
                 q == toServer'[Main(c)]
                 m == Head(todo[c])
      <3>1. q = Append(s, m) /\ s \in Seq(Items)
        BY <1>0, <1>00, <2>1
      <3>2. Len(q) = Len(s) + 1 /\ Len(s) \in Nat /\ q[Len(s) + 1] = m
            /\ (\A i \in 1..Len(s) : q[i] = s[i]) /\ q # <<>>
        BY <2>1, <3>1
      <3>3. s # <<>> => 1 \in 1..Len(s)
        BY <3>1
      <3>4. \A i \in 1..Len(q) : q[i].cmd = "CLIENT" => i \in 1..Len(s) /\ s[i] = q[i]
        BY <2>1, <3>2
      <3>5. Greeting(c)
        BY <1>0
      <3>6. pc'[c] = pc[c] /\ (peer[Cb(c)] = "none" <=> peer'[Cb(c)] = "none") /\ UNCHANGED backlog
        BY <1>0, <1>1, <1>2, <2>1
      <3>7. \A i \in 1..Len(q) : q[i].cmd = "CLIENT" =>
              /\ i = 1 /\ q[i].from = c
              /\ peer'[Cb(c)] = "none"
              /\ pc'[c] \in {"none", "loop", "recv", "close", "closeAgain", "done"}
        BY <3>4, <3>5, <3>6 DEF Greeting
      <3>8. peer'[Cb(c)] = "none" /\ "shortRead" \notin Events
              /\ (pc'[c] \in {"loop", "recv"} \/ \E i \in 1..Len(backlog') : backlog'[i] = c)
              => q # <<>> /\ q[1].cmd = "CLIENT"
        BY <3>2, <3>3, <3>5, <3>6 DEF Greeting
      <3> HIDE DEF s, m
      <3> QED BY <3>5, <3>6, <3>7, <3>8 DEF Greeting
    <2> QED BY <1>3, <1>4, <2>2, <2>3 DEF Owned
  <1>7. CASE ClientListener(c) \/ ListenerEnds(c) \/ ClientLeaves(c)
    <2>1. UNCHANGED backlog /\ \A u \in Threads : toServer'[Main(u)] = toServer[Main(u)]
      <3>1. CASE ClientListener(c)
        BY <1>0, <3>1 DEF ClientListener, clientVars
      <3>2. CASE ListenerEnds(c) \/ ClientLeaves(c)
        BY <3>2 DEF ListenerEnds, ClientLeaves, clientVars
      <3> QED BY <1>7, <3>1, <3>2
    <2>2. \A u \in Threads : Greeting(u)'
      BY <1>0, <1>1, <1>2, <2>1, GreetingKept
    <2> QED BY <1>3, <1>4, <2>2 DEF Owned
  <1> QED BY <1>5, <1>6, <1>7

\* The inductive invariant of the descriptors.
Keeping == Typed /\ Admission /\ (Sound => Owned)

\* Nobody owns anything at the start.
LEMMA KeepingInit ==
    ASSUME Init
    PROVE  Keeping
  <1>1. Typed
    BY TypedInit
  <1>2. Admission
    <2>1. backlog = <<>> /\ mainPc # "accept" /\ \A c \in Clients : pc[c] = "none"
      BY DEF Init, Clients
    <2> QED BY <2>1 DEF Admission
  <1>3. /\ \A t \in Threads : request[t] = NoCall /\ answer[t] = NoAnswer /\ pc[t] = "none"
        /\ \A t \in Threads : h[t] = NewHandler(t, NoFd)
        /\ \A n \in Names : dir[n] = NoUser
        /\ \A e \in Ends : toServer[e] = <<>> /\ peer[e] = "none"
        /\ backlog = <<>>
    BY DEF Init, DirInit
  <1>4. ASSUME NEW t \in Threads
        PROVE  HandlerOwns(t) /\ Greeting(t)
    <2>1. Main(t) \in Ends /\ Cb(t) \in Ends /\ h[t].address = t /\ h[t].client_socket_fd = NoFd
      <3>1. NewHandler(t, NoFd).address = t /\ NewHandler(t, NoFd).client_socket_fd = NoFd
        BY DEF NewHandler
      <3> QED BY <1>3, <3>1, EndsOfClients DEF Clients
    <2>2. HandlerOwns(t)
      BY <1>3, <2>1 DEF HandlerOwns, Serving, NoCall, NoAnswer
    <2>3. Greeting(t)
      BY <1>3, <2>1 DEF Greeting
    <2> QED BY <2>2, <2>3
  <1>5. TableOwns
    BY <1>3 DEF TableOwns
  <1> QED BY <1>1, <1>2, <1>4, <1>5 DEF Keeping, Owned

\* Every step keeps what is owned.
LEMMA KeepingStep ==
    ASSUME Keeping, [Next]_vars
    PROVE  Keeping'
  <1>1. Typed' /\ Admission'
    BY TypedStep, AdmissionStep DEF Keeping
  <1>2. ASSUME Sound' PROVE Owned'
    <2>1. Typed /\ Admission /\ Owned
      BY <1>2, SoundBefore DEF Keeping
    <2>2. CASE \E t \in Threads : Handler(t)
      <3> PICK t \in Threads : Handler(t)
        BY <2>2
      <3>1. \A c \in Threads : Greeting(c)'
        BY <1>2, <2>1, GreetingHandler
      <3>2. (\A u \in Threads : HandlerOwns(u)') /\ TableOwns'
        BY <1>2, <2>1, OwnsHandler
      <3> QED BY <3>1, <3>2 DEF Owned
    <2>3. CASE \/ MainCheck \/ Accept \/ Sigint \/ MainJoin
               \/ \E t \in Threads : StoreStep(t)
               \/ StoreCorrupted
      BY <1>2, <2>1, <2>3, OwnedInner
    <2>4. CASE Environment
      BY <1>2, <2>1, <2>4, OwnedEnvironment
    <2>5. CASE UNCHANGED vars
      <3>1. /\ UNCHANGED <<dir, request, answer, fdTable, pc, h, backlog>>
            /\ UNCHANGED <<toServer, peer>>
        BY <2>5 DEF vars, dirVars, netVars, clientVars
      <3>2. \A t \in Threads : HandlerOwns(t)'
        BY <2>1, <3>1 DEF Owned, HandlerOwns, Serving, Keepable, HasCb, Has
      <3>3. \A t \in Threads : Greeting(t)'
        BY <2>1, <3>1 DEF Owned, Greeting
      <3>4. TableOwns'
        BY <2>1, <3>1 DEF Owned, TableOwns, Keepable, HasCb, Has
      <3> QED BY <3>2, <3>3, <3>4 DEF Owned
    <2> QED BY <2>2, <2>3, <2>4, <2>5 DEF Next
  <1> QED BY <1>1, <1>2 DEF Keeping

\* What is kept, invariantly.
LEMMA KeepingInvariant == Spec => []Keeping
  <1>1. Init => Keeping
    BY KeepingInit
  <1>2. Keeping /\ [Next]_vars => Keeping'
    BY KeepingStep
  <1> QED BY <1>1, <1>2, PTL DEF Spec

\* However many handlers start, end and call each other, a descriptor that a
\* handler or the user table keeps denotes the connection it was stored for, as
\* long as no second close() hit a number that had been given away
\* (server.cpp:365) and no uninitialized socket_fd_ was used (179).
THEOREM DescriptorsStayOwned == Spec => []DescriptorsOwned
  <1>1. Keeping => DescriptorsOwned
    <2> SUFFICES ASSUME Owned
                 PROVE  CbIntact /\ MainIntact /\ TableIntact
      BY DEF Keeping, DescriptorsOwned, Sound
    <2>0. \A c \in Threads : Cb(c) \in Ends /\ Main(c) \in Ends /\ c \in Clients
      BY EndsOfClients DEF Clients
    <2>1. CbIntact
      BY <2>0, FileHas DEF CbIntact, Owned, HandlerOwns
    <2>2. MainIntact
      BY <2>0, FileHas DEF MainIntact, Owned, HandlerOwns
    <2>3. \A f : Keepable(f) => Kept(f)
      BY Distinct, EndsOfClients DEF Keepable, Kept, HasCb, Has, DenotesCb, File
    <2>4. TableIntact
      BY <2>3 DEF TableIntact, Owned, TableOwns, HandlerOwns
    <2> QED BY <2>1, <2>2, <2>4
  <1> QED BY <1>1, KeepingInvariant, PTL

-----------------------------------------------------------------------------
(***************************************************************************)
(* Replies come in step.                                                   *)
(***************************************************************************)

Awaited == {"SIGNUP", "LOGIN", "LOGOUT", "EXIT"}

\* A command of kind k is in stream s.
InStream(s, k) == \E i \in 1..Len(s) : s[i].cmd = k

\* Handler c is in the branch that will reply to k.
InService(c, k) ==
    <<pc[c], k>> \in {<<"signup", "SIGNUP">>, <<"login", "LOGIN">>, <<"logout", "LOGOUT">>,
                      <<"exit", "EXIT">>}

Pending(c, k) == InStream(toServer[Main(c)], k) \/ InService(c, k)

\* Behind a command that is answered the stream holds at most the EXIT of an
\* interrupted exit_user().
Orderly(s) ==
    \A i, j \in 1..Len(s) :
        i < j /\ s[i].cmd \in Awaited => s[i].cmd = "LOGOUT" /\ s[j].cmd = "EXIT"

\* The replies a client may find after it has sent l.
RepliesTo(l) ==
    {<<>>, <<ReplyMsg(l)>>} \cup
    (IF l = "EXIT" THEN {<<ReplyMsg("LOGOUT")>>, <<ReplyMsg("LOGOUT"), ReplyMsg("EXIT")>>} ELSE {})

\* The commands of client c on their way to a reply, and the replies on theirs.
InStep(c) ==
    LET q == toClient[Main(c)]
        l == last[c]
    IN  /\ Orderly(toServer[Main(c)])
        /\ \A k \in Awaited : Pending(c, k) => k = l \/ (l = "EXIT" /\ k = "LOGOUT")
        /\ \A k \in Awaited : ~(InStream(toServer[Main(c)], k) /\ InService(c, k))
        /\ ~(InService(c, "EXIT") /\ InStream(toServer[Main(c)], "LOGOUT"))
        /\ q \in RepliesTo(l)
        /\ l \notin Awaited => q = <<>>
        /\ \A k \in Awaited : Pending(c, k) =>
              q = <<>> \/ (k = "EXIT" /\ q = <<ReplyMsg("LOGOUT")>>)

\* Reading from an orderly stream leaves one, and what it leaves was behind the
\* first message.
LEMMA ReadsOrderly ==
    ASSUME "shortRead" \notin Events,
           NEW s \in Seq(Items), s # <<>>, NEW r \in Reads(s), Orderly(s)
    PROVE  /\ Orderly(r.left)
           /\ \A k \in Awaited : InStream(r.left, k) => InStream(s, k)
           /\ \A k \in Awaited : InStream(r.left, k) /\ s[1].cmd \in Awaited
                => s[1].cmd = "LOGOUT" /\ k = "EXIT"
           /\ InStream(s, s[1].cmd)
  <1> DEFINE q == Tail(s)
  <1>1. r.left = q /\ Len(s) \in Nat \ {0}
    BY ReadsShape, LenProperties, EmptySeq
  <1>2. q \in Seq(Items) /\ Len(q) = Len(s) - 1 /\ \A i \in 1..Len(q) : q[i] = s[i + 1]
    BY HeadTailProperties
  <1> HIDE DEF q
  <1>3. \A i \in 1..Len(q) : i + 1 \in 2..Len(s) /\ i + 1 \in 1..Len(s)
    BY <1>1, <1>2
  <1>5. Orderly(q)
    <2> SUFFICES ASSUME NEW i \in 1..Len(q), NEW j \in 1..Len(q), i < j, q[i].cmd \in Awaited
                 PROVE  q[i].cmd = "LOGOUT" /\ q[j].cmd = "EXIT"
      BY DEF Orderly
    <2>1. i + 1 < j + 1
      BY <1>1, <1>2
    <2>2. q[i] = s[i + 1] /\ q[j] = s[j + 1] /\ i + 1 \in 1..Len(s) /\ j + 1 \in 1..Len(s)
      BY <1>2, <1>3
    <2>3. \A a, b \in 1..Len(s) :
            a < b /\ s[a].cmd \in Awaited => s[a].cmd = "LOGOUT" /\ s[b].cmd = "EXIT"
      BY DEF Orderly
    <2> QED BY <2>1, <2>2, <2>3
  <1>6. \A k \in Awaited : InStream(q, k) => \E j \in 2..Len(s) : s[j].cmd = k
    BY <1>2, <1>3 DEF InStream
  <1>7. \A j \in 2..Len(s) : j \in 1..Len(s) /\ 1 \in 1..Len(s) /\ 1 < j
    BY <1>1
  <1>8. \A k \in Awaited : InStream(q, k) => InStream(s, k)
    BY <1>6, <1>7 DEF InStream
  <1>9. \A k \in Awaited : InStream(q, k) /\ s[1].cmd \in Awaited => s[1].cmd = "LOGOUT" /\ k = "EXIT"
    BY <1>6, <1>7 DEF Orderly
  <1>10. InStream(s, s[1].cmd)
    BY <1>1 DEF InStream
  <1> QED BY <1>1, <1>5, <1>8, <1>9, <1>10

\* send() on a descriptor that denotes connection e puts the message there, or
\* nowhere.
LEMMA SendTo ==
    ASSUME Typed, NEW STATE f, NEW STATE m, NEW e \in Ends, Has(f, e), Send(f, m), proc' = "up"
    PROVE  /\ \A x \in Ends : x # e => toClient'[x] = toClient[x]
           /\ toClient'[e] = toClient[e] \/ toClient'[e] = Append(toClient[e], m)
  <1>1. File(f) = e /\ DOMAIN toClient = Ends
    BY FileHas DEF Typed, TypeOK
  <1> QED BY <1>1, Distinct DEF Send

\* As long as all is owned, a handler writes on a client's own connection only
\* the reply to the command it serves.
LEMMA HandlerReplies ==
    ASSUME Typed, Owned, NEW t \in Threads, Handler(t), proc' = "up", "shortRead" \notin Events
    PROVE  /\ \A c \in Threads : c # t => toClient'[Main(c)] = toClient[Main(c)]
           /\ \/ toClient'[Main(t)] = toClient[Main(t)]
              \/ \E k \in Awaited : /\ InService(t, k)
                                    /\ toClient'[Main(t)] = Append(toClient[Main(t)], ReplyMsg(k))
  <1>0. /\ HandlerOwns(t) /\ Greeting(t) /\ Clients = Threads
        /\ \A c, d \in Threads : Cb(c) # Main(d) /\ (Main(c) = Main(d) => c = d)
        /\ \A c \in Threads : Cb(c) \in Ends /\ Main(c) \in Ends
    BY DEF Owned, Clients, Cb, Main, Ends
  <1>1. ASSUME NEW STATE f, NEW STATE m, NEW c \in Threads, Has(f, Cb(c)), Send(f, m)
        PROVE  \A d \in Threads : toClient'[Main(d)] = toClient[Main(d)]
    BY <1>0, <1>1, SendTo
  <1>2. CASE Hello(t)
    <2>1. pc[t] = "hello" /\ Send(h[t].client_socket_fd, [cmd |-> "HELLO"])
      BY <1>2 DEF Hello, Step, HandlerAt
    <2>2. Has(h[t].client_socket_fd, Cb(t))
      BY <1>0, <2>1 DEF HandlerOwns, Greeting
    <2> QED BY <1>1, <2>1, <2>2
  <1>3. CASE SendInvite(t)
    <2>1. pc[t] = "invite" /\ Send(h[t].receiver_fd, InviteMsg(t))
      BY <1>3 DEF SendInvite, Step, HandlerAt
    <2>2. PICK c \in Threads : Has(h[t].receiver_fd, Cb(c))
      BY <1>0, <2>1 DEF HandlerOwns, Keepable, HasCb
    <2> QED BY <1>1, <2>1, <2>2
  <1>4. CASE Forward(t)
    <2>1. pc[t] = "forward"
          /\ Send(h[t].client_socket_fd, [cmd |-> "ACCEPT", sdp |-> h[t].sdp, re |-> h[t].re])
      BY <1>4 DEF Forward, EndCall, Step, HandlerAt
    <2>2. Has(h[t].client_socket_fd, Cb(t))
      BY <1>0, <2>1 DEF HandlerOwns, Greeting
    <2> QED BY <1>1, <2>1, <2>2
  <1>5. CASE ExitCb(t)
    <2>1. pc[t] = "exitCb" /\ Send(h[t].client_socket_fd, [cmd |-> "EXIT"])
      BY <1>5 DEF ExitCb, Step, HandlerAt
    <2>2. Has(h[t].client_socket_fd, Cb(t))
      BY <1>0, <2>1 DEF HandlerOwns, Greeting
    <2> QED BY <1>1, <2>1, <2>2
  <1>6. ASSUME NEW k \in Awaited, InService(t, k), Send(h[t].client_socket, ReplyMsg(k))
        PROVE  /\ \A c \in Threads : c # t => toClient'[Main(c)] = toClient[Main(c)]
               /\ \/ toClient'[Main(t)] = toClient[Main(t)]
                  \/ toClient'[Main(t)] = Append(toClient[Main(t)], ReplyMsg(k))
    <2>1. Has(h[t].client_socket, Main(t))
      BY <1>0, <1>6 DEF HandlerOwns, Serving, InService
    <2> QED BY <1>0, <1>6, <2>1, SendTo
  <1>7. CASE Reply(t)
    <2>1. PICK l \in {"signup", "login", "logout"} :
            pc[t] = l /\ Send(h[t].client_socket, [cmd |-> "reply", to |-> ReplyTo(l)])
      BY <1>7 DEF Reply, Step, HandlerAt
    <2>2. ReplyTo(l) \in Awaited /\ InService(t, ReplyTo(l))
      BY <2>1 DEF ReplyTo, Awaited, InService
    <2>3. Send(h[t].client_socket, ReplyMsg(ReplyTo(l)))
      BY <2>1 DEF ReplyMsg
    <2> QED BY <1>6, <2>2, <2>3
  <1>8. CASE Exit(t)
    <2>1. pc[t] = "exit" /\ Send(h[t].client_socket, [cmd |-> "reply", to |-> "EXIT"])
      BY <1>8 DEF Exit, Step, HandlerAt
    <2>2. "EXIT" \in Awaited /\ InService(t, "EXIT")
      BY <2>1 DEF Awaited, InService
    <2>3. Send(h[t].client_socket, ReplyMsg("EXIT"))
      BY <2>1 DEF ReplyMsg
    <2> QED BY <1>6, <2>2, <2>3
  <1>9. CASE UNCHANGED toClient
    BY <1>9
  <1> QED BY <1>2, <1>3, <1>4, <1>5, <1>7, <1>8, <1>9 DEF Handler, OwnStep, Loop, RecvEnd, Recv,
           Socket, Connect, NotLoggedIn, LoggedIn, KnownUser, GotUser, WaitAnswer, NoReply,
           GetAnswer, Close, CloseAgain, netVars

\* A step that adds nothing for client c, neither command nor reply, keeps it in
\* step.
LEMMA InStepKept ==
    ASSUME NEW c \in Threads, InStep(c),
           toServer'[Main(c)] = toServer[Main(c)],
           toClient'[Main(c)] \in {<<>>, toClient[Main(c)]},
           last'[c] = last[c],
           pc'[c] = pc[c] \/ pc'[c] \notin {"signup", "login", "logout", "exit"}
    PROVE  InStep(c)'
  <1>1. \A k \in Awaited : InService(c, k)' => InService(c, k)
    BY DEF InService
  <1>2. \A k \in Awaited : Pending(c, k)' => Pending(c, k)
    BY <1>1 DEF Pending
  <1>3. toClient'[Main(c)] \in RepliesTo(last'[c])
    BY DEF InStep, RepliesTo
  <1>4. "EXIT" \in Awaited
    BY DEF Awaited
  <1> QED BY <1>1, <1>2, <1>3, <1>4 DEF InStep

\* Appending to a sequence of one.
LEMMA AppendToOne ==
    ASSUME NEW a, NEW b
    PROVE  Append(<<a>>, b) = <<a, b>>
  <1> DEFINE s == <<a>>
             S == {a, b}
             r == <<a, b>>
             x == Append(s, b)
  <1>1. a \in S /\ b \in S
    OBVIOUS
  <1>2. s \in Seq(S) /\ Len(s) = 1 /\ s[1] = a
    OBVIOUS
  <1>3. r \in Seq(S) /\ Len(r) = 2 /\ r[1] = a /\ r[2] = b
    OBVIOUS
  <1> HIDE DEF s, S, r
  <1>4. x \in Seq(S)
    BY <1>1, <1>2, AppendProperties
  <1>5. Len(x) = Len(s) + 1
    BY <1>1, <1>2, AppendProperties
  <1>6. x[Len(s) + 1] = b
    BY <1>1, <1>2, AppendProperties
  <1>7. x[1] = s[1]
    BY <1>1, <1>2, AppendProperties
  <1> HIDE DEF x
  <1>8. Len(x) = 2 /\ x[2] = b /\ x[1] = a
    BY <1>2, <1>5, <1>6, <1>7
  <1>9. \A i \in 1..2 : i = 1 \/ i = 2
    OBVIOUS
  <1>10. x = r
    BY <1>3, <1>4, <1>8, <1>9, SeqEqual
  <1> QED BY <1>10 DEF s, r, x

\* A handler's step keeps every client in step.
LEMMA InStepHandler ==
    ASSUME Typed, Owned, \A c \in Threads : InStep(c), NEW t \in Threads, Handler(t), Sound',
           "shortRead" \notin Events
    PROVE  \A c \in Threads : InStep(c)'
  <1>0. /\ proc' = "up" /\ UNCHANGED last
        /\ \A u \in Threads \ {t} : pc'[u] = pc[u]
        /\ t \in Clients
    BY HandlerLocals DEF Typed, HandlerFrame, clientVars, Sound, Clients
  <1>1. ASSUME NEW c \in Threads, c # t
        PROVE  InStep(c)'
    <2>1. toServer'[Main(c)] = toServer[Main(c)]
      BY <1>1, HandlerNet
    <2>2. toClient'[Main(c)] = toClient[Main(c)]
      BY <1>0, <1>1, HandlerReplies
    <2> QED BY <1>0, <1>1, <2>1, <2>2, InStepKept
  <1>2. InStep(t)'
    <2>0. /\ InStep(t)
          /\ toServer[Main(t)] \in Seq(Items)
          /\ toClient[Main(t)] \in Seq(ServerMessage)
          /\ Main(t) \in Ends /\ DOMAIN toServer = Ends
      BY <1>0, EndsOfClients DEF Typed, TypeOK
    <2>1. CASE pc[t] = "recv"
      <3>1. UNCHANGED toClient /\ h[t].file = Main(t)
        BY <1>0, <2>1, HandlerRecv DEF Owned, HandlerOwns
      <3>2. CASE UNCHANGED toServer /\ pc'[t] = "close"
        BY <1>0, <2>0, <3>1, <3>2, InStepKept
      <3>3. CASE ~(UNCHANGED toServer /\ pc'[t] = "close")
        <4> DEFINE s == toServer[Main(t)]
        <4>1. s # <<>>
          BY <1>0, <2>1, <3>1, <3>3, HandlerRecv
        <4>2. PICK r \in Reads(s) : /\ toServer' = [toServer EXCEPT ![Main(t)] = r.left]
                                    /\ \/ pc'[t] = "close"
                                       \/ <<r.msg.cmd, pc'[t]>> \in Branches
          BY <1>0, <2>1, <3>1, <3>3, HandlerRecv
        <4>3. toServer'[Main(t)] = r.left
          BY <2>0, <4>2
        <4>4. r.msg = s[1]
          BY <2>0, <4>1, ReadsShape
        <4>5. \A k \in Awaited : InService(t, k)' => s[1].cmd = k
          BY <4>2, <4>4 DEF InService, Branches
        <4>6. /\ Orderly(r.left)
              /\ \A k \in Awaited : InStream(r.left, k) => InStream(s, k)
              /\ \A k \in Awaited : InStream(r.left, k) /\ s[1].cmd \in Awaited
                    => s[1].cmd = "LOGOUT" /\ k = "EXIT"
              /\ InStream(s, s[1].cmd)
          BY <2>0, <4>1, ReadsOrderly DEF InStep
        <4>7. \A k \in Awaited : Pending(t, k)' => Pending(t, k)
          BY <4>3, <4>5, <4>6 DEF Pending
        <4>8. \A k \in Awaited : ~(InStream(r.left, k) /\ InService(t, k)')
          BY <4>5, <4>6
        <4>9. ~(InService(t, "EXIT")' /\ InStream(r.left, "LOGOUT"))
          BY <4>5, <4>6 DEF Awaited
        <4> HIDE DEF s
        <4> QED BY <1>0, <2>0, <3>1, <4>3, <4>6, <4>7, <4>8, <4>9 DEF InStep
      <3> QED BY <3>2, <3>3
    <2>2. CASE pc[t] # "recv"
      <3>1. toServer'[Main(t)] = toServer[Main(t)]
        BY <2>2, HandlerNet
      <3>2. pc'[t] \notin {"signup", "login", "logout", "exit"}
        BY <2>2, HandlerPc DEF Typed, TypeOK, HandlerPcs
      <3>3. CASE toClient'[Main(t)] = toClient[Main(t)]
        BY <1>0, <2>0, <3>1, <3>2, <3>3, InStepKept
      <3>4. ASSUME NEW k \in Awaited, InService(t, k),
                   toClient'[Main(t)] = Append(toClient[Main(t)], ReplyMsg(k))
            PROVE  InStep(t)'
        <4> DEFINE q == toClient[Main(t)]
                   l == last[t]
                   s == toServer[Main(t)]
        <4>1. \A j \in Awaited : ~InService(t, j)'
          BY <3>2 DEF InService
        <4>2. \A j \in Awaited : InService(t, j) => j = k
          BY <3>4 DEF InService
        <4>3. ~InStream(s, k) /\ (k = "EXIT" => ~InStream(s, "LOGOUT"))
          BY <2>0, <3>4 DEF InStep
        <4>4. /\ k = l \/ (l = "EXIT" /\ k = "LOGOUT")
              /\ q = <<>> \/ (k = "EXIT" /\ q = <<ReplyMsg("LOGOUT")>>)
          BY <2>0, <3>4 DEF InStep, Pending
        <4>5. /\ q = <<>> => toClient'[Main(t)] = <<ReplyMsg(k)>>
              /\ q = <<ReplyMsg("LOGOUT")>> /\ k = "EXIT" =>
                    toClient'[Main(t)] = <<ReplyMsg("LOGOUT"), ReplyMsg("EXIT")>>
          <5>1. Append(<<>>, ReplyMsg(k)) = <<ReplyMsg(k)>>
            OBVIOUS
          <5>2. Append(<<ReplyMsg("LOGOUT")>>, ReplyMsg("EXIT"))
                    = <<ReplyMsg("LOGOUT"), ReplyMsg("EXIT")>>
            BY AppendToOne
          <5> HIDE DEF q
          <5>3. toClient'[Main(t)] = Append(q, ReplyMsg(k))
            BY <3>4 DEF q
          <5> QED BY <5>1, <5>2, <5>3
        <4>6. toClient'[Main(t)] \in RepliesTo(l)
          BY <4>4, <4>5 DEF RepliesTo
        <4>7. \A j \in Awaited : Pending(t, j)' =>
                  Pending(t, j) /\ j # k /\ (k = "EXIT" => j # "LOGOUT")
          BY <3>1, <4>1, <4>3 DEF Pending
        <4>8. \A j \in Awaited : Pending(t, j)' => j = "EXIT" /\ k = "LOGOUT"
          BY <2>0, <4>4, <4>7 DEF InStep
        <4>9. k = "LOGOUT" => toClient'[Main(t)] = <<ReplyMsg("LOGOUT")>>
          BY <4>4, <4>5
        <4>10. l \in Awaited
          BY <4>4 DEF Awaited
        <4>11. "EXIT" \in Awaited
          BY DEF Awaited
        <4> HIDE DEF q, s
        <4> QED BY <1>0, <2>0, <3>1, <4>1, <4>6, <4>7, <4>8, <4>9, <4>10, <4>11 DEF InStep
      <3> QED BY <1>0, <3>3, <3>4, HandlerReplies
    <2> QED BY <2>1, <2>2
  <1> QED BY <1>1, <1>2

\* What a client sends, takes or leaves keeps it in step.
LEMMA InStepEnvironment ==
    ASSUME Typed, Admission, Owned, \A c \in Threads : InStep(c), Environment,
           \A c \in Threads : client[c] = "new" => last[c] \notin Awaited
    PROVE  \A c \in Threads : InStep(c)'
  <1>0. /\ Clients = Threads
        /\ DOMAIN toServer = Ends /\ DOMAIN toClient = Ends /\ DOMAIN last = Threads
        /\ \A c, d \in Threads : Cb(c) # Main(d) /\ (Main(c) = Main(d) => c = d)
        /\ \A c \in Threads : Cb(c) \in Ends /\ Main(c) \in Ends
    BY DEF Clients, Typed, TypeOK, Cb, Main, Ends
  <1>00. \A c \in Threads : /\ toServer[Main(c)] \in Seq(Items)
                            /\ toClient[Main(c)] \in Seq(ServerMessage)
                            /\ last[c] \in Commands
    BY <1>0 DEF Typed, TypeOK
  <1> PICK c \in Threads : \/ ClientConnects(c) \/ ClientSends(c)
                          \/ ClientListener(c) \/ ListenerEnds(c) \/ ClientLeaves(c)
    BY DEF Environment, Clients
  <1>1. UNCHANGED pc
    BY DEF ClientConnects, ClientSends, ClientListener, ListenerEnds, ClientLeaves, ClientFrame
  <1>2. CASE ClientListener(c) \/ ListenerEnds(c) \/ ClientLeaves(c)
    <2>1. ASSUME NEW u \in Threads
          PROVE  /\ toServer'[Main(u)] = toServer[Main(u)]
                 /\ toClient'[Main(u)] \in {<<>>, toClient[Main(u)]}
                 /\ last'[u] = last[u]
      <3>1. CASE ClientListener(c)
        BY <1>0, <3>1 DEF ClientListener, clientVars
      <3>2. CASE ListenerEnds(c)
        BY <1>0, <3>2 DEF ListenerEnds, clientVars
      <3>3. CASE ClientLeaves(c)
        BY <1>0, <3>3 DEF ClientLeaves
      <3> QED BY <1>2, <3>1, <3>2, <3>3
    <2> QED BY <1>1, <2>1, InStepKept
  <1>3. CASE ClientConnects(c)
    <2> DEFINE m == [cmd |-> "CLIENT", from |-> c]
    <2>1. /\ client[c] = "new" /\ UNCHANGED <<toClient, last>>
          /\ toServer' = [toServer EXCEPT ![Main(c)] = <<m>>]
      BY <1>3 DEF ClientConnects
    <2>2. ASSUME NEW u \in Threads, u # c
          PROVE  InStep(u)'
      <3>1. toServer'[Main(u)] = toServer[Main(u)]
        BY <1>0, <2>1, <2>2
      <3> QED BY <1>1, <2>1, <3>1, InStepKept
    <2>3. InStep(c)'
      <3>1. pc[c] = "none" /\ last[c] \notin Awaited
        BY <1>0, <2>1 DEF Admission
      <3>2. toServer'[Main(c)] = <<m>> /\ m.cmd = "CLIENT"
        BY <1>0, <2>1
      <3> HIDE DEF m
      <3>3. Len(<<m>>) = 1 /\ <<m>>[1] = m
        OBVIOUS
      <3>4. \A i \in 1..Len(toServer'[Main(c)]) : toServer'[Main(c)][i].cmd = "CLIENT"
        BY <3>2, <3>3
      <3>5. \A k \in Awaited : ~InStream(toServer[Main(c)], k)' /\ ~InService(c, k)'
        BY <1>1, <3>1, <3>4 DEF InStream, InService, Awaited
      <3>6. Orderly(toServer[Main(c)])'
        BY <3>4 DEF Orderly, Awaited
      <3>7. "EXIT" \in Awaited
        BY DEF Awaited
      <3> QED BY <2>1, <3>5, <3>6, <3>7 DEF InStep, Pending
    <2> QED BY <2>2, <2>3
  <1>4. CASE ClientSends(c)
    <2>0. PICK m \in MenuCommand : m = Head(todo[c])
      BY <1>0, <1>4 DEF ClientSends, Typed, TypeOK
    <2>1. /\ MayFollow(last[c], m.cmd)
          /\ \/ /\ ~AwaitsReply(last[c])
                /\ UNCHANGED toClient
             \/ /\ AwaitsReply(last[c]) /\ toClient[Main(c)] # <<>>
                /\ toClient' = [toClient EXCEPT ![Main(c)] = Tail(@)]
             \/ /\ AwaitsReply(last[c]) /\ ~NeedsReplyFirst(last[c], m.cmd)
                /\ UNCHANGED toClient
          /\ toServer' = [toServer EXCEPT ![Main(c)] = Append(@, m)]
          /\ last' = [last EXCEPT ![c] = m.cmd]
      BY <1>4, <2>0 DEF ClientSends
    <2>2. ASSUME NEW u \in Threads, u # c
          PROVE  InStep(u)'
      <3>1. toServer'[Main(u)] = toServer[Main(u)] /\ toClient'[Main(u)] = toClient[Main(u)]
            /\ last'[u] = last[u]
        BY <1>0, <2>1, <2>2
      <3> QED BY <1>1, <3>1, InStepKept
    <2>3. InStep(c)'
      <3> DEFINE s == toServer[Main(c)]
                 n == toServer'[Main(c)]
                 q == toClient[Main(c)]
                 l == last[c]
      <3>1. /\ InStep(c) /\ l \in Commands /\ s \in Seq(Items) /\ q \in Seq(ServerMessage)
            /\ m \in Items /\ m.cmd \in {"LOGOUT", "EXIT", "SIGNUP", "LOGIN", "CALL"}
        BY <1>0, <1>00, MenuParts DEF Items
      <3>2. n = Append(s, m) /\ last'[c] = m.cmd
        BY <1>0, <2>1
      <3>3. /\ Len(n) = Len(s) + 1 /\ Len(s) \in Nat /\ n[Len(s) + 1] = m
            /\ \A i \in 1..Len(s) : n[i] = s[i]
        BY <3>1, <3>2
      <3>4. \A k : InStream(n, k) => InStream(s, k) \/ k = m.cmd
        <4>1. \A i \in 1..Len(n) : i \in 1..Len(s) \/ i = Len(s) + 1
          BY <3>3
        <4> QED BY <3>3, <4>1 DEF InStream
      <3>5. \A k : InService(c, k)' <=> InService(c, k)
        BY <1>1 DEF InService
      <3>6. l \in Awaited <=> AwaitsReply(l)
        BY <3>1 DEF Commands, AwaitsReply, Awaited
      <3>7. CASE (\A k \in Awaited : ~Pending(c, k)) /\ toClient'[Main(c)] = <<>>
        <4>1. Orderly(n)
          <5>1. \A i \in 1..Len(s) : s[i].cmd \notin Awaited
            BY <3>7 DEF Pending, InStream
          <5>2. \A i, j \in 1..Len(n) : i < j => i \in 1..Len(s)
            BY <3>3
          <5> QED BY <3>3, <5>1, <5>2 DEF Orderly
        <4>2. \A k \in Awaited : (Pending(c, k)' => k = m.cmd) /\ ~InService(c, k)'
          BY <3>4, <3>5, <3>7 DEF Pending
        <4>3. <<>> \in RepliesTo(m.cmd) /\ "EXIT" \in Awaited
          BY DEF RepliesTo, Awaited
        <4> QED BY <3>2, <3>7, <4>1, <4>2, <4>3 DEF InStep
      <3>8. CASE ~AwaitsReply(l) /\ UNCHANGED toClient
        <4>1. q = <<>> /\ \A k \in Awaited : ~Pending(c, k)
          BY <3>1, <3>6, <3>8 DEF InStep, Awaited, Commands, AwaitsReply
        <4> QED BY <3>7, <3>8, <4>1
      <3>9. CASE AwaitsReply(l) /\ q # <<>> /\ toClient' = [toClient EXCEPT ![Main(c)] = Tail(@)]
        <4>1. l # "EXIT"
          BY <2>1 DEF MayFollow
        <4>2. q = <<ReplyMsg(l)>>
          BY <3>1, <3>9, <4>1 DEF InStep, RepliesTo
        <4>3. toClient'[Main(c)] = Tail(q)
          BY <1>0, <3>9
        <4>4. Tail(<<ReplyMsg(l)>>) = <<>>
          OBVIOUS
        <4>5. \A k \in Awaited : ~Pending(c, k)
          BY <3>1, <3>9, <4>1 DEF InStep
        <4> HIDE DEF q
        <4> QED BY <3>7, <4>2, <4>3, <4>4, <4>5
      <3>10. CASE AwaitsReply(l) /\ ~NeedsReplyFirst(l, m.cmd) /\ UNCHANGED toClient
        <4>1. l = "LOGOUT" /\ m.cmd = "EXIT"
          BY <3>10 DEF NeedsReplyFirst
        <4>2. \A k \in Awaited : Pending(c, k) => k = "LOGOUT" /\ q = <<>>
          BY <3>1, <4>1 DEF InStep
        <4>3. \A k \in Awaited : Pending(c, k)' => Pending(c, k) \/ k = "EXIT"
          BY <3>4, <3>5, <4>1 DEF Pending
        <4>4. Orderly(n)
          <5>1. \A i \in 1..Len(s) : s[i].cmd \in Awaited => s[i].cmd = "LOGOUT"
            BY <4>2 DEF Pending, InStream
          <5>2. \A i, j \in 1..Len(n) : i < j =>
                    i \in 1..Len(s) /\ (j \in 1..Len(s) \/ j = Len(s) + 1)
            BY <3>3
          <5>3. Orderly(s)
            BY <3>1 DEF InStep
          <5> QED BY <3>3, <4>1, <5>1, <5>2, <5>3 DEF Orderly
        <4>5. "EXIT" \in Awaited /\ ~InService(c, "EXIT")
          BY <4>2 DEF Pending, Awaited
        <4>6. \A k \in Awaited : ~(InStream(n, k) /\ InService(c, k)')
          BY <3>1, <3>4, <3>5, <4>1, <4>5 DEF InStep
        <4>7. toClient'[Main(c)] = q /\ (q = <<>> \/ q = <<ReplyMsg("LOGOUT")>>)
          BY <3>1, <3>10, <4>1 DEF InStep, RepliesTo
        <4>8. q \in RepliesTo("EXIT")
          BY <4>7 DEF RepliesTo
        <4> HIDE DEF q
        <4> QED BY <3>2, <3>5, <4>1, <4>2, <4>3, <4>4, <4>5, <4>6, <4>7, <4>8 DEF InStep
      <3> QED BY <2>1, <3>8, <3>9, <3>10
    <2> QED BY <2>2, <2>3
  <1> QED BY <1>2, <1>3, <1>4

\* A client that has not connected has sent nothing that is answered.
Unspoken == \A c \in Threads : client[c] = "new" => last[c] \notin Awaited

\* A command needs a client that is up.
LEMMA UnspokenStep ==
    ASSUME Typed, Unspoken, [Next]_vars
    PROVE  Unspoken'
  <1>0. Clients = Threads /\ DOMAIN client = Threads /\ DOMAIN last = Threads
    BY DEF Typed, TypeOK, Clients
  <1>1. CASE \E t \in Threads : Handler(t)
    <2>1. UNCHANGED <<client, last>>
      BY <1>1, HandlerLocals DEF Typed, HandlerFrame, clientVars
    <2> QED BY <2>1 DEF Unspoken
  <1>2. CASE \/ MainCheck \/ Accept \/ Sigint \/ MainJoin
             \/ \E t \in Threads : StoreStep(t)
             \/ StoreCorrupted \/ UNCHANGED vars
    <2>1. UNCHANGED <<client, last>>
      BY <1>2 DEF MainCheck, Accept, Sigint, MainJoin, StoreStep, StoreCorrupted, vars, clientVars
    <2> QED BY <2>1 DEF Unspoken
  <1>3. CASE Environment
    <2> PICK c \in Threads : \/ ClientConnects(c) \/ ClientSends(c)
                             \/ ClientListener(c) \/ ListenerEnds(c) \/ ClientLeaves(c)
      BY <1>3, <1>0 DEF Environment
    <2>1. \A u \in Threads : client'[u] = "new" => client[u] = "new" /\ last'[u] = last[u]
      BY <1>0 DEF ClientConnects, ClientSends, ClientListener, ListenerEnds, ClientLeaves, clientVars
    <2> QED BY <2>1 DEF Unspoken
  <1> QED BY <1>1, <1>2, <1>3 DEF Next

\* main(), the store and a step that changes nothing keep every client in step.
LEMMA InStepInner ==
    ASSUME Typed, \A c \in Threads : InStep(c),
           \/ MainCheck \/ Accept \/ Sigint \/ MainJoin
           \/ \E t \in Threads : StoreStep(t)
           \/ StoreCorrupted \/ UNCHANGED vars
    PROVE  \A c \in Threads : InStep(c)'
  <1>1. UNCHANGED <<toServer, toClient, last>>
    BY DEF MainCheck, Accept, Sigint, MainJoin, StoreStep, StoreCorrupted, vars, clientVars, netVars
  <1>2. \A c \in Threads : pc'[c] = pc[c] \/ pc'[c] = "loop"
    <2>1. CASE UNCHANGED vars
      BY <2>1 DEF vars
    <2>2. CASE ~UNCHANGED vars
      <3>1. \/ UNCHANGED pc
            \/ \E u \in Threads : pc' = [pc EXCEPT ![u] = "loop"]
        BY <2>2, OthersKeepHandlers DEF Typed
      <3>2. DOMAIN pc = Threads
        BY DEF Typed, TypeOK
      <3> QED BY <3>1, <3>2
    <2> QED BY <2>1, <2>2
  <1> QED BY <1>1, <1>2, InStepKept

\* As long as no descriptor went wrong and messages arrive whole, a client finds
\* on its main connection at most the one reply to the command it sent last
\* (server.cpp:131,148,345,350), or, after EXIT, first the one to the LOGOUT
\* before it.
THEOREM RepliesStayInStep == Spec => []RepliesInStep
  <1> DEFINE Stepping == /\ Unspoken
                         /\ Sound /\ "shortRead" \notin Events => \A c \in Threads : InStep(c)
  <1>1. Init => Stepping
    <2> SUFFICES ASSUME Init PROVE Stepping
      OBVIOUS
    <2>1. /\ \A c \in Threads : last[c] = "CLIENT" /\ pc[c] = "none"
          /\ \A e \in Ends : toServer[e] = <<>> /\ toClient[e] = <<>>
      BY DEF Init, Clients
    <2>2. \A c \in Threads : toServer[Main(c)] = <<>> /\ toClient[Main(c)] = <<>>
      BY <2>1, EndsOfClients DEF Clients
    <2>3. \A k : ~InStream(<<>>, k)
      BY DEF InStream
    <2>4. Orderly(<<>>)
      BY DEF Orderly
    <2>5. \A c \in Threads, k \in Awaited : ~Pending(c, k) /\ ~InService(c, k)
      BY <2>1, <2>2, <2>3 DEF Pending, InService
    <2>6. "EXIT" \in Awaited /\ \A l : <<>> \in RepliesTo(l)
      BY DEF Awaited, RepliesTo
    <2>7. \A c \in Threads : InStep(c)
      BY <2>2, <2>4, <2>5, <2>6 DEF InStep
    <2> QED BY <2>1, <2>7 DEF Unspoken, Awaited
  <1>2. Keeping /\ Stepping /\ [Next]_vars => Stepping'
    <2> SUFFICES ASSUME Keeping, Stepping, [Next]_vars PROVE Stepping'
      OBVIOUS
    <2>1. Unspoken'
      BY UnspokenStep DEF Keeping
    <2>2. ASSUME Sound', "shortRead" \notin Events PROVE \A c \in Threads : InStep(c)'
      <3>1. Typed /\ Admission /\ Owned /\ \A c \in Threads : InStep(c)
        BY <2>2, SoundBefore DEF Keeping
      <3>2. CASE \E t \in Threads : Handler(t)
        BY <2>2, <3>1, <3>2, InStepHandler
      <3>3. CASE \/ MainCheck \/ Accept \/ Sigint \/ MainJoin
                 \/ \E t \in Threads : StoreStep(t)
                 \/ StoreCorrupted \/ UNCHANGED vars
        BY <3>1, <3>3, InStepInner
      <3>4. CASE Environment
        BY <3>1, <3>4, InStepEnvironment DEF Unspoken
      <3> QED BY <3>2, <3>3, <3>4 DEF Next
    <2> QED BY <2>1, <2>2
  <1>3. Stepping => RepliesInStep
    BY DEF InStep, RepliesInStep, RepliesTo, Sound, Clients
  <1> QED BY <1>1, <1>2, <1>3, KeepingInvariant, PTL DEF Spec

=============================================================================
