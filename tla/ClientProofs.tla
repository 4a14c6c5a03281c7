---------------------------- MODULE ClientProofs ----------------------------
(***************************************************************************)
(* Proofs about Client for any number of commands and of pushed messages:  *)
(* its types, that media_handler() blocks the menu, that no call is taken, *)
(* and that the client keeps to the role ClientRole that the server relies *)
(* on.                                                                     *)
(***************************************************************************)
EXTENDS Client, SequenceTheorems, TLAPS

(***************************************************************************)
(* The inductive invariant.                                                *)
(***************************************************************************)

\* The commands the server answers on the connection they come from.
Awaited == {"SIGNUP", "LOGIN", "LOGOUT", "EXIT"}

InStream(k) == \E i \in 1..Len(toServer) : toServer[i] = k

\* Behind a command that is answered comes at most the EXIT of an interrupted
\* exit_user().
Orderly ==
    \A i, j \in 1..Len(toServer) :
        i < j /\ toServer[i] \in Awaited => toServer[i] = "LOGOUT" /\ toServer[j] = "EXIT"

\* Replies on their way and the commands that will cause more: one, or those to
\* the LOGOUT and the EXIT of exit_user().
Replies ==
    /\ Orderly
    /\ last \notin Awaited => answered
    /\ \A k \in Awaited : InStream(k) => k = last \/ (last = "EXIT" /\ k = "LOGOUT")
    /\ last # "EXIT" =>
        /\ toClient <= 1
        /\ toClient = 1 => ~answered /\ \A k \in Awaited : ~InStream(k)
        /\ answered => \A k \in Awaited : ~InStream(k)
    /\ last = "EXIT" =>
        /\ toClient <= 2
        /\ InStream("LOGOUT") => toClient = 0
        /\ InStream("EXIT") => toClient <= 1

\* What the option that waits for a reply has sent.
SentBy(o) == CASE o = "exitLogout" -> "LOGOUT" [] o = "exit" -> "EXIT" [] OTHER -> o

\* Where the main thread is, and what it has sent as long as the connection
\* lasts.
Turn ==
    /\ pc = "reply" => op # "none"
    /\ pc = "reply" /\ conn = "open" => last = SentBy(op)
    /\ pc = "sendExit" /\ conn = "open" => last = "LOGOUT"
    /\ pc \in {"start", "media", "spawn"} => last = "CLIENT" /\ answered /\ ~isLogin
    /\ pc = "menu" /\ running /\ conn = "open" =>
        /\ answered /\ last # "EXIT"
        /\ isLogin => last \in {"SIGNUP", "LOGIN", "CALL"}
    /\ cinOk /\ ~named => last \in {"CLIENT", "LOGOUT", "EXIT"}

\* The bound on the commands: exit_user() adds an EXIT to the last of them.
Bounded ==
    /\ commands <= MaxCommands + 1
    /\ pc = "sendExit" \/ (pc = "reply" /\ op = "exitLogout") => commands <= MaxCommands

\* With a socket to sleep on, the main thread gets past media_handler() only when
\* it has been interrupted.
Asleep ==
    udp =>
        /\ commands = 0 /\ listener # "recv"
        /\ proc = "up" => (pc \in {"start", "media"} /\ listener = "none") \/ ~running
        /\ pc \notin {"reply", "sendExit"}

\* No description was applied, and the second half of an INVITE, which is all
\* zeros, comes behind the first half or after the end.
Padding ==
    /\ applied = 0
    /\ \A i \in 1..Len(toListener) : toListener[i] = "zeros" =>
            IF i = 1 THEN proc = "aborted" ELSE toListener[i - 1] = "INVITE"

Inv == TypeOK /\ Replies /\ Turn /\ Bounded /\ Asleep /\ Padding

-----------------------------------------------------------------------------

\* The types, flag by flag.
Types ==
    /\ proc \in {"up", "exited", "aborted", "sigpipe"}
    /\ pc \in MainPcs /\ op \in Options
    /\ running \in BOOLEAN /\ server_disconnected \in BOOLEAN /\ exit_selected \in BOOLEAN
    /\ isLogin \in BOOLEAN /\ named \in BOOLEAN /\ cinOk \in BOOLEAN /\ udp \in BOOLEAN
    /\ answered \in BOOLEAN
    /\ listener \in {"none", "setup", "accept", "recv", "ended"}
    /\ conn \in {"open", "closed", "reset", "broken", "mine"}
    /\ toServer \in Seq(Commands)
    /\ toClient \in 0..2
    /\ cb \in {"none", "open", "closed"}
    /\ toListener \in Seq(Pushed)
    /\ srv \in {"new", "serving", "dropped", "dead"}
    /\ served \in SUBSET Commands
    /\ pushes \in 0..MaxPushes /\ applied \in 0..MaxPushes
    /\ last \in Commands /\ commands \in 0..(MaxCommands + 2)

\* The types, flag by flag, are those of TypeOK.
LEMMA Flags == (TypeOK <=> Types) /\ (TypeOK' <=> Types')
  BY Zenon DEF TypeOK, Types

\* What a send() does to the connection, the stream and the role: a command that
\* is sent is appended; otherwise the connection is broken, or the process dies.
LEMMA SendCases ==
    ASSUME TypeOK, NEW k \in Commands, NEW next \in MainPcs, NEW o \in Options,
           SendMain(k, next, o)
    PROVE  /\ op' = o /\ UNCHANGED <<toClient, server_disconnected, exit_selected, isLogin>>
           /\ \/ /\ conn = "open" /\ conn' = "open"
                 /\ toServer' = Append(toServer, k)
                 /\ last' = k /\ answered' \in BOOLEAN /\ (answered' <=> ~AwaitsReply(k))
                 /\ commands' = IF k = "CLIENT" THEN commands ELSE commands + 1
                 /\ pc' = next
                 /\ UNCHANGED <<proc, running>>
              \/ /\ conn' = "broken"
                 /\ UNCHANGED <<toServer, last, answered, commands>>
                 /\ \/ pc' = next /\ UNCHANGED <<proc, running>>
                    \/ /\ proc' = IF k = "CLIENT" THEN "exited" ELSE proc
                       /\ pc' \in {"sendExit", "close", "menu"}
                       /\ pc' = "sendExit" <=> o = "exitLogout"
                       /\ running' \in BOOLEAN /\ (running' => running)
              \/ /\ proc' = "sigpipe"
                 /\ UNCHANGED <<pc, running, conn, toServer, last, answered, commands>>
  <1>1. op' = o /\ UNCHANGED <<toClient, server_disconnected, exit_selected, isLogin>>
    BY DEF SendMain, flags
  <1>2. CASE conn = "open"
    <2>1. /\ conn' = "open" /\ toServer' = Append(toServer, k) /\ last' = k
          /\ commands' = IF k = "CLIENT" THEN commands ELSE commands + 1
          /\ pc' = next /\ UNCHANGED <<proc, running>>
      BY <1>2 DEF SendMain
    <2>2. answered' = ~AwaitsReply(k)
      BY <1>2 DEF SendMain
    <2>3. answered' \in BOOLEAN /\ (answered' <=> ~AwaitsReply(k))
      BY <2>2, Zenon DEF AwaitsReply
    <2> QED BY <1>1, <1>2, <2>1, <2>3
  <1>3. CASE conn = "closed"
    BY <1>1, <1>3 DEF SendMain, roleVars
  <1>4. CASE conn = "reset"
    <2>1. /\ conn' = "broken" /\ UNCHANGED <<toServer, last, answered, commands>>
          /\ proc' = IF k = "CLIENT" THEN "exited" ELSE proc
          /\ AfterOption(o, server_disconnected)
      BY <1>4 DEF SendMain, roleVars
    <2>2. pc' \in {"sendExit", "close", "menu"} /\ (pc' = "sendExit" <=> o = "exitLogout")
      BY <2>1 DEF AfterOption
    <2>3. running' = (running /\ (o = "exit" => server_disconnected))
      BY <2>1 DEF AfterOption
    <2>4. running' \in BOOLEAN /\ (running' => running)
      BY <2>3, Zenon
    <2> QED BY <1>1, <2>1, <2>2, <2>4
  <1>5. CASE conn = "broken"
    BY <1>1, <1>5 DEF SendMain, roleVars
  <1> QED BY <1>2, <1>3, <1>4, <1>5 DEF SendMain

-----------------------------------------------------------------------------
(***************************************************************************)
(* Replies.                                                                *)
(***************************************************************************)

\* A command that keeps to the role keeps the replies in order.
LEMMA RepliesSend ==
    ASSUME TypeOK, Replies, NEW k \in Commands,
           toServer' = Append(toServer, k), last' = k, answered' <=> ~AwaitsReply(k),
           UNCHANGED toClient,
           \/ last = "CLIENT" /\ k = "CLIENT" /\ answered
           \/ MayFollow(last, k) /\ (answered \/ ~NeedsReplyFirst(last, k))
    PROVE  Replies'
  <1>0. toServer \in Seq(Commands) /\ toClient \in 0..2 /\ last \in Commands
    BY Flags DEF Types
  <1>1. /\ Len(toServer) \in Nat /\ Len(toServer') = Len(toServer) + 1
        /\ toServer'[Len(toServer) + 1] = k
        /\ \A i \in 1..Len(toServer) : toServer'[i] = toServer[i]
    BY <1>0
  <1>2. \A j : InStream(j)' => InStream(j) \/ j = k
    <2>1. \A i \in 1..Len(toServer') : i \in 1..Len(toServer) \/ i = Len(toServer) + 1
      BY <1>1
    <2> QED BY <1>1, <2>1 DEF InStream
  <1>3. last # "EXIT"
    BY DEF MayFollow
  <1>4. CASE answered
    <2>1. toClient = 0 /\ \A j \in Awaited : ~InStream(j)
      BY <1>0, <1>3, <1>4 DEF Replies
    <2>2. \A i \in 1..Len(toServer) : toServer[i] \notin Awaited
      BY <2>1 DEF InStream
    <2>3. Orderly'
      <3>1. \A i, j \in 1..Len(toServer') : i < j => i \in 1..Len(toServer)
        BY <1>1
      <3> QED BY <1>1, <2>2, <3>1 DEF Orderly
    <2>4. \A j \in Awaited : InStream(j)' => j = k
      BY <1>2, <2>1
    <2>5. k \in Awaited <=> AwaitsReply(k)
      BY DEF AwaitsReply, Awaited, Commands
    <2>6. "LOGOUT" \in Awaited
      BY DEF Awaited
    <2> QED BY <2>1, <2>3, <2>4, <2>5, <2>6 DEF Replies
  <1>5. CASE ~answered
    <2>1. last = "LOGOUT" /\ k = "EXIT"
      BY <1>0, <1>5 DEF NeedsReplyFirst, AwaitsReply, Replies, Awaited
    <2>2. \A j \in Awaited : InStream(j) => j = "LOGOUT" /\ toClient = 0
      BY <1>0, <2>1 DEF Replies
    <2>3. toClient <= 1 /\ Orderly
      BY <2>1 DEF Replies
    <2>4. Orderly'
      <3>1. \A i \in 1..Len(toServer) : toServer[i] \in Awaited => toServer[i] = "LOGOUT"
        BY <2>2 DEF InStream
      <3>2. \A i, j \in 1..Len(toServer') : i < j =>
                i \in 1..Len(toServer) /\ (j \in 1..Len(toServer) \/ j = Len(toServer) + 1)
        BY <1>1
      <3> QED BY <1>1, <2>1, <2>3, <3>1, <3>2 DEF Orderly
    <2>5. "EXIT" \in Awaited /\ "LOGOUT" \in Awaited
      BY DEF Awaited
    <2> QED BY <1>0, <1>2, <2>1, <2>2, <2>3, <2>4, <2>5 DEF Replies
  <1> QED BY <1>4, <1>5

\* What the server reads from the stream, with the reply it sends, keeps the
\* replies in order and their number bounded.
LEMMA RepliesServe ==
    ASSUME TypeOK, Replies, toServer # <<>>, toServer' = Tail(toServer),
           UNCHANGED <<last, answered>>,
           \/ UNCHANGED toClient
           \/ Head(toServer) \in Awaited /\ toClient' = toClient + 1
    PROVE  Replies' /\ toClient' \in 0..2
  <1> DEFINE k == Head(toServer)
  <1>0. toServer \in Seq(Commands) /\ toClient \in 0..2 /\ last \in Commands /\ k \in Commands
    BY Flags DEF Types
  <1>1. /\ Len(toServer) \in Nat \ {0} /\ Len(toServer') = Len(toServer) - 1 /\ k = toServer[1]
        /\ \A i \in 1..Len(toServer') : toServer'[i] = toServer[i + 1] /\ i + 1 \in 2..Len(toServer)
    BY <1>0
  <1>2. Orderly /\ InStream(k)
    BY <1>1 DEF Replies, InStream
  <1>3. \A j : InStream(j)' => InStream(j)
    <2>1. \A i \in 1..Len(toServer') : i + 1 \in 1..Len(toServer)
      BY <1>1
    <2> QED BY <1>1, <2>1 DEF InStream
  <1> HIDE DEF k
  <1>4. k \in Awaited => \A j : InStream(j)' => k = "LOGOUT" /\ j = "EXIT"
    <2>1. \A i \in 1..Len(toServer') : 1 < i + 1 /\ i + 1 \in 1..Len(toServer) /\ 1 \in 1..Len(toServer)
      BY <1>1
    <2> QED BY <1>1, <1>2, <2>1 DEF InStream, Orderly
  <1>5. Orderly'
    <2>1. \A i, j \in 1..Len(toServer') : /\ i < j => i + 1 < j + 1
                                           /\ i + 1 \in 1..Len(toServer) /\ j + 1 \in 1..Len(toServer)
      BY <1>1
    <2> QED BY <1>1, <1>2, <2>1 DEF Orderly
  <1>6. "EXIT" \in Awaited /\ "LOGOUT" \in Awaited
    BY DEF Awaited
  <1>7. CASE UNCHANGED toClient
    BY <1>0, <1>3, <1>5, <1>6, <1>7 DEF Replies
  <1>8. CASE k \in Awaited /\ toClient' = toClient + 1
    <2>1. \A j \in Awaited : InStream(j)' => k = "LOGOUT" /\ j = "EXIT"
      BY <1>4, <1>8
    <2>2. CASE last # "EXIT"
      <3>1. toClient = 0 /\ ~answered /\ k = last
        BY <1>0, <1>2, <1>8, <2>2 DEF Replies
      <3>2. \A j \in Awaited : ~InStream(j)'
        BY <1>3, <1>6, <2>1, <2>2 DEF Replies
      <3> QED BY <1>5, <1>8, <2>2, <3>1, <3>2 DEF Replies
    <2>3. CASE last = "EXIT"
      <3>1. k = "LOGOUT" => toClient = 0
        BY <1>2, <2>3 DEF Replies
      <3>2. k = "EXIT" => toClient <= 1
        BY <1>2, <2>3 DEF Replies
      <3>3. k \in {"LOGOUT", "EXIT"}
        BY <1>2, <1>8, <2>3 DEF Replies
      <3> QED BY <1>0, <1>5, <1>6, <1>8, <2>1, <2>3, <3>1, <3>2, <3>3 DEF Replies
    <2> QED BY <2>2, <2>3
  <1> QED BY <1>7, <1>8 DEF k

\* A step that sends and reads nothing changes nothing about the replies.
LEMMA RepliesSame ==
    ASSUME Replies, UNCHANGED <<toServer, toClient, last, answered>>
    PROVE  Replies'
  BY DEF Replies, Orderly, InStream

-----------------------------------------------------------------------------
(***************************************************************************)
(* The steps that send.                                                    *)
(***************************************************************************)

\* The commands of the options, with where they are waited for.
Sendings == {<<"CLIENT", "media", "none">>, <<"SIGNUP", "reply", "SIGNUP">>,
             <<"LOGIN", "reply", "LOGIN">>, <<"CALL", "menu", "none">>,
             <<"LOGOUT", "reply", "LOGOUT">>, <<"LOGOUT", "reply", "exitLogout">>,
             <<"EXIT", "reply", "exit">>}

\* A step that sends k, for what it knows when it does.
Sending(k, next, o) ==
    /\ proc = "up"
    /\ SendMain(k, next, o)
    /\ MainFrame
    /\ named' \in BOOLEAN /\ cinOk' \in BOOLEAN /\ (cinOk' => cinOk)
    /\ \/ pc = "start" /\ k = "CLIENT"
       \/ pc = "menu" /\ k # "CLIENT" /\ running /\ cinOk /\ commands < MaxCommands
       \/ pc = "sendExit" /\ k = "EXIT"
    /\ k = "CALL" => isLogin
    /\ k = "EXIT" /\ pc = "menu" => ~named
    /\ IF k \in {"SIGNUP", "LOGIN"} THEN named' \/ ~cinOk' ELSE named' = named

\* Every step that sends is of this kind.
LEMMA SendingSteps ==
    ASSUME TypeOK, SendClient \/ Option \/ SendExit
    PROVE  \E s \in Sendings : Sending(s[1], s[2], s[3])
  <1>0. cinOk \in BOOLEAN /\ named \in BOOLEAN
    BY Flags DEF Types
  <1>1. CASE SendClient
    <2>1. Sending("CLIENT", "media", "none")
      BY <1>0, <1>1 DEF SendClient, Sending
    <2> QED BY <2>1 DEF Sendings
  <1>2. CASE SignUpLogin
    <2>1. PICK k \in {"SIGNUP", "LOGIN"} : SendMain(k, "reply", k)
      BY <1>2 DEF SignUpLogin
    <2>2. /\ proc = "up" /\ pc = "menu" /\ running /\ cinOk /\ commands < MaxCommands
          /\ \/ named' = TRUE /\ cinOk' \in BOOLEAN
             \/ cinOk' = FALSE /\ named' = named
          /\ MainFrame
      BY <1>2 DEF SignUpLogin, Chosen
    <2>3. named' \in BOOLEAN /\ cinOk' \in BOOLEAN /\ (named' \/ ~cinOk')
      BY <1>0, <2>2, Zenon
    <2>4. Sending(k, "reply", k)
      BY <2>1, <2>2, <2>3 DEF Sending
    <2> QED BY <2>4 DEF Sendings
  <1>3. CASE CallPeer
    <2>1. Sending("CALL", "menu", "none")
      BY <1>0, <1>3 DEF CallPeer, Chosen, Sending
    <2> QED BY <2>1 DEF Sendings
  <1>4. CASE LogOut
    <2>1. Sending("LOGOUT", "reply", "LOGOUT")
      BY <1>0, <1>4 DEF LogOut, Chosen, Sending
    <2> QED BY <2>1 DEF Sendings
  <1>5. CASE ExitUser
    <2>1. Sending("LOGOUT", "reply", "exitLogout") \/ Sending("EXIT", "reply", "exit")
      BY <1>0, <1>5 DEF ExitUser, Chosen, Sending
    <2> QED BY <2>1 DEF Sendings
  <1>6. CASE SendExit
    <2>1. Sending("EXIT", "reply", "exit")
      BY <1>0, <1>6 DEF SendExit, Sending
    <2> QED BY <2>1 DEF Sendings
  <1> QED BY <1>1, <1>2, <1>3, <1>4, <1>5, <1>6 DEF Option

\* A step that sends keeps to the role and keeps the invariant.
LEMMA SendingKeeps ==
    ASSUME Inv, NEW k, NEW next, NEW o, <<k, next, o>> \in Sendings, Sending(k, next, o)
    PROVE  /\ Inv'
           /\ \/ UNCHANGED <<last, answered>>
              \/ /\ last' = k /\ (answered' <=> ~AwaitsReply(k))
                 /\ \/ last = "CLIENT" /\ k = "CLIENT" /\ answered
                    \/ MayFollow(last, k) /\ (answered \/ ~NeedsReplyFirst(last, k))
  <1>0. Types /\ k \in Commands /\ next \in MainPcs /\ o \in Options
    BY Flags DEF Inv, Sendings, Commands, MainPcs, Options
  <1>1. MainFrame /\ proc = "up"
    BY DEF Sending
  <1> DEFINE Sent == /\ conn = "open" /\ conn' = "open"
                     /\ toServer' = Append(toServer, k)
                     /\ last' = k /\ answered' \in BOOLEAN /\ (answered' <=> ~AwaitsReply(k))
                     /\ commands' = IF k = "CLIENT" THEN commands ELSE commands + 1
                     /\ pc' = next
                     /\ UNCHANGED <<proc, running>>
             Broken == /\ conn' = "broken"
                       /\ UNCHANGED <<toServer, last, answered, commands>>
                       /\ \/ pc' = next /\ UNCHANGED <<proc, running>>
                          \/ /\ proc' = IF k = "CLIENT" THEN "exited" ELSE proc
                             /\ pc' \in {"sendExit", "close", "menu"}
                             /\ pc' = "sendExit" <=> o = "exitLogout"
                             /\ running' \in BOOLEAN /\ (running' => running)
             Killed == /\ proc' = "sigpipe"
                       /\ UNCHANGED <<pc, running, conn, toServer, last, answered, commands>>
  <1>2. /\ op' = o /\ UNCHANGED <<toClient, server_disconnected, exit_selected, isLogin>>
        /\ Sent \/ Broken \/ Killed
    BY <1>0, SendCases DEF Sending, Inv
  <1>3. Sent => \/ last = "CLIENT" /\ k = "CLIENT" /\ answered
                \/ MayFollow(last, k) /\ (answered \/ ~NeedsReplyFirst(last, k))
    <2> SUFFICES ASSUME Sent
                 PROVE  \/ last = "CLIENT" /\ k = "CLIENT" /\ answered
                        \/ MayFollow(last, k) /\ (answered \/ ~NeedsReplyFirst(last, k))
      OBVIOUS
    <2>1. CASE pc = "start"
      BY <2>1 DEF Inv, Turn, Sending
    <2>2. CASE pc = "sendExit"
      BY <2>2 DEF Inv, Turn, Sending, MayFollow, NeedsReplyFirst
    <2>3. CASE pc = "menu"
      <3>1. answered /\ last # "EXIT" /\ (k = "CALL" => last \in {"SIGNUP", "LOGIN", "CALL"})
        BY <2>3 DEF Inv, Turn, Sending
      <3>2. k = "EXIT" => last \in {"CLIENT", "LOGOUT"}
        BY <2>3, <3>1 DEF Inv, Turn, Sending
      <3> QED BY <2>3, <3>1, <3>2 DEF MayFollow, Sending
    <2> QED BY <2>1, <2>2, <2>3 DEF Sending
  <1>4. Replies'
    <2>1. CASE Sent
      BY <1>0, <1>2, <1>3, <2>1, RepliesSend DEF Inv
    <2>2. CASE Broken \/ Killed
      BY <1>2, <2>2, RepliesSame DEF Inv
    <2> QED BY <1>2, <2>1, <2>2
  <1>5. TypeOK'
    <2>1. toServer' \in Seq(Commands) /\ commands' \in 0..(MaxCommands + 2)
      <3>1. commands <= MaxCommands + 1
        BY DEF Inv, Bounded
      <3>2. Append(toServer, k) \in Seq(Commands)
        BY <1>0 DEF Types
      <3>3. toServer' \in Seq(Commands)
        BY <1>0, <1>2, <3>2 DEF Types
      <3>4. commands' \in {commands, commands + 1}
        BY <1>2
      <3>5. commands \in 0..(MaxCommands + 2)
        BY <1>0 DEF Types
      <3>6. commands' \in 0..(MaxCommands + 2)
        BY <3>1, <3>4, <3>5, ClientBounds
      <3> QED BY <3>3, <3>6
    <2>2. /\ proc' \in {"up", "exited", "aborted", "sigpipe"} /\ pc' \in MainPcs /\ op' \in Options
          /\ conn' \in {"open", "closed", "reset", "broken", "mine"} /\ last' \in Commands
      BY <1>0, <1>2 DEF Types, MainPcs
    <2>3. running' \in BOOLEAN /\ answered' \in BOOLEAN
      BY <1>0, <1>2 DEF Types
    <2>4. named' \in BOOLEAN /\ cinOk' \in BOOLEAN
      BY DEF Sending
    <2> HIDE DEF Sent, Broken, Killed
    <2>5. Types'
      BY <1>0, <1>1, <1>2, <2>1, <2>2, <2>3, <2>4 DEF Types, MainFrame, srvVars
    <2> QED BY <2>5, Flags
  <1>6. Turn'
    <2>1. cinOk' /\ ~named' => last' \in {"CLIENT", "LOGOUT", "EXIT"}
      BY <1>0, <1>2, <1>3 DEF Inv, Turn, Sending, Commands
    <2>2. CASE Sent
      <3>1. next = "menu" => k = "CALL"
        BY DEF Sendings
      <3>2. next = "reply" => o # "none" /\ k = SentBy(o)
        BY DEF Sendings, SentBy
      <3>3. next \notin {"start", "spawn", "sendExit"} /\ (next = "media" => k = "CLIENT")
        BY DEF Sendings
      <3>4. k = "CLIENT" => ~isLogin
        BY DEF Inv, Turn, Sending
      <3>5. isLogin' = isLogin
        BY <1>2
      <3> QED BY <1>2, <2>1, <2>2, <3>1, <3>2, <3>3, <3>4, <3>5 DEF Turn, AwaitsReply
    <2>3. CASE Broken
      <3>1. /\ next = "reply" => o # "none"
            /\ next \notin {"start", "spawn"} /\ (next = "media" => k = "CLIENT")
        BY DEF Sendings
      <3>2. k = "CLIENT" => last = "CLIENT" /\ answered /\ ~isLogin
        BY DEF Inv, Turn, Sending
      <3> QED BY <1>2, <2>1, <2>3, <3>1, <3>2 DEF Turn
    <2>4. CASE Killed
      BY <1>2, <2>1, <2>4 DEF Turn, Inv, Sending
    <2> QED BY <1>2, <2>2, <2>3, <2>4
  <1>7. Bounded'
    <2>1. commands \in Nat /\ MaxCommands \in Nat /\ commands <= MaxCommands + 1
      BY <1>0, ClientBounds DEF Types, Inv, Bounded
    <2>2. /\ pc = "menu" => commands < MaxCommands
          /\ pc = "sendExit" => commands <= MaxCommands /\ o = "exit"
          /\ pc = "start" => k = "CLIENT" /\ o = "none"
          /\ pc \in {"start", "menu", "sendExit"}
      BY DEF Inv, Bounded, Sending, Sendings
    <2>3. next # "sendExit" /\ (k # "CLIENT" => pc # "start")
      BY DEF Sendings, Sending
    <2> QED BY <1>2, <2>1, <2>2, <2>3 DEF Bounded
  <1>8. Asleep'
    <2> SUFFICES ASSUME udp PROVE Asleep'
      BY <1>1 DEF MainFrame, Asleep
    <2>1. /\ commands = 0 /\ listener # "recv"
          /\ (pc \in {"start", "media"} /\ listener = "none") \/ ~running
          /\ pc \notin {"reply", "sendExit"}
      BY <1>1 DEF Inv, Asleep
    <2>2. pc = "start" /\ k = "CLIENT" /\ next = "media" /\ o = "none"
      BY <2>1 DEF Sending, Sendings
    <2>3. UNCHANGED listener
      BY <1>1 DEF MainFrame
    <2> QED BY <1>1, <1>2, <2>1, <2>2, <2>3 DEF Asleep
  <1>9. Padding'
    BY <1>1 DEF Inv, Padding, MainFrame
  <1> QED BY <1>2, <1>3, <1>4, <1>5, <1>6, <1>7, <1>8, <1>9 DEF Inv

-----------------------------------------------------------------------------
(***************************************************************************)
(* The other steps.                                                        *)
(***************************************************************************)

\* The main thread gets to the menu, through it and out of it, and Ctrl-C.
LEMMA MainKeeps ==
    ASSUME Inv,
           \/ MediaReturns \/ Spawn \/ CinFails \/ MenuInterrupted
           \/ Close \/ Join \/ Sigint
    PROVE  Inv' /\ UNCHANGED <<last, answered>>
  <1>0. Types
    BY Flags DEF Inv
  <1>1. /\ UNCHANGED <<toServer, toClient, last, answered, commands, toListener, applied, udp>>
        /\ proc = "up" /\ proc' \in {"up", "exited"}
        /\ UNCHANGED <<cb, srv, served, pushes, op, named, flags>>
    <2>1. CASE MediaReturns \/ Close
      <3>1. /\ proc = "up" /\ MainFrame
            /\ UNCHANGED <<proc, op, flags, named, toServer, toClient, roleVars>>
        BY <2>1 DEF MediaReturns, Close
      <3> QED BY <3>1 DEF MainFrame, srvVars, roleVars
    <2>2. CASE Spawn \/ CinFails \/ MenuInterrupted \/ Join
      <3>1. proc = "up" /\ proc' \in {"up", "exited"}
        BY <2>2 DEF Spawn, CinFails, Chosen, MenuInterrupted, Join
      <3>2. UNCHANGED <<op, flags, named, udp, netVars, srvVars, applied, roleVars>>
        BY <2>2 DEF Spawn, CinFails, MenuInterrupted, Join, mainVars
      <3> QED BY <3>1, <3>2 DEF netVars, srvVars, roleVars
    <2>3. CASE Sigint
      BY <2>3 DEF Sigint, netVars, srvVars, roleVars
    <2> QED BY <2>1, <2>2, <2>3
  <1>2. Replies'
    BY <1>1, RepliesSame DEF Inv
  <1>3. /\ running' \in BOOLEAN /\ cinOk' \in BOOLEAN
        /\ (running' => running) /\ (cinOk' => cinOk)
    <2>1. (running' = running \/ running' = FALSE) /\ (cinOk' = cinOk \/ cinOk' = FALSE)
      BY DEF MediaReturns, Spawn, CinFails, MenuInterrupted, Close, Join, Sigint, mainVars
    <2>2. running \in BOOLEAN /\ cinOk \in BOOLEAN
      BY <1>0 DEF Types
    <2>3. (running' => running) /\ (cinOk' => cinOk)
      BY <2>1
    <2>4. running' \in BOOLEAN /\ cinOk' \in BOOLEAN
      BY <2>1, <2>2
    <2> QED BY <2>3, <2>4
  <1>4. /\ pc' \in MainPcs /\ conn' \in {conn, "mine"}
        /\ listener' = listener \/ (pc = "spawn" /\ listener' = "setup")
    BY <1>0 DEF MediaReturns, Spawn, CinFails, MenuInterrupted, Close, Join, Sigint, mainVars, Types,
       MainPcs, MainFrame, netVars
  <1>5. TypeOK'
    <2>1. Types'
      BY <1>0, <1>1, <1>3, <1>4 DEF Types, flags
    <2> QED BY <2>1, Flags
  <1>6. \/ pc' = pc
        \/ pc = "media" /\ pc' = "spawn" /\ (udp => ~running')
        \/ pc = "spawn" /\ pc' = "menu"
        \/ pc \in {"menu", "close", "reply"} /\ pc' \in {"close", "join"}
        \/ pc = "reply" /\ op # "exitLogout" /\ pc' = "menu" /\ ~running'
        \/ pc = "reply" /\ op = "exitLogout" /\ pc' = "sendExit" /\ ~running'
    BY DEF MediaReturns, Spawn, CinFails, MenuInterrupted, Close, Join, Sigint, mainVars
  <1>7. Turn'
    <2>1. Turn /\ op' = op /\ isLogin' = isLogin /\ named' = named
      BY <1>1 DEF Inv, flags
    <2>2. conn' = "open" => conn = "open"
      BY <1>4
    <2>3. pc = "reply" /\ op = "exitLogout" /\ conn = "open" => last = "LOGOUT"
      BY <2>1 DEF Turn, SentBy
    <2> QED BY <1>1, <1>3, <1>6, <2>1, <2>2, <2>3 DEF Turn
  <1>8. Bounded'
    BY <1>1, <1>6 DEF Inv, Bounded
  <1>9. Asleep'
    <2> SUFFICES ASSUME udp PROVE Asleep'
      BY <1>1 DEF Asleep
    <2>1. /\ commands = 0 /\ listener # "recv"
          /\ (pc \in {"start", "media"} /\ listener = "none") \/ ~running
          /\ pc \notin {"reply", "sendExit"}
      BY <1>1 DEF Inv, Asleep
    <2>2. listener' # "recv" /\ pc' \notin {"reply", "sendExit"}
      BY <1>4, <1>6, <2>1
    <2>3. proc' = "up" => (pc' \in {"start", "media"} /\ listener' = "none") \/ ~running'
      BY <1>3, <1>4, <1>6, <2>1
    <2> QED BY <1>1, <2>1, <2>2, <2>3 DEF Asleep
  <1>10. Padding'
    BY <1>1 DEF Inv, Padding
  <1> QED BY <1>1, <1>2, <1>5, <1>7, <1>8, <1>9, <1>10 DEF Inv

\* The end of a wait for a reply.
LEMMA ReplyKeeps ==
    ASSUME Inv, GetReply \/ ReplyFails
    PROVE  /\ Inv'
           /\ UNCHANGED last /\ (UNCHANGED answered \/ answered' = TRUE)
  <1>0. Types
    BY Flags DEF Inv
  <1>1. /\ proc = "up" /\ pc = "reply" /\ MainFrame
        /\ UNCHANGED <<proc, op, named, cinOk, toServer, last, commands>>
    BY DEF GetReply, ReplyFails, roleVars
  <1>2. \/ UNCHANGED <<toClient, answered>>
        \/ toClient > 0 /\ toClient' = toClient - 1 /\ answered' = TRUE
    BY DEF GetReply, ReplyFails, roleVars
  <1>3. \/ conn' = conn /\ (conn = "open" => answered' = TRUE)
        \/ conn' = "broken"
    BY DEF GetReply, ReplyFails, roleVars
  <1>4. /\ pc' \in {"sendExit", "close", "menu"}
        /\ pc' = "sendExit" <=> op = "exitLogout"
        /\ pc' = "menu" => op \notin {"exit", "exitLogout"}
    BY DEF GetReply, ReplyFails, AfterOption
  <1>5. running' \in BOOLEAN /\ (running' => running)
    <2>1. \E b \in {server_disconnected, server_disconnected'} :
              running' = (running /\ (op = "exit" => b))
      BY DEF GetReply, ReplyFails, AfterOption
    <2>2. PICK b : running' = (running /\ (op = "exit" => b))
      BY <2>1
    <2> QED BY <2>2, Zenon
  <1>6. /\ isLogin' \in BOOLEAN
        /\ conn' = "open" /\ isLogin' => op \in {"SIGNUP", "LOGIN"} \/ (op = "exit" /\ isLogin)
    <2>1. CASE GetReply
      <3>1. isLogin' = (op \in {"SIGNUP", "LOGIN"} \/ (op = "exit" /\ isLogin))
        BY <2>1 DEF GetReply
      <3> QED BY <3>1, Zenon
    <2>2. CASE ReplyFails
      BY <1>0, <2>2 DEF ReplyFails, flags, Types
    <2> QED BY <2>1, <2>2
  <1>7. exit_selected' \in BOOLEAN /\ server_disconnected' \in BOOLEAN
    <2>1. CASE GetReply
      <3>1. exit_selected' = (op = "exit" \/ (op \in {"LOGOUT", "exitLogout"} /\ exit_selected))
        BY <2>1 DEF GetReply
      <3>2. server_disconnected' = server_disconnected \/ server_disconnected' = TRUE
        BY <2>1 DEF GetReply
      <3>3. exit_selected' \in BOOLEAN
        BY <3>1, Zenon
      <3> QED BY <1>0, <3>2, <3>3 DEF Types
    <2>2. CASE ReplyFails
      BY <1>0, <2>2 DEF ReplyFails, flags, Types
    <2> QED BY <2>1, <2>2
  <1>8. TypeOK'
    <2>1. toClient' \in 0..2 /\ answered' \in BOOLEAN
      <3>1. toClient \in 0..2 /\ answered \in BOOLEAN
        BY <1>0 DEF Types
      <3>2. toClient' \in 0..2
        BY <1>2, <3>1
      <3>3. answered' \in BOOLEAN
        BY <1>2, <3>1
      <3> QED BY <3>2, <3>3
    <2>2. pc' \in MainPcs /\ conn' \in {"open", "closed", "reset", "broken", "mine"}
      BY <1>0, <1>3, <1>4 DEF Types, MainPcs
    <2>3. Types'
      BY <1>0, <1>1, <1>5, <1>6, <1>7, <2>1, <2>2 DEF Types, MainFrame, srvVars
    <2> QED BY <2>3, Flags
  <1>9. Replies'
    <2>1. CASE UNCHANGED <<toClient, answered>>
      BY <1>1, <2>1, RepliesSame DEF Inv
    <2>2. CASE toClient > 0 /\ toClient' = toClient - 1 /\ answered' = TRUE
      <3>1. \A k : InStream(k)' <=> InStream(k)
        BY <1>1 DEF InStream
      <3>2. Orderly' /\ toClient \in 0..2
        BY <1>0, <1>1 DEF Orderly, Inv, Replies, Types
      <3> QED BY <1>1, <2>2, <3>1, <3>2 DEF Inv, Replies
    <2> QED BY <1>2, <2>1, <2>2
  <1>10. Turn'
    <2>1. op # "none" /\ (conn = "open" => last = SentBy(op)) /\ op \in Options
      BY <1>0, <1>1 DEF Inv, Turn, Types
    <2>2. /\ op = "exitLogout" => SentBy(op) = "LOGOUT"
          /\ op \notin {"exit", "exitLogout"} => SentBy(op) = op
      BY DEF SentBy
    <2>3. conn' = "open" => conn = "open" /\ answered'
      BY <1>3
    <2>4. pc' = "menu" /\ conn' = "open" =>
            last' # "EXIT" /\ answered' /\ (isLogin' => last' \in {"SIGNUP", "LOGIN", "CALL"})
      BY <1>1, <1>4, <1>6, <2>1, <2>2, <2>3 DEF Options
    <2>5. pc' = "sendExit" /\ conn' = "open" => last' = "LOGOUT"
      BY <1>1, <1>4, <2>1, <2>2, <2>3
    <2>6. cinOk' /\ ~named' => last' \in {"CLIENT", "LOGOUT", "EXIT"}
      BY <1>1 DEF Inv, Turn
    <2>7. pc' \notin {"reply", "start", "media", "spawn"}
      BY <1>4
    <2> QED BY <2>4, <2>5, <2>6, <2>7 DEF Turn
  <1>11. Bounded'
    BY <1>1, <1>4 DEF Inv, Bounded
  <1>12. Asleep'
    BY <1>1 DEF Inv, Asleep, MainFrame
  <1>13. Padding'
    BY <1>1 DEF Inv, Padding, MainFrame
  <1> QED BY <1>1, <1>2, <1>8, <1>9, <1>10, <1>11, <1>12, <1>13 DEF Inv

\* What the main thread and the role do not notice.
LEMMA OthersKeep ==
    ASSUME Inv, UNCHANGED mainVars, UNCHANGED <<udp, roleVars>>,
           conn' = "open" => conn = "open", listener' = "recv" => ~udp,
           listener' = "none" <=> listener = "none",
           proc = "up"
    PROVE  Turn' /\ Bounded' /\ Asleep'
  <1>1. UNCHANGED <<pc, op, running, isLogin, named, cinOk, last, answered, commands>>
    BY DEF mainVars, flags, roleVars
  <1>2. Turn'
    BY <1>1 DEF Inv, Turn
  <1>3. Bounded'
    BY <1>1 DEF Inv, Bounded
  <1>4. Asleep'
    BY <1>1 DEF Inv, Asleep
  <1> QED BY <1>2, <1>3, <1>4

\* Messages at the end of what the listener reads keep the zeros behind INVITEs.
LEMMA PaddingAppend ==
    ASSUME TypeOK, Padding, NEW m \in Pushed \ {"zeros"}, UNCHANGED <<proc, applied>>, proc = "up",
           \/ toListener' = Append(toListener, m)
           \/ m = "INVITE" /\ toListener' = toListener \o <<m, "zeros">>
    PROVE  Padding'
  <1>0. toListener \in Seq(Pushed) /\ Len(toListener) \in Nat
    BY Flags DEF Types
  <1> DEFINE n == Len(toListener)
  <1>1. CASE toListener' = Append(toListener, m)
    <2>1. /\ Len(toListener') = n + 1 /\ toListener'[n + 1] = m
          /\ \A i \in 1..n : toListener'[i] = toListener[i]
      BY <1>0, <1>1
    <2>2. \A i \in 1..(n + 1) : i \in 1..n \/ i = n + 1
      BY <1>0
    <2>3. \A i \in 1..n : i = 1 \/ i - 1 \in 1..n
      BY <1>0
    <2>4. ASSUME NEW i \in 1..Len(toListener'), toListener'[i] = "zeros"
          PROVE  i \in 1..n /\ toListener[i] = "zeros"
      BY <2>1, <2>2, <2>4
    <2>5. ASSUME NEW i \in 1..Len(toListener'), toListener'[i] = "zeros"
          PROVE  i # 1 /\ toListener'[i - 1] = "INVITE"
      <3>1. i \in 1..n /\ toListener[i] = "zeros"
        BY <2>4, <2>5
      <3>2. i # 1 /\ toListener[i - 1] = "INVITE"
        BY <3>1 DEF Padding
      <3> QED BY <2>1, <2>3, <3>1, <3>2
    <2> QED BY <2>5 DEF Padding
  <1>2. CASE m = "INVITE" /\ toListener' = toListener \o <<m, "zeros">>
    <2> DEFINE q == <<m, "zeros">>
    <2>0. q \in Seq(Pushed) /\ Len(q) = 2 /\ q[1] = "INVITE" /\ q[2] = "zeros"
      BY <1>2 DEF Pushed
    <2> HIDE DEF q
    <2>1. toListener' = toListener \o q
      BY <1>2 DEF q
    <2>2. /\ Len(toListener') = n + 2
          /\ \A i \in 1..n : toListener'[i] = toListener[i]
          /\ toListener'[n + 1] = q[1] /\ toListener'[n + 2] = q[2]
      <3>1. Len(toListener') = n + 2
        <4>1. Len(toListener \o q) = Len(toListener) + Len(q)
          BY <1>0, <2>0, ConcatProperties, Zenon
        <4> QED BY <2>0, <2>1, <4>1
      <3>2. \A i \in 1..n : toListener'[i] = toListener[i]
        BY <1>0, <2>0, <2>1
      <3>3. toListener'[n + 1] = q[1]
        BY <1>0, <2>0, <2>1, ConcatProperties
      <3>4. toListener'[n + 2] = q[2]
        BY <1>0, <2>0, <2>1, ConcatProperties
      <3> QED BY <3>1, <3>2, <3>3, <3>4
    <2>3. \A i \in 1..(n + 2) : i \in 1..n \/ i = n + 1 \/ i = n + 2
      BY <1>0
    <2>4. \A i \in 1..n : i = 1 \/ i - 1 \in 1..n
      BY <1>0
    <2>5. (n + 2) - 1 = n + 1 /\ n + 2 # 1
      BY <1>0
    <2> QED BY <2>0, <2>2, <2>3, <2>4, <2>5 DEF Padding
  <1> QED BY <1>1, <1>2

\* The listener thread.
LEMMA ListenerKeeps ==
    ASSUME Inv, Listener
    PROVE  Inv' /\ UNCHANGED <<last, answered>>
  <1>0. Types
    BY Flags DEF Inv
  <1>1. /\ UNCHANGED <<mainVars, udp, conn, toServer, toClient, srvVars, roleVars, cb>>
        /\ proc = "up"
    BY DEF Listener, Setup, Accept, ListenerRecv, ListenerEof, ListenerFrame
  <1>2. /\ listener \in {"setup", "accept", "recv"}
        /\ listener' \in {"accept", "recv", "ended"}
        /\ listener' = "recv" => listener = "recv" \/ running
    BY DEF Listener, Setup, Accept, ListenerRecv, ListenerEof
  <1>3. /\ applied' = applied
        /\ \/ UNCHANGED <<proc, toListener>>
           \/ /\ toListener # <<>> /\ toListener' = Tail(toListener)
              /\ proc' = IF Head(toListener) \in {"INVITE", "ACCEPT"} THEN "aborted" ELSE proc
    <2>1. \A sdp \in {{}, SentKeys} : ~ReadsDescription(sdp)
      BY DEF SentKeys, ReadsDescription
    <2> QED BY <2>1 DEF Listener, Setup, Accept, ListenerRecv, ListenerEof
  <1>4. Replies' /\ UNCHANGED <<last, answered>>
    BY <1>1, RepliesSame DEF Inv, roleVars
  <1>5. Turn' /\ Bounded' /\ Asleep'
    <2>1. udp => listener # "recv" /\ ~running
      BY <1>1, <1>2 DEF Inv, Asleep
    <2> QED BY <1>1, <1>2, <2>1, OthersKeep DEF Inv
  <1>6. toListener' \in Seq(Pushed)
    <2>1. toListener \in Seq(Pushed)
      BY <1>0 DEF Types
    <2>2. toListener # <<>> => Tail(toListener) \in Seq(Pushed)
      BY <2>1
    <2>3. toListener' = toListener \/ (toListener # <<>> /\ toListener' = Tail(toListener))
      BY <1>3
    <2> QED BY <2>1, <2>2, <2>3
  <1>7. TypeOK'
    <2>1. proc' \in {"up", "exited", "aborted", "sigpipe"}
      BY <1>1, <1>3
    <2>2. UNCHANGED <<pc, op, running, server_disconnected, exit_selected, isLogin, named, cinOk,
                      srv, served, pushes, last, answered, commands>>
      BY <1>1 DEF mainVars, flags, srvVars, roleVars
    <2>3. Types'
      BY <1>0, <1>1, <1>2, <1>3, <1>6, <2>1, <2>2 DEF Types
    <2> QED BY <2>3, Flags
  <1>8. Padding'
    <2>1. CASE UNCHANGED <<proc, toListener>>
      BY <1>3, <2>1 DEF Inv, Padding
    <2>2. CASE /\ toListener # <<>> /\ toListener' = Tail(toListener)
               /\ proc' = IF Head(toListener) \in {"INVITE", "ACCEPT"} THEN "aborted" ELSE proc
      <3>0. toListener \in Seq(Pushed)
        BY <1>0 DEF Types
      <3>1. /\ Head(toListener) = toListener[1] /\ Len(toListener) \in Nat
            /\ \A i \in 1..Len(toListener') :
                  /\ toListener'[i] = toListener[i + 1]
                  /\ i + 1 \in 1..Len(toListener) /\ i + 1 # 1 /\ (i + 1) - 1 = i
                  /\ i # 1 => i - 1 \in 1..Len(toListener') /\ (i - 1) + 1 = i
        BY <2>2, <3>0
      <3>2. ASSUME NEW i \in 1..Len(toListener'), toListener'[i] = "zeros"
            PROVE  toListener[i] = "INVITE"
        BY <3>1, <3>2 DEF Inv, Padding
      <3>3. applied' = 0
        BY <1>3 DEF Inv, Padding
      <3> QED BY <2>2, <3>1, <3>2, <3>3 DEF Padding
    <2> QED BY <1>3, <2>1, <2>2
  <1> QED BY <1>4, <1>5, <1>7, <1>8 DEF Inv

\* The server.
LEMMA ServerKeeps ==
    ASSUME Inv, ConnectBack \/ Serve \/ Push \/ Drop \/ Die
    PROVE  Inv' /\ UNCHANGED <<last, answered>>
  <1>0. Types
    BY Flags DEF Inv
  <1>1. UNCHANGED <<proc, mainVars, udp, listener, applied, roleVars>> /\ proc = "up"
    BY DEF ConnectBack, Serve, Push, Drop, Die, ServerFrame
  <1>2. UNCHANGED <<pc, op, running, server_disconnected, exit_selected, isLogin, named, cinOk,
                    last, answered, commands>>
    BY <1>1 DEF mainVars, flags, roleVars
  <1>3. Replies' /\ toClient' \in 0..2 /\ toServer' \in Seq(Commands)
    <2>1. CASE UNCHANGED <<toServer, toClient>>
      BY <1>0, <1>2, <2>1, RepliesSame DEF Inv, Types
    <2>2. CASE ConnectBack \/ Serve
      <3>1. /\ toServer # <<>> /\ toServer' = Tail(toServer)
            /\ \/ UNCHANGED toClient
               \/ Head(toServer) \in Awaited /\ toClient' = toClient + 1
        BY <2>2 DEF ConnectBack, Serve, RepliesTo, Awaited
      <3>2. Replies' /\ toClient' \in 0..2
        BY <1>2, <3>1, RepliesServe DEF Inv
      <3> QED BY <1>0, <3>1, <3>2 DEF Types
    <2> QED BY <2>1, <2>2 DEF Push, Drop, Die
  <1>4. /\ conn' \in {"open", "closed", "reset", "broken", "mine"}
        /\ conn' = "open" => conn = "open"
    BY <1>0 DEF ConnectBack, Serve, Push, Drop, Die, ServerEnd, Types
  <1>5. Turn' /\ Bounded' /\ Asleep'
    <2>1. udp => listener # "recv"
      BY DEF Inv, Asleep
    <2> QED BY <1>1, <1>4, <2>1, OthersKeep DEF Inv
  <1>6. \/ UNCHANGED toListener
        \/ toListener' = <<"HELLO">>
        \/ \E m \in Pushed \ {"zeros"} :
              \/ toListener' = Append(toListener, m)
              \/ m = "INVITE" /\ toListener' = toListener \o <<m, "zeros">>
    BY DEF ConnectBack, Serve, Push, Drop, Die, Pushed
  <1>7. toListener' \in Seq(Pushed)
    <2>0. toListener \in Seq(Pushed)
      BY <1>0 DEF Types
    <2>1. <<"HELLO">> \in Seq(Pushed) /\ <<"INVITE", "zeros">> \in Seq(Pushed)
      BY DEF Pushed
    <2>2. toListener \o <<"INVITE", "zeros">> \in Seq(Pushed)
      BY <2>0, <2>1
    <2>3. \A m \in Pushed : Append(toListener, m) \in Seq(Pushed)
      BY <2>0
    <2> QED BY <1>6, <2>0, <2>1, <2>2, <2>3
  <1>8. TypeOK'
    <2>1. /\ cb' \in {"none", "open", "closed"} /\ srv' \in {"new", "serving", "dropped", "dead"}
          /\ pushes' \in 0..MaxPushes
      BY <1>0, ClientBounds DEF ConnectBack, Serve, Push, Drop, Die, Types
    <2>2. served' \in SUBSET Commands
      <3>1. toServer # <<>> => Head(toServer) \in Commands
        BY <1>0 DEF Types
      <3> QED BY <1>0, <3>1 DEF ConnectBack, Serve, Push, Drop, Die, Types
    <2>3. Types'
      BY <1>0, <1>1, <1>2, <1>3, <1>4, <1>7, <2>1, <2>2 DEF Types
    <2> QED BY <2>3, Flags
  <1>9. Padding'
    <2>1. CASE UNCHANGED toListener
      BY <1>1, <2>1 DEF Inv, Padding
    <2>2. CASE toListener' = <<"HELLO">>
      <3>1. Len(<<"HELLO">>) = 1 /\ <<"HELLO">>[1] = "HELLO"
        OBVIOUS
      <3> QED BY <1>1, <2>2, <3>1 DEF Inv, Padding
    <2>3. CASE \E m \in Pushed \ {"zeros"} :
                 \/ toListener' = Append(toListener, m)
                 \/ m = "INVITE" /\ toListener' = toListener \o <<m, "zeros">>
      BY <1>1, <2>3, PaddingAppend DEF Inv
    <2> QED BY <1>6, <2>1, <2>2, <2>3
  <1> QED BY <1>2, <1>3, <1>5, <1>8, <1>9 DEF Inv

-----------------------------------------------------------------------------
(***************************************************************************)
(* The invariant and the theorems.                                         *)
(***************************************************************************)

\* It holds at first.
LEMMA InvInit == Init => Inv
  <1> SUFFICES ASSUME Init PROVE Inv
    OBVIOUS
  <1> USE DEF Init
  <1>1. TypeOK
    <2>1. toServer \in Seq(Commands) /\ toListener \in Seq(Pushed)
      OBVIOUS
    <2>2. /\ pushes \in 0..MaxPushes /\ applied \in 0..MaxPushes /\ toClient \in 0..2
          /\ commands \in 0..(MaxCommands + 2)
      BY ClientBounds
    <2>3. pc \in MainPcs /\ op \in Options /\ last \in Commands /\ served \in SUBSET Commands
      BY DEF MainPcs, Options, Commands
    <2>4. Types
      BY <2>1, <2>2, <2>3 DEF Types
    <2> QED BY <2>4, Flags
  <1>2. \A i \in 1..Len(toServer) : FALSE
    OBVIOUS
  <1>3. \A i \in 1..Len(toListener) : FALSE
    OBVIOUS
  <1>4. Replies
    BY <1>2 DEF Replies, Orderly, InStream, Awaited
  <1>5. Turn /\ Asleep
    BY DEF Turn, Asleep
  <1>6. Bounded
    BY ClientBounds DEF Bounded
  <1>7. Padding
    BY <1>3 DEF Padding
  <1> QED BY <1>1, <1>4, <1>5, <1>6, <1>7 DEF Inv

\* Every step keeps the invariant, and is a step of the role or none.
LEMMA InvStep ==
    ASSUME Inv, [Next]_vars
    PROVE  Inv' /\ [Role!RoleNext]_(Role!roleVars)
  <1>0. answered \in BOOLEAN /\ last \in Commands
    BY Flags DEF Inv, Types
  <1>1. UNCHANGED <<last, answered>> => [Role!RoleNext]_(Role!roleVars)
    BY DEF Role!roleVars
  <1>2. CASE SendClient \/ Option \/ SendExit
    <2>1. PICK s \in Sendings : Sending(s[1], s[2], s[3])
      BY <1>2, SendingSteps DEF Inv
    <2>2. \E k, n, o : <<k, n, o>> \in Sendings /\ Sending(k, n, o)
      BY <2>1 DEF Sendings
    <2>3. PICK k, n, o : <<k, n, o>> \in Sendings /\ Sending(k, n, o)
      BY <2>2
    <2>4. k \in Commands
      BY <2>3 DEF Sendings, Commands
    <2>5. /\ Inv'
          /\ \/ UNCHANGED <<last, answered>>
             \/ /\ last' = k /\ (answered' <=> ~AwaitsReply(k))
                /\ \/ last = "CLIENT" /\ k = "CLIENT" /\ answered
                   \/ MayFollow(last, k) /\ (answered \/ ~NeedsReplyFirst(last, k))
      BY <2>3, SendingKeeps
    <2>6. answered' \in BOOLEAN
      BY <2>5, Flags DEF Inv, Types
    <2>7. CASE last = "CLIENT" /\ k = "CLIENT" /\ answered /\ last' = k /\ (answered' <=> ~AwaitsReply(k))
      <3>1. ~AwaitsReply(k)
        BY <2>7 DEF AwaitsReply
      <3>2. last' = last /\ answered' /\ answered
        BY <2>7, <3>1
      <3>3. answered' = answered
        BY <1>0, <2>6, <3>2, Zenon
      <3> QED BY <1>1, <2>5, <3>2, <3>3
    <2>8. CASE /\ last' = k /\ (answered' <=> ~AwaitsReply(k))
               /\ MayFollow(last, k) /\ (answered \/ ~NeedsReplyFirst(last, k))
      <3>1. answered' = ~AwaitsReply(k)
        BY <2>6, <2>8, Zenon
      <3>2. Role!Sends(k)
        BY <2>8, <3>1, Zenon DEF Role!Sends, Role!MayFollow, Role!NeedsReplyFirst, Role!AwaitsReply,
              MayFollow, NeedsReplyFirst, AwaitsReply
      <3> QED BY <2>4, <2>5, <3>2 DEF Role!RoleNext, Role!Commands, Commands
    <2> QED BY <1>1, <2>5, <2>7, <2>8
  <1>3. CASE GetReply \/ ReplyFails
    <2>1. Inv' /\ last' = last /\ (answered' = answered \/ answered' = TRUE)
      BY <1>3, ReplyKeeps
    <2>2. CASE answered' = answered
      BY <1>1, <2>1, <2>2
    <2>3. CASE answered' = TRUE /\ ~answered
      BY <2>1, <2>3 DEF Role!RoleNext, Role!TakesReply
    <2>4. CASE answered' = TRUE /\ answered
      BY <1>0, <1>1, <2>1, <2>4
    <2> QED BY <2>1, <2>2, <2>3, <2>4
  <1>4. CASE \/ MediaReturns \/ Spawn \/ CinFails \/ MenuInterrupted
             \/ Close \/ Join \/ Sigint
    BY <1>1, <1>4, MainKeeps
  <1>5. CASE Listener
    BY <1>1, <1>5, ListenerKeeps
  <1>6. CASE ConnectBack \/ Serve \/ Push \/ Drop \/ Die
    BY <1>1, <1>6, ServerKeeps
  <1>7. CASE UNCHANGED vars
    <2>1. /\ UNCHANGED <<proc, pc, op, running, server_disconnected, exit_selected, isLogin, named,
                         cinOk, udp, listener, conn, toServer, toClient, cb, toListener>>
          /\ UNCHANGED <<srv, served, pushes, applied, last, answered, commands>>
      BY <1>7 DEF vars, mainVars, flags, netVars, srvVars, roleVars
    <2>2. TypeOK'
      BY <2>1, Flags DEF Inv, Types
    <2>3. Replies' /\ Padding'
      BY <2>1, RepliesSame DEF Inv, Padding
    <2>4. Turn' /\ Bounded' /\ Asleep'
      BY <2>1 DEF Inv, Turn, Bounded, Asleep
    <2> QED BY <1>1, <2>1, <2>2, <2>3, <2>4 DEF Inv
  <1> QED BY <1>2, <1>3, <1>4, <1>5, <1>6, <1>7 DEF Next, Main, Environment

\* The invariant holds throughout.
LEMMA Invariant == Spec => []Inv
  BY InvInit, InvStep, PTL DEF Spec

\* Every variable of the client and of the two connections keeps its type; above
\* all, no more than the two replies of exit_user() are ever on their way.
THEOREM ClientTypeCorrect == Spec => []TypeOK
  <1>1. Inv => TypeOK
    BY DEF Inv
  <1> QED BY <1>1, Invariant, PTL

\* While media_handler() sleeps in recv(), the menu sends nothing and the listener
\* takes no message, with any number of commands and of calls to come: Ctrl-C is the
\* only way out, and it leaves running false.
THEOREM MediaBlocks == Spec => [](udp => commands = 0 /\ listener # "recv")
  <1>1. Inv => (udp => commands = 0 /\ listener # "recv")
    BY DEF Inv, Asleep
  <1> QED BY <1>1, Invariant, PTL

\* The listener applies no description of a peer, and whoever is sent one aborts,
\* however many INVITEs and ACCEPTs are sent.
THEOREM NoCallTaken ==
    Spec => [](applied = 0 /\ (toListener # <<>> /\ Head(toListener) = "zeros" => proc = "aborted"))
  <1>1. Inv => applied = 0 /\ (toListener # <<>> /\ Head(toListener) = "zeros" => proc = "aborted")
    <2> SUFFICES ASSUME Inv
                 PROVE  applied = 0 /\ (toListener # <<>> /\ Head(toListener) = "zeros" => proc = "aborted")
      OBVIOUS
    <2>1. toListener \in Seq(Pushed)
      BY Flags DEF Inv, Types
    <2>2. toListener # <<>> => 1 \in 1..Len(toListener) /\ Head(toListener) = toListener[1]
      BY <2>1
    <2> QED BY <2>2 DEF Inv, Padding
  <1> QED BY <1>1, Invariant, PTL

\* The client keeps to the role that the server relies on: the order of the
\* commands, and the reply to one before the next.
THEOREM ClientKeepsRole == Spec => ImplementsRole
  <1>1. Init => Role!RoleInit
    BY DEF Init, Role!RoleInit
  <1>2. Inv /\ [Next]_vars => [Role!RoleNext]_(Role!roleVars)
    BY InvStep
  <1> QED BY <1>1, <1>2, Invariant, PTL DEF Spec, ImplementsRole, Role!RoleSpec

=============================================================================
