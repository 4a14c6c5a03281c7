------------------------------ MODULE Protocol ------------------------------
(***************************************************************************)
(* What a client may send on the connection it opens to the server, in     *)
(* which order, and what it waits for: the interface between client.cpp    *)
(* and server.cpp.  Client is shown to keep to it, Server relies on it.    *)
(***************************************************************************)

Commands == {"CLIENT", "SIGNUP", "LOGIN", "LOGOUT", "CALL", "EXIT"}

\* CALL is answered on the other connection, CLIENT not at all.
AwaitsReply(k) == k \notin {"CLIENT", "CALL"}

\* What the menu lets follow command l: a call once SIGNUP or LOGIN was answered,
\* until LOGOUT; EXIT, before which exit_user() sends LOGOUT when a name was
\* ever given; nothing after EXIT.
MayFollow(l, k) ==
    /\ k # "CLIENT"
    /\ l # "EXIT"
    /\ k = "CALL" => l \in {"SIGNUP", "LOGIN", "CALL"}
    /\ k = "EXIT" => l \in {"CLIENT", "LOGOUT"}

\* The reply to command l is taken before k is sent, except that an interrupted
\* exit_user() sends EXIT without waiting for the reply to its LOGOUT.
NeedsReplyFirst(l, k) == AwaitsReply(l) /\ ~(l = "LOGOUT" /\ k = "EXIT")

=============================================================================
