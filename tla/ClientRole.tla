----------------------------- MODULE ClientRole -----------------------------
(***************************************************************************)
(* The role of a client as an abstract specification: the last command the *)
(* server was sent, and whether the client has taken the reply to it.      *)
(***************************************************************************)
EXTENDS Protocol

VARIABLES
    last,      \* the last command, CLIENT at first
    answered   \* nothing is awaited any more

roleVars == <<last, answered>>

RoleInit == last = "CLIENT" /\ answered = TRUE

Sends(k) ==
    /\ MayFollow(last, k)
    /\ answered \/ ~NeedsReplyFirst(last, k)
    /\ last' = k
    /\ answered' = ~AwaitsReply(k)

TakesReply ==
    /\ ~answered
    /\ answered' = TRUE
    /\ UNCHANGED last

RoleNext == TakesReply \/ \E k \in Commands : Sends(k)

RoleSpec == RoleInit /\ [][RoleNext]_roleVars

=============================================================================
