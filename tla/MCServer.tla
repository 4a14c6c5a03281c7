------------------------------ MODULE MCServer ------------------------------
(* Server for TLC: the clients and the commands each may send.             *)
EXTENDS Server, TLC

CONSTANTS c1, c2, alice, bob, p1, p2

MCSocketFds == Fds \cup {NoFd}

SIGNUP(n, p) == [cmd |-> "SIGNUP", name |-> n, password |-> p]
LOGIN(n, p) == [cmd |-> "LOGIN", name |-> n, password |-> p]
CALL(c, n) == [cmd |-> "CALL", name |-> n, sdp |-> c]
LOGOUT == [cmd |-> "LOGOUT"]
EXIT == [cmd |-> "EXIT"]

\* The texts: alice's name is bob's with the word EXIT after it.  A name or a
\* password may be cut there and, the password, before it begins.
MCStarts ==
    [w \in Names \cup Passwords |-> CASE w = alice -> {bob} [] w = p1 -> {NoPassword} [] OTHER -> {}]
MCInner == [w \in Names \cup Passwords |-> IF w = alice THEN {EXIT} ELSE {}]

\* c1 signs alice up and calls her, or logs out without a name and exits.  c2
\* logs in as alice and calls her, too, or calls the entry that logOutUser()
\* inserts for the empty name.
CallScript ==
    (c1 :> {<<SIGNUP(alice, p1), CALL(c1, alice)>>, <<LOGOUT, EXIT>>})
    @@ (c2 :> {<<LOGIN(alice, p1), CALL(c2, alice)>>, <<CALL(c2, NoName)>>})

\* c1 signs alice up, while c2 logs in as alice and calls her.
FaultScript ==
    (c1 :> {<<SIGNUP(alice, p1)>>})
    @@ (c2 :> {<<LOGIN(alice, p1), CALL(c2, alice)>>})

\* Two clients that call each other; one of them logs out behind its call.
CrossScript ==
    (c1 :> {<<SIGNUP(alice, p1), LOGIN(alice, p1), CALL(c1, bob), LOGOUT>>})
    @@ (c2 :> {<<SIGNUP(bob, p1), LOGIN(bob, p1), CALL(c2, alice)>>})

\* A call may be under way when Ctrl-C comes, and another client connects.
ShutdownScript ==
    (c1 :> {<<SIGNUP(alice, p1), LOGIN(alice, p1), CALL(c1, alice)>>})
    @@ (c2 :> {<<>>})

-----------------------------------------------------------------------------
(* The shortest scripts in which what the repository says goes wrong.      *)

\* c1 moves on to another name; c2 logs in under the first and is called.
MovedScript ==
    (c1 :> {<<SIGNUP(alice, p1), SIGNUP(bob, p1)>>})
    @@ (c2 :> {<<LOGIN(alice, p1), CALL(c2, alice)>>})

\* Two calls to alice at once, one of them her own.
OverlapScript ==
    (c1 :> {<<SIGNUP(alice, p1), LOGIN(alice, p1), CALL(c1, alice)>>})
    @@ (c2 :> {<<SIGNUP(bob, p1), CALL(c2, alice)>>})

=============================================================================
