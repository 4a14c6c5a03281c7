# A TLA+ model of the signaling server

The repository holds a small signaling system in C++: a TCP server that knows
users and passes calls on between clients, a client, four standalone WebRTC
peers and a map class with a file behind it. This directory models it in TLA+,
checks the models with TLC and proves their safety properties with TLAPS, for any
number of threads, clients, names, descriptors, commands and messages.

All source paths below are relative to the repository (`src/server.cpp` is the
server).

## 1. The system

| Component | State | Operations | Talks to |
|---|---|---|---|
| **UserStore** (`src/UserStore.cpp`, `src/User.cpp`) | `unordered_map<string, User>`, a mutex | `addUser`, `loginUser`, `logOutUser`, `hasUser`, `isLogin`, `getUser` | called by every handler thread of the server |
| **Server** (`src/server.cpp`) | the flag `running`, the descriptor table of the process, one thread with its locals per client, the one `userStore` | the accept loop and join loop of `main()`, `signal_handler()`, the branches of `client_handler()`: CLIENT, SIGNUP, LOGIN, CALL, LOGOUT, EXIT, and its end | clients, over two TCP connections each |
| **Client** (`src/client.cpp`) | its sockets, the name given last, one `PeerConnection` | the menu, the listener thread, `media_handler()`, the SIGINT handler | the server; the other client through WebRTC |
| **offerer, answerer** (`src/offerer.cpp`, `src/answerer.cpp`) | a `PeerConnection`, local description and candidates, a socket | exchange of descriptions and candidates, then media | each other over one TCP connection |
| **simple_offerer, simple_answerer** | the same without the socket | the same by copy and paste at the terminal | a person |
| **ThreadSafeMap** (`src/ThreadSafeMap.cpp`, `include/ThreadSafeMap.hpp`) | a map, a mutex, a file | `add`, `edit`, `remove`, `get`, `contains`, `writeToFile`, `readFromFile` | nobody: no program uses it |
| **Vendored code** (`include/nlohmann`, `include/plog`, `include/rtc`, `include/srtp.h`, `lib/`) | | | |

How a call goes. A client connects ("main" connection) and sends CLIENT with its
own address. The handler thread the server has started for it connects back to
that address ("callback" connection), where the client's listener thread accepts.
From then on the menu sends commands on the main connection and waits there for
the reply. SIGNUP stores name, password and the *callback descriptor* in the user
store. CALL looks the called name up in three separate calls of the store, takes
the descriptor from the copy it gets, sends INVITE on it, and waits with `recv()`
**on the called client's connection** for the answer, which it then forwards to
its own client's listener. LOGOUT and EXIT end the session.

What is hard about it:

* handler threads run in parallel and share the user store, of which one method
  (`logOutUser()`) takes no lock, and the descriptor numbers of the process,
  which one thread frees and another gets;
* several threads may read the same connection (two calls to one user), and the
  handler that waits there does not serve its own client meanwhile;
* the clients may vanish at any moment: between two commands, inside a call, as
  caller or as called; SIGINT may come at any moment;
* TCP has no message boundaries, and nothing in the server restores them;
* `client_socket_fd` is never closed, so descriptors run out;
* the client's main thread waits for replies, its listener for the server, and
  `join()` for the listener; the user, Ctrl-C and the end of the server may come
  at any of these waits;
* in the peers the library's callbacks run beside `main()` and share strings and
  vectors with it without a lock; `main()` waits for messages of the other peer
  whose number depends on what was found;
* `readFromFile()` reads without the lock what `writeToFile()` writes with it.

`PROJECT.json` lists the hazards one by one, each with its line.

## 2. The modules

```
 Users ──── Directory ──── Server ──── MCServer        ThreadSafeMap ──── MCThreadSafeMap
   └─────── UserStore        └─ ServerProofs ─┐              └─────────── ThreadSafeMapProofs
               │   └─ implements Directory    │
               └─ UserStoreProofs      ServerCallProofs
 Protocol ── Server                                    PeerExchange
     └────── ClientRole                                      └─────────── PeerExchangeProofs
     └────── Client ─── implements ClientRole
               └─ ClientProofs
```

| Module | Models |
|---|---|
| `Users` | `User` (password, flag, descriptor) and the calls of the store with their arguments and results. `username_` is left out: it is written and never read. |
| `Directory` | Abstract specification of the store: each call takes effect in one step between its invocation and its return. The one thing that shows before is the entry a pending `logOutUser()` inserts (`Appear`), whose flag is not assigned yet, so that `isLogin()` may give either answer. After `Break`, possible only while a `logOutUser()` is under way beside another call, nothing is promised. |
| `UserStore` | `UserStore.cpp`, one step per access to the table, with the mutex, uninitialized members, and the data race of the unlocked method. |
| `Protocol` | what a client may send after what, and which replies it awaits: the interface that `Server` relies on and `Client` keeps to. |
| `Server` | `server.cpp` on top of `Directory`, with descriptors, connections and clients that speak `Protocol`. |
| `ClientRole` | `Protocol` as an abstract specification of one client. |
| `Client` | `client.cpp`, against a server that does what `server.cpp` may do to one client. |
| `PeerExchange` | `offerer.cpp` and `answerer.cpp`, composed over one TCP connection. |
| `ThreadSafeMap` | `ThreadSafeMap.cpp` and its file. |
| `MCServer`, `MCThreadSafeMap` | the scripts and strings TLC runs the models with. |
| `UserStoreProofs`, `ServerProofs`, `ServerCallProofs`, `ClientProofs`, `PeerExchangeProofs`, `ThreadSafeMapProofs` | theorems (section 4). |

### UserStore

`users`, `mtx` are the members; `call`, `at`, `ret` are, per thread, the call it
is making, how far it has got and what it returned. `Enter` is the `lock_guard`
(none in `logOutUser()`), `Leave` its destruction and the return. `addUser()` is
four steps because it indexes the table four times, `loginUser()` is two (the
comparison and the write), and so is `logOutUser()`: `FindOrInsert` is its
`operator[]`, `ClearFlag` the write through the reference that it returned, and
as neither is locked, any step of another thread may come in between.
`operator[]` inserts a default constructed `User`
whose `islogin_` and `socket_fd_` have the value `Uninit`; an uninitialized flag
reads as either value.

Two accesses to the `unordered_map` of which one is unlocked and one inserts are
a data race on its structure (`Traverses`, `Races`; a write through a reference
does not walk through the table and stays valid whatever is inserted). `Corrupt` is the outcome in which the table is
ruined, and the model stops there because the program has no defined behaviour;
the outcome in which both accesses happen to work is the ordinary interleaving.

### Server

A step is one system call or one call of the store, together with the local
computation up to the next one; `pc[t]` says where handler `t` is.

* `MainCheck`, `Accept`, `MainJoin`: `main()`. `accept()` reserves its descriptor
  number when it is entered, as the kernel does, and fails when there is none.
* `Sigint`: `signal_handler()`. It wakes a main thread that already sleeps in
  `accept()`; one that is just before it is not woken. The handler does not wake
  the other threads.
* `Loop`, `Recv`, `RecvEnd`, `Dispatch`: the loop of `client_handler()` and its
  chain of `strncmp()`s. The connection a `recv()` sleeps on is fixed when it is
  entered (`h[t].file`), whatever becomes of the descriptor number.
* `Socket`, `Connect`, `Hello`: CLIENT and `connect_to_client()`. CLIENT carries
  the address of the client that sends it (`from`), which the handler keeps
  (`address`) and connects to.
* `Reply`: the common end of SIGNUP, LOGIN and LOGOUT. The result of the store
  is not looked at.
* `NotLoggedIn`, `LoggedIn`, `KnownUser`, `GotUser`, `SendInvite`, `WaitAnswer`,
  `NoReply`, `GetAnswer`, `Forward`: CALL.
* `Exit`, `ExitCb`, `Close`, `CloseAgain`: EXIT, and the two `close()`s of the
  same descriptor at the end of a handler.
* `StoreStep`, `StoreCorrupted`: `Apply` or `Appear`, and `Break`, of `Directory`.
* `ClientConnects`, `ClientSends`, `ClientListener`, `ListenerEnds`,
  `ClientLeaves`: the environment.

The kernel is modelled from how the server uses it: the lowest free descriptor is
handed out; `send()` to a connection the client has closed is lost and provokes a
reset, the one after that may raise SIGPIPE, which the server does not handle, so
the process ends.

What the user store keeps as a descriptor is a number of the table or -1
(`SocketFds`), the latter only after a descriptor went wrong. The history variable
`lost` is set when a number that a handler uses is not, or need not be, its own:
by `CloseAgain` when the number denotes something by then, and by `GotUser` when
the descriptor of the called user was never assigned. Nothing in the model
depends on it; the properties say what holds before.

An SDP is the client that made it; the answer also carries the offer it answers
(`re`), which no byte on the wire does: it is there so that the properties can
tell answers apart. Messages are otherwise their command and their arguments.

`recv()` may cut a message anywhere (`Reads`, with "shortRead" in `Events`).
`Beginnings` says what `strncmp()` and `sscanf()` make of the part that has
arrived: the whole command if only zeros are missing; a command whose name or
password ends too early (`Starts`: the names and passwords a text starts with) or
whose address or SDP is cut; a CALL so short that `strlen(buffer)-len` is
negative and `strncpy()` runs beyond its buffers, which ends the process
(`sigsegv`); or nothing the server knows. What is left stays in the stream, and
from then on the handler reads across message boundaries: the rest alone, again
in part, or with the beginning of the next message behind it. It is executed as
the command it begins with (`Endings`): a name such as `EXITman` behind a cut
LOGIN is an EXIT (`Inner`: the commands a name or password contains), and so is
the second half of "EXIT EXIT". Assumed: an address that was cut leads to no
listener, and no name or password contains the word CLIENT.

The clients are any that keep to `Protocol`, with a listener that answers every
INVITE and ends on EXIT. The client of the repository keeps to `Protocol`, too
(`ImplementsRole` below), but its listener takes no call: its process ends over the
first one (`NoCallTaken` below), which for the server is a client that vanishes
(`ClientLeaves`). What the server does for clients whose listener works, as
`client.cpp:351-360` means it to, is the more interesting question.

The bounds: `Script` gives, for each client, the sequences of commands it may
send; `Threads` is the set of clients, each of which connects once; `Fds` the
descriptors of the process that are free when the server listens. `Events`
switches on SIGINT, vanishing clients, listeners that end by themselves, short
reads, and Ctrl-C at a client that is waiting for the reply to the LOGOUT of its
`exit_user()` (it then sends EXIT at once).

### Client

`client.cpp:369-375` are the markers of a merge that was never finished, so the
file does not compile as it is; the two sides differ in comments only, and the
model is of either.

The main thread is `SendClient` (`send_ip_and_port_to_server()`), `MediaReturns`
(`media_handler()`), `Spawn`, the options of the menu (`SignUpLogin`, `CallPeer`,
`LogOut`, `ExitUser`, `SendExit`), `GetReply` and `ReplyFails` (the `recv()` that
ends an option), `CinFails`, `MenuInterrupted`, `Close` and `Join`; the listener
is `Setup`, `Accept`, `ListenerRecv`, `ListenerEof`. `Sigint` may come at any
moment and makes the call the main thread sleeps in fail. `cin` may fail at any
prompt; names and passwords are then empty. `conn` is the connection as the next
`send()` or `recv()` finds it: after an orderly close a first `send()` succeeds
and the next raises SIGPIPE, after a reset the first one fails.

The server is an environment made of `server.cpp`'s actions on one client:
`ConnectBack` (CLIENT), `Serve` (the commands with a reply, EXIT with its message
to the listener), `Push` (an INVITE or ACCEPT that another handler sends),
`Drop` and `Die`. Its messages are 1024 bytes, which is what the client reads at
a time, and are assumed to arrive whole. INVITE is 2048, so it is read as two, of
which the second (`zeros`) ends a listener that gets that far. The JSON a peer
writes is the set of its keys.

### PeerExchange

`main()` of both programs and the two callbacks of each. What travels is cut into
units: blocks of 1024 bytes of a description, the four bytes of a count, a
candidate. The offerer reads the answer into one block, the answerer the offer
into two. `recv()` returns any beginning of what has arrived, so a description
may come in parts, and units left unread are taken for what is expected next. Where
a count of four bytes is expected, they are the beginning of whatever comes, of
which the rest (`Junk`) stays; the last block of a description may be no longer
than that and is then used up, or shorter still, so that what follows it loses
its beginning (`Behind4`).
`TakePointer` and `SendOffer` are two steps because the string may be assigned
in between by the callback; the pointer then points to the object's internal
buffer, which holds the capacity of the new string. `CandidateRace` is the
outcome of reading the vector while the callback appends to it. When the other
peer is gone while it had something left to read, its end is a reset: a `recv()`
may then return nothing, and what was sent before is lost with it (`Rest`).

Assumptions: the programs are built as the makefile builds them, without
optimisation, so that `while(!sdp_generated)` reads the flag anew every time; and
the `sleep(100)` before the answerer's `close()` is longer than the offerer takes
to read (guard of `AnswererClose`). Either peer may be killed at any moment
(`Mortal`).

### ThreadSafeMap

A string is the non-empty sequence of the fields its delimiters separate, so that
`key << delimiter << value` is concatenation; no string holds a newline. `Add`,
`Edit`, `Remove` are one locked step each; `get()`, `contains()` and `print()`
change nothing. `writeToFile()` is `WriteOpen`, a `WriteLine` per entry (`endl`
flushes) and `WriteEnd`. `readFromFile()` locks only inside the `add()` of each
line: `Fill` reads as many lines as the stream's buffer takes, `AddLine` parses
one of them and adds it. A file truncated and rewritten under a reader gives it
the end of some line (`Fragments`); `torn` records that this has happened.

## 3. The runs

All runs say `CHECK_DEADLOCK FALSE`: the server stops when every client is idle
or gone, when it has exited, and when the table is corrupted; the client, the
peers and the calls of the map come to an end.

### Passing

| Run | Question | Instance |
|---|---|---|
| `user_store` | Do the locked methods exclude each other; does `getUser()` ever return a half registered user, although the ghost entry that `logOutUser()` leaves behind can be logged in with an empty password (`GotUserIsWhole`); when can a locked reader meet a flag nobody assigned (`UnassignedFlagIsTransient`: only between the two accesses of a `logOutUser()`); is the mutex given back on every path (liveness); is the store linearizable (`ImplementsDirectory`)? | 2 threads making any calls without limit, 1 name, 2 passwords and the empty one, 2 descriptors |
| `server_calls` | Is the receiver of an INVITE registered although CALL asks the store three times; is there exactly one answer on the way for each waiting handler; are replies in step with commands, also when an exit is interrupted; does a stored descriptor denote the connection it was stored for, until a second `close()` or the call of a user nobody signed up (`DescriptorsOwned`)? | 2 clients with up to 2 commands each: overlapping calls to one user, one of them her own, or a LOGOUT and an EXIT beside a call, also to the entry that LOGOUT is inserting; a client may vanish at any moment; 5 descriptors |
| `server_faults` | The last question when the descriptor table fills up, back connections are refused, and messages are cut anywhere, so that parts of them are executed as other commands. | 2 clients, one that signs up and one that logs in and calls; 3 descriptors; one name is another with EXIT behind it |
| `server_cross_calls` | Do two clients that call each other wait for ever; is every command that has a reply answered, also the LOGOUT that waits behind a CALL whose handler waits (liveness)? | 2 clients, 3 and 4 commands |
| `server_shutdown` | After Ctrl-C, or a failed `accept()`, does the server exit when its clients go (liveness), unless the signal came just before `accept()`, also when a handler is waiting for the answer to a call? | 2 clients, one of which calls itself, SIGINT, departures and ends of listeners at any moment, 3 descriptors |
| `client` | Does what the client sends keep to the role the server relies on (`ImplementsRole`); does an exit the server has seen end the process (`ExitEnds`), and does the loss of a server that had connected back (`LostServerExits`, both liveness)? | up to 4 commands, 2 INVITEs or ACCEPTs, with and without a UDP socket |
| `peer_exchange` | When do both peers wait for each other (`MutualWaitExplained` names the two cases); does the offerer read its candidates while they are collected; does whoever got a candidate have the other's description; does the exchange end (liveness)? | descriptions of 1 to 3 blocks, 0 to 2 candidates per peer, any short read, any speed of gathering, either peer killed |
| `thread_safe_map` | Is a saved file a snapshot; does loading invent entries; does every call end, although `readFromFile()` calls the locking `add()` (liveness)? | 2 threads, 6 calls, keys and values with and without a delimiter, an empty value |

Ctrl-C or a failing `socket()` is the only way past `media_handler()` (see
`menu_blocked`); the instances without a UDP socket are what lets the properties of
`client` see the menu and the listener at work.

`RepliesInStep` and `OneAnswerPerCall` are stated for messages that arrive whole.
With short reads the code keeps neither: the rest of a message is answered as a
command nobody sent.

Why the bounds are enough to be interesting: a data race, an exclusion failure or
a mixed up descriptor needs two threads; for everything but liveness the theorems
of section 4 cover any number, of names as well: the calls on two names share
only the mutex and the corruption of the table. Five descriptors are what two clients and a waiting `accept()` need;
with three the table is full as soon as one client is served and another
connects, so that `accept()` fails and the second is refused until the first has
gone. Two clients with one calling itself while the other calls it is the smallest
case of two handlers that read one connection. Four commands let the client sign up, call,
log out and exit, and its exit may add two more. Three blocks are one more than
the larger buffer of the peers takes; two candidates are the least of which one
stays unread. Six calls let one thread save twice while the other adds, loads and
adds again.

### Violations: what the repository says and the code does not do

| Run | Says | What TLC shows |
|---|---|---|
| `crossed_answers` | the answer goes to the offerer (README item 7) | of two overlapping calls each takes the other's answer |
| `stale_descriptor` | the offer goes to the called person (README item 7) | it goes to the client that signed the name up, not to the one that is logged in under it |
| `menu_blocked` | the client offers login, signup, logout and exit (README item 5) | a client that has connected sleeps in `recv()` of `media_handler()` (`client.cpp:492`) and never comes to its menu |
| `offer_not_sent` | "sent" (`offerer.cpp:122`) | the answerer connects before gathering is complete and the offerer has sent no byte |

More disagreements are visible in the actions and have no run, because they
restate a line or two of code:

* a call is "assume accepted" and "send it is accepted" (`client.cpp:353`, `358`),
  but the listener reads the key "description" where the sender writes "sdp"
  (`client.cpp:347`, `430`), and the exception ends the process: theorem
  `NoCallTaken`;
* "Lost server connection, exiting..." (`client.cpp:200`) is followed by `join()`,
  which waits for ever when the server had never connected back and the listener
  sleeps in `accept()` (needs a client without a UDP socket, too: otherwise there
  is no menu that could lose its server); `LostServerExits` is what remains true;
* `isLogin()` of a name nobody has logged in may return true while a `logOutUser()`
  is between its insertion and its write (`UserStore.cpp:39`; `BoolRead`);
* a part of a message is executed as a command (`server.cpp:80`; `Endings`);
* the result of the store is not looked at: "Login is successful"
  (`server.cpp:147`) also answers a LOGIN of nobody (`Reply`);
* a handler closes `client_socket` twice (`server.cpp:365`), and in between the
  number may have gone to another client (`CloseAgain`; `DescriptorsOwned` says
  that, with the next item, this is all that can go wrong with a descriptor);
* a user that only `logOutUser()` has made, logged in with the empty password, can
  be called, and the descriptor of the INVITE is then one that was never assigned
  (`server.cpp:179`; `GotUser`);
* `send() == -1` is handled (`server.cpp:350`, `355`), SIGPIPE is not (`Send`);
* `client_socket_fd` is tested and `client_socket` closed (`server.cpp:364`), so
  one descriptor per client is lost until `accept()` fails (`LowestFree`);
* SIGINT between the test of `running` and `accept()` (`server.cpp:431`) leaves
  the server asleep (`Sigint`; the exception in `ShutdownCompletes`);
* a LOGOUT of an unknown name leaves an entry that anybody can log in with an
  empty password;
* a CALL to a user who is not logged in sends nothing, although the comment says
  "user is not login, send error message to client" (`server.cpp:169`;
  `NotLoggedIn`);
* INVITE carries the name of the *called* user, which the client prints as
  "Offerer side: " (`server.cpp:185`, `client.cpp:343`; `InviteMsg`).

### Fairness

* `StoreFairSpec`: a thread inside a method of the store runs on. Nothing is
  assumed of `Enter`, so no fairness of the mutex.
* `Server!FairSpec`: each of the server's threads runs on when it can (weak
  fairness per thread: threads of the operating system), and a client's listener
  thread takes what has arrived, which is all it does (`client.cpp:314`). Nothing
  is assumed of the menu, that is of the user, nor of SIGINT.
* `ClosingSpec`: in addition every user closes the client at some time. Without
  it the join loop has no reason to end: the handlers sleep in `recv()` and
  SIGINT does not wake them.
* `Client!FairSpec`: both threads run. The user (every action that waits at a
  prompt), `cin`, Ctrl-C and the server owe nothing, which is why `ExitEnds`
  begins where the server has dealt with EXIT and `LostServerExits` where its
  process is over. In `menu_blocked` the thread that stops is the client's own.
* `PeerExchange!FairSpec`: both programs run and the library's gathering comes to
  its end; the user may never type the message.
* `ThreadSafeMap!FairSpec`: a call that was begun goes on. The bound on the calls
  keeps others from holding the mutex for ever; what remains is that a waiting
  thread gets a mutex that stays free.

## 4. What is proved

`UserStoreProofs` proves, for any sets of threads, names, passwords and
descriptors, of `StoreSpec`:

* `StoreTypeCorrect`: `[]StoreTypeOK`;
* `StoreExclusion`: `[]LockedCallsExclude`;
* `StoreWhole`: `[]GotUserIsWhole`;
* `StoreFlags`: `[]UnassignedFlagIsTransient`;
* `StoreRefinement`: `ImplementsDirectory`, that is, the store is linearizable.
  `Server` uses `Directory` in its place on the strength of this.

Assumptions, in `Users`: the markers (`NoThread`, `NoUser`, `Uninit`) are none of
the values they are told apart from, and the empty password is one a handler can
receive (`PasswordAssumption`).

The argument. `LockedCallsExclude` is inductive by itself, the rest is not:
`GotUserIsWhole` at the return of `getUser()` needs that whoever has a password
has a descriptor or is being registered by a thread that holds the mutex
(`PasswordImpliesFd`), and that whoever has a descriptor has a flag
(`FdImpliesFlag`); `UnassignedFlagIsTransient` needs that an entry whose flag is
not assigned is in the hands of an `addUser()` before its third access or of a
`logOutUser()` before its second (`UnsetFlagIsBeingWritten`), of which exclusion
rules the first out when the reader is inside. The refinement
maps the half written entry of an `addUser()` to the complete one (it takes
effect with its first access), so its last three accesses must be stutters:
`WrittenSoFar` says that nobody, not even the unlocked `logOutUser()` (which can
only write `islogin_ = false`, what `addUser()` writes too), changes what has
been written so far; and a `loginUser()` that writes one step after it compared
needs that the password still matches (`MatchIsCurrent`). A `logOutUser()` takes
effect with its write; its insertion is `Appear`, or a stutter if the entry is
there already or is that of an `addUser()` under way, and its write finds the
entry it inserted, since nothing is ever erased (`ClearsAnEntry`). `StoreInv` is the
conjunction of all these; `InvInit` and `InvStep` show it inductive, and one
`Refine...` lemma per action shows that the action is a step of `Directory` or a
stutter.

`ThreadSafeMapProofs` proves, for any threads, fields, keys, values and number of
calls, of `Spec`:

* `MapTypeCorrect`: `[]TypeOK`;
* `MapSnapshot`: `[]FileIsSnapshot`;
* `MapGenuine`: `[]EntriesAreGenuine`.

Assumptions (`MapConstants`): the keys are strings, among them every single
field (what the parser can make a key of), callers pass keys and strings, and
`NoThread` is no thread.

The argument. `FileIsSnapshot` says of a writer that it holds the lock, so no
other thread changes the map, and that lines written and keys to come make up the
map; for `WriteLine` it needs that the keys to come are keys of the map
(`LeftInMap`). `EntriesAreGenuine` says that what is in the map was passed by a
caller, or is such an entry with its key cut at a delimiter (`Genuine`); loading
adds what is parsed from a line, so the invariant has to follow an entry through
the file and the readers' buffers: `LinesAreGenuine`. Both directions are lemmas
about sequences: a genuine entry is written as the line of an entry some caller
passed, because joining puts a cut key together again (`GenuineLine`, which is
why saving and loading again and again makes no new entries), and such a line is
parsed into a genuine entry (`GenuineParse`). `FillStep` shows that all lines of
a filled buffer are lines of the file unless `torn` is set. `MapInv` is the
conjunction.

`ServerProofs` and `ServerCallProofs` prove, for any finite set of clients, any
names, passwords, descriptors, scripts and events, of `Spec` of `Server`:

* `ServerTypeCorrect`: `[]TypeOK`;
* `CalleeRegistered`: `[]CalleeIsRegistered`;
* `DescriptorsStayOwned`: `[]DescriptorsOwned`;
* `RepliesStayInStep`: `[]RepliesInStep`;
* `OneAnswerForEachCall`: `[]OneAnswerPerCall`.

Assumptions: descriptors are numbers, and what the store keeps is one of them or
-1 (`FdAssumption`); the empty name is a name (`NameAssumption`); the clients are
finitely many, without which nothing could be counted (`ThreadsAssumption`); the
markers in the descriptor table are no connections (`FileAssumption`); scripts
consist of what the menu sends (`ScriptAssumption`); what a name or password
starts with is one, and what it contains are commands of the menu
(`TextAssumption`); `EventAssumption`.

The argument, by theorem:

* Types need to know that whoever sleeps in `recv()` sleeps on a connection
  (`RecvOnEnd`; together `Typed`), because what is read is put back from there.
* `CalleeIsRegistered` is about the gap between `isLogin()`, `hasUser()` and
  `getUser()`. `ReceiverKnown` ties the call under way to the branch and keeps, from
  the answer of the first call on, that the name is in the table, which rests on
  no step of `Directory` taking one out. `DescriptorAssigned` says that only the
  entry of a `logOutUser()` is without descriptor, and that has no password.
* `DescriptorsOwned` needs to know who owns which number everywhere a number
  can be on its way: in the locals of the handlers, in calls of the store and
  their answers, in the table (`HandlerOwns`, `TableOwns`), and in `accept()`
  (`Admission`). That SIGNUP stores a descriptor of the client's own listener also
  rests on the order of messages: CLIENT comes first and stays in front until it
  is read, so that in every branch a later message leads to `connect()` has
  succeeded (`Greeting`). When CLIENT may arrive in parts, this fails, and what
  such a client signs up with is -1 (`Kept`, `Keepable`): `send()` to it is refused
  and nobody else is harmed. All this is an invariant as long as nothing is `lost`
  (`Keeping`).
* `RepliesInStep`: a reply is on its way, or a command that will cause it is in
  the stream or in service, and never both (`InStep`); an interrupted exit adds
  one EXIT behind a LOGOUT and nothing else (`Orderly`). It is claimed, and holds,
  only when messages arrive whole.
* `OneAnswerPerCall` is an equation between cardinalities (`Balance`): handlers
  waiting on a client's callback connection against INVITEs under way to it and
  answers under way back. Lemmas count what `Append` and `Tail` do to the INVITEs
  of a stream; all steps but four are `Quiet`, and the other four change both
  sides alike. Before `connect()` both sides are zero (`Unopened`). It rests on
  `Keeping`: a handler that was given another's number would wait where nobody
  answers.

`OneAnswerPerCall` and `DescriptorsOwned` claim nothing after a descriptor was
lost, and `OneAnswerPerCall` and `RepliesInStep` nothing when messages arrive in
parts: TLC finds counterexamples, and they are faults of the code (section 3).

`ClientProofs` proves, for any number of commands and pushed messages
(`ClientBounds`), of `Spec` of `Client`:

* `ClientTypeCorrect`: `[]TypeOK`;
* `MediaBlocks`: while `media_handler()` has a socket to sleep on, no command but
  CLIENT is sent and the listener takes no message; the run `menu_blocked` is the
  same defect seen from the promise it breaks;
* `NoCallTaken`: no description of a peer is ever applied, and no client survives
  being sent one. Both are about the code as it is: a repair of `client.cpp:492` or
  `client.cpp:347` makes them false;
* `ClientKeepsRole`: `ImplementsRole`. The clients of `Server` are any that keep to
  `Protocol`; this theorem says that `client.cpp` does.

The argument. `Replies` counts replies under way and commands that will cause
one; `Turn` says what was sent last at each place of the main thread, as long as
the connection lasts, and with it every command comes after the reply to the one
before, except the EXIT of an interrupted exit. `Asleep` is what `MediaBlocks` states, made
inductive, `Padding` says that the zeros of an INVITE are read only behind its
first half, on which the listener has thrown. All steps that send are instances
of one action (`Sending`, `SendingSteps`), so that they are dealt with once. In
the refinement each step is `Sends`, `TakesReply` or a stutter of `ClientRole`.

`PeerExchangeProofs` proves, for descriptions of any length, any number of
candidates and any short reads (`BoundAssumption`), of `Spec` of `PeerExchange`:

* `PeerTypeCorrect`: `[]TypeOK`;
* `CandidatesHaveSettled`: `[]CandidatesSettled`;
* `ExchangeStaysMutual`: `[]ExchangeIsMutual`;
* `MutualWaitHasReason`: `[]MutualWaitExplained`;
* `AnswererReadsCandidates`: an answerer that waits for a candidate has nothing
  else in front of it, which is why `AnswererCandidate` has no case for a
  candidate that cannot be parsed.

The argument. The offerer passes `recv()` of the answer only when there is one,
the answerer answers only a whole offer, and an offer is whole only when gathering
was complete: `CandidatesSettled` follows from `Gathering`, `Offering` and
`Answering`. For `MutualWaitExplained` the invariant says, for each place where
one waits, what the stream in front of it may hold (`AnswererReads`,
`OffererReads`): the offer, then a count, then candidates, and never nothing
except in the two cases the property names. `Exchange` orders the candidates: the
answerer sends its own after it has got one, so the offerer's come later.

Work on this proof showed an error of the model: a `recv()` that returned nothing
after a reset left in the stream what the reset had thrown away, so that a later
one could return it. `Rest` is the repair.

Each of these inductive invariants was checked with TLC on the instances of
section 3 before it was proved.

Only model-checked: the liveness properties `LockReleased`, `AwaitEnds`,
`CommandsAnswered`, `ShutdownCompletes`, `ExitEnds`, `LostServerExits`,
`ExchangeCompletes` and `CallsEnd`, since liveness under fairness is outside the prover's reach. The
theorems about `Server` hold for its use of `Directory`; that `UserStore`
implements `Directory` is `StoreRefinement`.

## 5. What is not modelled

* **simple_offerer, simple_answerer**: copies of the library's examples that the
  makefile does not build. A person copies descriptions between two terminals;
  they keep no state and talk to no other program.
* **Vendored code**: JSON, libdatachannel, logging, SRTP. It is about nineteen
  twentieths of the lines of the repository (the programs' own code is about 1800
  lines), is third party, and for the most part declarations without a body. What
  the programs see of it is in the models: callbacks, exceptions, what is parsed.
* **Inside the server**: argument checks, `socket()`, `bind()`, `listen()` of
  `main()` before its loop (they end the program or succeed); console output;
  buffer sizes and the layout of memory, among them the 15 bytes of
  `client_ip_address`. `send()` never blocks: the messages of a run are far below a socket
  buffer. Writes of one bool by two threads (`islogin_`) are taken as atomic.
* **Inside the client**: the media that pass through `media_handler()`, and short
  reads of the server's messages (a read that ends inside the text of the
  greeting would leave bytes before EXIT). `local_sdp` is empty when a call is
  made before gathering has stored it; a CALL then carries the empty object, one
  of the two that `ListenerRecv` chooses from.
* **In the peers**: everything after the exchange: the data channel, the media.
* **In ThreadSafeMap**: newlines in keys and values, and the bytes of a field.

## 6. Plan

Done: all modules above, all their safety properties and both refinements proved.

Left: lemmas on sequences that `ServerProofs` and `ClientProofs` state in forms of
their own (orderly streams, what `Append` and `Tail` do to them) could be stated
once.
