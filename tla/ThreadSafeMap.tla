---------------------------- MODULE ThreadSafeMap ----------------------------
(***************************************************************************)
(* ThreadSafeMap.cpp: a map behind a mutex, and the file it is saved to    *)
(* and loaded from.                                                        *)
(*                                                                         *)
(* A string is the sequence of the fields its delimiters separate, so that *)
(* joining two strings with a delimiter is \o; no string has a newline.    *)
(* A method that holds the mutex throughout is one step, except            *)
(* writeToFile(), whose file the unlocked readFromFile() can see half      *)
(* written.  get(), contains() and print() change nothing.                 *)
(***************************************************************************)
EXTENDS Naturals, Sequences

CONSTANTS
    Threads, NoThread,
    Fields, Empty,  \* what stands between delimiters; the empty one
    KeyOrder,       \* the keys, in the order of std::map
    NewKeys, NewValues, \* what callers pass
    MaxCalls        \* bound: the calls made

Strings == Seq(Fields) \ {<<>>}
Keys == {KeyOrder[i] : i \in DOMAIN KeyOrder}

ASSUME MapConstants ==
    /\ NoThread \notin Threads
    /\ KeyOrder \in Seq(Strings)
    /\ NewKeys \subseteq Keys /\ NewValues \subseteq Strings
    /\ \A f \in Fields : <<f>> \in Keys
    /\ MaxCalls \in Nat

VARIABLES
    map_, lock,   \* mutex_ by the thread that holds it
    file,         \* the lines of the file
    pc,           \* per thread: "idle", "writing" or "reading"
    left,         \* per writer: the keys it has not written
    buf,          \* per reader: the lines in the buffer of its ifstream
    off,          \* per reader: how many lines it has read
    failed,       \* the last writer could not open the file
    added,        \* the entries callers have passed
    stale,        \* the readers whose file was truncated since they opened it
    torn,         \* one of them has read on
    calls         \* calls made so far

vars == <<map_, lock, file, pc, left, buf, off, failed, added, stale, torn, calls>>

TypeOK ==
    /\ DOMAIN map_ \subseteq Keys /\ \A k \in DOMAIN map_ : map_[k] \in Strings
    /\ lock \in Threads \cup {NoThread}
    /\ file \in Seq(Strings)
    /\ pc \in [Threads -> {"idle", "writing", "reading"}]
    /\ left \in [Threads -> SUBSET Keys]
    /\ buf \in [Threads -> Seq(Strings)]
    /\ off \in [Threads -> Nat]
    /\ failed \in BOOLEAN /\ torn \in BOOLEAN
    /\ stale \subseteq Threads
    /\ calls \in 0..MaxCalls

Init ==
    /\ map_ = [k \in {} |-> <<Empty>>]
    /\ lock = NoThread
    /\ file = <<>>
    /\ pc = [t \in Threads |-> "idle"]
    /\ left = [t \in Threads |-> {}]
    /\ buf = [t \in Threads |-> <<>>]
    /\ off = [t \in Threads |-> 0]
    /\ failed = FALSE /\ stale = {} /\ torn = FALSE
    /\ added = {}
    /\ calls = 0

-----------------------------------------------------------------------------
(* The methods of one locked step.                                         *)

Put(m, k, v) == [x \in DOMAIN m \cup {k} |-> IF x = k THEN v ELSE m[x]]

Call(t) ==
    /\ pc[t] = "idle"
    /\ calls < MaxCalls
    /\ calls' = calls + 1

\* add()
Add(t, k, v) ==
    /\ Call(t)
    /\ lock = NoThread
    /\ map_' = Put(map_, k, v)
    /\ added' = added \cup {<<k, v>>}
    /\ UNCHANGED <<lock, file, pc, left, buf, off, failed, stale, torn>>

\* Mutant: edit() without the lock.
EditUnlocked(t, k, v) ==
    /\ Call(t)
    /\ map_' = IF k \in DOMAIN map_ THEN Put(map_, k, v) ELSE map_
    /\ added' = added \cup {<<k, v>>}
    /\ UNCHANGED <<lock, file, pc, left, buf, off, failed, stale, torn>>

\* edit()
Edit(t, k, v) ==
    /\ Call(t)
    /\ lock = NoThread
    /\ map_' = IF k \in DOMAIN map_ THEN Put(map_, k, v) ELSE map_
    /\ added' = added \cup {<<k, v>>}
    /\ UNCHANGED <<lock, file, pc, left, buf, off, failed, stale, torn>>

\* remove()
Remove(t, k) ==
    /\ Call(t)
    /\ lock = NoThread
    /\ map_' = [x \in DOMAIN map_ \ {k} |-> map_[x]]
    /\ UNCHANGED <<lock, file, pc, left, buf, off, failed, added, stale, torn>>

-----------------------------------------------------------------------------
(* writeToFile()                                                           *)

\* k is the first of the keys ks that the iterator of std::map comes to.
IsFirst(k, ks) ==
    /\ k \in ks
    /\ \E i \in DOMAIN KeyOrder :
          KeyOrder[i] = k /\ \A j \in 1..(i - 1) : KeyOrder[j] \notin ks

Line(k, v) == k \o v

\* The lock and the ofstream, which truncates the file unless it cannot be
\* opened: then nothing is written.
WriteOpen(t) ==
    /\ Call(t)
    /\ lock = NoThread
    /\ lock' = t
    /\ pc' = [pc EXCEPT ![t] = "writing"]
    /\ \/ /\ file' = <<>> /\ failed' = FALSE
          /\ left' = [left EXCEPT ![t] = DOMAIN map_]
          /\ stale' = stale \cup {r \in Threads : pc[r] = "reading"}
       \/ /\ failed' = TRUE
          /\ UNCHANGED <<file, left, stale>>
    /\ UNCHANGED <<map_, buf, off, added, torn>>

\* One entry; endl flushes it.
WriteLine(t) ==
    /\ pc[t] = "writing"
    /\ \E k \in left[t] :
        /\ IsFirst(k, left[t])
        /\ file' = Append(file, Line(k, map_[k]))
        /\ left' = [left EXCEPT ![t] = @ \ {k}]
    /\ UNCHANGED <<map_, lock, pc, buf, off, failed, added, stale, torn, calls>>

WriteEnd(t) ==
    /\ pc[t] = "writing"
    /\ left[t] = {}
    /\ lock' = NoThread
    /\ pc' = [pc EXCEPT ![t] = "idle"]
    /\ UNCHANGED <<map_, file, left, buf, off, failed, added, stale, torn, calls>>

-----------------------------------------------------------------------------
(* readFromFile()                                                          *)

\* Mutant: the lock is taken for the whole of the call.
ReadOpenLocked(t) ==
    /\ Call(t)
    /\ lock = NoThread
    /\ lock' = t
    /\ pc' = [pc EXCEPT ![t] = "reading"]
    /\ off' = [off EXCEPT ![t] = 0]
    /\ stale' = stale \ {t}
    /\ UNCHANGED <<map_, file, left, buf, failed, added, torn>>

ReadOpen(t) ==
    /\ Call(t)
    /\ pc' = [pc EXCEPT ![t] = "reading"]
    /\ off' = [off EXCEPT ![t] = 0]
    /\ stale' = stale \ {t}
    /\ UNCHANGED <<map_, lock, file, left, buf, failed, added, torn>>

\* What a read begins with when its offset is inside line l, because the file was
\* written anew; a part of a field is not told apart from a field.
Fragments(l) == {SubSeq(l, i, Len(l)) : i \in 1..Len(l)}

\* getline(infile, line) with an empty buffer: the next lines, as many as fit.
Fill(t) ==
    /\ pc[t] = "reading"
    /\ buf[t] = <<>> /\ off[t] < Len(file)
    /\ LET inside == t \in stale /\ off[t] > 0
           next == file[off[t] + 1]
       IN  \E n \in (off[t] + 1)..Len(file) :
             /\ \E l \in IF inside THEN Fragments(next) ELSE {next} :
                   buf' = [buf EXCEPT ![t] = <<l>> \o SubSeq(file, off[t] + 2, n)]
             /\ off' = [off EXCEPT ![t] = n]
             /\ torn' = (torn \/ inside)
    /\ UNCHANGED <<map_, lock, file, pc, left, failed, added, stale, calls>>

\* The entry of a line: the key up to the first delimiter, then the value, which
\* may hold more of them.  Without a value the line is passed over.
KeyOf(l) == <<Head(l)>>

\* Mutant: the value ends at the next delimiter, too.
ValueToDelimiter(l) == <<Head(Tail(l))>>

ValueOf(l) == Tail(l)

\* Mutant: the results of getline() are not looked at.
ParsesAlways(l) == TRUE

Parses(l) == Tail(l) \notin {<<>>, <<Empty>>}

\* One turn of the loop: add() of the next line.
AddLine(t) ==
    /\ pc[t] = "reading"
    /\ buf[t] # <<>>
    /\ LET l == Head(buf[t])
       IN  IF Parses(l)
             THEN lock = NoThread /\ map_' = Put(map_, KeyOf(l), ValueOf(l))
             ELSE UNCHANGED map_
    /\ buf' = [buf EXCEPT ![t] = Tail(@)]
    /\ UNCHANGED <<lock, file, pc, left, off, failed, added, stale, torn, calls>>

ReadEnd(t) ==
    /\ pc[t] = "reading"
    /\ buf[t] = <<>> /\ off[t] >= Len(file)
    /\ pc' = [pc EXCEPT ![t] = "idle"]
    /\ UNCHANGED <<map_, lock, file, left, buf, off, failed, added, stale, torn, calls>>

-----------------------------------------------------------------------------
Advance(t) == WriteLine(t) \/ WriteEnd(t) \/ Fill(t) \/ AddLine(t) \/ ReadEnd(t)

Start(t) ==
    \/ \E k \in NewKeys, v \in NewValues : Add(t, k, v) \/ Edit(t, k, v)
    \/ \E k \in NewKeys : Remove(t, k)
    \/ WriteOpen(t) \/ ReadOpen(t)

Next == \E t \in Threads : Start(t) \/ Advance(t)

Spec == Init /\ [][Next]_vars

\* A call that was begun goes on.
FairSpec == Spec /\ \A t \in Threads : WF_vars(Advance(t))

-----------------------------------------------------------------------------
(* Properties.                                                             *)

\* What writeToFile() has written are the lines of the map as it is now, of the
\* keys it is not still to come to: no other method gets between two lines, so
\* that the file is a snapshot when the lock is released.
FileIsSnapshot ==
    \A t \in Threads : pc[t] = "writing" =>
        /\ lock = t
        /\ ~failed => {file[i] : i \in DOMAIN file} =
                          {Line(k, map_[k]) : k \in DOMAIN map_ \ left[t]}

\* The entries callers have passed, and what one of them becomes when a delimiter
\* in its key is taken for the end of the key.
Genuine == added \cup {<<<<Head(e[1])>>, Tail(e[1]) \o e[2]>> : e \in added}

\* As long as no reader has read on in a file truncated under it, saving and
\* loading, however they overlap with one another and with updates, bring no
\* entry into the map that nobody has put there.
EntriesAreGenuine == ~torn => \A k \in DOMAIN map_ : <<k, map_[k]>> \in Genuine

\* No call waits for ever: not for the lock, though readFromFile() calls add(),
\* which locks, once per line, and not for the end of a file that is being
\* written.
CallsEnd == \A t \in Threads : pc[t] # "idle" ~> pc[t] = "idle"

=============================================================================
