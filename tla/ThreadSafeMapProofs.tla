------------------------ MODULE ThreadSafeMapProofs ------------------------
(* Theorems about ThreadSafeMap, for any threads, strings and calls.       *)
EXTENDS ThreadSafeMap, SequenceTheorems, TLAPS

-----------------------------------------------------------------------------
(* The inductive invariant.                                                *)

AddedType == added \subseteq Strings \X Strings

\* A writer has yet to write keys that are in the map; nobody else has any.
LeftInMap ==
    \A t \in Threads : IF pc[t] = "writing" THEN left[t] \subseteq DOMAIN map_ ELSE left[t] = {}

GenuineLines == {Line(e[1], e[2]) : e \in added}

\* Every line, in the file or in a reader's buffer, was made of an entry some
\* caller passed, or of what such an entry became by being loaded.
LinesAreGenuine ==
    ~torn => /\ \A i \in DOMAIN file : file[i] \in GenuineLines
             /\ \A t \in Threads : \A i \in DOMAIN buf[t] : buf[t][i] \in GenuineLines

MapInv ==
    /\ TypeOK /\ AddedType /\ LeftInMap
    /\ FileIsSnapshot
    /\ EntriesAreGenuine /\ LinesAreGenuine

-----------------------------------------------------------------------------
(* Strings and lines.                                                      *)

\* Joining strings keeps the first field of the first one, and what follows it.
LEMMA JoinStrings ==
    ASSUME NEW a \in Strings, NEW b \in Strings
    PROVE  /\ a \o b \in Strings
           /\ Head(a \o b) = Head(a)
           /\ Tail(a \o b) = Tail(a) \o b
<1>1. a \in Seq(Fields) /\ b \in Seq(Fields) /\ Len(a) > 0 /\ Len(b) > 0
  BY EmptySeq, LenProperties DEF Strings
<1>2. a \o b \in Seq(Fields) /\ Len(a \o b) = Len(a) + Len(b)
  BY <1>1, ConcatProperties
<1>3. a \o b # <<>>
  BY <1>1, <1>2
<1>4. Head(a \o b) = Head(a)
  BY <1>1, <1>2
<1>5. Tail(a \o b) = Tail(a) \o b
  BY <1>1, <1>2
<1> QED BY <1>2, <1>3, <1>4, <1>5 DEF Strings

\* What readFromFile() makes of a line it does not pass over.
LEMMA ParsedEntry ==
    ASSUME NEW l \in Strings, Parses(l)
    PROVE  KeyOf(l) \in Keys /\ ValueOf(l) \in Strings
<1>1. l \in Seq(Fields) /\ l # <<>>
  BY DEF Strings
<1>2. Head(l) \in Fields /\ Tail(l) \in Seq(Fields)
  BY <1>1, HeadTailProperties
<1>3. Tail(l) # <<>>
  BY DEF Parses
<1> QED BY <1>2, <1>3, MapConstants DEF KeyOf, ValueOf, Strings

\* Keys are strings.
LEMMA KeysAreStrings == Keys \subseteq Strings
BY MapConstants, ElementOfSeq DEF Keys

\* A line made of an entry a caller passed is parsed into a genuine entry.
LEMMA GenuineParse ==
    ASSUME AddedType, NEW l \in GenuineLines
    PROVE  <<KeyOf(l), ValueOf(l)>> \in Genuine
<1>1. PICK e \in added : l = Line(e[1], e[2])
  BY DEF GenuineLines
<1>2. e[1] \in Strings /\ e[2] \in Strings
  BY <1>1 DEF AddedType
<1>3. Head(l) = Head(e[1]) /\ Tail(l) = Tail(e[1]) \o e[2]
  BY <1>1, <1>2, JoinStrings DEF Line
<1> QED BY <1>3, <1>1 DEF Genuine, KeyOf, ValueOf

\* A genuine entry is written as the line of an entry a caller passed: a key
\* that was cut at its delimiter is joined again.
LEMMA GenuineLine ==
    ASSUME AddedType, NEW k, NEW v, <<k, v>> \in Genuine
    PROVE  Line(k, v) \in GenuineLines
<1>1. CASE <<k, v>> \in added
  BY <1>1 DEF GenuineLines
<1>2. CASE \E e \in added : <<k, v>> = <<<<Head(e[1])>>, Tail(e[1]) \o e[2]>>
  <2>1. PICK e \in added : k = <<Head(e[1])>> /\ v = Tail(e[1]) \o e[2]
    BY <1>2
  <2>2. e[1] \in Seq(Fields) /\ e[1] # <<>> /\ e[2] \in Seq(Fields)
    BY DEF AddedType, Strings
  <2>3. Head(e[1]) \in Fields /\ Tail(e[1]) \in Seq(Fields) /\ e[1] = <<Head(e[1])>> \o Tail(e[1])
    BY <2>2, HeadTailProperties
  <2>4. k \in Seq(Fields)
    BY <2>1, <2>3
  <2>5. ASSUME NEW s \in Seq(Fields), NEW t \in Seq(Fields), NEW u \in Seq(Fields)
        PROVE  (s \o t) \o u = s \o (t \o u)
    BY ConcatAssociative, SMTT(30)
  <2>6. (k \o Tail(e[1])) \o e[2] = k \o (Tail(e[1]) \o e[2])
    BY <2>2, <2>3, <2>4, <2>5, Zenon
  <2>7. k \o v = e[1] \o e[2]
    BY <2>6, <2>1, <2>3, Zenon
  <2> QED BY <2>7 DEF GenuineLines, Line
<1> QED BY <1>1, <1>2 DEF Genuine

-----------------------------------------------------------------------------
(* The invariant holds at first, and every step keeps it.                  *)

\* The map and the file are empty at first.
LEMMA InvInit == Init => MapInv
<1> SUFFICES ASSUME Init PROVE MapInv
  OBVIOUS
<1>1. TypeOK
  <2>1. DOMAIN map_ = {}
    BY DEF Init
  <2>2. calls \in 0..MaxCalls
    BY MapConstants DEF Init
  <2>3. file \in Seq(Strings) /\ buf \in [Threads -> Seq(Strings)]
    BY EmptySeq DEF Init
  <2> QED BY <2>1, <2>2, <2>3 DEF Init, TypeOK
<1>2. AddedType /\ LeftInMap /\ FileIsSnapshot /\ EntriesAreGenuine /\ LinesAreGenuine
  BY DEF Init, AddedType, LeftInMap, FileIsSnapshot, EntriesAreGenuine, LinesAreGenuine
<1> QED BY <1>1, <1>2 DEF MapInv

\* While the mutex is free nobody is writing.
LEMMA NoWriter ==
    ASSUME MapInv, lock = NoThread
    PROVE  \A t \in Threads : pc[t] # "writing"
BY MapConstants DEF MapInv, FileIsSnapshot

\* add(), and edit() of a key that is there.
LEMMA PutStep ==
    ASSUME MapInv, NEW k \in NewKeys, NEW v \in NewValues, lock = NoThread,
           map_' = Put(map_, k, v), added' = added \cup {<<k, v>>}, calls' \in 0..MaxCalls,
           UNCHANGED <<lock, file, pc, left, buf, off, failed, stale, torn>>
    PROVE  MapInv'
<1>1. k \in Keys /\ k \in Strings /\ v \in Strings
  BY MapConstants, KeysAreStrings
<1>2. /\ DOMAIN map_' = DOMAIN map_ \cup {k}
      /\ map_'[k] = v
      /\ \A x \in DOMAIN map_ : x # k => map_'[x] = map_[x]
  BY DEF Put
<1>3. TypeOK'
  BY <1>1, <1>2 DEF MapInv, TypeOK
<1>4. AddedType'
  BY <1>1 DEF MapInv, AddedType
<1>5. LeftInMap' /\ FileIsSnapshot'
  BY NoWriter DEF MapInv, LeftInMap, FileIsSnapshot
<1>6. Genuine \subseteq Genuine' /\ <<k, v>> \in Genuine' /\ GenuineLines \subseteq GenuineLines'
  BY DEF Genuine, GenuineLines
<1>7. EntriesAreGenuine'
  BY <1>2, <1>6 DEF MapInv, EntriesAreGenuine
<1>8. LinesAreGenuine'
  BY <1>6 DEF MapInv, LinesAreGenuine
<1> QED BY <1>3, <1>4, <1>5, <1>7, <1>8 DEF MapInv

\* remove(), and edit() of a key that is not there.
LEMMA ShrinkStep ==
    ASSUME MapInv, lock = NoThread,
           DOMAIN map_' \subseteq DOMAIN map_, \A x \in DOMAIN map_' : map_'[x] = map_[x],
           added \subseteq added', added' \subseteq Strings \X Strings, calls' \in 0..MaxCalls,
           UNCHANGED <<lock, file, pc, left, buf, off, failed, stale, torn>>
    PROVE  MapInv'
<1>1. TypeOK' /\ AddedType'
  BY DEF MapInv, TypeOK, AddedType
<1>2. LeftInMap' /\ FileIsSnapshot'
  BY NoWriter DEF MapInv, LeftInMap, FileIsSnapshot
<1>3. Genuine \subseteq Genuine' /\ GenuineLines \subseteq GenuineLines'
  BY DEF Genuine, GenuineLines
<1>4. EntriesAreGenuine'
  BY <1>3 DEF MapInv, EntriesAreGenuine
<1>5. LinesAreGenuine'
  BY <1>3 DEF MapInv, LinesAreGenuine
<1> QED BY <1>1, <1>2, <1>4, <1>5 DEF MapInv

\* The counter of the calls stays within its bound.
LEMMA CallsBound ==
    ASSUME TypeOK, NEW t, Call(t)
    PROVE  calls' \in 0..MaxCalls
BY MapConstants DEF TypeOK, Call

\* add() and edit().
LEMMA UpdateStep ==
    ASSUME MapInv, NEW t \in Threads, NEW k \in NewKeys, NEW v \in NewValues,
           Add(t, k, v) \/ Edit(t, k, v)
    PROVE  MapInv'
<1>1. calls' \in 0..MaxCalls
  BY CallsBound DEF MapInv, Add, Edit
<1>2. k \in Strings /\ v \in Strings /\ added \subseteq Strings \X Strings
  BY MapConstants, KeysAreStrings DEF MapInv, AddedType
<1>3. CASE Add(t, k, v)
  BY <1>1, <1>3, PutStep DEF Add
<1>4. CASE Edit(t, k, v)
  <2>1. CASE k \in DOMAIN map_
    BY <1>1, <1>4, <2>1, PutStep DEF Edit
  <2>2. CASE k \notin DOMAIN map_
    <3>1. map_' = map_ /\ added' = added \cup {<<k, v>>} /\ lock = NoThread
      BY <1>4, <2>2 DEF Edit
    <3>2. added \subseteq added' /\ added' \subseteq Strings \X Strings
      BY <3>1, <1>2
    <3> QED BY <1>1, <1>4, <3>1, <3>2, ShrinkStep DEF Edit
  <2> QED BY <2>1, <2>2
<1> QED BY <1>3, <1>4

\* remove()
LEMMA RemoveStep ==
    ASSUME MapInv, NEW t \in Threads, NEW k \in NewKeys, Remove(t, k)
    PROVE  MapInv'
<1>1. calls' \in 0..MaxCalls
  BY CallsBound DEF MapInv, Remove
<1>2. DOMAIN map_' \subseteq DOMAIN map_ /\ \A x \in DOMAIN map_' : map_'[x] = map_[x]
  BY DEF Remove
<1> QED BY <1>1, <1>2, ShrinkStep DEF MapInv, AddedType, Remove

\* writeToFile() begins with the lock, an empty file and all keys to come, or
\* with a file that could not be opened.
LEMMA WriteOpenStep ==
    ASSUME MapInv, NEW t \in Threads, WriteOpen(t)
    PROVE  MapInv'
<1>1. \A u \in Threads : pc[u] # "writing"
  BY NoWriter DEF WriteOpen
<1>2. /\ pc' = [pc EXCEPT ![t] = "writing"] /\ lock' = t
      /\ UNCHANGED <<map_, buf, off, added, torn>>
  BY DEF WriteOpen
<1>3. calls' \in 0..MaxCalls
  BY CallsBound DEF MapInv, WriteOpen
<1>4. CASE /\ file' = <<>> /\ failed' = FALSE
           /\ left' = [left EXCEPT ![t] = DOMAIN map_]
           /\ stale' = stale \cup {r \in Threads : pc[r] = "reading"}
  <2>1. file' \in Seq(Strings) /\ DOMAIN file' = {}
    BY <1>4, EmptySeq, LenProperties
  <2>2. TypeOK'
    BY <1>2, <1>3, <1>4, <2>1 DEF MapInv, TypeOK
  <2>3. AddedType' /\ EntriesAreGenuine'
    BY <1>2 DEF MapInv, AddedType, EntriesAreGenuine, Genuine
  <2>4. LeftInMap'
    BY <1>1, <1>2, <1>4 DEF MapInv, TypeOK, LeftInMap
  <2>5. FileIsSnapshot'
    BY <1>1, <1>2, <1>4, <2>1 DEF MapInv, TypeOK, FileIsSnapshot
  <2>6. LinesAreGenuine'
    BY <1>2, <2>1 DEF MapInv, LinesAreGenuine, GenuineLines
  <2> QED BY <2>2, <2>3, <2>4, <2>5, <2>6 DEF MapInv
<1>5. CASE failed' = TRUE /\ UNCHANGED <<file, left, stale>>
  <2>1. TypeOK'
    BY <1>2, <1>3, <1>5 DEF MapInv, TypeOK
  <2>2. AddedType' /\ EntriesAreGenuine' /\ LinesAreGenuine'
    BY <1>2, <1>5 DEF MapInv, AddedType, EntriesAreGenuine, Genuine, LinesAreGenuine, GenuineLines
  <2>3. LeftInMap' /\ FileIsSnapshot'
    BY <1>1, <1>2, <1>5 DEF MapInv, TypeOK, LeftInMap, FileIsSnapshot
  <2> QED BY <2>1, <2>2, <2>3 DEF MapInv
<1> QED BY <1>4, <1>5 DEF WriteOpen

\* The next line of writeToFile() moves one key from those to come to those
\* written.
LEMMA WriteLineStep ==
    ASSUME MapInv, NEW t \in Threads, WriteLine(t)
    PROVE  MapInv'
<1>1. PICK k \in left[t] : /\ file' = Append(file, Line(k, map_[k]))
                           /\ left' = [left EXCEPT ![t] = @ \ {k}]
  BY DEF WriteLine
<1>2. /\ pc[t] = "writing"
      /\ UNCHANGED <<map_, lock, pc, buf, off, failed, added, stale, torn, calls>>
  BY DEF WriteLine
<1>3. k \in DOMAIN map_ /\ k \in Strings /\ map_[k] \in Strings
  BY <1>2, KeysAreStrings DEF MapInv, TypeOK, LeftInMap
<1>4. Line(k, map_[k]) \in Strings
  BY <1>3, JoinStrings DEF Line
<1>5. /\ file' \in Seq(Strings)
      /\ DOMAIN file' = 1..(Len(file) + 1) /\ DOMAIN file = 1..Len(file) /\ Len(file) \in Nat
      /\ \A i \in 1..Len(file) : file'[i] = file[i]
      /\ file'[Len(file) + 1] = Line(k, map_[k])
  BY <1>1, <1>4, AppendProperties, LenProperties DEF MapInv, TypeOK
<1>6. {file'[i] : i \in DOMAIN file'} = {file[i] : i \in DOMAIN file} \cup {Line(k, map_[k])}
  BY <1>5
<1>7. TypeOK'
  BY <1>1, <1>2, <1>5 DEF MapInv, TypeOK
<1>8. LeftInMap'
  BY <1>1, <1>2 DEF MapInv, TypeOK, LeftInMap
<1>9. FileIsSnapshot'
  <2> SUFFICES ASSUME NEW u \in Threads, pc'[u] = "writing"
               PROVE  /\ lock' = u
                      /\ ~failed' => {file'[i] : i \in DOMAIN file'} =
                                     {Line(x, map_'[x]) : x \in DOMAIN map_' \ left'[u]}
    BY DEF FileIsSnapshot
  <2>1. u = t /\ lock' = u
    BY <1>2 DEF MapInv, FileIsSnapshot
  <2>2. left'[t] = left[t] \ {k}
    BY <1>1 DEF MapInv, TypeOK
  <2>3. DOMAIN map_ \ (left[t] \ {k}) = (DOMAIN map_ \ left[t]) \cup {k}
    BY <1>3
  <2>4. ~failed => {file[i] : i \in DOMAIN file} = {Line(x, map_[x]) : x \in DOMAIN map_ \ left[t]}
    BY <1>2 DEF MapInv, FileIsSnapshot
  <2>5. {Line(x, map_[x]) : x \in (DOMAIN map_ \ left[t]) \cup {k}} =
        {Line(x, map_[x]) : x \in DOMAIN map_ \ left[t]} \cup {Line(k, map_[k])}
    OBVIOUS
  <2> QED BY <1>2, <1>6, <2>1, <2>2, <2>3, <2>4, <2>5
<1>10. AddedType' /\ EntriesAreGenuine'
  BY <1>2 DEF MapInv, AddedType, EntriesAreGenuine, Genuine
<1>11. LinesAreGenuine'
  <2> SUFFICES ASSUME ~torn PROVE \A i \in DOMAIN file' : file'[i] \in GenuineLines
    BY <1>2 DEF MapInv, LinesAreGenuine, GenuineLines
  <2>1. <<k, map_[k]>> \in Genuine
    BY <1>3 DEF MapInv, EntriesAreGenuine
  <2>2. Line(k, map_[k]) \in GenuineLines
    BY <2>1, GenuineLine DEF MapInv
  <2>3. \A i \in 1..Len(file) : file[i] \in GenuineLines
    BY <1>5 DEF MapInv, LinesAreGenuine
  <2> QED BY <1>5, <2>2, <2>3
<1> QED BY <1>7, <1>8, <1>9, <1>10, <1>11 DEF MapInv

\* The end of writeToFile().
LEMMA WriteEndStep ==
    ASSUME MapInv, NEW t \in Threads, WriteEnd(t)
    PROVE  MapInv'
<1>1. \A u \in Threads : pc[u] = "writing" => u = t
  BY DEF MapInv, FileIsSnapshot, WriteEnd
<1>2. \A u \in Threads : pc'[u] # "writing" /\ left'[u] = {}
  BY <1>1 DEF MapInv, TypeOK, LeftInMap, WriteEnd
<1>3. TypeOK'
  BY DEF MapInv, TypeOK, WriteEnd
<1>4. LeftInMap' /\ FileIsSnapshot'
  BY <1>2 DEF LeftInMap, FileIsSnapshot
<1>5. AddedType' /\ EntriesAreGenuine' /\ LinesAreGenuine'
  BY DEF MapInv, AddedType, EntriesAreGenuine, Genuine, LinesAreGenuine, GenuineLines, WriteEnd
<1> QED BY <1>3, <1>4, <1>5 DEF MapInv

\* A step that leaves the map, the file and the writers alone.
LEMMA SnapshotKept ==
    ASSUME LeftInMap, FileIsSnapshot, UNCHANGED <<map_, lock, file, left, failed>>,
           \A u \in Threads : pc'[u] = "writing" <=> pc[u] = "writing"
    PROVE  LeftInMap' /\ FileIsSnapshot'
<1>1. map_' = map_ /\ lock' = lock /\ file' = file /\ left' = left /\ failed' = failed
  OBVIOUS
<1>2. LeftInMap'
  BY <1>1 DEF LeftInMap
<1>3. FileIsSnapshot'
  <2> SUFFICES ASSUME NEW u \in Threads, pc'[u] = "writing"
               PROVE  /\ lock' = u
                      /\ ~failed' => {file'[i] : i \in DOMAIN file'} =
                                     {Line(x, map_'[x]) : x \in DOMAIN map_' \ left'[u]}
    BY DEF FileIsSnapshot
  <2>1. pc[u] = "writing"
    OBVIOUS
  <2>2. /\ lock = u
        /\ ~failed => {file[i] : i \in DOMAIN file} = {Line(x, map_[x]) : x \in DOMAIN map_ \ left[u]}
    BY <2>1 DEF FileIsSnapshot
  <2>3. {file'[i] : i \in DOMAIN file'} = {file[i] : i \in DOMAIN file}
    BY <1>1
  <2>4. {Line(x, map_'[x]) : x \in DOMAIN map_' \ left'[u]} = {Line(x, map_[x]) : x \in DOMAIN map_ \ left[u]}
    BY <1>1
  <2> QED BY <1>1, <2>2, <2>3, <2>4
<1> QED BY <1>2, <1>3

\* The begin and the end of readFromFile() touch neither map nor file.
LEMMA ReadOpenEndStep ==
    ASSUME MapInv, NEW t \in Threads, ReadOpen(t) \/ ReadEnd(t)
    PROVE  MapInv'
<1>1. /\ UNCHANGED <<map_, lock, file, left, buf, failed, added, torn>>
      /\ \E l \in {"reading", "idle"} : pc' = [pc EXCEPT ![t] = l]
      /\ pc[t] # "writing"
  BY DEF ReadOpen, ReadEnd, Call
<1>2. calls' \in 0..MaxCalls /\ off' \in [Threads -> Nat] /\ stale' \subseteq Threads
  BY CallsBound DEF MapInv, TypeOK, ReadOpen, ReadEnd
<1>3. TypeOK'
  BY <1>1, <1>2 DEF MapInv, TypeOK
<1>4. LeftInMap' /\ FileIsSnapshot'
  <2>1. \A u \in Threads : pc'[u] = "writing" <=> pc[u] = "writing"
    BY <1>1 DEF MapInv, TypeOK
  <2> QED BY <1>1, <2>1, SnapshotKept DEF MapInv
<1>5. AddedType' /\ EntriesAreGenuine' /\ LinesAreGenuine'
  BY <1>1 DEF MapInv, AddedType, EntriesAreGenuine, Genuine, LinesAreGenuine, GenuineLines
<1> QED BY <1>3, <1>4, <1>5 DEF MapInv

\* What is left of a line after a cut is a string.
LEMMA FragmentsAreStrings ==
    ASSUME NEW l \in Strings
    PROVE  Fragments(l) \subseteq Strings
<1>1. l \in Seq(Fields) /\ Len(l) \in Nat
  BY LenProperties DEF Strings
<1> SUFFICES ASSUME NEW i \in 1..Len(l) PROVE SubSeq(l, i, Len(l)) \in Strings
  BY DEF Fragments
<1>2. \A j \in i..Len(l) : l[j] \in Fields
  BY <1>1, ElementOfSeq
<1>3. SubSeq(l, i, Len(l)) \in Seq(Fields) /\ Len(SubSeq(l, i, Len(l))) = Len(l) - i + 1
  BY <1>1, <1>2, SubSeqProperties
<1>4. SubSeq(l, i, Len(l)) # <<>>
  <2>1. Len(l) - i + 1 > 0
    BY <1>1
  <2>2. Len(SubSeq(l, i, Len(l))) > 0
    BY <1>3, <2>1
  <2> HIDE DEF Fragments
  <2> SUFFICES ASSUME NEW s \in Seq(Fields), Len(s) > 0 PROVE s # <<>>
    BY <1>3, <2>2
  <2> QED BY EmptySeq
<1> QED BY <1>3, <1>4 DEF Strings

\* A filled buffer holds lines of the file, except that its first one may be a
\* fragment, after which torn is set.
LEMMA FillStep ==
    ASSUME MapInv, NEW t \in Threads, Fill(t)
    PROVE  MapInv'
<1> DEFINE inside == t \in stale /\ off[t] > 0
           next == file[off[t] + 1]
<1>1. PICK n \in (off[t] + 1)..Len(file), l \in IF inside THEN Fragments(next) ELSE {next} :
         /\ buf' = [buf EXCEPT ![t] = <<l>> \o SubSeq(file, off[t] + 2, n)]
         /\ off' = [off EXCEPT ![t] = n]
         /\ torn' = (torn \/ inside)
  BY DEF Fill
<1>2. /\ UNCHANGED <<map_, lock, file, pc, left, failed, added, stale, calls>>
      /\ off[t] < Len(file)
  BY DEF Fill
<1>3. off[t] \in Nat /\ Len(file) \in Nat /\ n \in Nat /\ DOMAIN file = 1..Len(file)
  BY LenProperties DEF MapInv, TypeOK
<1>4. \A i \in 1..Len(file) : file[i] \in Strings
  BY ElementOfSeq DEF MapInv, TypeOK
<1>5. next \in Strings /\ l \in Strings
  BY <1>2, <1>3, <1>4, FragmentsAreStrings
<1> DEFINE more == SubSeq(file, off[t] + 2, n)
<1>6. /\ more \in Seq(Strings)
      /\ Len(more) = IF off[t] + 2 <= n THEN n - (off[t] + 2) + 1 ELSE 0
      /\ \A i \in 1..(n - (off[t] + 2) + 1) : more[i] = file[(off[t] + 2) + i - 1]
  <2>1. \A i \in (off[t] + 2)..n : file[i] \in Strings
    BY <1>3, <1>4
  <2>2. off[t] + 2 \in Int /\ n \in Int
    BY <1>3
  <2>3. ASSUME NEW a \in Int, NEW b \in Int, \A i \in a..b : file[i] \in Strings
        PROVE  /\ SubSeq(file, a, b) \in Seq(Strings)
               /\ Len(SubSeq(file, a, b)) = IF a <= b THEN b - a + 1 ELSE 0
               /\ \A i \in 1..(b - a + 1) : SubSeq(file, a, b)[i] = file[a + i - 1]
    BY <2>3, SubSeqProperties
  <2> QED BY <2>1, <2>2, <2>3
<1>7. <<l>> \in Seq(Strings) /\ Len(<<l>>) = 1 /\ <<l>>[1] = l
  BY <1>5
<1>8. /\ <<l>> \o more \in Seq(Strings)
      /\ Len(<<l>> \o more) = 1 + Len(more)
      /\ \A i \in 1..(1 + Len(more)) : (<<l>> \o more)[i] = IF i <= 1 THEN <<l>>[i] ELSE more[i - 1]
  BY <1>6, <1>7, ConcatProperties
<1>9. buf' = [buf EXCEPT ![t] = <<l>> \o more]
  BY <1>1
<1>10. TypeOK'
  <2>1. buf' \in [Threads -> Seq(Strings)]
    BY <1>8, <1>9 DEF MapInv, TypeOK
  <2>2. off' \in [Threads -> Nat] /\ torn' \in BOOLEAN
    BY <1>1, <1>3 DEF MapInv, TypeOK
  <2> HIDE DEF inside, next, more
  <2> QED BY <1>2, <2>1, <2>2 DEF MapInv, TypeOK
<1>11. LeftInMap' /\ FileIsSnapshot' /\ AddedType'
  BY <1>2, SnapshotKept DEF MapInv, AddedType
<1>12. EntriesAreGenuine'
  BY <1>1, <1>2 DEF MapInv, EntriesAreGenuine, Genuine
<1>13. LinesAreGenuine'
  <2> SUFFICES ASSUME ~torn' PROVE /\ \A i \in DOMAIN file : file[i] \in GenuineLines
                                   /\ \A u \in Threads : \A i \in DOMAIN buf'[u] : buf'[u][i] \in GenuineLines
    BY <1>2 DEF LinesAreGenuine, GenuineLines
  <2>1. ~torn /\ ~inside
    BY <1>1
  <2>2. /\ \A i \in 1..Len(file) : file[i] \in GenuineLines
        /\ \A u \in Threads : \A i \in DOMAIN buf[u] : buf[u][i] \in GenuineLines
    BY <1>3, <2>1 DEF MapInv, LinesAreGenuine
  <2>3. l \in GenuineLines
    BY <1>1, <1>2, <1>3, <2>1, <2>2
  <2>4. \A i \in 1..Len(more) : more[i] \in GenuineLines
    <3> SUFFICES ASSUME NEW i \in 1..Len(more) PROVE more[i] \in GenuineLines
      OBVIOUS
    <3>1. off[t] + 2 <= n /\ Len(more) = n - (off[t] + 2) + 1
      BY <1>3, <1>6
    <3>2. more[i] = file[(off[t] + 2) + i - 1]
      BY <1>3, <1>6, <3>1
    <3>3. (off[t] + 2) + i - 1 \in 1..Len(file)
      <4>1. i \in 1..(n - (off[t] + 2) + 1) /\ n <= Len(file)
        BY <1>3, <3>1
      <4> HIDE DEF more, inside, next
      <4> QED BY <1>3, <4>1, SMTT(30)
    <3> QED BY <2>2, <3>2, <3>3
  <2>5. \A i \in DOMAIN (<<l>> \o more) : (<<l>> \o more)[i] \in GenuineLines
    <3>1. Len(more) \in Nat /\ DOMAIN (<<l>> \o more) = 1..(1 + Len(more))
      BY <1>6, <1>8, LenProperties
    <3> HIDE DEF more
    <3> QED BY <1>7, <1>8, <2>3, <2>4, <3>1
  <2> HIDE DEF inside, next, more
  <2> QED BY <1>3, <1>9, <2>2, <2>5 DEF MapInv, TypeOK
<1> QED BY <1>10, <1>11, <1>12, <1>13 DEF MapInv

\* The entry of a line, if it has one, is added with the mutex free.
LEMMA AddLineStep ==
    ASSUME MapInv, NEW t \in Threads, AddLine(t)
    PROVE  MapInv'
<1> DEFINE l == Head(buf[t])
<1>1. /\ buf[t] # <<>> /\ buf' = [buf EXCEPT ![t] = Tail(@)]
      /\ UNCHANGED <<lock, file, pc, left, off, failed, added, stale, torn, calls>>
      /\ IF Parses(l) THEN lock = NoThread /\ map_' = Put(map_, KeyOf(l), ValueOf(l))
                      ELSE UNCHANGED map_
  BY DEF AddLine
<1>2. buf[t] \in Seq(Strings)
  BY DEF MapInv, TypeOK
<1>3. /\ l \in Strings /\ Tail(buf[t]) \in Seq(Strings)
      /\ Len(Tail(buf[t])) = Len(buf[t]) - 1 /\ Len(buf[t]) \in Nat \ {0}
      /\ \A i \in 1..Len(Tail(buf[t])) : Tail(buf[t])[i] = buf[t][i + 1]
  BY <1>1, <1>2, HeadTailProperties, EmptySeq
<1>4. DOMAIN buf[t] = 1..Len(buf[t]) /\ DOMAIN Tail(buf[t]) = 1..Len(Tail(buf[t]))
  BY <1>2, <1>3, LenProperties
<1>5. l = buf[t][1]
  BY <1>2, <1>3
<1>6. AddedType'
  BY <1>1 DEF MapInv, AddedType
<1>7. LinesAreGenuine'
  <2> SUFFICES ASSUME ~torn, NEW u \in Threads, NEW i \in DOMAIN buf'[u]
               PROVE  buf'[u][i] \in GenuineLines
    BY <1>1 DEF MapInv, LinesAreGenuine, GenuineLines
  <2>1. \A x \in Threads : \A j \in DOMAIN buf[x] : buf[x][j] \in GenuineLines
    BY DEF MapInv, LinesAreGenuine
  <2>2. CASE u # t
    BY <1>1, <2>1, <2>2 DEF MapInv, TypeOK
  <2>3. CASE u = t
    <3>1. buf'[u] = Tail(buf[t])
      BY <1>1, <2>3 DEF MapInv, TypeOK
    <3>2. i \in 1..(Len(buf[t]) - 1) /\ buf'[u][i] = buf[t][i + 1]
      BY <1>3, <1>4, <3>1
    <3>3. i + 1 \in DOMAIN buf[t]
      BY <1>3, <1>4, <3>2
    <3> QED BY <2>1, <3>2, <3>3
  <2> QED BY <2>2, <2>3
<1>8. buf' \in [Threads -> Seq(Strings)]
  BY <1>1, <1>3 DEF MapInv, TypeOK
<1>9. CASE Parses(l)
  <2>1. KeyOf(l) \in Keys /\ ValueOf(l) \in Strings
    BY <1>3, <1>9, ParsedEntry
  <2>2. /\ DOMAIN map_' = DOMAIN map_ \cup {KeyOf(l)}
        /\ map_'[KeyOf(l)] = ValueOf(l)
        /\ \A x \in DOMAIN map_ : x # KeyOf(l) => map_'[x] = map_[x]
    BY <1>1, <1>9 DEF Put
  <2> HIDE DEF l
  <2>3. TypeOK'
    BY <1>1, <1>8, <2>1, <2>2 DEF MapInv, TypeOK
  <2>4. LeftInMap' /\ FileIsSnapshot'
    BY <1>1, <1>9, NoWriter DEF MapInv, LeftInMap, FileIsSnapshot
  <2>5. ~torn => <<KeyOf(l), ValueOf(l)>> \in Genuine
    <3> SUFFICES ASSUME ~torn PROVE <<KeyOf(l), ValueOf(l)>> \in Genuine
      OBVIOUS
    <3>1. l \in GenuineLines
      BY <1>3, <1>4, <1>5 DEF MapInv, LinesAreGenuine
    <3> QED BY <3>1, GenuineParse DEF MapInv
  <2>6. EntriesAreGenuine'
    BY <1>1, <2>2, <2>5 DEF MapInv, EntriesAreGenuine, Genuine
  <2> QED BY <1>6, <1>7, <2>3, <2>4, <2>6 DEF MapInv
<1>10. CASE ~Parses(l)
  <2>1. map_' = map_
    BY <1>1, <1>10
  <2> HIDE DEF l
  <2>2. TypeOK'
    BY <1>1, <1>8, <2>1 DEF MapInv, TypeOK
  <2>4. LeftInMap' /\ FileIsSnapshot'
    BY <1>1, <2>1, SnapshotKept DEF MapInv
  <2>3. EntriesAreGenuine'
    BY <1>1, <2>1 DEF MapInv, EntriesAreGenuine, Genuine
  <2> QED BY <1>6, <1>7, <2>2, <2>3, <2>4 DEF MapInv
<1> QED BY <1>9, <1>10

\* A step that changes nothing.
LEMMA StutterStep == MapInv /\ UNCHANGED vars => MapInv'
<1> SUFFICES ASSUME MapInv, UNCHANGED vars PROVE MapInv'
  OBVIOUS
<1>1. TypeOK' /\ AddedType'
  BY DEF MapInv, TypeOK, AddedType, vars
<1>2. LeftInMap' /\ FileIsSnapshot'
  BY SnapshotKept DEF MapInv, vars
<1>3. EntriesAreGenuine' /\ LinesAreGenuine'
  BY DEF MapInv, EntriesAreGenuine, Genuine, LinesAreGenuine, GenuineLines, vars
<1> QED BY <1>1, <1>2, <1>3 DEF MapInv

\* Every step keeps the invariant.
LEMMA InvStep == MapInv /\ [Next]_vars => MapInv'
<1> SUFFICES ASSUME MapInv, Next PROVE MapInv'
  BY StutterStep
<1>1. PICK t \in Threads : Start(t) \/ Advance(t)
  BY DEF Next
<1>2. CASE \E k \in NewKeys, v \in NewValues : Add(t, k, v) \/ Edit(t, k, v)
  BY <1>2, UpdateStep
<1>3. CASE \E k \in NewKeys : Remove(t, k)
  BY <1>3, RemoveStep
<1>4. CASE WriteOpen(t) \/ WriteLine(t) \/ WriteEnd(t)
  BY <1>4, WriteOpenStep, WriteLineStep, WriteEndStep
<1>5. CASE ReadOpen(t) \/ Fill(t) \/ AddLine(t) \/ ReadEnd(t)
  BY <1>5, ReadOpenEndStep, FillStep, AddLineStep
<1> QED BY <1>1, <1>2, <1>3, <1>4, <1>5 DEF Start, Advance

-----------------------------------------------------------------------------
(* The theorems.                                                           *)

\* The inductive invariant holds of every state of ThreadSafeMap.
THEOREM MapInvariant == Spec => []MapInv
<1>1. Init => MapInv
  BY InvInit
<1>2. MapInv /\ [Next]_vars => MapInv'
  BY InvStep
<1> QED BY <1>1, <1>2, PTL DEF Spec

\* The members of ThreadSafeMap keep their types, also when lines that were cut
\* are loaded.
THEOREM MapTypeCorrect == Spec => []TypeOK
<1>1. MapInv => TypeOK
  BY DEF MapInv
<1> QED BY <1>1, MapInvariant, PTL

\* writeToFile() saves a snapshot, whatever other threads do meanwhile.
THEOREM MapSnapshot == Spec => []FileIsSnapshot
<1>1. MapInv => FileIsSnapshot
  BY DEF MapInv
<1> QED BY <1>1, MapInvariant, PTL

\* readFromFile() invents nothing, unless the file was rewritten under it.
THEOREM MapGenuine == Spec => []EntriesAreGenuine
<1>1. MapInv => EntriesAreGenuine
  BY DEF MapInv
<1> QED BY <1>1, MapInvariant, PTL

=============================================================================
