------------------------- MODULE PeerExchangeProofs -------------------------
(***************************************************************************)
(* Proofs about PeerExchange for descriptions of any length, any number of *)
(* candidates and any short reads: its types, when the two programs wait   *)
(* for each other, that the offerer's candidates have settled when it has  *)
(* the answer, and who has what when.                                      *)
(***************************************************************************)
EXTENDS PeerExchange, SequenceTheorems, TLAPS

(***************************************************************************)
(* The inductive invariant.                                                *)
(***************************************************************************)

\* Where the offerer is before it has sent its offer, and after it has read what
\* it takes for the answer.
Early == {"listen", "accept", "pointer", "send"}
HasCounted == {"sendCandidates", "recvCount", "recvCandidate", "message"}
Past == HasCounted \cup {"sendCount"}

\* Every unit of stream s is of kind k; none is.
All(s, k) == \A i \in 1..Len(s) : s[i].kind = k
None(s, k) == \A i \in 1..Len(s) : s[i].kind # k

\* What gathering has left behind, and what the pointer points at.
Gathering ==
    /\ \A p \in Peers : complete[p] => found[p] = total[p]
    /\ sdp_to_send = "whole" => complete["offerer"]
    /\ offer = "whole" => complete["offerer"]

\* The offerer on its way.
Offering ==
    /\ pc["offerer"] \in Early \cup {"recvAnswer"} \cup Past \cup Ended
    /\ pc["offerer"] \in Early => offer = "none" /\ stream["answerer"] = <<>>
    /\ pc["offerer"] \notin {"listen", "accept"} \cup Ended => connected
    /\ pc["answerer"] = "connect" => ~connected
    /\ remote["answerer"] => offer = "whole"
    /\ remote["offerer"] \/ stream["offerer"] # <<>> => remote["answerer"]

\* The answerer on its way: it has the offer before it sends, and the offerer does
\* not get past it.
Answering ==
    /\ pc["answerer"] # "recvAnswer"
    /\ pc["answerer"] \in {"connect", "recvOffer"} => ~remote["answerer"] /\ ~got["answerer"]
    /\ pc["answerer"] \in {"connect", "recvOffer", "spin"} =>
          stream["offerer"] = <<>> /\ pc["offerer"] \notin Past
    /\ pc["answerer"] \notin {"connect", "recvOffer"} \cup Ended => remote["answerer"]
    /\ pc["offerer"] \in HasCounted /\ ~Gone("answerer") => candidate_number = total["offerer"]

\* What the answerer reads next: the offer, whole or not, then the count, then the
\* candidates.
AnswererReads ==
    /\ pc["answerer"] \in {"connect", "recvOffer"} =>
          \/ stream["answerer"] = <<>> /\ (pc["offerer"] \in Early \cup Ended \/ offer = "empty")
          \/ stream["answerer"] = <<Junk>> /\ offer = "junk"
          \/ stream["answerer"] = Description("offerer") /\ offer = "whole"
    /\ pc["answerer"] = "spin" => stream["answerer"] = <<>>
    /\ pc["answerer"] = "recvCount" =>
          /\ \A i \in 1..Len(stream["answerer"]) :
                stream["answerer"][i].kind = IF i = 1 THEN "count" ELSE "candidate"
          /\ pc["offerer"] \in {"recvAnswer", "sendCount"} => stream["answerer"] = <<>>
          /\ pc["offerer"] \in HasCounted => stream["answerer"] # <<>>
          /\ pc["offerer"] \in HasCounted \ {"sendCandidates"} /\ total["offerer"] > 0 =>
                Len(stream["answerer"]) >= 2
    /\ pc["answerer"] = "recvCandidate" =>
          /\ All(stream["answerer"], "candidate")
          /\ pc["offerer"] \in HasCounted \cup Ended
          /\ pc["offerer"] \in HasCounted \ {"sendCandidates"} /\ total["offerer"] > 0 =>
                stream["answerer"] # <<>>

\* What the offerer reads next: no count before the answerer has sent one, and
\* blocks of the answer as long as it has not.
OffererReads ==
    /\ pc["answerer"] \in {"recvCount", "recvCandidate", "sendCount"} =>
          None(stream["offerer"], "count")
    /\ pc["answerer"] \in {"recvCount", "recvCandidate"} =>
          (pc["offerer"] = "recvAnswer" => stream["offerer"] # <<>>)

\* Who has got a candidate of the other.
Exchange ==
    /\ got["offerer"] => pc["offerer"] \in {"message"} \cup Ended /\ remote["offerer"] /\ got["answerer"]
    /\ got["answerer"] => remote["answerer"]
    /\ ~Gone("offerer") =>
          /\ pc["answerer"] \in {"sendCount", "sendCandidates", "sleep"} => got["answerer"]
          /\ ~got["answerer"] => None(stream["offerer"], "candidate")

Inv == TypeOK /\ Gathering /\ Offering /\ Answering /\ AnswererReads /\ OffererReads /\ Exchange

-----------------------------------------------------------------------------
(***************************************************************************)
(* Sequences of units, send() and recv().                                  *)
(***************************************************************************)

\* The two peers.
LEMMA Two ==
    /\ Peers = {"offerer", "answerer"}
    /\ Other("offerer") = "answerer" /\ Other("answerer") = "offerer"
    /\ "offerer" # "answerer"
  BY DEF Peers, Other

\* The two streams and the two counters are of their types.
LEMMA Streams ==
    ASSUME TypeOK, NEW p \in Peers
    PROVE  stream[p] \in Seq(Units) /\ Len(stream[p]) \in Nat
  BY DEF TypeOK

\* What is sent consists of units.
LEMMA UnitsSent ==
    ASSUME TypeOK
    PROVE  /\ \A p \in Peers : /\ Description(p) \in Seq(Units)
                               /\ Len(Description(p)) = size[p] /\ size[p] \in Nat \ {0}
                               /\ \A i \in 1..size[p] : Description(p)[i].kind = "block"
           /\ \A n \in 0..MaxCandidates :
                /\ <<Count(n)>> \in Seq(Units)
                /\ [i \in 1..n |-> Candidate(i)] \in Seq(Units)
                /\ Len([i \in 1..n |-> Candidate(i)]) = n
                /\ \A j \in 1..n : [i \in 1..n |-> Candidate(i)][j].kind = "candidate"
           /\ <<Junk>> \in Seq(Units) /\ <<>> \in Seq(Units)
           /\ 1 <= MaxCandidates => <<Candidate(1)>> \in Seq(Units)
  <1>0. MaxCandidates \in Nat /\ MaxBlocks \in Nat
    BY BoundAssumption
  <1>1. ASSUME NEW p \in Peers
        PROVE  /\ Description(p) \in Seq(Units)
               /\ Len(Description(p)) = size[p] /\ size[p] \in Nat \ {0}
               /\ \A i \in 1..size[p] : Description(p)[i].kind = "block"
    <2>1. size[p] \in Nat \ {0} /\ size[p] <= MaxBlocks
      BY <1>0 DEF TypeOK
    <2>2. \A i \in 1..size[p] : Block(i) \in Units
      BY <1>0, <2>1 DEF Units
    <2>3. \A i \in 1..size[p] : Description(p)[i] = Block(i) /\ Description(p)[i].kind = "block"
      BY DEF Description, Block
    <2>4. Description(p) \in Seq(Units)
      BY <2>1, <2>2 DEF Description
    <2>5. Len(Description(p)) = size[p]
      BY <2>1 DEF Description
    <2> QED BY <2>1, <2>3, <2>4, <2>5
  <1>2. ASSUME NEW n \in 0..MaxCandidates
        PROVE  /\ <<Count(n)>> \in Seq(Units)
               /\ [i \in 1..n |-> Candidate(i)] \in Seq(Units)
               /\ Len([i \in 1..n |-> Candidate(i)]) = n
               /\ \A j \in 1..n : [i \in 1..n |-> Candidate(i)][j].kind = "candidate"
    <2>1. Count(n) \in Units /\ \A i \in 1..n : Candidate(i) \in Units
      BY <1>0 DEF Units
    <2>2. <<Count(n)>> \in Seq(Units)
      BY <2>1
    <2>3. [i \in 1..n |-> Candidate(i)] \in Seq(Units)
      BY <1>0, <2>1
    <2>4. Len([i \in 1..n |-> Candidate(i)]) = n
      BY <1>0
    <2>5. \A j \in 1..n : [i \in 1..n |-> Candidate(i)][j].kind = "candidate"
      BY DEF Candidate
    <2> QED BY <2>2, <2>3, <2>4, <2>5
  <1>3. <<Junk>> \in Seq(Units) /\ <<>> \in Seq(Units)
    BY DEF Units
  <1>4. 1 <= MaxCandidates => <<Candidate(1)>> \in Seq(Units)
    BY <1>0 DEF Units
  <1> QED BY <1>1, <1>2, <1>3, <1>4

\* The kinds of what is appended are the kinds of its parts.
LEMMA Kinds ==
    ASSUME NEW s \in Seq(Units), NEW t \in Seq(Units), NEW k
    PROVE  /\ None(s \o t, k) <=> None(s, k) /\ None(t, k)
           /\ All(s \o t, k) <=> All(s, k) /\ All(t, k)
           /\ s \o t \in Seq(Units) /\ Len(s \o t) = Len(s) + Len(t)
           /\ t # <<>> => s \o t # <<>>
           /\ s # <<>> => s \o t # <<>>
           /\ s = <<>> => s \o t = t
  <1>0. Len(s) \in Nat /\ Len(t) \in Nat
    OBVIOUS
  <1>1. /\ s \o t \in Seq(Units) /\ Len(s \o t) = Len(s) + Len(t)
        /\ \A i \in 1..(Len(s) + Len(t)) :
              (s \o t)[i] = IF i <= Len(s) THEN s[i] ELSE t[i - Len(s)]
    BY ConcatProperties
  <1>2. \A i \in 1..Len(s) : i \in 1..(Len(s) + Len(t)) /\ (s \o t)[i] = s[i]
    BY <1>0, <1>1
  <1>3. \A i \in 1..Len(t) : /\ Len(s) + i \in 1..(Len(s) + Len(t))
                             /\ (s \o t)[Len(s) + i] = t[i]
    <2> TAKE i \in 1..Len(t)
    <2>1. /\ Len(s) + i \in 1..(Len(s) + Len(t)) /\ ~(Len(s) + i <= Len(s))
          /\ (Len(s) + i) - Len(s) = i
      BY <1>0
    <2> QED BY <1>1, <2>1
  <1>4. \A j \in 1..(Len(s) + Len(t)) : j \in 1..Len(s) \/ \E i \in 1..Len(t) : j = Len(s) + i
    <2> TAKE j \in 1..(Len(s) + Len(t))
    <2>1. j \notin 1..Len(s) => j - Len(s) \in 1..Len(t) /\ j = Len(s) + (j - Len(s))
      BY <1>0
    <2> QED BY <2>1
  <1>5. None(s \o t, k) <=> None(s, k) /\ None(t, k)
    <2>1. ASSUME None(s \o t, k) PROVE None(s, k) /\ None(t, k)
      <3>0. \A j \in 1..(Len(s) + Len(t)) : (s \o t)[j].kind # k
        BY <1>1, <2>1 DEF None
      <3>1. \A i \in 1..Len(s) : s[i].kind # k
        BY <1>2, <3>0
      <3>2. \A i \in 1..Len(t) : t[i].kind # k
        BY <1>3, <3>0
      <3> QED BY <3>1, <3>2 DEF None
    <2>2. ASSUME None(s, k), None(t, k) PROVE None(s \o t, k)
      <3>1. ASSUME NEW j \in 1..(Len(s) + Len(t)) PROVE (s \o t)[j].kind # k
        <4>1. CASE j \in 1..Len(s)
          BY <1>2, <2>2, <4>1 DEF None
        <4>2. CASE \E i \in 1..Len(t) : j = Len(s) + i
          BY <1>3, <2>2, <4>2 DEF None
        <4> QED BY <1>4, <4>1, <4>2
      <3> QED BY <1>1, <3>1 DEF None
    <2> QED BY <2>1, <2>2
  <1>6. All(s \o t, k) <=> All(s, k) /\ All(t, k)
    <2>1. ASSUME All(s \o t, k) PROVE All(s, k) /\ All(t, k)
      <3>0. \A j \in 1..(Len(s) + Len(t)) : (s \o t)[j].kind = k
        BY <1>1, <2>1 DEF All
      <3>1. \A i \in 1..Len(s) : s[i].kind = k
        BY <1>2, <3>0
      <3>2. \A i \in 1..Len(t) : t[i].kind = k
        BY <1>3, <3>0
      <3> QED BY <3>1, <3>2 DEF All
    <2>2. ASSUME All(s, k), All(t, k) PROVE All(s \o t, k)
      <3>1. ASSUME NEW j \in 1..(Len(s) + Len(t)) PROVE (s \o t)[j].kind = k
        <4>1. CASE j \in 1..Len(s)
          BY <1>2, <2>2, <4>1 DEF All
        <4>2. CASE \E i \in 1..Len(t) : j = Len(s) + i
          BY <1>3, <2>2, <4>2 DEF All
        <4> QED BY <1>4, <4>1, <4>2
      <3> QED BY <1>1, <3>1 DEF All
    <2> QED BY <2>1, <2>2
  <1>7. /\ t # <<>> => s \o t # <<>>
        /\ s # <<>> => s \o t # <<>>
    BY <1>0, <1>1, EmptySeq
  <1>8. s = <<>> => s \o t = t
    BY ConcatEmptySeq
  <1> QED BY <1>1, <1>5, <1>6, <1>7, <1>8

\* A chunk of one kind leaves one kind: what recv() returns is a beginning of the
\* stream, or nothing when the peer is gone, and the rest remains.
LEMMA ChunkFacts ==
    ASSUME TypeOK, NEW p \in Peers, NEW n \in Nat, NEW c \in Chunks(p, n)
    PROVE  /\ Rest(p, c) \in Seq(Units)
           /\ c = <<>> => Gone(Other(p)) /\ Rest(p, c) = <<>>
           /\ c # <<>> =>
                /\ stream[p] # <<>> /\ Head(c) = stream[p][1]
                /\ Len(c) \in 1..Len(stream[p]) /\ Len(c) <= n
                /\ \A i \in 1..Len(c) : c[i] = stream[p][i]
                /\ Len(Rest(p, c)) = Len(stream[p]) - Len(c)
                /\ \A i \in 1..Len(Rest(p, c)) :
                      i + Len(c) \in 1..Len(stream[p]) /\ Rest(p, c)[i] = stream[p][i + Len(c)]
           /\ \A k : None(stream[p], k) => None(Rest(p, c), k)
           /\ \A k : All(stream[p], k) => All(Rest(p, c), k)
  <1> DEFINE s == stream[p]
  <1>0. s \in Seq(Units) /\ Len(s) \in Nat
    BY Streams
  <1>1. CASE c = <<>>
    <2>1. Rest(p, c) = <<>>
      BY <1>1 DEF Rest
    <2>2. Gone(Other(p))
      <3>1. ASSUME NEW j \in 1..(IF n < Len(s) THEN n ELSE Len(s)), c = SubSeq(s, 1, j)
            PROVE  FALSE
        <4>1. j \in 1..Len(s)
          BY <1>0
        <4>2. Len(SubSeq(s, 1, j)) = j
          BY <1>0, <4>1
        <4> QED BY <1>1, <3>1, <4>1, <4>2
      <3> QED BY <3>1 DEF Chunks
    <2>3. \A i \in 1..Len(Rest(p, c)) : FALSE
      BY <2>1
    <2>4. Rest(p, c) \in Seq(Units)
      BY <2>1, UnitsSent
    <2>5. \A k : None(Rest(p, c), k) /\ All(Rest(p, c), k)
      BY <2>3 DEF None, All
    <2> QED BY <1>1, <2>1, <2>2, <2>4, <2>5
  <1>2. CASE c # <<>>
    <2>1. PICK j \in 1..(IF n < Len(s) THEN n ELSE Len(s)) : c = SubSeq(s, 1, j)
      BY <1>2 DEF Chunks
    <2>2. j \in 1..Len(s) /\ j <= n /\ j \in Nat
      BY <1>0
    <2>3. Len(c) = j /\ \A i \in 1..j : c[i] = s[i]
      BY <1>0, <2>1, <2>2
    <2>4. s # <<>> /\ Head(c) = s[1]
      BY <1>0, <1>2, <2>2, <2>3
    <2> DEFINE r == SubSeq(s, j + 1, Len(s))
    <2>5. Rest(p, c) = r
      BY <1>2, <2>3 DEF Rest
    <2>6. /\ r \in Seq(Units) /\ Len(r) = Len(s) - j
          /\ \A i \in 1..(Len(s) - j) : r[i] = s[i + j] /\ i + j \in 1..Len(s)
      <3>1. r \in Seq(Units)
        BY <1>0, <2>2
      <3>2. Len(r) = Len(s) - j
        BY <1>0, <2>2
      <3>3. \A i \in 1..(Len(s) - j) : r[i] = s[i + j]
        BY <1>0, <2>2
      <3>4. \A i \in 1..(Len(s) - j) : i + j \in 1..Len(s)
        BY <1>0, <2>2
      <3> QED BY <3>1, <3>2, <3>3, <3>4
    <2> HIDE DEF r
    <2>7. \A k : (None(s, k) => None(r, k)) /\ (All(s, k) => All(r, k))
      BY <2>6 DEF None, All
    <2>8. /\ s # <<>> /\ Head(c) = s[1]
          /\ Len(c) \in 1..Len(s) /\ Len(c) <= n
          /\ \A i \in 1..Len(c) : c[i] = s[i]
      BY <2>2, <2>3, <2>4
    <2>9. /\ Len(r) = Len(s) - Len(c)
          /\ \A i \in 1..Len(r) : i + Len(c) \in 1..Len(s) /\ r[i] = s[i + Len(c)]
      BY <2>3, <2>6
    <2> HIDE DEF s
    <2> QED BY <1>2, <2>5, <2>6, <2>7, <2>8, <2>9 DEF s
  <1> QED BY <1>1, <1>2

\* What send() leaves.
LEMMA SendFacts ==
    ASSUME TypeOK, NEW p \in Peers, NEW from, NEW to \in Pcs, NEW units \in Seq(Units),
           Send(p, from, to, units)
    PROVE  /\ pc[p] = from /\ pc' \in [Peers -> Pcs] /\ stream' \in [Peers -> Seq(Units)]
           /\ pc'[Other(p)] = pc[Other(p)] /\ stream'[p] = stream[p]
           /\ \/ /\ ~Gone(Other(p)) /\ pc'[p] = to
                 /\ stream'[Other(p)] = stream[Other(p)] \o units
              \/ /\ Gone(Other(p)) /\ pc'[p] \in {to, "crashed"}
                 /\ stream'[Other(p)] = stream[Other(p)]
  <1>0. Other(p) \in Peers /\ Other(p) # p
    BY DEF Other, Peers
  <1>1. pc \in [Peers -> Pcs] /\ stream \in [Peers -> Seq(Units)] /\ "crashed" \in Pcs
    BY DEF TypeOK, Pcs, Ended
  <1>2. pc[p] = from
    BY DEF Send
  <1>3. CASE ~Gone(Other(p))
    <2>1. stream' = [stream EXCEPT ![Other(p)] = @ \o units] /\ pc' = [pc EXCEPT ![p] = to]
      BY <1>3 DEF Send
    <2>2. stream[Other(p)] \o units \in Seq(Units)
      BY <1>0, <1>1
    <2> QED BY <1>0, <1>1, <1>2, <1>3, <2>1, <2>2
  <1>4. CASE Gone(Other(p))
    <2>1. /\ stream' = stream
          /\ pc' \in {[pc EXCEPT ![p] = to], [pc EXCEPT ![p] = "crashed"]}
      BY <1>4 DEF Send
    <2> QED BY <1>0, <1>1, <1>2, <1>4, <2>1
  <1> QED BY <1>3, <1>4

\* The same for the offerer.
LEMMA OffererSends ==
    ASSUME TypeOK, NEW from, NEW to \in Pcs, NEW units \in Seq(Units),
           Send("offerer", from, to, units)
    PROVE  /\ pc["offerer"] = from /\ pc' \in [Peers -> Pcs] /\ stream' \in [Peers -> Seq(Units)]
           /\ pc'["answerer"] = pc["answerer"] /\ stream'["offerer"] = stream["offerer"]
           /\ \/ /\ ~Gone("answerer") /\ pc'["offerer"] = to
                 /\ stream'["answerer"] = stream["answerer"] \o units
              \/ /\ Gone("answerer") /\ pc'["offerer"] \in {to, "crashed"}
                 /\ stream'["answerer"] = stream["answerer"]
  <1>1. "offerer" \in Peers /\ Other("offerer") = "answerer"
    BY Two
  <1>2. /\ pc["offerer"] = from /\ pc' \in [Peers -> Pcs] /\ stream' \in [Peers -> Seq(Units)]
        /\ pc'[Other("offerer")] = pc[Other("offerer")] /\ stream'["offerer"] = stream["offerer"]
        /\ \/ /\ ~Gone(Other("offerer")) /\ pc'["offerer"] = to
              /\ stream'[Other("offerer")] = stream[Other("offerer")] \o units
           \/ /\ Gone(Other("offerer")) /\ pc'["offerer"] \in {to, "crashed"}
              /\ stream'[Other("offerer")] = stream[Other("offerer")]
    BY <1>1, SendFacts, Zenon
  <1> QED BY <1>1, <1>2, Zenon

\* What recv() leaves.
LEMMA RecvFacts ==
    ASSUME TypeOK, NEW p \in Peers, NEW from, NEW to \in Pcs, NEW n \in Nat, NEW c \in Chunks(p, n),
           Recv(p, from, to, c)
    PROVE  /\ pc[p] = from /\ pc'[p] = to /\ pc' \in [Peers -> Pcs]
           /\ stream' \in [Peers -> Seq(Units)] /\ stream'[p] = Rest(p, c)
           /\ pc'[Other(p)] = pc[Other(p)] /\ stream'[Other(p)] = stream[Other(p)]
  <1>0. Other(p) \in Peers /\ Other(p) # p
    BY DEF Other, Peers
  <1>1. pc \in [Peers -> Pcs] /\ stream \in [Peers -> Seq(Units)]
    BY DEF TypeOK
  <1>2. Rest(p, c) \in Seq(Units)
    BY ChunkFacts
  <1> QED BY <1>0, <1>1, <1>2 DEF Recv

\* What recv() of a count leaves: one unit less, or what is behind something else.
LEMMA RecvCountFacts ==
    ASSUME TypeOK, NEW p \in Peers, NEW to \in Pcs, RecvCount(p, to)
    PROVE  /\ pc[p] = "recvCount" /\ pc'[p] = to /\ pc' \in [Peers -> Pcs]
           /\ stream' \in [Peers -> Seq(Units)]
           /\ pc'[Other(p)] = pc[Other(p)] /\ stream'[Other(p)] = stream[Other(p)]
           /\ \/ Gone(Other(p)) /\ stream'[p] = <<>>
              \/ /\ stream[p] # <<>> /\ stream[p][1].kind = "count"
                 /\ stream'[p] = Tail(stream[p])
              \/ /\ stream[p] # <<>> /\ stream[p][1].kind # "count"
                 /\ \/ stream'[p] = Tail(stream[p])
                    \/ stream'[p] = <<Junk>> \o Tail(stream[p])
                    \/ /\ Tail(stream[p]) # <<>>
                       /\ stream'[p] = <<Junk>> \o Tail(Tail(stream[p]))
  <1> DEFINE s == stream[p]
  <1>0. Other(p) \in Peers /\ Other(p) # p
    BY DEF Other, Peers
  <1>1. pc \in [Peers -> Pcs] /\ stream \in [Peers -> Seq(Units)] /\ s \in Seq(Units)
    BY DEF TypeOK
  <1>2. pc[p] = "recvCount" /\ pc' = [pc EXCEPT ![p] = to]
    BY DEF RecvCount
  <1>c. PICK c \in Chunks(p, 1) :
            \E rest \in (IF c = <<>> THEN {<<>>} ELSE Behind4(p)) :
                stream' = [stream EXCEPT ![p] = rest]
    BY DEF RecvCount
  <1>3. PICK rest \in (IF c = <<>> THEN {<<>>} ELSE Behind4(p)) :
            stream' = [stream EXCEPT ![p] = rest]
    BY <1>c
  <1>4. rest \in Seq(Units) =>
            /\ stream' \in [Peers -> Seq(Units)] /\ stream'[p] = rest
            /\ stream'[Other(p)] = stream[Other(p)]
    BY <1>0, <1>1, <1>3
  <1>5. CASE c = <<>>
    <2>1. Gone(Other(p)) /\ rest = <<>>
      BY <1>3, <1>5, ChunkFacts
    <2>2. rest \in Seq(Units)
      BY <2>1
    <2>3. stream' \in [Peers -> Seq(Units)] /\ stream'[p] = <<>> /\ stream'[Other(p)] = stream[Other(p)]
      BY <1>4, <2>1, <2>2
    <2> QED BY <1>0, <1>1, <1>2, <2>1, <2>3
  <1>6. CASE c # <<>>
    <2>1. s # <<>> /\ Head(s) = s[1]
      BY <1>1, <1>6, ChunkFacts
    <2>2. Tail(s) \in Seq(Units) /\ <<Junk>> \in Seq(Units)
      BY <1>1, <2>1, UnitsSent
    <2>3. <<Junk>> \o Tail(s) \in Seq(Units)
      BY <2>2, Kinds
    <2>4. Tail(s) # <<>> => <<Junk>> \o Tail(Tail(s)) \in Seq(Units)
      <3>1. Tail(s) # <<>> => Tail(Tail(s)) \in Seq(Units)
        BY <2>2
      <3> QED BY <2>2, <3>1, Kinds
    <2>5. rest \in Behind4(p)
      BY <1>3, <1>6
    <2>6. \/ s[1].kind = "count" /\ rest = Tail(s)
          \/ /\ s[1].kind # "count"
             /\ \/ rest = Tail(s)
                \/ rest = <<Junk>> \o Tail(s)
                \/ Tail(s) # <<>> /\ rest = <<Junk>> \o Tail(Tail(s))
      <3>1. CASE Head(s).kind = "count"
        <4>1. Behind4(p) = {Tail(s)}
          BY <3>1 DEF Behind4, Block
        <4> QED BY <2>1, <2>5, <3>1, <4>1
      <3>2. CASE Head(s).kind # "count" /\ Head(s) = Block(size[Other(p)])
        <4>1. Behind4(p) = {<<Junk>> \o Tail(s), Tail(s)}
                           \cup {<<Junk>> \o Tail(u) : u \in {Tail(s)} \ {<<>>}}
          BY <3>2 DEF Behind4
        <4> QED BY <2>1, <2>5, <3>2, <4>1
      <3>3. CASE Head(s).kind # "count" /\ Head(s) # Block(size[Other(p)])
        <4>1. Behind4(p) = {<<Junk>> \o Tail(s)}
          BY <3>3 DEF Behind4
        <4> QED BY <2>1, <2>5, <3>3, <4>1
      <3> QED BY <3>1, <3>2, <3>3
    <2>7. rest \in Seq(Units)
      BY <2>2, <2>3, <2>4, <2>6
    <2> QED BY <1>0, <1>1, <1>2, <1>4, <2>1, <2>6, <2>7
  <1> QED BY <1>5, <1>6

\* The offerer gets on without a call that concerns the answerer, or ends.
LEMMA OffererMoves ==
    ASSUME Inv, Listen \/ Accept \/ TakePointer \/ CandidateRace \/ Message \/ Kill("offerer")
    PROVE  Inv'
  <1>0. TypeOK
    BY DEF Inv
  <1>1. UNCHANGED <<gatherVars, connected, candidate_number, offer, stream, remote, got>>
    BY DEF Listen, Accept, TakePointer, CandidateRace, Message, Kill, offerVars
  <1>2. UNCHANGED <<size, total, found, complete>>
    BY <1>1 DEF gatherVars
  <1>3. /\ pc' \in [Peers -> Pcs] /\ pc'["answerer"] = pc["answerer"]
        /\ \/ pc["offerer"] \in Early /\ pc'["offerer"] \in Early
           \/ pc'["offerer"] \in Ended
        /\ pc'["offerer"] \notin {"listen", "accept"} \cup Ended => connected
        /\ pc["offerer"] = "message" => pc'["offerer"] \in Ended
    <2>0. pc \in [Peers -> Pcs] /\ pc["offerer"] \in Pcs
      BY <1>0, Two DEF TypeOK
    <2>1. \E to \in {"accept", "pointer", "send"} \cup Ended :
              /\ pc' = [pc EXCEPT !["offerer"] = to]
              /\ to \in Ended \/ (pc["offerer"] \in Early /\ to \in Early)
              /\ to = "pointer" => connected
              /\ to = "send" => pc["offerer"] = "pointer"
              /\ pc["offerer"] = "message" => to \in Ended
      BY DEF Listen, Accept, TakePointer, CandidateRace, Message, Kill, Early, Ended
    <2>2. PICK to \in {"accept", "pointer", "send"} \cup Ended :
              /\ pc' = [pc EXCEPT !["offerer"] = to]
              /\ to \in Ended \/ (pc["offerer"] \in Early /\ to \in Early)
              /\ to = "pointer" => connected
              /\ to = "send" => pc["offerer"] = "pointer"
              /\ pc["offerer"] = "message" => to \in Ended
      BY <2>1
    <2>3. to \in Pcs /\ (pc["offerer"] = "pointer" => connected)
      BY DEF Pcs, Inv, Offering, Ended
    <2>4. pc'["offerer"] = to /\ pc' \in [Peers -> Pcs] /\ pc'["answerer"] = pc["answerer"]
      BY <2>0, <2>2, <2>3, Two
    <2> QED BY <2>2, <2>3, <2>4 DEF Early, Ended
  <1>4. /\ sdp_to_send' \in {"unset", "empty", "whole"}
        /\ sdp_to_send' = "whole" => complete["offerer"]
    <2>1. sdp_to_send' = sdp_to_send \/ sdp_to_send' = IF complete["offerer"] THEN "whole" ELSE "empty"
      BY DEF Listen, Accept, TakePointer, CandidateRace, Message, Kill, offerVars
    <2> QED BY <1>0, <2>1 DEF Inv, TypeOK, Gathering
  <1>5. TypeOK'
    BY <1>0, <1>1, <1>2, <1>3, <1>4 DEF TypeOK
  <1>6. Gathering'
    BY <1>1, <1>2, <1>4 DEF Inv, Gathering
  <1>7. Offering'
    BY <1>1, <1>3 DEF Inv, Offering, Early, Ended
  <1>8. Answering'
    BY <1>1, <1>2, <1>3 DEF Inv, Answering, Early, Ended, Past, HasCounted, Gone
  <1>9. AnswererReads'
    <2>1. Description("offerer")' = Description("offerer")
      BY <1>2 DEF Description
    <2> QED BY <1>1, <1>2, <1>3, <2>1 DEF Inv, AnswererReads, Early, Ended, HasCounted
  <1>10. OffererReads'
    BY <1>1, <1>3 DEF Inv, OffererReads, Early, Ended
  <1>11. Exchange'
    BY <1>1, <1>3 DEF Inv, Exchange, Early, Ended, Gone
  <1> QED BY <1>5, <1>6, <1>7, <1>8, <1>9, <1>10, <1>11 DEF Inv

\* The answerer connects, closes or is killed.
LEMMA AnswererMoves ==
    ASSUME Inv, Connect \/ AnswererClose \/ Kill("answerer")
    PROVE  Inv'
  <1>0. TypeOK
    BY DEF Inv
  <1>1. UNCHANGED <<gatherVars, sdp_to_send, candidate_number, offer, stream, remote, got>>
    BY DEF Connect, AnswererClose, Kill, offerVars
  <1>2. UNCHANGED <<size, total, found, complete>>
    BY <1>1 DEF gatherVars
  <1>3. /\ pc' \in [Peers -> Pcs] /\ pc'["offerer"] = pc["offerer"]
        /\ pc["answerer"] \notin Ended
        /\ \/ connected' = connected /\ pc'["answerer"] \in Ended
           \/ /\ pc["answerer"] = "connect" /\ connected' \in BOOLEAN
              /\ pc'["answerer"] = IF connected' THEN "recvOffer" ELSE "done"
    <2>0. pc \in [Peers -> Pcs] /\ pc["answerer"] \in Pcs
      BY <1>0, Two DEF TypeOK
    <2>1. CASE Connect
      <3>1. connected' = (pc["offerer"] = "accept")
        BY <2>1 DEF Connect
      <3>2. connected' \in BOOLEAN
        BY <3>1, Zenon
      <3>3. /\ pc["answerer"] = "connect"
            /\ pc' = [pc EXCEPT !["answerer"] = IF connected' THEN "recvOffer" ELSE "done"]
        BY <2>1 DEF Connect
      <3>4. {"recvOffer", "done"} \subseteq Pcs /\ "connect" \notin Ended
        BY DEF Pcs, Receiving, Ended
      <3> QED BY <2>0, <3>2, <3>3, <3>4, Two
    <2>2. CASE AnswererClose \/ Kill("answerer")
      <3>1. /\ \E to \in Ended : pc' = [pc EXCEPT !["answerer"] = to]
            /\ pc["answerer"] \notin Ended /\ connected' = connected
        BY <2>2 DEF AnswererClose, Kill, Gone, Ended, offerVars
      <3> QED BY <2>0, <3>1, Two DEF Pcs
    <2> QED BY <2>1, <2>2
  <1>4. connected' \in BOOLEAN
    BY <1>0, <1>3 DEF TypeOK
  <1>5. TypeOK'
    BY <1>0, <1>1, <1>2, <1>3, <1>4 DEF TypeOK
  <1>6. Gathering'
    BY <1>1, <1>2 DEF Inv, Gathering
  <1>7. Offering'
    <2>1. CASE connected' = connected /\ pc'["answerer"] \in Ended
      BY <1>1, <1>3, <2>1 DEF Inv, Offering, Ended
    <2>2. CASE /\ pc["answerer"] = "connect" /\ connected' \in BOOLEAN
               /\ pc'["answerer"] = IF connected' THEN "recvOffer" ELSE "done"
      <3>1. ~connected
        BY <2>2 DEF Inv, Offering
      <3>2. pc["offerer"] \in {"listen", "accept"} \cup Ended
        BY <3>1 DEF Inv, Offering
      <3> QED BY <1>1, <1>3, <2>2, <3>2 DEF Inv, Offering, Ended
    <2> QED BY <1>3, <2>1, <2>2
  <1>8. Answering'
    BY <1>1, <1>2, <1>3 DEF Inv, Answering, Ended, Gone
  <1>9. AnswererReads'
    <2>1. Description("offerer")' = Description("offerer")
      BY <1>2 DEF Description
    <2> QED BY <1>1, <1>2, <1>3, <2>1 DEF Inv, AnswererReads, Ended
  <1>10. OffererReads'
    BY <1>1, <1>3 DEF Inv, OffererReads, Ended
  <1>11. Exchange'
    BY <1>1, <1>3 DEF Inv, Exchange, Ended, Gone
  <1> QED BY <1>5, <1>6, <1>7, <1>8, <1>9, <1>10, <1>11 DEF Inv

\* The callbacks.
LEMMA CallbacksKeep ==
    ASSUME Inv, NEW p \in Peers, NewCandidate(p) \/ GatheringComplete(p)
    PROVE  Inv'
  <1>0. TypeOK
    BY DEF Inv
  <1>1. UNCHANGED <<pc, size, total, offerVars, stream, remote, got>>
    BY DEF NewCandidate, GatheringComplete
  <1>2. UNCHANGED <<connected, sdp_to_send, candidate_number, offer>>
    BY <1>1 DEF offerVars
  <1>3. /\ found' \in [Peers -> 0..MaxCandidates] /\ complete' \in [Peers -> BOOLEAN]
        /\ \A q \in Peers : /\ complete[q] => complete'[q]
                            /\ complete'[q] => found'[q] = total[q]
    <2>0. /\ found \in [Peers -> 0..MaxCandidates] /\ complete \in [Peers -> BOOLEAN]
          /\ total \in [Peers -> 0..MaxCandidates] /\ MaxCandidates \in Nat
          /\ \A q \in Peers : complete[q] => found[q] = total[q]
      BY <1>0, BoundAssumption DEF TypeOK, Inv, Gathering
    <2>1. CASE NewCandidate(p)
      <3>1. /\ ~complete[p] /\ found[p] < total[p] /\ complete' = complete
            /\ found' = [found EXCEPT ![p] = found[p] + 1]
        BY <2>0, <2>1 DEF NewCandidate, Gathers
      <3>2. found[p] + 1 \in 0..MaxCandidates
        BY <2>0, <3>1
      <3> QED BY <2>0, <3>1, <3>2
    <2>2. CASE GatheringComplete(p)
      <3>1. /\ found[p] = total[p] /\ found' = found
            /\ complete' = [complete EXCEPT ![p] = TRUE]
        BY <2>2 DEF GatheringComplete
      <3> QED BY <2>0, <3>1
    <2> QED BY <2>1, <2>2
  <1>4. TypeOK'
    BY <1>0, <1>1, <1>2, <1>3 DEF TypeOK
  <1>5. Gathering'
    BY <1>1, <1>2, <1>3, Two DEF Inv, Gathering
  <1>6. Offering' /\ Answering' /\ OffererReads' /\ Exchange'
    BY <1>1, <1>2 DEF Inv, Offering, Answering, OffererReads, Exchange, Gone
  <1>7. AnswererReads'
    <2>1. Description("offerer")' = Description("offerer")
      BY <1>1 DEF Description
    <2> QED BY <1>1, <1>2, <2>1 DEF Inv, AnswererReads
  <1> QED BY <1>4, <1>5, <1>6, <1>7 DEF Inv

\* The offer is sent: the answerer is waiting for it, or gone.
LEMMA SendOfferKeeps ==
    ASSUME Inv, SendOffer
    PROVE  Inv'
  <1>0. TypeOK
    BY DEF Inv
  <1>1. UNCHANGED <<size, total, found, complete, connected, sdp_to_send, candidate_number, remote, got>>
    BY DEF SendOffer, gatherVars
  <1>2. /\ offer' \in {"empty", "junk", "whole"}
        /\ offer' = "whole" => sdp_to_send = "whole"
    BY DEF SendOffer
  <1>3. PICK units \in {Description("offerer"), <<Junk>>, <<>>} :
          /\ Send("offerer", "send", "recvAnswer", units)
          /\ offer' = "whole" => units = Description("offerer")
          /\ offer' = "junk" => units = <<Junk>>
          /\ offer' = "empty" => units = <<>>
    BY <1>2 DEF SendOffer
  <1>4. units \in Seq(Units)
    <2>1. "offerer" \in Peers
      BY Two
    <2>2. Description("offerer") \in Seq(Units) /\ <<Junk>> \in Seq(Units) /\ <<>> \in Seq(Units)
      BY <1>0, <2>1, UnitsSent, Zenon
    <2> QED BY <1>3, <2>2, Zenon
  <1>5. /\ pc["offerer"] = "send" /\ pc' \in [Peers -> Pcs] /\ stream' \in [Peers -> Seq(Units)]
        /\ pc'["answerer"] = pc["answerer"] /\ stream'["offerer"] = stream["offerer"]
        /\ \/ /\ ~Gone("answerer") /\ pc'["offerer"] = "recvAnswer"
              /\ stream'["answerer"] = stream["answerer"] \o units
           \/ /\ Gone("answerer") /\ pc'["offerer"] \in {"recvAnswer", "crashed"}
              /\ stream'["answerer"] = stream["answerer"]
    <2>1. "recvAnswer" \in Pcs
      BY DEF Pcs, Receiving
    <2> QED BY <1>0, <1>3, <1>4, <2>1, OffererSends, Zenon
  <1>6. offer = "none" /\ stream["answerer"] = <<>> /\ connected
    BY <1>5 DEF Inv, Offering, Early, Ended
  <1>7. ~remote["answerer"] /\ ~remote["offerer"] /\ stream["offerer"] = <<>>
    BY <1>6 DEF Inv, Offering
  <1>8. pc["answerer"] \in {"recvOffer"} \cup Ended
    BY <1>6, <1>7 DEF Inv, Offering, Answering
  <1>9. \/ Gone("answerer")
        \/ /\ stream'["answerer"] = units /\ pc'["offerer"] = "recvAnswer"
    <2>1. <<>> \o units = units
      BY <1>4, ConcatEmptySeq
    <2> QED BY <1>5, <1>6, <2>1
  <1>10. TypeOK'
    BY <1>0, <1>1, <1>2, <1>5 DEF TypeOK
  <1>11. Gathering'
    BY <1>1, <1>2 DEF Inv, Gathering
  <1>12. Offering'
    BY <1>1, <1>5, <1>6, <1>7, <1>8 DEF Inv, Offering, Early, Ended
  <1>13. Answering'
    BY <1>1, <1>5, <1>7, <1>8 DEF Inv, Answering, Ended, Gone, Past, HasCounted
  <1>14. AnswererReads'
    <2>1. Description("offerer")' = Description("offerer")
      BY <1>1 DEF Description
    <2> QED BY <1>1, <1>2, <1>3, <1>5, <1>8, <1>9, <2>1 DEF Inv, AnswererReads, Ended, Gone
  <1>15. OffererReads'
    BY <1>5, <1>8 DEF OffererReads, Ended
  <1>16. Exchange'
    BY <1>1, <1>5, <1>8 DEF Inv, Exchange, Ended, Gone
  <1> QED BY <1>10, <1>11, <1>12, <1>13, <1>14, <1>15, <1>16 DEF Inv

\* What is taken for the answer comes from an answerer that has the offer.
LEMMA RecvAnswerKeeps ==
    ASSUME Inv, RecvAnswer
    PROVE  Inv'
  <1>0. TypeOK
    BY DEF Inv
  <1>1. UNCHANGED <<size, total, found, complete, connected, sdp_to_send, candidate_number, offer, got>>
    BY DEF RecvAnswer, gatherVars, offerVars
  <1>2. PICK c \in Chunks("offerer", 1) :
          /\ Recv("offerer", "recvAnswer", "sendCount", c)
          /\ remote' = [remote EXCEPT !["offerer"] = c = Description("answerer")]
    BY DEF RecvAnswer
  <1>3. /\ pc["offerer"] = "recvAnswer" /\ pc'["offerer"] = "sendCount" /\ pc' \in [Peers -> Pcs]
        /\ stream' \in [Peers -> Seq(Units)] /\ stream'["offerer"] = Rest("offerer", c)
        /\ pc'["answerer"] = pc["answerer"] /\ stream'["answerer"] = stream["answerer"]
    <2>1. "sendCount" \in Pcs
      BY DEF Pcs
    <2> QED BY <1>0, <1>2, <2>1, RecvFacts, Two
  <1>4. /\ c = <<>> => Gone("answerer") /\ stream'["offerer"] = <<>>
        /\ c # <<>> => stream["offerer"] # <<>>
        /\ \A k : None(stream["offerer"], k) => None(stream'["offerer"], k)
    BY <1>0, <1>2, <1>3, ChunkFacts, Two
  <1>5. /\ remote' \in [Peers -> BOOLEAN] /\ remote'["answerer"] = remote["answerer"]
        /\ remote'["offerer"] => c = Description("answerer")
    <2>1. remote \in [Peers -> BOOLEAN]
      BY <1>0 DEF TypeOK
    <2> QED BY <1>2, <2>1, Two
  <1>6. Description("answerer") # <<>>
    BY <1>0, UnitsSent, Two
  <1>7. c # <<>> => remote["answerer"]
    BY <1>4 DEF Inv, Offering
  <1>8. pc["answerer"] \notin {"connect", "recvOffer", "spin", "recvCandidate"}
    <2>1. pc["answerer"] \notin {"connect", "recvOffer", "spin"}
      BY <1>4 DEF Inv, Answering, Gone, Ended
    <2>2. pc["answerer"] # "recvCandidate"
      BY <1>3 DEF Inv, AnswererReads, HasCounted, Ended
    <2> QED BY <2>1, <2>2
  <1>9. TypeOK'
    BY <1>0, <1>1, <1>3, <1>5 DEF TypeOK
  <1>10. Gathering'
    BY <1>1 DEF Inv, Gathering
  <1>11. Offering'
    <2>1. connected
      BY <1>3 DEF Inv, Offering, Ended
    <2>2. remote'["offerer"] \/ stream'["offerer"] # <<>> => remote'["answerer"]
      BY <1>4, <1>5, <1>6, <1>7
    <2> QED BY <1>1, <1>3, <1>5, <1>8, <2>1, <2>2 DEF Inv, Offering, Early, Ended, Past
  <1>12. Answering'
    BY <1>1, <1>3, <1>5, <1>8 DEF Inv, Answering, HasCounted, Ended
  <1>13. AnswererReads'
    BY <1>1, <1>3, <1>8 DEF Inv, AnswererReads, HasCounted, Ended
  <1>14. OffererReads'
    BY <1>3, <1>4 DEF Inv, OffererReads
  <1>15. Exchange'
    BY <1>1, <1>3, <1>4, <1>5 DEF Inv, Exchange, Ended, Gone
  <1> QED BY <1>9, <1>10, <1>11, <1>12, <1>13, <1>14, <1>15 DEF Inv

\* The count is that of all candidates, unless nobody is there to read it.
LEMMA SendCountKeeps ==
    ASSUME Inv, SendCount
    PROVE  Inv'
  <1>0. TypeOK /\ found["offerer"] \in 0..MaxCandidates
    BY Two DEF Inv, TypeOK
  <1>1. UNCHANGED <<size, total, found, complete, connected, sdp_to_send, offer, remote, got>>
    BY DEF SendCount, gatherVars
  <1>2. /\ candidate_number' = found["offerer"]
        /\ Send("offerer", "sendCount", "sendCandidates", <<Count(found["offerer"])>>)
    BY DEF SendCount
  <1> DEFINE units == <<Count(found["offerer"])>>
  <1>3. /\ units \in Seq(Units) /\ Len(units) = 1 /\ units[1].kind = "count"
    BY <1>0, UnitsSent DEF Count
  <1> HIDE DEF units
  <1>4. /\ pc["offerer"] = "sendCount" /\ pc' \in [Peers -> Pcs] /\ stream' \in [Peers -> Seq(Units)]
        /\ pc'["answerer"] = pc["answerer"] /\ stream'["offerer"] = stream["offerer"]
        /\ \/ /\ ~Gone("answerer") /\ pc'["offerer"] = "sendCandidates"
              /\ stream'["answerer"] = stream["answerer"] \o units
           \/ /\ Gone("answerer") /\ pc'["offerer"] \in {"sendCandidates", "crashed"}
              /\ stream'["answerer"] = stream["answerer"]
    <2>1. "sendCandidates" \in Pcs
      BY DEF Pcs
    <2>2. Send("offerer", "sendCount", "sendCandidates", units)
      BY <1>2 DEF units
    <2> QED BY <1>0, <1>3, <2>1, <2>2, OffererSends, Zenon
  <1>5. pc["answerer"] \notin {"connect", "recvOffer", "spin", "recvCandidate"}
    <2>1. pc["answerer"] \notin {"connect", "recvOffer", "spin"}
      BY <1>4 DEF Inv, Answering, Past
    <2>2. pc["answerer"] # "recvCandidate"
      BY <1>4 DEF Inv, AnswererReads, HasCounted, Ended
    <2> QED BY <2>1, <2>2
  <1>6. ~Gone("answerer") => found["offerer"] = total["offerer"]
    <2>1. ~Gone("answerer") => remote["answerer"]
      BY <1>5 DEF Inv, Answering, Gone
    <2> QED BY <2>1, Two DEF Inv, Offering, Gathering
  <1>7. pc["answerer"] = "recvCount" => stream'["answerer"] = units
    <2>1. <<>> \o units = units
      BY <1>3, ConcatEmptySeq
    <2>2. pc["answerer"] = "recvCount" => ~Gone("answerer") /\ stream["answerer"] = <<>>
      BY <1>4 DEF Inv, AnswererReads, Gone, Ended
    <2> QED BY <1>4, <2>1, <2>2
  <1>8. TypeOK'
    BY <1>0, <1>1, <1>2, <1>4 DEF TypeOK
  <1>9. Gathering'
    BY <1>1 DEF Inv, Gathering
  <1>10. Offering'
    <2>1. connected
      BY <1>4 DEF Inv, Offering, Ended
    <2> QED BY <1>1, <1>4, <1>5, <2>1 DEF Inv, Offering, Early, Ended, Past, HasCounted
  <1>11. Answering'
    BY <1>1, <1>2, <1>4, <1>5, <1>6 DEF Inv, Answering, Ended, Gone
  <1>12. AnswererReads'
    <2>1. \A i \in 1..Len(units) : i = 1
      BY <1>3
    <2>2. units # <<>>
      BY <1>3
    <2>3. pc["answerer"] = "recvCount" => pc'["offerer"] = "sendCandidates"
      BY <1>4 DEF Gone, Ended
    <2> QED BY <1>3, <1>4, <1>5, <1>7, <2>1, <2>2, <2>3 DEF AnswererReads, HasCounted
  <1>13. OffererReads'
    BY <1>4 DEF Inv, OffererReads
  <1>14. Exchange'
    BY <1>1, <1>4 DEF Inv, Exchange, Ended, Gone
  <1> QED BY <1>8, <1>9, <1>10, <1>11, <1>12, <1>13, <1>14 DEF Inv

\* The candidates follow the count.
LEMMA SendCandidatesKeeps ==
    ASSUME Inv, SendCandidates
    PROVE  Inv'
  <1>0. TypeOK /\ candidate_number \in 0..MaxCandidates /\ candidate_number \in Nat
    BY BoundAssumption DEF Inv, TypeOK
  <1>1. UNCHANGED <<size, total, found, complete, connected, sdp_to_send, candidate_number, offer, remote, got>>
    BY DEF SendCandidates, gatherVars, offerVars
  <1> DEFINE units == [i \in 1..candidate_number |-> Candidate(i)]
  <1>2. units \in Seq(Units) /\ Len(units) = candidate_number /\ All(units, "candidate")
    BY <1>0, UnitsSent DEF All
  <1>3. Send("offerer", "sendCandidates", "recvCount", units)
    BY DEF SendCandidates
  <1> HIDE DEF units
  <1>4. /\ pc["offerer"] = "sendCandidates" /\ pc' \in [Peers -> Pcs] /\ stream' \in [Peers -> Seq(Units)]
        /\ pc'["answerer"] = pc["answerer"] /\ stream'["offerer"] = stream["offerer"]
        /\ \/ /\ ~Gone("answerer") /\ pc'["offerer"] = "recvCount"
              /\ stream'["answerer"] = stream["answerer"] \o units
           \/ /\ Gone("answerer") /\ pc'["offerer"] \in {"recvCount", "crashed"}
              /\ stream'["answerer"] = stream["answerer"]
    <2>1. "recvCount" \in Pcs
      BY DEF Pcs, Receiving
    <2> QED BY <1>0, <1>2, <1>3, <2>1, OffererSends, Zenon
  <1>5. pc["answerer"] \notin {"connect", "recvOffer", "spin"}
    BY <1>4 DEF Inv, Answering, Past, HasCounted
  <1>6. stream["answerer"] \in Seq(Units) /\ total["offerer"] \in Nat
    BY <1>0, BoundAssumption, Two DEF TypeOK
  <1>7. TypeOK'
    BY <1>0, <1>1, <1>4 DEF TypeOK
  <1>8. Gathering'
    BY <1>1 DEF Inv, Gathering
  <1>9. Offering'
    <2>1. connected
      BY <1>4 DEF Inv, Offering, Ended
    <2> QED BY <1>1, <1>4, <1>5, <2>1 DEF Inv, Offering, Early, Ended, Past, HasCounted
  <1>10. Answering'
    BY <1>1, <1>4, <1>5 DEF Inv, Answering, Ended, Gone, HasCounted
  <1>11. AnswererReads'
    <2> DEFINE s == stream["answerer"]
    <2>0. /\ Len(s \o units) = Len(s) + Len(units) /\ Len(s) \in Nat
          /\ s # <<>> => s \o units # <<>> /\ Len(s) >= 1
      BY <1>2, <1>6, Kinds
    <2>1. CASE pc["answerer"] = "recvCount"
      <3>1. pc'["offerer"] = "recvCount" /\ stream'["answerer"] = s \o units
        BY <1>4, <2>1 DEF Gone, Ended
      <3>2. /\ \A i \in 1..Len(s) : s[i].kind = IF i = 1 THEN "count" ELSE "candidate"
            /\ s # <<>>
        BY <1>4, <2>1 DEF Inv, AnswererReads, HasCounted
      <3>3. candidate_number = total["offerer"]
        BY <1>4, <2>1 DEF Inv, Answering, HasCounted, Gone, Ended
      <3>4. ASSUME NEW i \in 1..Len(s \o units)
            PROVE  (s \o units)[i].kind = IF i = 1 THEN "count" ELSE "candidate"
        <4>1. i \in 1..(Len(s) + Len(units))
          BY <2>0
        <4>2. (s \o units)[i] = IF i <= Len(s) THEN s[i] ELSE units[i - Len(s)]
          BY <1>2, <1>6, <4>1, ConcatProperties
        <4>3. CASE i <= Len(s)
          BY <2>0, <3>2, <4>1, <4>2, <4>3
        <4>4. CASE ~(i <= Len(s))
          <5>1. i - Len(s) \in 1..Len(units) /\ i # 1
            BY <1>0, <1>2, <2>0, <3>2, <4>1, <4>4
          <5>2. units[i - Len(s)].kind = "candidate"
            BY <1>2, <5>1 DEF All
          <5> QED BY <4>2, <4>4, <5>1, <5>2
        <4> QED BY <4>3, <4>4
      <3>5. total["offerer"] > 0 => Len(s \o units) >= 2
        BY <1>0, <1>2, <1>6, <2>0, <3>2, <3>3
      <3> QED BY <1>1, <1>4, <2>0, <2>1, <3>1, <3>2, <3>4, <3>5 DEF AnswererReads
    <2>2. CASE pc["answerer"] = "recvCandidate"
      <3>1. pc'["offerer"] = "recvCount" /\ stream'["answerer"] = s \o units
        BY <1>4, <2>2 DEF Gone, Ended
      <3>2. All(s, "candidate")
        BY <2>2 DEF Inv, AnswererReads
      <3>3. All(s \o units, "candidate")
        BY <1>2, <1>6, <3>2, Kinds
      <3>4. candidate_number = total["offerer"]
        BY <1>4, <2>2 DEF Inv, Answering, HasCounted, Gone, Ended
      <3>5. total["offerer"] > 0 => s \o units # <<>>
        <4>1. total["offerer"] > 0 => units # <<>>
          BY <1>2, <1>6, <3>4
        <4> QED BY <1>2, <1>6, <4>1, Kinds
      <3> QED BY <1>1, <1>4, <2>2, <3>1, <3>3, <3>5 DEF AnswererReads, HasCounted
    <2>3. CASE pc["answerer"] \notin {"recvCount", "recvCandidate"}
      BY <1>4, <1>5, <2>3 DEF AnswererReads
    <2> QED BY <2>1, <2>2, <2>3
  <1>12. OffererReads'
    BY <1>4 DEF Inv, OffererReads
  <1>13. Exchange'
    BY <1>1, <1>4 DEF Inv, Exchange, Ended, Gone
  <1> QED BY <1>7, <1>8, <1>9, <1>10, <1>11, <1>12, <1>13 DEF Inv

\* The offerer reads a count, or takes something else for it.
LEMMA OffererCountKeeps ==
    ASSUME Inv, OffererCount
    PROVE  Inv'
  <1>0. TypeOK
    BY DEF Inv
  <1>1. UNCHANGED <<size, total, found, complete, connected, sdp_to_send, candidate_number, offer, remote, got>>
    BY DEF OffererCount, gatherVars, offerVars
  <1> DEFINE s == stream["offerer"]
             t == stream'["offerer"]
  <1>2. /\ pc["offerer"] = "recvCount" /\ pc'["offerer"] = "recvCandidate" /\ pc' \in [Peers -> Pcs]
        /\ stream' \in [Peers -> Seq(Units)]
        /\ pc'["answerer"] = pc["answerer"] /\ stream'["answerer"] = stream["answerer"]
        /\ \/ Gone("answerer") /\ t = <<>>
           \/ s # <<>> /\ s[1].kind = "count" /\ t = Tail(s)
           \/ /\ s # <<>> /\ s[1].kind # "count"
              /\ \/ t = Tail(s)
                 \/ t = <<Junk>> \o Tail(s)
                 \/ Tail(s) # <<>> /\ t = <<Junk>> \o Tail(Tail(s))
    <2>1. "recvCandidate" \in Pcs /\ "offerer" \in Peers /\ Other("offerer") = "answerer"
      BY Two DEF Pcs, Receiving
    <2>2. RecvCount("offerer", "recvCandidate")
      BY DEF OffererCount
    <2> QED BY <1>0, <2>1, <2>2, RecvCountFacts
  <1>3. s \in Seq(Units) /\ Len(s) \in Nat
    BY <1>0, Streams, Two
  <1>4. /\ t # <<>> => s # <<>>
        /\ \A k \in {"count", "candidate"} : None(s, k) => None(t, k)
    <2>1. CASE t = <<>>
      BY <2>1 DEF None
    <2>2. CASE s # <<>>
      <3>1. \A u \in Seq(Units) : u # <<>> =>
                Tail(u) \in Seq(Units) /\ \A k : None(u, k) => None(Tail(u), k)
        <4> SUFFICES ASSUME NEW u \in Seq(Units), u # <<>>
                     PROVE  Tail(u) \in Seq(Units) /\ \A k : None(u, k) => None(Tail(u), k)
          OBVIOUS
        <4>1. /\ Tail(u) \in Seq(Units) /\ Len(Tail(u)) = Len(u) - 1
              /\ \A i \in 1..Len(Tail(u)) : i + 1 \in 1..Len(u) /\ Tail(u)[i] = u[i + 1]
          OBVIOUS
        <4> QED BY <4>1 DEF None
      <3>2. \A u \in Seq(Units), k \in {"count", "candidate"} : None(u, k) => None(<<Junk>> \o u, k)
        <4> TAKE u \in Seq(Units), k \in {"count", "candidate"}
        <4>1. None(<<Junk>>, k) /\ <<Junk>> \in Seq(Units)
          BY <1>0, UnitsSent DEF None, Junk
        <4>2. None(<<Junk>> \o u, k) <=> None(<<Junk>>, k) /\ None(u, k)
          BY <4>1, Kinds
        <4> QED BY <4>1, <4>2, Zenon
      <3>3. Tail(s) \in Seq(Units) /\ \A k : None(s, k) => None(Tail(s), k)
        BY <1>3, <2>2, <3>1
      <3>4. Tail(s) # <<>> =>
                Tail(Tail(s)) \in Seq(Units) /\ \A k : None(Tail(s), k) => None(Tail(Tail(s)), k)
        BY <3>1, <3>3
      <3>5. \/ t = <<>> \/ t = Tail(s) \/ t = <<Junk>> \o Tail(s)
            \/ Tail(s) # <<>> /\ t = <<Junk>> \o Tail(Tail(s))
        BY <1>2
      <3>6. CASE t = Tail(s)
        BY <2>2, <3>3, <3>6
      <3>7. CASE t = <<Junk>> \o Tail(s)
        BY <2>2, <3>2, <3>3, <3>7
      <3>8. CASE Tail(s) # <<>> /\ t = <<Junk>> \o Tail(Tail(s))
        BY <2>2, <3>2, <3>3, <3>4, <3>8
      <3> QED BY <2>1, <3>5, <3>6, <3>7, <3>8
    <2> QED BY <1>2, <2>1, <2>2
  <1> HIDE DEF s, t
  <1>5. t = stream'["offerer"] /\ s = stream["offerer"]
    BY DEF s, t
  <1>6. TypeOK'
    BY <1>0, <1>1, <1>2 DEF TypeOK
  <1>7. Gathering'
    BY <1>1 DEF Inv, Gathering
  <1>8. Offering'
    BY <1>1, <1>2, <1>4, <1>5 DEF Inv, Offering, Early, Ended, Past, HasCounted
  <1>9. Answering'
    BY <1>1, <1>2, <1>5 DEF Inv, Answering, Gone, Past, HasCounted
  <1>10. AnswererReads'
    <2>1. pc["answerer"] \notin {"connect", "recvOffer", "spin"}
      BY <1>2 DEF Inv, Answering, Past, HasCounted
    <2> QED BY <1>1, <1>2, <2>1 DEF Inv, AnswererReads, HasCounted, Ended
  <1>11. OffererReads'
    <2>1. pc["answerer"] \in {"recvCount", "recvCandidate", "sendCount"} => None(s, "count")
      BY <1>5 DEF Inv, OffererReads
    <2> QED BY <1>2, <1>4, <1>5, <2>1 DEF OffererReads
  <1>12. Exchange'
    <2>1. ~got["answerer"] => None(s, "candidate")
      BY <1>2, <1>5 DEF Inv, Exchange, Gone, Ended
    <2> QED BY <1>1, <1>2, <1>4, <1>5, <2>1 DEF Inv, Exchange, Ended, Gone
  <1> QED BY <1>6, <1>7, <1>8, <1>9, <1>10, <1>11, <1>12 DEF Inv

\* The offerer is given a candidate only if the answerer was.
LEMMA OffererCandidateKeeps ==
    ASSUME Inv, OffererCandidate
    PROVE  Inv'
  <1>0. TypeOK /\ Len(stream["offerer"]) \in Nat
    BY Streams, Two DEF Inv
  <1>1. UNCHANGED <<size, total, found, complete, connected, sdp_to_send, candidate_number, offer, remote>>
    BY DEF OffererCandidate, gatherVars, offerVars
  <1>2. PICK c \in Chunks("offerer", Len(stream["offerer"])) :
          \/ /\ Recv("offerer", "recvCandidate", "message", c)
             /\ remote["offerer"] /\ StartsWithCandidate(c)
             /\ got' = [got EXCEPT !["offerer"] = TRUE]
          \/ /\ Recv("offerer", "recvCandidate", "message", c)
             /\ got' = got
          \/ /\ Recv("offerer", "recvCandidate", "done", c)
             /\ got' = got
    BY DEF OffererCandidate
  <1>3. PICK to \in {"message", "done"} : Recv("offerer", "recvCandidate", to, c)
    BY <1>2
  <1>4. /\ pc["offerer"] = "recvCandidate" /\ pc'["offerer"] = to /\ pc' \in [Peers -> Pcs]
        /\ stream' \in [Peers -> Seq(Units)] /\ stream'["offerer"] = Rest("offerer", c)
        /\ pc'["answerer"] = pc["answerer"] /\ stream'["answerer"] = stream["answerer"]
    <2>1. to \in Pcs /\ "offerer" \in Peers /\ Other("offerer") = "answerer"
      BY Two DEF Pcs, Ended
    <2> QED BY <1>0, <1>3, <2>1, RecvFacts
  <1>5. /\ c = <<>> => Gone("answerer") /\ stream'["offerer"] = <<>>
        /\ c # <<>> => stream["offerer"] # <<>> /\ Head(c) = stream["offerer"][1]
        /\ \A k : None(stream["offerer"], k) => None(stream'["offerer"], k)
    BY <1>0, <1>2, <1>4, ChunkFacts, Two
  <1>6. /\ got' \in [Peers -> BOOLEAN] /\ got'["answerer"] = got["answerer"]
        /\ got'["offerer"] => to = "message" /\ remote["offerer"] /\ got["answerer"]
    <2>0. got \in [Peers -> BOOLEAN] /\ ~got["offerer"]
      BY <1>0, <1>4 DEF TypeOK, Inv, Exchange, Ended
    <2>1. CASE got' = got
      BY <2>0, <2>1
    <2>2. CASE /\ Recv("offerer", "recvCandidate", "message", c)
               /\ remote["offerer"] /\ StartsWithCandidate(c)
               /\ got' = [got EXCEPT !["offerer"] = TRUE]
      <3>1. pc'["offerer"] = "message"
        <4>1. pc \in [Peers -> Pcs] /\ "offerer" \in Peers
          BY <1>0, Two DEF TypeOK
        <4> QED BY <2>2, <4>1 DEF Recv
      <3>2. ~None(stream["offerer"], "candidate")
        <4>1. stream["offerer"] # <<>> /\ stream["offerer"][1].kind = "candidate"
          BY <1>5, <2>2 DEF StartsWithCandidate
        <4>2. stream["offerer"] \in Seq(Units)
          BY <1>0, Streams, Two
        <4>3. 1 \in 1..Len(stream["offerer"])
          BY <4>1, <4>2
        <4> QED BY <4>1, <4>3 DEF None
      <3>3. got["answerer"]
        BY <1>4, <3>2 DEF Inv, Exchange, Gone, Ended
      <3> QED BY <1>4, <2>0, <2>2, <3>1, <3>3, Two
    <2> QED BY <1>2, <2>1, <2>2
  <1>7. TypeOK'
    BY <1>0, <1>1, <1>4, <1>6 DEF TypeOK
  <1>8. Gathering'
    BY <1>1 DEF Inv, Gathering
  <1>9. Offering'
    BY <1>1, <1>4, <1>5 DEF Inv, Offering, Early, Ended, Past, HasCounted
  <1>10. Answering'
    BY <1>1, <1>4, <1>6 DEF Inv, Answering, Gone, Past, HasCounted
  <1>11. AnswererReads'
    <2>1. pc["answerer"] \notin {"connect", "recvOffer", "spin"}
      BY <1>4 DEF Inv, Answering, Past, HasCounted
    <2> QED BY <1>1, <1>4, <2>1 DEF Inv, AnswererReads, HasCounted, Ended
  <1>12. OffererReads'
    BY <1>4, <1>5 DEF Inv, OffererReads
  <1>13. Exchange'
    BY <1>1, <1>4, <1>5, <1>6 DEF Inv, Exchange, Ended, Gone
  <1> QED BY <1>7, <1>8, <1>9, <1>10, <1>11, <1>12, <1>13 DEF Inv

\* The answerer goes on only with the whole offer, and leaves nothing behind it.
LEMMA RecvOfferKeeps ==
    ASSUME Inv, RecvOffer
    PROVE  Inv'
  <1>0. TypeOK
    BY DEF Inv
  <1>1. UNCHANGED <<size, total, found, complete, connected, sdp_to_send, candidate_number, offer, got>>
    BY DEF RecvOffer, gatherVars, offerVars
  <1>2. PICK c \in Chunks("answerer", 2) :
          /\ Recv("answerer", "recvOffer",
                  IF c = Description("offerer") THEN "spin" ELSE "crashed", c)
          /\ remote' = [remote EXCEPT !["answerer"] = c = Description("offerer")]
    BY DEF RecvOffer
  <1>3. /\ pc["answerer"] = "recvOffer" /\ pc' \in [Peers -> Pcs]
        /\ pc'["answerer"] = IF c = Description("offerer") THEN "spin" ELSE "crashed"
        /\ stream' \in [Peers -> Seq(Units)] /\ stream'["answerer"] = Rest("answerer", c)
        /\ pc'["offerer"] = pc["offerer"] /\ stream'["offerer"] = stream["offerer"]
    <2>1. PICK to : to = IF c = Description("offerer") THEN "spin" ELSE "crashed"
      OBVIOUS
    <2>2. to \in Pcs /\ "answerer" \in Peers /\ Other("answerer") = "offerer" /\ 2 \in Nat
      BY <2>1, Two DEF Pcs, Ended
    <2>3. Recv("answerer", "recvOffer", to, c)
      BY <1>2, <2>1
    <2>4. /\ pc["answerer"] = "recvOffer" /\ pc'["answerer"] = to /\ pc' \in [Peers -> Pcs]
          /\ stream' \in [Peers -> Seq(Units)] /\ stream'["answerer"] = Rest("answerer", c)
          /\ pc'[Other("answerer")] = pc[Other("answerer")]
          /\ stream'[Other("answerer")] = stream[Other("answerer")]
      BY <1>0, <2>2, <2>3, RecvFacts, Zenon
    <2> QED BY <2>1, <2>2, <2>4, Zenon
  <1>4. /\ c = <<>> => stream'["answerer"] = <<>>
        /\ c # <<>> =>
            /\ stream["answerer"] # <<>> /\ Len(c) \in 1..Len(stream["answerer"])
            /\ \A i \in 1..Len(c) : c[i] = stream["answerer"][i]
            /\ Len(stream'["answerer"]) = Len(stream["answerer"]) - Len(c)
    BY <1>0, <1>2, <1>3, ChunkFacts, Two
  <1>5. /\ remote' \in [Peers -> BOOLEAN] /\ remote'["offerer"] = remote["offerer"]
        /\ remote'["answerer"] <=> c = Description("offerer")
    <2>1. remote \in [Peers -> BOOLEAN] /\ "answerer" \in Peers
      BY <1>0, Two DEF TypeOK
    <2>2. remote'["answerer"] = (c = Description("offerer"))
      BY <1>2, <2>1
    <2> QED BY <1>2, <2>1, <2>2, Two
  <1>6. c = Description("offerer") => offer = "whole" /\ stream'["answerer"] = <<>>
    <2> SUFFICES ASSUME c = Description("offerer")
                 PROVE  offer = "whole" /\ stream'["answerer"] = <<>>
      OBVIOUS
    <2> DEFINE d == Description("offerer")
    <2>1. d \in Seq(Units) /\ Len(d) \in Nat \ {0} /\ d[1].kind = "block"
      <3>1. "offerer" \in Peers
        BY Two
      <3>2. /\ d \in Seq(Units) /\ Len(d) = size["offerer"] /\ size["offerer"] \in Nat \ {0}
            /\ \A i \in 1..size["offerer"] : d[i].kind = "block"
        BY <1>0, <3>1, UnitsSent
      <3>3. 1 \in 1..size["offerer"]
        BY <3>2
      <3> QED BY <3>2, <3>3
    <2> HIDE DEF d
    <2>2. c = d
      BY DEF d
    <2>3. c # <<>> /\ 1 \in 1..Len(c)
      BY <2>1, <2>2
    <2>4. stream["answerer"] # <<>> /\ stream["answerer"][1].kind = "block"
      BY <1>4, <2>1, <2>2, <2>3
    <2>5. stream["answerer"] # <<Junk>>
      BY <2>4 DEF Junk
    <2>6. stream["answerer"] = d /\ offer = "whole"
      BY <1>3, <2>4, <2>5 DEF Inv, AnswererReads, d
    <2>7. Len(stream'["answerer"]) = 0
      BY <1>4, <2>1, <2>2, <2>3, <2>6
    <2>8. stream'["answerer"] \in Seq(Units)
      BY <1>3, Two
    <2> QED BY <2>6, <2>7, <2>8, EmptySeq
  <1>7. /\ ~remote["answerer"] /\ ~got["answerer"] /\ ~remote["offerer"]
        /\ stream["offerer"] = <<>> /\ pc["offerer"] \notin Past
    BY <1>3 DEF Inv, Answering, Offering
  <1>8. TypeOK'
    BY <1>0, <1>1, <1>3, <1>5 DEF TypeOK
  <1>9. Gathering'
    BY <1>1 DEF Inv, Gathering
  <1>10. Offering'
    <2>1. pc["offerer"] \in Early => stream["answerer"] = <<>> /\ offer = "none"
      BY DEF Inv, Offering
    <2>2. pc["offerer"] \in Early => stream'["answerer"] = <<>>
      BY <1>4, <2>1
    <2> QED BY <1>1, <1>3, <1>5, <1>6, <1>7, <2>2 DEF Inv, Offering
  <1>11. Answering'
    BY <1>1, <1>3, <1>5, <1>7 DEF Inv, Answering, Ended, Gone
  <1>12. AnswererReads'
    BY <1>3, <1>6 DEF AnswererReads
  <1>13. OffererReads'
    BY <1>3 DEF OffererReads
  <1>14. Exchange'
    BY <1>1, <1>3, <1>5, <1>7 DEF Inv, Exchange, Ended, Gone
  <1> QED BY <1>8, <1>9, <1>10, <1>11, <1>12, <1>13, <1>14 DEF Inv

\* The answer is sent to an offerer that waits for it, or is gone.
LEMMA SendAnswerKeeps ==
    ASSUME Inv, SendAnswer
    PROVE  Inv'
  <1>0. TypeOK
    BY DEF Inv
  <1>1. UNCHANGED <<size, total, found, complete, connected, sdp_to_send, candidate_number, offer, remote, got>>
    BY DEF SendAnswer, gatherVars, offerVars
  <1> DEFINE units == Description("answerer")
  <1>2. /\ units \in Seq(Units) /\ units # <<>>
        /\ None(units, "count") /\ None(units, "candidate")
    <2>1. "answerer" \in Peers
      BY Two
    <2>2. /\ units \in Seq(Units) /\ Len(units) = size["answerer"] /\ size["answerer"] \in Nat \ {0}
          /\ \A i \in 1..size["answerer"] : units[i].kind = "block"
      BY <1>0, <2>1, UnitsSent
    <2> HIDE DEF units
    <2>3. units # <<>>
      BY <2>2
    <2> QED BY <2>2, <2>3 DEF None
  <1> HIDE DEF units
  <1>3. /\ pc["answerer"] = "spin" /\ pc' \in [Peers -> Pcs] /\ stream' \in [Peers -> Seq(Units)]
        /\ pc'["offerer"] = pc["offerer"] /\ stream'["answerer"] = stream["answerer"]
        /\ \/ /\ ~Gone("offerer") /\ pc'["answerer"] = "recvCount"
              /\ stream'["offerer"] = stream["offerer"] \o units
           \/ /\ Gone("offerer") /\ pc'["answerer"] \in {"recvCount", "crashed"}
              /\ stream'["offerer"] = stream["offerer"]
    <2>1. "recvCount" \in Pcs /\ "answerer" \in Peers /\ Other("answerer") = "offerer"
      BY Two DEF Pcs, Receiving
    <2>2. Send("answerer", "spin", "recvCount", units)
      BY DEF SendAnswer, units
    <2>3. units \in Seq(Units)
      BY <1>2
    <2>4. /\ pc["answerer"] = "spin" /\ pc' \in [Peers -> Pcs]
          /\ stream' \in [Peers -> Seq(Units)]
          /\ pc'[Other("answerer")] = pc[Other("answerer")] /\ stream'["answerer"] = stream["answerer"]
          /\ \/ /\ ~Gone(Other("answerer")) /\ pc'["answerer"] = "recvCount"
                /\ stream'[Other("answerer")] = stream[Other("answerer")] \o units
             \/ /\ Gone(Other("answerer")) /\ pc'["answerer"] \in {"recvCount", "crashed"}
                /\ stream'[Other("answerer")] = stream[Other("answerer")]
      BY <1>0, <2>1, <2>2, <2>3, SendFacts, Zenon
    <2> QED BY <2>1, <2>4, Zenon
  <1>4. /\ remote["answerer"] /\ offer = "whole" /\ stream["offerer"] = <<>>
        /\ stream["answerer"] = <<>> /\ pc["offerer"] \in {"recvAnswer"} \cup Ended
    BY <1>3 DEF Inv, Answering, Offering, AnswererReads, Ended
  <1>5. \/ Gone("offerer") /\ stream'["offerer"] = <<>>
        \/ /\ ~Gone("offerer") /\ stream'["offerer"] = units /\ pc'["answerer"] = "recvCount"
    <2>1. <<>> \o units = units
      BY <1>2, ConcatEmptySeq
    <2> QED BY <1>3, <1>4, <2>1
  <1>6. None(<<>>, "count") /\ None(<<>>, "candidate")
    BY DEF None
  <1>7. TypeOK'
    BY <1>0, <1>1, <1>3 DEF TypeOK
  <1>8. Gathering'
    BY <1>1 DEF Inv, Gathering
  <1>9. Offering'
    BY <1>1, <1>3, <1>4 DEF Inv, Offering, Early, Ended
  <1>10. Answering'
    BY <1>1, <1>3, <1>4 DEF Inv, Answering, Ended, Gone, HasCounted
  <1>11. AnswererReads'
    <2>1. \A i \in 1..Len(<<>>) : FALSE
      OBVIOUS
    <2> QED BY <1>1, <1>3, <1>4, <2>1 DEF AnswererReads, Ended, HasCounted
  <1>12. OffererReads'
    BY <1>2, <1>3, <1>4, <1>5, <1>6 DEF OffererReads, Ended, Gone
  <1>13. Exchange'
    BY <1>1, <1>2, <1>3, <1>4, <1>5 DEF Inv, Exchange, Ended, Gone
  <1> QED BY <1>7, <1>8, <1>9, <1>10, <1>11, <1>12, <1>13 DEF Inv

\* What the answerer reads as a count is one, and candidates follow it.
LEMMA AnswererCountKeeps ==
    ASSUME Inv, AnswererCount
    PROVE  Inv'
  <1>0. TypeOK
    BY DEF Inv
  <1>1. UNCHANGED <<size, total, found, complete, connected, sdp_to_send, candidate_number, offer, remote, got>>
    BY DEF AnswererCount, gatherVars, offerVars
  <1> DEFINE s == stream["answerer"]
             t == stream'["answerer"]
  <1>2. /\ pc["answerer"] = "recvCount" /\ pc'["answerer"] = "recvCandidate" /\ pc' \in [Peers -> Pcs]
        /\ stream' \in [Peers -> Seq(Units)]
        /\ pc'["offerer"] = pc["offerer"] /\ stream'["offerer"] = stream["offerer"]
        /\ \/ Gone("offerer") /\ t = <<>>
           \/ s # <<>> /\ s[1].kind = "count" /\ t = Tail(s)
           \/ /\ s # <<>> /\ s[1].kind # "count"
              /\ \/ t = Tail(s)
                 \/ t = <<Junk>> \o Tail(s)
                 \/ Tail(s) # <<>> /\ t = <<Junk>> \o Tail(Tail(s))
    <2>1. "recvCandidate" \in Pcs /\ "answerer" \in Peers /\ Other("answerer") = "offerer"
      BY Two DEF Pcs, Receiving
    <2>2. RecvCount("answerer", "recvCandidate")
      BY DEF AnswererCount
    <2> QED BY <1>0, <2>1, <2>2, RecvCountFacts
  <1>3. s \in Seq(Units) /\ Len(s) \in Nat
    BY <1>0, Streams, Two
  <1>4. \A i \in 1..Len(s) : s[i].kind = IF i = 1 THEN "count" ELSE "candidate"
    BY <1>2 DEF Inv, AnswererReads
  <1>5. \/ Gone("offerer") /\ t = <<>>
        \/ /\ s # <<>> /\ Len(t) = Len(s) - 1
           /\ \A i \in 1..Len(t) : i + 1 \in 1..Len(s) /\ t[i] = s[i + 1]
    <2>1. s # <<>> => s[1].kind = "count"
      BY <1>3, <1>4
    <2>2. s # <<>> => /\ Len(Tail(s)) = Len(s) - 1
                      /\ \A i \in 1..Len(Tail(s)) : i + 1 \in 1..Len(s) /\ Tail(s)[i] = s[i + 1]
      BY <1>3
    <2> QED BY <1>2, <2>1, <2>2
  <1> HIDE DEF s, t
  <1>6. t = stream'["answerer"] /\ s = stream["answerer"]
    BY DEF s, t
  <1>7. All(t, "candidate")
    <2>1. CASE t = <<>>
      BY <2>1 DEF All
    <2>2. CASE \A i \in 1..Len(t) : i + 1 \in 1..Len(s) /\ t[i] = s[i + 1]
      <3>1. \A i \in 1..Len(t) : i + 1 # 1
        BY <1>3, <2>2
      <3> QED BY <1>4, <2>2, <3>1 DEF All
    <2> QED BY <1>5, <2>1, <2>2
  <1>8. pc["offerer"] \in HasCounted \cup Ended
    <2>1. pc["offerer"] \in Ended \/ s # <<>>
      BY <1>5 DEF Gone
    <2>2. pc["offerer"] \in {"recvAnswer", "sendCount"} \cup Early => s = <<>>
      BY <1>2, <1>6 DEF Inv, AnswererReads, Offering
    <2> QED BY <2>1, <2>2 DEF Inv, Offering, Past
  <1>9. pc["offerer"] \in HasCounted \ {"sendCandidates"} /\ total["offerer"] > 0 => t # <<>>
    <2> SUFFICES ASSUME pc["offerer"] \in HasCounted \ {"sendCandidates"}, total["offerer"] > 0
                 PROVE  t # <<>>
      OBVIOUS
    <2>1. ~Gone("offerer")
      BY DEF HasCounted, Gone, Ended
    <2>2. Len(s) >= 2
      BY <1>2, <1>6 DEF Inv, AnswererReads
    <2> QED BY <1>3, <1>5, <2>1, <2>2
  <1>10. TypeOK'
    BY <1>0, <1>1, <1>2 DEF TypeOK
  <1>11. Gathering'
    BY <1>1 DEF Inv, Gathering
  <1>12. Offering'
    <2>1. pc["offerer"] \notin Early
      BY <1>8 DEF HasCounted, Early, Ended
    <2> QED BY <1>1, <1>2, <2>1 DEF Inv, Offering
  <1>13. Answering'
    BY <1>1, <1>2 DEF Inv, Answering, Ended, Gone
  <1>14. AnswererReads'
    BY <1>1, <1>2, <1>6, <1>7, <1>8, <1>9 DEF AnswererReads
  <1>15. OffererReads'
    BY <1>1, <1>2 DEF Inv, OffererReads
  <1>16. Exchange'
    BY <1>1, <1>2 DEF Inv, Exchange, Gone
  <1> QED BY <1>10, <1>11, <1>12, <1>13, <1>14, <1>15, <1>16 DEF Inv

\* The answerer reads a candidate, or nothing because the offerer is gone.
LEMMA AnswererCandidateKeeps ==
    ASSUME Inv, AnswererCandidate
    PROVE  Inv'
  <1>0. TypeOK /\ Len(stream["answerer"]) \in Nat
    BY Streams, Two DEF Inv
  <1>1. UNCHANGED <<size, total, found, complete, connected, sdp_to_send, candidate_number, offer, remote>>
    BY DEF AnswererCandidate, gatherVars, offerVars
  <1>2. PICK c \in Chunks("answerer", Len(stream["answerer"])) :
          \/ /\ Recv("answerer", "recvCandidate", "sendCount", c)
             /\ got' = [got EXCEPT !["answerer"] = TRUE]
          \/ /\ \E to \in {"sendCount", "crashed"} : Recv("answerer", "recvCandidate", to, c)
             /\ c = <<>> /\ got' = got
    BY DEF AnswererCandidate
  <1>3. PICK to \in {"sendCount", "crashed"} : Recv("answerer", "recvCandidate", to, c)
    BY <1>2
  <1>4. /\ pc["answerer"] = "recvCandidate" /\ pc'["answerer"] = to /\ pc' \in [Peers -> Pcs]
        /\ stream' \in [Peers -> Seq(Units)] /\ stream'["answerer"] = Rest("answerer", c)
        /\ pc'["offerer"] = pc["offerer"] /\ stream'["offerer"] = stream["offerer"]
    <2>1. to \in Pcs /\ "answerer" \in Peers /\ Other("answerer") = "offerer"
      BY Two DEF Pcs, Ended
    <2> QED BY <1>0, <1>3, <2>1, RecvFacts
  <1>5. c = <<>> => Gone("offerer")
    BY <1>0, <1>2, ChunkFacts, Two
  <1>6. /\ got' \in [Peers -> BOOLEAN] /\ got'["offerer"] = got["offerer"]
        /\ got["answerer"] => got'["answerer"]
        /\ Gone("offerer") \/ got'["answerer"]
    <2>0. got \in [Peers -> BOOLEAN]
      BY <1>0 DEF TypeOK
    <2> QED BY <1>2, <1>5, <2>0, Two
  <1>7. remote["answerer"] /\ pc["offerer"] \in HasCounted \cup Ended
    BY <1>4 DEF Inv, Answering, AnswererReads, Ended
  <1>8. TypeOK'
    BY <1>0, <1>1, <1>4, <1>6 DEF TypeOK
  <1>9. Gathering'
    BY <1>1 DEF Inv, Gathering
  <1>10. Offering'
    <2>1. pc["offerer"] \notin Early
      BY <1>7 DEF HasCounted, Early, Ended
    <2> QED BY <1>1, <1>4, <2>1 DEF Inv, Offering
  <1>11. Answering'
    BY <1>1, <1>4, <1>7 DEF Inv, Answering, Ended, Gone
  <1>12. AnswererReads'
    BY <1>4 DEF AnswererReads
  <1>13. OffererReads'
    BY <1>4 DEF Inv, OffererReads
  <1>14. Exchange'
    BY <1>1, <1>4, <1>6, <1>7 DEF Inv, Exchange, Gone
  <1> QED BY <1>8, <1>9, <1>10, <1>11, <1>12, <1>13, <1>14 DEF Inv

\* The answerer's count and its candidate, once it has got one.
LEMMA AnswererSendKeeps ==
    ASSUME Inv, AnswererSendCount \/ AnswererSendCandidate
    PROVE  Inv'
  <1>0. TypeOK /\ found["answerer"] \in 0..MaxCandidates /\ MaxCandidates \in Nat
    BY Two, BoundAssumption DEF Inv, TypeOK
  <1>1. UNCHANGED <<size, total, found, complete, connected, sdp_to_send, candidate_number, offer, remote, got>>
    BY DEF AnswererSendCount, AnswererSendCandidate, gatherVars, offerVars
  <1>2. /\ pc["answerer"] \in {"sendCount", "sendCandidates"} /\ pc' \in [Peers -> Pcs]
        /\ pc'["answerer"] \in {"sendCandidates", "sleep", "crashed"}
        /\ stream' \in [Peers -> Seq(Units)]
        /\ pc'["offerer"] = pc["offerer"] /\ stream'["answerer"] = stream["answerer"]
        /\ \/ stream'["offerer"] = stream["offerer"]
           \/ ~Gone("offerer")
    <2>0. /\ {"sendCandidates", "sleep", "crashed"} \subseteq Pcs
          /\ "answerer" \in Peers /\ Other("answerer") = "offerer"
      BY Two DEF Pcs, Ended
    <2>1. CASE AnswererSendCount
      <3>1. Send("answerer", "sendCount", "sendCandidates", <<Count(found["answerer"])>>)
        BY <2>1 DEF AnswererSendCount
      <3>2. <<Count(found["answerer"])>> \in Seq(Units)
        BY <1>0, UnitsSent
      <3> QED BY <1>0, <2>0, <3>1, <3>2, SendFacts
    <2>2. CASE AnswererSendCandidate /\ found["answerer"] > 0
      <3>1. Send("answerer", "sendCandidates", "sleep", <<Candidate(1)>>)
        BY <2>2 DEF AnswererSendCandidate
      <3>2. <<Candidate(1)>> \in Seq(Units)
        BY <1>0, <2>2, UnitsSent
      <3> QED BY <1>0, <2>0, <3>1, <3>2, SendFacts
    <2>3. CASE AnswererSendCandidate /\ ~(found["answerer"] > 0)
      <3>1. /\ pc["answerer"] = "sendCandidates"
            /\ pc' = [pc EXCEPT !["answerer"] = "crashed"] /\ stream' = stream
        BY <2>3 DEF AnswererSendCandidate
      <3>2. pc \in [Peers -> Pcs] /\ stream \in [Peers -> Seq(Units)]
        BY <1>0 DEF TypeOK
      <3> QED BY <2>0, <3>1, <3>2, Two
    <2> QED BY <2>1, <2>2, <2>3
  <1>3. remote["answerer"] /\ (~Gone("offerer") => got["answerer"])
    BY <1>2 DEF Inv, Answering, Exchange, Ended
  <1>4. TypeOK'
    BY <1>0, <1>1, <1>2 DEF TypeOK
  <1>5. Gathering'
    BY <1>1 DEF Inv, Gathering
  <1>6. Offering'
    BY <1>1, <1>2, <1>3 DEF Inv, Offering
  <1>7. Answering'
    BY <1>1, <1>2, <1>3 DEF Inv, Answering, Ended, Gone
  <1>8. AnswererReads'
    BY <1>2 DEF AnswererReads
  <1>9. OffererReads'
    BY <1>2 DEF OffererReads
  <1>10. Exchange'
    BY <1>1, <1>2, <1>3 DEF Inv, Exchange, Ended, Gone
  <1> QED BY <1>4, <1>5, <1>6, <1>7, <1>8, <1>9, <1>10 DEF Inv

-----------------------------------------------------------------------------
(***************************************************************************)
(* The invariant and the theorems.                                         *)
(***************************************************************************)

\* It holds at first.
LEMMA InvInit == Init => Inv
  <1> SUFFICES ASSUME Init PROVE Inv
    OBVIOUS
  <1>1. /\ pc["offerer"] = "listen" /\ pc["answerer"] = "connect" /\ pc \in [Peers -> Pcs]
        /\ \A p \in Peers : ~complete[p] /\ stream[p] = <<>> /\ ~remote[p] /\ ~got[p]
        /\ sdp_to_send = "unset" /\ offer = "none" /\ ~connected
    BY Two DEF Init, Pcs
  <1>2. TypeOK
    <2>1. stream \in [Peers -> Seq(Units)]
      BY DEF Init
    <2>2. found \in [Peers -> 0..MaxCandidates] /\ candidate_number \in 0..MaxCandidates
      BY BoundAssumption DEF Init
    <2> QED BY <1>1, <2>1, <2>2 DEF Init, TypeOK
  <1>3. \A k : None(<<>>, k)
    BY DEF None
  <1>4. Gathering /\ Offering /\ Answering
    BY <1>1, Two DEF Gathering, Offering, Answering, Early, Ended, Past, HasCounted
  <1>5. AnswererReads
    BY <1>1, Two DEF AnswererReads, Early
  <1>6. OffererReads /\ Exchange
    BY <1>1, <1>3, Two DEF OffererReads, Exchange
  <1> QED BY <1>2, <1>4, <1>5, <1>6 DEF Inv

\* Every step keeps it.
LEMMA InvStep == Inv /\ [Next]_vars => Inv'
  <1> SUFFICES ASSUME Inv, [Next]_vars PROVE Inv'
    OBVIOUS
  <1>1. CASE Offerer \/ CandidateRace \/ Message
    BY <1>1, OffererMoves, SendOfferKeeps, RecvAnswerKeeps, SendCountKeeps, SendCandidatesKeeps,
       OffererCountKeeps, OffererCandidateKeeps DEF Offerer
  <1>2. CASE Answerer
    BY <1>2, AnswererMoves, RecvOfferKeeps, SendAnswerKeeps, AnswererCountKeeps,
       AnswererCandidateKeeps, AnswererSendKeeps DEF Answerer
  <1>3. CASE \E p \in Peers : NewCandidate(p) \/ GatheringComplete(p) \/ Kill(p)
    BY <1>3, CallbacksKeep, OffererMoves, AnswererMoves, Two
  <1>4. CASE UNCHANGED vars
    <2>1. UNCHANGED <<pc, size, total, found, complete, connected, sdp_to_send, candidate_number,
                      offer, stream, remote, got>>
      BY <1>4 DEF vars, gatherVars, offerVars
    <2>2. TypeOK' /\ Gathering'
      BY <2>1 DEF Inv, TypeOK, Gathering
    <2>3. Offering' /\ Answering' /\ OffererReads' /\ Exchange'
      BY <2>1 DEF Inv, Offering, Answering, OffererReads, Exchange, Gone
    <2>4. AnswererReads'
      BY <2>1 DEF Inv, AnswererReads, Description
    <2> QED BY <2>2, <2>3, <2>4 DEF Inv
  <1> QED BY <1>1, <1>2, <1>3, <1>4 DEF Next

\* The invariant holds throughout.
LEMMA Invariant == Spec => []Inv
  BY InvInit, InvStep, PTL DEF Spec

\* Every variable of the exchange keeps its type: what is read is a unit that was
\* sent, or junk, whatever recv() returns.
THEOREM PeerTypeCorrect == Spec => []TypeOK
  <1>1. Inv => TypeOK
    BY DEF Inv
  <1> QED BY <1>1, Invariant, PTL

\* The offerer has an answer only when its gathering is over, for any number of
\* candidates and any moment at which the callbacks come.
THEOREM CandidatesHaveSettled == Spec => []CandidatesSettled
  <1>1. Inv => CandidatesSettled
    BY Two DEF Inv, Gathering, Offering, CandidatesSettled
  <1> QED BY <1>1, Invariant, PTL

\* The answerer has got a candidate before the offerer gets one, and each has the
\* other's description by then, whichever process is killed and when.
THEOREM ExchangeStaysMutual == Spec => []ExchangeIsMutual
  <1>1. Inv => ExchangeIsMutual
    BY DEF Inv, Offering, Exchange, ExchangeIsMutual
  <1> QED BY <1>1, Invariant, PTL

\* The two programs wait for each other only when the offer was empty or the
\* offerer has no candidate, for descriptions of any length and any short reads.
THEOREM MutualWaitHasReason == Spec => []MutualWaitExplained
  <1>1. Inv => MutualWaitExplained
    <2> SUFFICES ASSUME Inv, \A p \in Peers : Stuck(p)
                 PROVE  \/ offer = "empty" /\ pc["offerer"] = "recvAnswer" /\ pc["answerer"] = "recvOffer"
                        \/ /\ total["offerer"] = 0
                           /\ pc["offerer"] \in {"recvCount", "recvCandidate"}
                           /\ pc["answerer"] = "recvCandidate"
      BY DEF MutualWaitExplained
    <2>1. /\ pc["offerer"] \in Receiving /\ stream["offerer"] = <<>> /\ ~Gone("answerer")
          /\ pc["answerer"] \in Receiving /\ stream["answerer"] = <<>> /\ ~Gone("offerer")
      BY Two DEF Stuck
    <2>2. pc["offerer"] \in {"recvAnswer", "recvCount", "recvCandidate"}
      BY <2>1 DEF Inv, Offering, Receiving, Early, Past, HasCounted, Ended, Gone
    <2>3. pc["answerer"] \in {"recvOffer", "recvCount", "recvCandidate"}
      <3>1. pc["answerer"] = "recvAnswer" => FALSE
        BY <2>1 DEF Inv, Answering
      <3> QED BY <2>1, <3>1 DEF Receiving
    <2>4. CASE pc["answerer"] = "recvOffer"
      <3>1. pc["offerer"] = "recvAnswer"
        BY <2>2, <2>4 DEF Inv, Answering, Past, HasCounted
      <3>2. Description("offerer") # <<>> /\ <<Junk>> # <<>>
        <4>1. TypeOK /\ "offerer" \in Peers
          BY Two DEF Inv
        <4>2. Len(Description("offerer")) \in Nat \ {0}
          BY <4>1, UnitsSent
        <4> QED BY <4>2
      <3> QED BY <2>1, <2>4, <3>1, <3>2 DEF Inv, AnswererReads, Early, Ended
    <2>5. CASE pc["answerer"] = "recvCount"
      BY <2>1, <2>2, <2>5 DEF Inv, OffererReads, AnswererReads, HasCounted
    <2>6. CASE pc["answerer"] = "recvCandidate"
      <3>1. pc["offerer"] \in {"recvCount", "recvCandidate"}
        BY <2>1, <2>2, <2>6 DEF Inv, OffererReads
      <3>2. total["offerer"] \in Nat
        BY Two, BoundAssumption DEF Inv, TypeOK
      <3>3. ~(total["offerer"] > 0)
        BY <2>1, <2>6, <3>1 DEF Inv, AnswererReads, HasCounted
      <3> QED BY <2>6, <3>1, <3>2, <3>3
    <2> QED BY <2>3, <2>4, <2>5, <2>6
  <1> QED BY <1>1, Invariant, PTL

\* When the answerer waits for a candidate, a candidate is what comes: nothing
\* that rtc::Candidate() would throw on is ever in front of it (answerer.cpp:185).
THEOREM AnswererReadsCandidates ==
    Spec => [](pc["answerer"] = "recvCandidate" /\ stream["answerer"] # <<>> =>
                   Head(stream["answerer"]).kind = "candidate")
  <1>1. Inv => (pc["answerer"] = "recvCandidate" /\ stream["answerer"] # <<>> =>
                   Head(stream["answerer"]).kind = "candidate")
    <2> SUFFICES ASSUME Inv, pc["answerer"] = "recvCandidate", stream["answerer"] # <<>>
                 PROVE  Head(stream["answerer"]).kind = "candidate"
      OBVIOUS
    <2>1. stream["answerer"] \in Seq(Units)
      BY Streams, Two DEF Inv
    <2>2. 1 \in 1..Len(stream["answerer"]) /\ Head(stream["answerer"]) = stream["answerer"][1]
      BY <2>1
    <2> QED BY <2>2 DEF Inv, AnswererReads, All
  <1> QED BY <1>1, Invariant, PTL

=============================================================================
