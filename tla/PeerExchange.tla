---------------------------- MODULE PeerExchange ----------------------------
(***************************************************************************)
(* offerer.cpp and answerer.cpp: two processes that exchange their session *)
(* descriptions and ICE candidates over one TCP connection.                *)
(*                                                                         *)
(* A step is one system call with the computation that follows it, or one  *)
(* callback of the library's thread.  What travels is cut into units: the  *)
(* blocks of 1024 bytes of a description, the 4 bytes of a count, a        *)
(* candidate.  recv() returns any beginning of what has arrived.           *)
(***************************************************************************)
EXTENDS Naturals, Sequences

CONSTANTS
    MaxBlocks,      \* bound: the blocks of a description
    MaxCandidates,  \* bound: the candidates a peer finds
    Mortal          \* the peers that may be killed

Peers == {"offerer", "answerer"}

ASSUME BoundAssumption == MaxBlocks \in Nat \ {0} /\ MaxCandidates \in Nat /\ Mortal \subseteq Peers

Other(p) == IF p = "offerer" THEN "answerer" ELSE "offerer"

VARIABLES
    pc,         \* per peer: where main() is
    size,       \* per peer: the blocks of its description
    total,      \* per peer: the candidates there are to find
    found,      \* per peer: local_candidates, by its size
    complete,   \* per peer: GatheringState::Complete was called back
    connected,  \* the answerer's connect() succeeded
    sdp_to_send,\* the offerer's pointer: "unset", "empty" or "whole"
    candidate_number, \* the offerer's local of that name
    offer,      \* what the offerer sent: "none", "empty", "junk" or "whole"
    stream,     \* per peer: what it has not read yet
    remote,     \* per peer: its remote description is set
    got         \* per peer: it was given a candidate of the other

gatherVars == <<size, total, found, complete>>
offerVars == <<connected, sdp_to_send, candidate_number, offer>>
vars == <<pc, gatherVars, offerVars, stream, remote, got>>

Ended == {"done", "crashed", "killed"}
Receiving == {"recvAnswer", "recvOffer", "recvCount", "recvCandidate"}
Pcs == Ended \cup Receiving \cup
       {"listen", "accept", "pointer", "send", "sendCount", "sendCandidates", "message",
        "connect", "spin", "sleep"}

Block(i) == [kind |-> "block", of |-> i]
Count(n) == [kind |-> "count", of |-> n]
Candidate(i) == [kind |-> "candidate", of |-> i]
Junk == [kind |-> "junk", of |-> 0]

Units == {Junk} \cup {Block(i) : i \in 1..MaxBlocks} \cup {Count(n) : n \in 0..MaxCandidates}
                \cup {Candidate(i) : i \in 1..MaxCandidates}

TypeOK ==
    /\ pc \in [Peers -> Pcs]
    /\ size \in [Peers -> 1..MaxBlocks]
    /\ total \in [Peers -> 0..MaxCandidates]
    /\ found \in [Peers -> 0..MaxCandidates]
    /\ complete \in [Peers -> BOOLEAN]
    /\ connected \in BOOLEAN
    /\ sdp_to_send \in {"unset", "empty", "whole"}
    /\ candidate_number \in 0..MaxCandidates
    /\ offer \in {"none", "empty", "junk", "whole"}
    /\ stream \in [Peers -> Seq(Units)]
    /\ remote \in [Peers -> BOOLEAN]
    /\ got \in [Peers -> BOOLEAN]

\* The offerer has called setLocalDescription(): its gathering has begun.
Init ==
    /\ pc = [p \in Peers |-> IF p = "offerer" THEN "listen" ELSE "connect"]
    /\ size \in [Peers -> 1..MaxBlocks]
    /\ total \in [Peers -> 0..MaxCandidates]
    /\ found = [p \in Peers |-> 0]
    /\ complete = [p \in Peers |-> FALSE]
    /\ connected = FALSE
    /\ sdp_to_send = "unset"
    /\ candidate_number = 0
    /\ offer = "none"
    /\ stream = [p \in Peers |-> <<>>]
    /\ remote = [p \in Peers |-> FALSE]
    /\ got = [p \in Peers |-> FALSE]

-----------------------------------------------------------------------------
(* The connection.                                                         *)

Gone(p) == pc[p] \in Ended

Description(p) == [i \in 1..size[p] |-> Block(i)]

\* send(): to a peer that is gone it fails or raises SIGPIPE.
Send(p, from, to, units) ==
    /\ pc[p] = from
    /\ \/ /\ ~Gone(Other(p))
          /\ stream' = [stream EXCEPT ![Other(p)] = @ \o units]
          /\ pc' = [pc EXCEPT ![p] = to]
       \/ /\ Gone(Other(p))
          /\ pc' \in {[pc EXCEPT ![p] = to], [pc EXCEPT ![p] = "crashed"]}
          /\ UNCHANGED stream

\* What recv() of p may return when its buffer has room for n units; nothing
\* when the peer is gone, whose reset may have thrown away what it had sent.
Chunks(p, n) ==
    {SubSeq(stream[p], 1, k) : k \in 1..(IF n < Len(stream[p]) THEN n ELSE Len(stream[p]))}
    \cup (IF Gone(Other(p)) /\ (stream[p] = <<>> \/ stream[Other(p)] # <<>>) THEN {<<>>} ELSE {})

\* What is left when recv() of p has returned c; what was thrown away is lost.
Rest(p, c) == IF c = <<>> THEN <<>> ELSE SubSeq(stream[p], Len(c) + 1, Len(stream[p]))

\* recv() of p returns c, after which p goes on at to.
Recv(p, from, to, c) ==
    /\ pc[p] = from
    /\ stream' = [stream EXCEPT ![p] = Rest(p, c)]
    /\ pc' = [pc EXCEPT ![p] = to]

\* What 4 bytes leave of what p has not read: they are a count, or the beginning
\* of something longer.  The last block of a description may be no longer than
\* that, and when it is shorter, what comes next loses its beginning.
Behind4(p) ==
    LET s == stream[p]
    IN  CASE Head(s).kind = "count" -> {Tail(s)}
          [] Head(s) = Block(size[Other(p)]) ->
                {<<Junk>> \o Tail(s), Tail(s)} \cup {<<Junk>> \o Tail(u) : u \in {Tail(s)} \ {<<>>}}
          [] OTHER -> {<<Junk>> \o Tail(s)}

\* recv() of a count: 4 bytes of whatever comes next.
RecvCount(p, next) ==
    /\ pc[p] = "recvCount"
    /\ \E c \in Chunks(p, 1) :
        \E rest \in (IF c = <<>> THEN {<<>>} ELSE Behind4(p)) :
            stream' = [stream EXCEPT ![p] = rest]
    /\ pc' = [pc EXCEPT ![p] = next]

-----------------------------------------------------------------------------
(* The callbacks.                                                          *)

\* The answerer gathers once it has the offer.
Gathers(p) == ~Gone(p) /\ ~complete[p] /\ (p = "answerer" => remote[p])

\* Mutant: a candidate that was called back before is appended again.
NewCandidateAgain(p) ==
    /\ Gathers(p)
    /\ found' = [found EXCEPT ![p] = @ + 1]
    /\ UNCHANGED <<pc, size, total, complete, offerVars, stream, remote, got>>

\* onLocalCandidate
NewCandidate(p) ==
    /\ Gathers(p)
    /\ found[p] < total[p]
    /\ found' = [found EXCEPT ![p] = @ + 1]
    /\ UNCHANGED <<pc, size, total, complete, offerVars, stream, remote, got>>

\* onGatheringStateChange(Complete): the description is stored.
GatheringComplete(p) ==
    /\ Gathers(p)
    /\ found[p] = total[p]
    /\ complete' = [complete EXCEPT ![p] = TRUE]
    /\ UNCHANGED <<pc, size, total, found, offerVars, stream, remote, got>>

-----------------------------------------------------------------------------
(* The offerer.                                                            *)

Listen ==
    /\ pc["offerer"] = "listen"
    /\ pc' = [pc EXCEPT !["offerer"] = "accept"]
    /\ UNCHANGED <<gatherVars, offerVars, stream, remote, got>>

Accept ==
    /\ pc["offerer"] = "accept"
    /\ connected
    /\ pc' = [pc EXCEPT !["offerer"] = "pointer"]
    /\ UNCHANGED <<gatherVars, offerVars, stream, remote, got>>

\* Mutant: the description is sent as it is, whether gathering is complete or not.
TakePointerEarly ==
    /\ pc["offerer"] = "pointer"
    /\ pc' = [pc EXCEPT !["offerer"] = "send"]
    /\ sdp_to_send' = "whole"
    /\ UNCHANGED <<gatherVars, connected, candidate_number, offer, stream, remote, got>>

\* sdp_to_send = local_sdp.c_str()
TakePointer ==
    /\ pc["offerer"] = "pointer"
    /\ pc' = [pc EXCEPT !["offerer"] = "send"]
    /\ sdp_to_send' = IF complete["offerer"] THEN "whole" ELSE "empty"
    /\ UNCHANGED <<gatherVars, connected, candidate_number, offer, stream, remote, got>>

\* strlen() and send() through the pointer.  If the callback assigned local_sdp
\* after it was taken, it points into the string object, whose bytes now are
\* the new string's capacity: a few of them, or none if the lowest is zero.
SendOffer ==
    /\ offer' \in (IF sdp_to_send = "whole" THEN {"whole"}
                   ELSE IF complete["offerer"] THEN {"empty", "junk"} ELSE {"empty"})
    /\ Send("offerer", "send", "recvAnswer",
            CASE offer' = "whole" -> Description("offerer")
              [] offer' = "junk"  -> <<Junk>>
              [] offer' = "empty" -> <<>>)
    /\ UNCHANGED <<gatherVars, connected, sdp_to_send, candidate_number, remote, got>>

\* recv() into one block; what json::parse() cannot read sets no description.
RecvAnswer ==
    /\ \E c \in Chunks("offerer", 1) :
        /\ Recv("offerer", "recvAnswer", "sendCount", c)
        /\ remote' = [remote EXCEPT !["offerer"] = c = Description("answerer")]
    /\ UNCHANGED <<gatherVars, offerVars, got>>

SendCount ==
    /\ candidate_number' = found["offerer"]
    /\ Send("offerer", "sendCount", "sendCandidates", <<Count(found["offerer"])>>)
    /\ UNCHANGED <<gatherVars, connected, sdp_to_send, offer, remote, got>>

SendCandidates ==
    /\ Send("offerer", "sendCandidates", "recvCount",
            [i \in 1..candidate_number |-> Candidate(i)])
    /\ UNCHANGED <<gatherVars, offerVars, remote, got>>

\* local_candidates is read while the callback appends to it.
CandidateRace ==
    /\ pc["offerer"] \in {"sendCount", "sendCandidates"}
    /\ Gathers("offerer")
    /\ pc' = [pc EXCEPT !["offerer"] = "crashed"]
    /\ UNCHANGED <<gatherVars, offerVars, stream, remote, got>>

OffererCount == RecvCount("offerer", "recvCandidate") /\ UNCHANGED <<gatherVars, offerVars, remote, got>>

\* rtc::Candidate() reads one candidate and ignores what follows.
StartsWithCandidate(c) == c # <<>> /\ Head(c).kind = "candidate"

\* addRemoteCandidate() throws if there is no remote description or the string
\* is no candidate, and main() ends; of an empty string it may do either.
OffererCandidate ==
    /\ \E c \in Chunks("offerer", Len(stream["offerer"])) :
        \/ /\ Recv("offerer", "recvCandidate", "message", c)
           /\ remote["offerer"] /\ StartsWithCandidate(c)
           /\ got' = [got EXCEPT !["offerer"] = TRUE]
        \/ /\ Recv("offerer", "recvCandidate", "message", c)
           /\ remote["offerer"] /\ c = <<>>
           /\ UNCHANGED got
        \/ /\ Recv("offerer", "recvCandidate", "done", c)
           /\ ~(remote["offerer"] /\ StartsWithCandidate(c))
           /\ UNCHANGED got
    /\ UNCHANGED <<gatherVars, offerVars, remote>>

\* getline(), dc->send(), close().
Message ==
    /\ pc["offerer"] = "message"
    /\ pc' = [pc EXCEPT !["offerer"] = "done"]
    /\ UNCHANGED <<gatherVars, offerVars, stream, remote, got>>

Offerer ==
    \/ Listen \/ Accept \/ TakePointer \/ SendOffer \/ RecvAnswer
    \/ SendCount \/ SendCandidates \/ OffererCount \/ OffererCandidate

-----------------------------------------------------------------------------
(* The answerer.                                                           *)

Connect ==
    /\ pc["answerer"] = "connect"
    /\ connected' = (pc["offerer"] = "accept")
    /\ pc' = [pc EXCEPT !["answerer"] = IF connected' THEN "recvOffer" ELSE "done"]
    /\ UNCHANGED <<gatherVars, sdp_to_send, candidate_number, offer, stream, remote, got>>

\* Mutant: an offer that cannot be parsed is reported and nothing else.
RecvOfferCaught ==
    /\ \E c \in Chunks("answerer", 2) :
        /\ Recv("answerer", "recvOffer",
                IF c = Description("offerer") THEN "spin" ELSE "recvCount", c)
        /\ remote' = [remote EXCEPT !["answerer"] = c = Description("offerer")]
    /\ UNCHANGED <<gatherVars, offerVars, got>>

\* recv() into two blocks; nobody catches what json::parse() throws.
RecvOffer ==
    /\ \E c \in Chunks("answerer", 2) :
        /\ Recv("answerer", "recvOffer",
                IF c = Description("offerer") THEN "spin" ELSE "crashed", c)
        /\ remote' = [remote EXCEPT !["answerer"] = c = Description("offerer")]
    /\ UNCHANGED <<gatherVars, offerVars, got>>

\* while (!sdp_generated), then send().
SendAnswer ==
    /\ complete["answerer"]
    /\ Send("answerer", "spin", "recvCount", Description("answerer"))
    /\ UNCHANGED <<gatherVars, offerVars, remote, got>>

\* Mutant: the offerer's candidate is not waited for.
AnswererCountOnly ==
    RecvCount("answerer", "sendCount") /\ UNCHANGED <<gatherVars, offerVars, remote, got>>

AnswererCount ==
    RecvCount("answerer", "recvCandidate") /\ UNCHANGED <<gatherVars, offerVars, remote, got>>

\* addRemoteCandidate(), as the offerer has it, but nobody catches what it throws.
AnswererCandidate ==
    /\ \E c \in Chunks("answerer", Len(stream["answerer"])) :
        \/ /\ Recv("answerer", "recvCandidate", "sendCount", c)
           /\ StartsWithCandidate(c)
           /\ got' = [got EXCEPT !["answerer"] = TRUE]
        \/ /\ \E to \in {"sendCount", "crashed"} : Recv("answerer", "recvCandidate", to, c)
           /\ c = <<>>
           /\ UNCHANGED got
    /\ UNCHANGED <<gatherVars, offerVars, remote>>

AnswererSendCount ==
    /\ Send("answerer", "sendCount", "sendCandidates", <<Count(found["answerer"])>>)
    /\ UNCHANGED <<gatherVars, offerVars, remote, got>>

\* Mutant: the second candidate instead of the first.
AnswererSendSecond ==
    /\ IF found["answerer"] > 1
       THEN Send("answerer", "sendCandidates", "sleep", <<Candidate(2)>>)
       ELSE /\ pc["answerer"] = "sendCandidates"
            /\ pc' = [pc EXCEPT !["answerer"] = "crashed"]
            /\ UNCHANGED stream
    /\ UNCHANGED <<gatherVars, offerVars, remote, got>>

\* local_candidates_vector.at(0), which throws when there is none, and send().
AnswererSendCandidate ==
    /\ IF found["answerer"] > 0
       THEN Send("answerer", "sendCandidates", "sleep", <<Candidate(1)>>)
       ELSE /\ pc["answerer"] = "sendCandidates"
            /\ pc' = [pc EXCEPT !["answerer"] = "crashed"]
            /\ UNCHANGED stream
    /\ UNCHANGED <<gatherVars, offerVars, remote, got>>

\* sleep(100) is longer than the offerer takes to read what was sent; close().
AnswererClose ==
    /\ pc["answerer"] = "sleep"
    /\ stream["offerer"] = <<>> \/ Gone("offerer")
    /\ pc' = [pc EXCEPT !["answerer"] = "done"]
    /\ UNCHANGED <<gatherVars, offerVars, stream, remote, got>>

Answerer ==
    \/ Connect \/ RecvOffer \/ SendAnswer \/ AnswererCount \/ AnswererCandidate
    \/ AnswererSendCount \/ AnswererSendCandidate \/ AnswererClose

-----------------------------------------------------------------------------

Kill(p) ==
    /\ p \in Mortal
    /\ ~Gone(p)
    /\ pc' = [pc EXCEPT ![p] = "killed"]
    /\ UNCHANGED <<gatherVars, offerVars, stream, remote, got>>

Next ==
    \/ Offerer \/ CandidateRace \/ Message
    \/ Answerer
    \/ \E p \in Peers : NewCandidate(p) \/ GatheringComplete(p) \/ Kill(p)

Spec == Init /\ [][Next]_vars

\* Both programs run, and gathering comes to its end; the user may never type
\* the message.
FairSpec ==
    /\ Spec
    /\ WF_vars(Offerer) /\ WF_vars(Answerer)
    /\ \A p \in Peers : WF_vars(NewCandidate(p)) /\ WF_vars(GatheringComplete(p))

-----------------------------------------------------------------------------
(* Properties.                                                             *)

\* p sleeps in recv() and only the other can wake it.
Stuck(p) == pc[p] \in Receiving /\ stream[p] = <<>> /\ ~Gone(Other(p))

\* The two wait for each other in two cases only: the offer that was sent was
\* empty (offerer.cpp:116-118), or the offerer has no candidates to send after
\* its count (146) while the answerer waits for one (answerer.cpp:185).  No
\* short read and no oversized description leaves both of them waiting; the rest
\* of an answer can at most take the place of the answerer's count.
MutualWaitExplained ==
    (\A p \in Peers : Stuck(p)) =>
        \/ offer = "empty" /\ pc["offerer"] = "recvAnswer" /\ pc["answerer"] = "recvOffer"
        \/ /\ total["offerer"] = 0
           /\ pc["offerer"] \in {"recvCount", "recvCandidate"} /\ pc["answerer"] = "recvCandidate"

\* The offerer reads local_candidates (offerer.cpp:143-147), to which a callback
\* appends without a lock, only when the callback is done, unless it got there
\* without an answer.
CandidatesSettled ==
    remote["offerer"] => complete["offerer"] /\ found["offerer"] = total["offerer"]

\* The offerer gets the answerer's candidate only after the answerer has got its
\* own (answerer.cpp:185-198), and each of them only once it has the other's
\* description.  The converse fails: an answer that does not fit the offerer's
\* buffer is dropped (offerer.cpp:138) and the answerer never learns.
ExchangeIsMutual ==
    /\ got["offerer"] => remote["offerer"] /\ got["answerer"]
    /\ got["answerer"] => remote["answerer"] /\ offer = "whole"

\* Once the offerer has applied the answer (offerer.cpp:137) and both have
\* candidates, the exchange comes to its end, unless a process is killed.
ExchangeCompletes ==
    (remote["offerer"] /\ \A p \in Peers : total[p] > 0)
        ~> (got["offerer"] \/ \E p \in Peers : pc[p] = "killed")

\* "sent" (offerer.cpp:122): what the offerer has sent then is its description.
OfferIsSent == pc["offerer"] = "recvAnswer" => offer = "whole"

=============================================================================
