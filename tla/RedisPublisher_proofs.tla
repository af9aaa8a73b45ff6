------------------------- MODULE RedisPublisher_proofs -------------------------
(***************************************************************************)
(* Proofs about RedisPublisher, for any number of addresses, calls and     *)
(* sockets, commands and replies of any length, and a peer that answers    *)
(* late or never, closes, or sends any amount of junk at any moment.       *)
(***************************************************************************)
EXTENDS RedisPublisher, TLAPS

Writing == pc \in {"writeCheck", "writePoll"}
AwaitingReply == pc \in {"readCheck", "readPoll"}
InPublish == Writing \/ AwaitingReply
Dialling == pc \in {"connectCheck", "connectPoll"}

\* Which socket is open where, and what a call has left behind for the next one.
OwnInv ==
  /\ NoSocketLeaks
  /\ sock # None <=> Dialling
  /\ InPublish => fd # None /\ call # 0
  /\ pc = "candidate" \/ Dialling => fd = None
  /\ Dialling => candidate <= Candidates
  /\ fd <= sockets /\ sock <= sockets
  /\ pc = "writePoll" => sent < CommandLength
  /\ AwaitingReply => sent = CommandLength
  /\ ~AwaitingReply => pending = <<>>
  /\ pc = "readPoll" => Len(pending) <= ReplyLimit
  /\ ReplyIsBounded

\* The pieces of a stream from the first to the last of command n, from 0.
Before(n) == n * CommandLength
Length(s) == Len(wire[s])

\* A stream is commands one after the other, each of one call, the calls in order;
\* only the last command may be cut.
WholeInv ==
  \A s \in Sockets : \A n \in Nat : \A i, j \in 1 .. Length(s) :
    /\ Before(n) < i /\ i <= Before(n + 1) /\ Before(n) < j /\ j <= Before(n + 1)
         => wire[s][i] = wire[s][j]
    /\ i <= Before(n) /\ Before(n) < j => wire[s][i] < wire[s][j]

\* No call is on two streams, and the current one is on that of fd only.
ApartInv ==
  /\ \A s, t \in Sockets : s # t =>
       \A i \in 1 .. Length(s), j \in 1 .. Length(t) : wire[s][i] # wire[t][j]
  /\ \A s \in Sockets : \A i \in 1 .. Length(s) :
       /\ wire[s][i] <= call
       /\ InPublish /\ s # fd => wire[s][i] < call

\* What the peer ran are commands from the beginning of each stream, each once.
RanInv ==
  /\ \A s \in Sockets : Before(parsed[s]) <= Length(s)
  /\ \A i \in DOMAIN executed : \E s \in Sockets : \E n \in Nat :
       n < parsed[s] /\ executed[i] = wire[s][Before(n) + 1]
  /\ \A i, j \in DOMAIN executed : executed[i] = executed[j] => i = j

AckInv ==
  /\ ReplyMatchesCommand
  /\ \A a \in acked : \E i \in DOMAIN executed :
       executed[i] = a[1] /\ \A j \in 1 .. i : executed[j] <= a[1]

\* Pieces that end no line.
Noise(x) == x.kind = "junk" /\ ~x.end
NoiseOnly(q) == \A i \in DOMAIN q : Noise(q[i])

\* A socket on which nothing was sent yet.
FreshInv ==
  \A s \in Sockets : s > sockets \/ s = sock =>
    wire[s] = <<>> /\ parsed[s] = 0 /\ NoiseOnly(inbox[s])

\* Noise and at most one reply, to this call.
OneReply(q) ==
  /\ \A i \in DOMAIN q : Noise(q[i]) \/ (q[i].kind # "junk" /\ q[i].call = call)
  /\ \A i, j \in DOMAIN q : i < j /\ q[i].end => Noise(q[j])

\* Before the peer has run the current command, nothing of a reply is on its way; after
\* that one reply is, or was received.
NotRunYet ==
  /\ Before(parsed[fd]) + sent = Length(fd)
  /\ NoiseOnly(pending) /\ NoiseOnly(inbox[fd])
RunOnce ==
  /\ sent = CommandLength /\ Before(parsed[fd]) = Length(fd)
  /\ \E i \in DOMAIN executed : executed[i] = call
  /\ OneReply(pending) /\ OneReply(inbox[fd])
  /\ HasLine => NoiseOnly(inbox[fd])

\* Between calls the connection is clean both ways; in a call the stream ends with what
\* was sent of the command.
StreamInv ==
  fd # None =>
    /\ ~InPublish => Before(parsed[fd]) = Length(fd) /\ NoiseOnly(inbox[fd])
    /\ InPublish =>
         /\ \A i \in 1 .. Length(fd) :
              IF i + sent <= Length(fd) THEN wire[fd][i] < call ELSE wire[fd][i] = call
         /\ NotRunYet \/ RunOnce

Inv ==
  TypeOK /\ OwnInv /\ WholeInv /\ ApartInv /\ RanInv /\ AckInv /\ FreshInv /\ StreamInv

-------------------------------------------------------------------------------
(* Where commands lie in a stream. *)

LEMMA BeforeNat == ASSUME NEW n \in Nat PROVE Before(n) \in Nat
<1>1. CommandLength \in Nat  BY RedisAssumption
<1> QED  BY <1>1 DEF Before

LEMMA BeforeZero == Before(0) = 0
<1>1. CommandLength \in Nat  BY RedisAssumption
<1> QED  BY <1>1 DEF Before

LEMMA BeforeNext ==
  ASSUME NEW n \in Nat
  PROVE  Before(n + 1) = Before(n) + CommandLength
<1>1. CommandLength \in Nat  BY RedisAssumption
<1> QED  BY <1>1 DEF Before

LEMMA BeforeGrows ==
  ASSUME NEW m \in Nat, NEW n \in Nat, m < n
  PROVE  Before(m) + CommandLength <= Before(n)
<1> DEFINE d == n - (m + 1)
<1>1. CommandLength \in Nat /\ d \in Nat /\ n = (m + 1) + d  BY RedisAssumption
<1>2. d * CommandLength \in Nat  BY <1>1
<1>3. ((m + 1) + d) * CommandLength = m * CommandLength + CommandLength + d * CommandLength
  BY <1>1
<1> QED  BY <1>1, <1>2, <1>3, BeforeNat DEF Before

\* A position lies in the command that ends the stream when it is after all others.
LEMMA SameCommand ==
  ASSUME NEW m \in Nat, NEW n \in Nat, NEW i \in Nat,
         Before(m) < i, i <= Before(m + 1), Before(n) < i, i <= Before(n + 1)
  PROVE  m = n
<1>1. Before(m) \in Nat /\ Before(n) \in Nat /\ Before(m + 1) \in Nat /\ Before(n + 1) \in Nat
  BY BeforeNat
<1>2. CASE m < n
  <2>1. Before(m + 1) <= Before(n)  BY <1>2, BeforeGrows, BeforeNext
  <2> QED  BY <1>1, <2>1
<1>3. CASE n < m
  <2>1. Before(n + 1) <= Before(m)  BY <1>3, BeforeGrows, BeforeNext
  <2> QED  BY <1>1, <2>1
<1> QED  BY <1>2, <1>3

\* The peer reads the name of a command off its first piece.
LEMMA FirstPiece ==
  ASSUME TypeOK, NEW s \in Sockets, Len(wire[s]) >= (parsed[s] + 1) * CommandLength
  PROVE  /\ Before(parsed[s]) \in Nat
         /\ Before(parsed[s]) + CommandLength <= Length(s)
         /\ Before(parsed[s]) + 1 \in 1 .. Length(s)
         /\ CommandAt(s, parsed[s] + 1)[1] = wire[s][Before(parsed[s]) + 1]
<1>1. parsed[s] \in Nat /\ wire[s] \in Seq(Calls) /\ CommandLength \in Nat \ {0}
  BY RedisAssumption DEF TypeOK, PeerOK
<1>2. Before(parsed[s]) \in Nat  BY <1>1, BeforeNat
<1>3. (parsed[s] + 1) * CommandLength = Before(parsed[s]) + CommandLength
  BY <1>1, BeforeNext DEF Before
<1>4. ((parsed[s] + 1) - 1) * CommandLength = Before(parsed[s])
  <2>1. (parsed[s] + 1) - 1 = parsed[s]  BY <1>1
  <2> QED  BY <2>1 DEF Before
<1>5. CommandAt(s, parsed[s] + 1)
        = SubSeq(wire[s], Before(parsed[s]) + 1, Before(parsed[s]) + CommandLength)
  BY <1>3, <1>4 DEF CommandAt
<1>6. Length(s) \in Nat /\ Before(parsed[s]) + CommandLength <= Length(s)
  BY <1>1, <1>3, <1>2 DEF Length
<1>7. \A q \in Seq(Calls), b \in Nat, c \in Nat \ {0} :
        b + c <= Len(q) => SubSeq(q, b + 1, b + c)[1] = q[b + 1]
  OBVIOUS
<1>8. CommandAt(s, parsed[s] + 1)[1] = wire[s][Before(parsed[s]) + 1]
  BY <1>1, <1>2, <1>5, <1>6, <1>7 DEF Length
<1> QED  BY <1>1, <1>2, <1>6, <1>8

-------------------------------------------------------------------------------
(* Sequences of received pieces. *)

LEMMA PiecesSeq ==
  ASSUME NEW S, NEW q \in Seq(S)
  PROVE  Len(q) \in Nat /\ DOMAIN q = 1 .. Len(q) /\ \A i \in 1 .. Len(q) : q[i] \in S
OBVIOUS

LEMMA Joined ==
  ASSUME NEW S, NEW q \in Seq(S), NEW r \in Seq(S)
  PROVE  /\ q \o r \in Seq(S) /\ Len(q \o r) = Len(q) + Len(r)
         /\ \A i \in 1 .. Len(q) : (q \o r)[i] = q[i]
         /\ \A i \in 1 .. Len(r) : (q \o r)[Len(q) + i] = r[i]
         /\ \A i \in 1 .. Len(q) + Len(r) :
              (q \o r)[i] = IF i <= Len(q) THEN q[i] ELSE r[i - Len(q)]
OBVIOUS

LEMMA Cut ==
  ASSUME NEW S, NEW q \in Seq(S), NEW n \in 1 .. Len(q)
  PROVE  /\ SubSeq(q, 1, n) \in Seq(S) /\ Len(SubSeq(q, 1, n)) = n
         /\ \A i \in 1 .. n : SubSeq(q, 1, n)[i] = q[i]
         /\ SubSeq(q, n + 1, Len(q)) \in Seq(S)
         /\ Len(SubSeq(q, n + 1, Len(q))) = Len(q) - n
         /\ \A i \in 1 .. Len(q) - n : SubSeq(q, n + 1, Len(q))[i] = q[n + i]
OBVIOUS

-------------------------------------------------------------------------------
(* Types. *)

LEMMA PieceTypes ==
  ASSUME NEW k \in Calls
  PROVE  /\ Junk \in Pieces
         /\ \A kind \in ReplyKinds : Body(k, kind) \in Pieces /\ LineEnd(k, kind) \in Pieces
BY DEF Junk, Pieces, Body, LineEnd, ReplyKinds, None, Calls

LEMMA FlagsTyped == TypeOK /\ [Next]_vars => FlagsOK'
<1> SUFFICES ASSUME TypeOK, [Next]_vars PROVE FlagsOK'
  OBVIOUS
<1>1. reader \in BOOLEAN /\ expired \in BOOLEAN /\ stop \in BOOLEAN
  BY DEF TypeOK, FlagsOK
<1>2. reader' = reader \/ reader' = FALSE \/ reader' = TRUE
  BY DEF Next, vars, publisherVars, localVars, peerVars, Calling, Connecting, Publishing,
    Peer, Close, CloseConnection, ConnectBegin, GiveUpConnecting, CandidateFails,
    CandidateInProgress, ConnectInterrupted, ConnectWaits, ConnectPollAgain,
    ConnectPollFails, Adopt, Established, CandidateConnectsAtOnce, PublishRefused,
    PublishBegin, FailPublish, WriteInterrupted, WriteWaits, WriteDone, WritePollAgain,
    WriteFails, Send, ReadInterrupted, ReplyRejected, ReplyAccepted, ReadWaits,
    ReadPollAgain, ReadFails, Receive, RequestStop, DeadlinePasses, Execute, SendJunk,
    HangUp
<1>3. expired' = expired \/ expired' = FALSE \/ expired' = TRUE
  BY DEF Next, vars, publisherVars, localVars, peerVars, Calling, Connecting, Publishing,
    Peer, Close, CloseConnection, ConnectBegin, GiveUpConnecting, CandidateFails,
    CandidateInProgress, ConnectInterrupted, ConnectWaits, ConnectPollAgain,
    ConnectPollFails, Adopt, Established, CandidateConnectsAtOnce, PublishRefused,
    PublishBegin, FailPublish, WriteInterrupted, WriteWaits, WriteDone, WritePollAgain,
    WriteFails, Send, ReadInterrupted, ReplyRejected, ReplyAccepted, ReadWaits,
    ReadPollAgain, ReadFails, Receive, RequestStop, DeadlinePasses, Execute, SendJunk,
    HangUp
<1>4. stop' = stop \/ stop' = TRUE
  BY DEF Next, vars, publisherVars, localVars, peerVars, Calling, Connecting, Publishing,
    Peer, Close, CloseConnection, ConnectBegin, GiveUpConnecting, CandidateFails,
    CandidateInProgress, ConnectInterrupted, ConnectWaits, ConnectPollAgain,
    ConnectPollFails, Adopt, Established, CandidateConnectsAtOnce, PublishRefused,
    PublishBegin, FailPublish, WriteInterrupted, WriteWaits, WriteDone, WritePollAgain,
    WriteFails, Send, ReadInterrupted, ReplyRejected, ReplyAccepted, ReadWaits,
    ReadPollAgain, ReadFails, Receive, RequestStop, DeadlinePasses, Execute, SendJunk,
    HangUp
<1> QED  BY <1>1, <1>2, <1>3, <1>4, Zenon DEF FlagsOK

\* The steps that touch nothing but the publisher's own place and its sockets.
Connects ==
  \/ Close \/ ConnectBegin \/ GiveUpConnecting \/ CandidateFails \/ CandidateInProgress
  \/ CandidateConnectsAtOnce \/ ConnectInterrupted \/ ConnectWaits \/ ConnectPollAgain
  \/ ConnectPollFails \/ Established
\* The steps of a publish that leave the streams and the sockets alone.
Waits == WriteWaits \/ WriteDone \/ WritePollAgain \/ ReadWaits \/ ReadPollAgain
\* The steps of a publish that give the connection up.
Fails == WriteInterrupted \/ WriteFails \/ ReadInterrupted \/ ReplyRejected \/ ReadFails
\* The steps nobody takes for the publisher.
Signals == RequestStop \/ DeadlinePasses \/ \E s \in Sockets : HangUp(s)

LEMMA NextCases ==
  Next <=> \/ Connects \/ Waits \/ Fails \/ Signals
           \/ PublishRefused \/ PublishBegin \/ Send \/ ReplyAccepted \/ Receive
           \/ \E s \in Sockets : Execute(s) \/ SendJunk(s)
BY DEF Next, Calling, Connecting, Publishing, Peer, Connects, Waits, Fails, Signals

\* What each group leaves alone.
LEMMA ConnectsKeeps ==
  Connects => /\ UNCHANGED <<sent, call, acked, wire, inbox, peerVars>>
              /\ pc \in {"idle", "candidate", "connectCheck", "connectPoll"}
              /\ pc' \in {"idle", "candidate", "connectCheck", "connectPoll"}
BY DEF Connects, localVars, Close, CloseConnection, ConnectBegin, GiveUpConnecting,
  TryingCandidate, CandidateFails, CandidateInProgress, ConnectInterrupted, ConnectWaits,
  ConnectPollAgain, ConnectPollFails, Adopt, Established, CandidateConnectsAtOnce

LEMMA WaitsKeeps ==
  Waits => /\ UNCHANGED <<publisherVars, localVars, call, acked, opened, sockets, wire,
                          inbox, peerVars>>
           /\ InPublish /\ InPublish'
BY DEF Waits, InPublish, Writing, AwaitingReply, WriteWaits, WriteDone, WritePollAgain,
  ReadWaits, ReadPollAgain, Reading

LEMMA FailsKeeps ==
  Fails => InPublish /\ FailPublish
BY DEF Fails, InPublish, Writing, AwaitingReply, WriteInterrupted, WriteFails,
  ReadInterrupted, ReplyRejected, ReadFails, Reading

LEMMA SignalsKeep ==
  Signals => /\ UNCHANGED <<publisherVars, pc, localVars, call, acked, opened, sockets,
                            wire, inbox, parsed, executed, junk>>
             /\ hungUp' = hungUp \/ \E s \in Sockets : hungUp' = hungUp \cup {s}
BY DEF Signals, RequestStop, DeadlinePasses, HangUp, peerVars

\* A recv moves pieces from the head of the inbox to the end of pending.
LEMMA ReceiveCuts ==
  ASSUME TypeOK, OwnInv, Receive
  PROVE  /\ fd \in Sockets
         /\ \E n \in 1 .. Len(inbox[fd]) :
              /\ n <= RecvMax
              /\ pending' = pending \o SubSeq(inbox[fd], 1, n)
              /\ inbox' = [inbox EXCEPT ![fd] = SubSeq(@, n + 1, Len(@))]
<1>1. fd \in Sockets  BY DEF Receive, OwnInv, InPublish, AwaitingReply, TypeOK, OwnerOK
<1>2. inbox[fd] \in Seq(Pieces)  BY <1>1 DEF TypeOK, PeerOK
<1>3. RecvMax \in Nat \ {0}  BY RedisAssumption
<1>4. PICK n \in 1 .. RecvMax :
        /\ n <= Len(inbox[fd])
        /\ pending' = pending \o SubSeq(inbox[fd], 1, n)
        /\ inbox' = [inbox EXCEPT ![fd] = SubSeq(@, n + 1, Len(@))]
  BY DEF Receive
<1>5. n \in 1 .. Len(inbox[fd]) /\ n <= RecvMax  BY <1>2, <1>3, <1>4
<1> QED  BY <1>1, <1>4, <1>5

LEMMA OwnerTyped == TypeOK /\ OwnInv /\ Next => OwnerOK'
<1> SUFFICES ASSUME TypeOK, OwnInv, Next PROVE OwnerOK'
  OBVIOUS
<1>0. /\ Candidates \in Nat /\ MaxCalls \in Nat /\ MaxSockets \in Nat /\ MaxJunk \in Nat
      /\ CommandLength \in Nat \ {0} /\ ReplyLimit \in Nat \ {0} /\ RecvMax \in Nat \ {0}
  BY RedisAssumption
<1>1. OwnerOK  BY DEF TypeOK
<1>2. CASE Connects
  <2>0. sockets < MaxSockets => sockets + 1 \in Sockets /\ sockets + 1 \in 0 .. MaxSockets
    BY <1>0, <1>1 DEF OwnerOK, Sockets
  <2>1. CASE CandidateInProgress
    BY <1>1, <2>0, <2>1 DEF OwnerOK, CandidateInProgress, TryingCandidate, publisherVars
  <2>5. CASE CandidateConnectsAtOnce
    BY <1>1, <2>0, <2>5 DEF OwnerOK, CandidateConnectsAtOnce, Adopt, TryingCandidate
  <2>6. CASE Established
    <3>1. sock \in Sockets  BY <1>1, <2>6 DEF Established, OwnInv, Dialling, OwnerOK
    <3> QED  BY <1>1, <2>6, <3>1 DEF OwnerOK, Established, Adopt
  <2>2. CASE ConnectPollFails
    BY <1>0, <1>1, <2>2 DEF OwnerOK, OwnInv, Dialling, ConnectPollFails, publisherVars
  <2>3. CASE CandidateFails
    BY <1>0, <1>1, <2>3 DEF OwnerOK, CandidateFails, TryingCandidate, publisherVars
  <2>4. CASE Close
    BY <1>1, <2>4 DEF OwnerOK, Close, CloseConnection, localVars
  <2>8. CASE GiveUpConnecting \/ ConnectWaits \/ ConnectPollAgain
    BY <1>1, <2>8 DEF OwnerOK, GiveUpConnecting, ConnectWaits, ConnectPollAgain,
      publisherVars, localVars
  <2>9. CASE ConnectInterrupted
    BY <1>1, <2>9 DEF OwnerOK, ConnectInterrupted, publisherVars
  <2>7. CASE ConnectBegin
    <3>1. 1 \in 1 .. Candidates + 1  BY <1>0
    <3>2. pc' \in {"idle", "candidate"}  BY <2>7 DEF ConnectBegin
    <3> QED  BY <1>1, <2>7, <3>1, <3>2 DEF OwnerOK, ConnectBegin, CloseConnection
  <2> QED  BY <1>2, <2>1, <2>2, <2>3, <2>4, <2>5, <2>6, <2>7, <2>8, <2>9
    DEF Connects
<1>3. CASE Waits
  BY <1>1, <1>3 DEF OwnerOK, Waits, WriteWaits, WriteDone, WritePollAgain, ReadWaits,
    ReadPollAgain, publisherVars, localVars
<1>4. CASE Fails
  BY <1>1, <1>4, FailsKeeps DEF OwnerOK, FailPublish, CloseConnection, localVars
<1>5. CASE Signals
  BY <1>1, <1>5, SignalsKeep DEF OwnerOK, publisherVars, localVars
<1>6. CASE PublishRefused \/ PublishBegin
  <2>1. call' \in 0 .. MaxCalls
    BY <1>0, <1>1, <1>6 DEF OwnerOK, PublishRefused, PublishBegin
  <2>2. 0 \in 0 .. CommandLength  BY <1>0
  <2>3. CASE PublishRefused
    BY <1>1, <2>1, <2>3 DEF OwnerOK, PublishRefused, publisherVars, localVars
  <2>4. CASE PublishBegin /\ stop
    BY <1>1, <2>1, <2>2, <2>4 DEF OwnerOK, PublishBegin, CloseConnection
  <2>5. CASE PublishBegin /\ ~stop
    BY <1>1, <2>1, <2>2, <2>5 DEF OwnerOK, PublishBegin, publisherVars
  <2> QED  BY <1>6, <2>3, <2>4, <2>5
<1>7. CASE Send
  BY <1>0, <1>1, <1>7 DEF OwnerOK, Send, publisherVars
<1>8. CASE ReplyAccepted
  BY <1>1, <1>8 DEF OwnerOK, ReplyAccepted, Reading, localVars
<1>9. CASE Receive
  <2>1. PICK n \in 1 .. Len(inbox[fd]) : pending' = pending \o SubSeq(inbox[fd], 1, n)
    BY <1>9, ReceiveCuts
  <2>2. inbox[fd] \in Seq(Pieces)  BY <1>9, ReceiveCuts DEF TypeOK, PeerOK
  <2>3. SubSeq(inbox[fd], 1, n) \in Seq(Pieces)  BY <2>2, Cut
  <2>4. pending' \in Seq(Pieces)  BY <1>1, <2>1, <2>3, Joined DEF OwnerOK
  <2> QED  BY <1>1, <1>9, <2>4 DEF OwnerOK, Receive, localVars
<1>10. CASE \E s \in Sockets : Execute(s) \/ SendJunk(s)
  BY <1>1, <1>10 DEF OwnerOK, Execute, SendJunk, publisherVars, localVars
<1> QED  BY <1>2, <1>3, <1>4, <1>5, <1>6, <1>7, <1>8, <1>9, <1>10, NextCases

\* What a send adds to the stream of fd.
LEMMA SendAdds ==
  ASSUME TypeOK, OwnInv, Send
  PROVE  /\ fd \in Sockets /\ call \in Calls
         /\ \E n \in 1 .. CommandLength - sent :
              /\ sent' = sent + n
              /\ wire' \in [Sockets -> Seq(Calls)]
              /\ \A s \in Sockets : s # fd => wire'[s] = wire[s]
              /\ Len(wire'[fd]) = Len(wire[fd]) + n
              /\ \A i \in 1 .. Len(wire[fd]) + n :
                   wire'[fd][i] = IF i <= Len(wire[fd]) THEN wire[fd][i] ELSE call
<1>1. fd \in Sockets /\ call \in Calls
  BY DEF Send, OwnInv, InPublish, Writing, TypeOK, OwnerOK, Calls, None
<1>2. wire[fd] \in Seq(Calls) /\ wire \in [Sockets -> Seq(Calls)]
  BY <1>1 DEF TypeOK, PeerOK
<1>3. PICK n \in 1 .. CommandLength - sent :
        /\ sent' = sent + n
        /\ wire' = [wire EXCEPT ![fd] = @ \o [i \in 1 .. n |-> call]]
  BY DEF Send
<1>4. n \in Nat
  BY RedisAssumption DEF TypeOK, OwnerOK
<1>5. [i \in 1 .. n |-> call] \in Seq(Calls) /\ Len([i \in 1 .. n |-> call]) = n
  BY <1>1, <1>4
<1>6. wire'[fd] = wire[fd] \o [i \in 1 .. n |-> call]
  BY <1>1, <1>2, <1>3
<1>7. /\ wire'[fd] \in Seq(Calls)
      /\ Len(wire'[fd]) = Len(wire[fd]) + n
      /\ \A i \in 1 .. Len(wire[fd]) + n :
           wire'[fd][i] = IF i <= Len(wire[fd]) THEN wire[fd][i]
                          ELSE [j \in 1 .. n |-> call][i - Len(wire[fd])]
  BY <1>2, <1>5, <1>6, Joined
<1>8. \A i \in 1 .. Len(wire[fd]) + n :
           wire'[fd][i] = IF i <= Len(wire[fd]) THEN wire[fd][i] ELSE call
  BY <1>2, <1>4, <1>7
<1>9. \A s \in Sockets : s # fd => wire'[s] = wire[s]
  BY <1>1, <1>2, <1>3
<1>10. wire' \in [Sockets -> Seq(Calls)]
  BY <1>1, <1>2, <1>3, <1>6, <1>7
<1> QED  BY <1>1, <1>3, <1>7, <1>8, <1>9, <1>10

\* What the peer adds to the inbox of s, and the command it runs.
LEMMA ExecuteAdds ==
  ASSUME TypeOK, NEW s \in Sockets, Execute(s)
  PROVE  /\ Before(parsed[s]) + CommandLength <= Length(s)
         /\ Before(parsed[s]) + 1 \in 1 .. Length(s)
         /\ wire[s][Before(parsed[s]) + 1] \in Calls
         /\ executed' = Append(executed, wire[s][Before(parsed[s]) + 1])
         /\ \E kind \in ReplyKinds :
              inbox' = IF s \in opened
                       THEN [inbox EXCEPT ![s] =
                               @ \o << Body(wire[s][Before(parsed[s]) + 1], kind),
                                       LineEnd(wire[s][Before(parsed[s]) + 1], kind) >>]
                       ELSE inbox
<1>1. Len(wire[s]) >= (parsed[s] + 1) * CommandLength  BY DEF Execute
<1>2. wire[s] \in Seq(Calls)  BY DEF TypeOK, PeerOK
<1>3. /\ Before(parsed[s]) + CommandLength <= Length(s)
      /\ Before(parsed[s]) + 1 \in 1 .. Length(s)
      /\ CommandAt(s, parsed[s] + 1)[1] = wire[s][Before(parsed[s]) + 1]
  BY <1>1, FirstPiece
<1>4. wire[s][Before(parsed[s]) + 1] \in Calls  BY <1>2, <1>3 DEF Length
<1> QED  BY <1>3, <1>4 DEF Execute

\* A line that is accepted is the whole of pending, and it is the reply to this call.
LEMMA ReplyRead ==
  ASSUME TypeOK, OwnInv, StreamInv, ReplyAccepted
  PROVE  /\ fd \in Sockets /\ call \in Calls
         /\ acked' = acked \cup {<<call, call>>}
         /\ RunOnce /\ HasLine
<1>1. /\ fd \in Sockets /\ call \in Calls /\ InPublish
      /\ acked' = acked \cup {<<call, Line[1].call>>}
  BY DEF ReplyAccepted, Reading, OwnInv, InPublish, AwaitingReply, TypeOK, OwnerOK, Calls,
    None
<1>2. PICK e \in DOMAIN pending : pending[e].end  BY DEF ReplyAccepted, HasLine
<1>3. pending \in Seq(Pieces) /\ DOMAIN pending = 1 .. Len(pending) /\ Len(pending) \in Nat
  BY DEF TypeOK, OwnerOK
<1>4. HasLine  BY <1>2 DEF HasLine
<1>5. ~NoiseOnly(pending)  BY <1>2 DEF NoiseOnly, Noise
<1>6. fd # None  BY <1>1 DEF Sockets, None
<1>7. RunOnce  BY <1>1, <1>5, <1>6 DEF StreamInv, NotRunYet
<1>8. LineLength \in DOMAIN pending
  <2>1. \A j \in 1 .. e - 1 : ~pending[j].end
    BY <1>2, <1>3, <1>7 DEF RunOnce, OneReply, Noise
  <2>2. \E i \in DOMAIN pending : pending[i].end /\ \A j \in 1 .. i - 1 : ~pending[j].end
    BY <1>2, <2>1
  <2> QED  BY <2>2 DEF LineLength
<1>9. Line[1] = pending[1] /\ 1 \in DOMAIN Line /\ 1 \in DOMAIN pending
  <2>1. LineLength \in 1 .. Len(pending)  BY <1>3, <1>8
  <2>2. /\ SubSeq(pending, 1, LineLength) \in Seq(Pieces)
        /\ Len(SubSeq(pending, 1, LineLength)) = LineLength
        /\ \A i \in 1 .. LineLength : SubSeq(pending, 1, LineLength)[i] = pending[i]
    BY <1>3, <2>1, Cut
  <2>3. DOMAIN Line = 1 .. LineLength  BY <2>1, <2>2 DEF Line
  <2> QED  BY <1>3, <2>1, <2>2, <2>3 DEF Line
<1>10. Line[1].kind = "integer"  BY <1>9 DEF ReplyAccepted, IntegerLine
<1>11. Line[1].call = call
  BY <1>7, <1>9, <1>10 DEF RunOnce, OneReply, Noise
<1> QED  BY <1>1, <1>4, <1>7, <1>11

LEMMA PeerTyped == TypeOK /\ OwnInv /\ StreamInv /\ Next => PeerOK'
<1> SUFFICES ASSUME TypeOK, OwnInv, StreamInv, Next PROVE PeerOK'
  OBVIOUS
<1>0. MaxJunk \in Nat  BY RedisAssumption
<1>1. PeerOK  BY DEF TypeOK
<1>2. CASE Connects
  BY <1>1, <1>2, ConnectsKeeps DEF PeerOK, peerVars
<1>3. CASE Waits
  BY <1>1, <1>3, WaitsKeeps DEF PeerOK, peerVars
<1>4. CASE Fails
  BY <1>1, <1>4, FailsKeeps DEF PeerOK, FailPublish, peerVars
<1>5. CASE Signals
  BY <1>1, <1>5, SignalsKeep DEF PeerOK
<1>6. CASE PublishRefused \/ PublishBegin
  BY <1>1, <1>6 DEF PeerOK, PublishRefused, PublishBegin, peerVars
<1>7. CASE Send
  BY <1>1, <1>7, SendAdds DEF PeerOK, Send, peerVars
<1>8. CASE ReplyAccepted
  BY <1>1, <1>8, ReplyRead DEF PeerOK, ReplyAccepted, peerVars
<1>9. CASE Receive
  <2>1. PICK n \in 1 .. Len(inbox[fd]) :
          inbox' = [inbox EXCEPT ![fd] = SubSeq(@, n + 1, Len(@))]
    BY <1>9, ReceiveCuts
  <2>2. fd \in Sockets /\ inbox[fd] \in Seq(Pieces)
    BY <1>9, ReceiveCuts DEF TypeOK, PeerOK
  <2>3. SubSeq(inbox[fd], n + 1, Len(inbox[fd])) \in Seq(Pieces)  BY <2>2, Cut
  <2>4. inbox' \in [Sockets -> Seq(Pieces)]  BY <1>1, <2>1, <2>2, <2>3 DEF PeerOK
  <2> QED  BY <1>1, <1>9, <2>4 DEF PeerOK, Receive, peerVars
<1>10. ASSUME NEW s \in Sockets, Execute(s) PROVE PeerOK'
  <2> DEFINE k == wire[s][Before(parsed[s]) + 1]
  <2>1. k \in Calls /\ executed' = Append(executed, k)  BY <1>10, ExecuteAdds
  <2>2. PICK kind \in ReplyKinds :
          inbox' = IF s \in opened
                   THEN [inbox EXCEPT ![s] = @ \o <<Body(k, kind), LineEnd(k, kind)>>]
                   ELSE inbox
    BY <1>10, ExecuteAdds
  <2>3. Body(k, kind) \in Pieces /\ LineEnd(k, kind) \in Pieces  BY <2>1, PieceTypes
  <2>4. <<Body(k, kind), LineEnd(k, kind)>> \in Seq(Pieces)  BY <2>3
  <2> HIDE DEF k
  <2>5. inbox[s] \o <<Body(k, kind), LineEnd(k, kind)>> \in Seq(Pieces)
    BY <1>1, <2>4, Joined DEF PeerOK
  <2>6. inbox' \in [Sockets -> Seq(Pieces)]  BY <1>1, <2>2, <2>5 DEF PeerOK
  <2>7. executed' \in Seq(Calls)  BY <1>1, <2>1 DEF PeerOK
  <2>8. parsed' \in [Sockets -> Nat]  BY <1>1, <1>10 DEF PeerOK, Execute
  <2> QED  BY <1>1, <1>10, <2>6, <2>7, <2>8 DEF PeerOK, Execute
<1>11. ASSUME NEW s \in Sockets, SendJunk(s) PROVE PeerOK'
  <2>1. Junk \in Pieces  BY DEF Junk, Body, Pieces, None
  <2>2. Append(inbox[s], Junk) \in Seq(Pieces)  BY <1>1, <2>1 DEF PeerOK
  <2> QED  BY <1>0, <1>1, <1>11, <2>2 DEF PeerOK, SendJunk
<1> QED  BY <1>2, <1>3, <1>4, <1>5, <1>6, <1>7, <1>8, <1>9, <1>10, <1>11, NextCases

-------------------------------------------------------------------------------
(* Sockets, and the bounds of what a call keeps. *)

LEMMA OwnInit == Init => OwnInv
<1>1. ReplyLimit \in Nat /\ RecvMax \in Nat  BY RedisAssumption
<1> QED
  BY <1>1 DEF Init, OwnInv, NoSocketLeaks, ReplyIsBounded, InPublish, Writing,
    AwaitingReply, Dialling, None

\* Closing leaves the socket being connected, if any, as the only one open.
LEMMA CloseOwns ==
  ASSUME TypeOK, OwnInv, CloseConnection, UNCHANGED <<sock, sockets>>,
         pc' \in {"idle", "candidate"}, sock = None
  PROVE  OwnInv'
<1>1. ReplyLimit \in Nat /\ RecvMax \in Nat /\ sockets \in Nat
  BY RedisAssumption DEF TypeOK, OwnerOK
<1>2. opened' = {} /\ fd' = None /\ sock' = None /\ reader' = FALSE
  BY DEF CloseConnection, OwnInv, NoSocketLeaks
<1>3. pending' = <<>> /\ Len(pending') = 0  BY DEF CloseConnection
<1>4. ~InPublish' /\ ~AwaitingReply' /\ ~Dialling'
  BY DEF InPublish, Writing, AwaitingReply, Dialling
<1>5. NoSocketLeaks'  BY <1>2 DEF NoSocketLeaks
<1>6. ReplyIsBounded'  BY <1>1, <1>3 DEF ReplyIsBounded
<1> QED  BY <1>1, <1>2, <1>3, <1>4, <1>5, <1>6 DEF OwnInv, None

LEMMA OwnStep == TypeOK /\ OwnInv /\ Next => OwnInv'
<1> SUFFICES ASSUME TypeOK, OwnInv, Next PROVE OwnInv'
  OBVIOUS
<1>0. /\ Candidates \in Nat /\ MaxSockets \in Nat /\ ReplyLimit \in Nat /\ RecvMax \in Nat
      /\ CommandLength \in Nat \ {0}
      /\ sockets \in Nat /\ fd \in Nat /\ sock \in Nat /\ candidate \in Nat /\ call \in Nat
      /\ sent \in 0 .. CommandLength
  BY RedisAssumption DEF TypeOK, OwnerOK, Sockets, None
<1>1. pc \notin {"connectCheck", "connectPoll"} => sock = None
  BY DEF OwnInv, Dialling
<1>2. CASE Connects
  <2>0. pending = <<>> /\ Len(pending) = 0
    BY <1>2, ConnectsKeeps DEF OwnInv, AwaitingReply
  <2>1. CASE Close \/ ConnectBegin
    <3>1. CloseConnection /\ UNCHANGED <<sock, sockets>> /\ pc' \in {"idle", "candidate"}
      BY <2>1 DEF Close, ConnectBegin, localVars
    <3>2. sock = None  BY <1>1, <2>1 DEF Close, ConnectBegin
    <3> QED  BY <3>1, <3>2, CloseOwns
  <2>2. CASE GiveUpConnecting \/ CandidateFails \/ ConnectWaits \/ ConnectPollAgain
    BY <1>0, <1>1, <2>0, <2>2 DEF GiveUpConnecting, CandidateFails, ConnectWaits, ConnectPollAgain,
      TryingCandidate, OwnInv, NoSocketLeaks, ReplyIsBounded, InPublish, Writing,
      AwaitingReply, Dialling, publisherVars, localVars, None
  <2>3. CASE CandidateInProgress
    BY <1>0, <1>1, <2>0, <2>3 DEF CandidateInProgress,
      TryingCandidate, OwnInv, NoSocketLeaks, ReplyIsBounded, InPublish, Writing,
      AwaitingReply, Dialling, publisherVars, None
  <2>4. CASE ConnectInterrupted \/ ConnectPollFails
    BY <1>0, <1>1, <2>0, <2>4 DEF ConnectInterrupted, ConnectPollFails,
      OwnInv, NoSocketLeaks, ReplyIsBounded, InPublish, Writing,
      AwaitingReply, Dialling, publisherVars, None
  <2>5. CASE Established
    BY <1>0, <1>1, <2>0, <2>5 DEF Established, Adopt,
      OwnInv, NoSocketLeaks, ReplyIsBounded, InPublish, Writing,
      AwaitingReply, Dialling, None
  <2>6. CASE CandidateConnectsAtOnce
    BY <1>0, <1>1, <2>0, <2>6 DEF CandidateConnectsAtOnce, Adopt, TryingCandidate,
      OwnInv, NoSocketLeaks, ReplyIsBounded, InPublish, Writing,
      AwaitingReply, Dialling, None
  <2> QED  BY <1>2, <2>1, <2>2, <2>3, <2>4, <2>5, <2>6 DEF Connects
<1>3. CASE Waits
  <2>1. pc' = "readPoll" => Len(pending) <= ReplyLimit
    BY <1>3 DEF Waits, WriteWaits, WriteDone, WritePollAgain, ReadWaits, ReadPollAgain, Reading
  <2>2. pc' = "writePoll" => sent < CommandLength
    BY <1>3 DEF Waits, WriteWaits, WriteDone, WritePollAgain, ReadWaits, ReadPollAgain
  <2>3. pc' \in {"readCheck", "readPoll"} => sent = CommandLength
    BY <1>3 DEF Waits, WriteWaits, WriteDone, WritePollAgain, ReadWaits, ReadPollAgain,
      Reading, OwnInv, AwaitingReply
  <2>4. pc' \notin {"readCheck", "readPoll"} => pending = <<>>
    BY <1>3 DEF Waits, WriteWaits, WriteDone, WritePollAgain, ReadWaits, ReadPollAgain,
      Reading, OwnInv, AwaitingReply
  <2> QED
    BY <1>3, <2>1, <2>2, <2>3, <2>4, WaitsKeeps DEF OwnInv, NoSocketLeaks,
      ReplyIsBounded, InPublish, Writing, AwaitingReply, Dialling, publisherVars, localVars
<1>4. CASE Fails
  <2>1. sock = None  BY <1>1, <1>4, FailsKeeps DEF InPublish, Writing, AwaitingReply
  <2> QED  BY <1>4, <2>1, FailsKeeps, CloseOwns DEF FailPublish, localVars
<1>5. CASE Signals
  BY <1>5, SignalsKeep DEF OwnInv, NoSocketLeaks, ReplyIsBounded, InPublish, Writing,
    AwaitingReply, Dialling, publisherVars, localVars
<1>6. CASE PublishRefused
  BY <1>0, <1>6 DEF PublishRefused, OwnInv, NoSocketLeaks, ReplyIsBounded, InPublish,
    Writing, AwaitingReply, Dialling, publisherVars, localVars
<1>7. CASE PublishBegin
  <2>1. CASE stop
    <3>1. sock = None  BY <1>1, <1>7 DEF PublishBegin
    <3> QED  BY <1>7, <2>1, <3>1, CloseOwns DEF PublishBegin
  <2>2. CASE ~stop
    BY <1>0, <1>7, <2>2 DEF PublishBegin, OwnInv, NoSocketLeaks, ReplyIsBounded, InPublish,
      Writing, AwaitingReply, Dialling, publisherVars, None
  <2> QED  BY <2>1, <2>2
<1>8. CASE Send
  BY <1>8 DEF Send, OwnInv, NoSocketLeaks, ReplyIsBounded, InPublish, Writing,
    AwaitingReply, Dialling, publisherVars
<1>9. CASE ReplyAccepted
  <2>1. Len(pending') = 0  BY <1>9 DEF ReplyAccepted
  <2> QED
    BY <1>0, <1>1, <1>9, <2>1 DEF ReplyAccepted, Reading, OwnInv, NoSocketLeaks, ReplyIsBounded,
      InPublish, Writing, AwaitingReply, Dialling, localVars
<1>10. CASE Receive
  <2>1. PICK n \in 1 .. Len(inbox[fd]) :
          n <= RecvMax /\ pending' = pending \o SubSeq(inbox[fd], 1, n)
    BY <1>10, ReceiveCuts
  <2>2. inbox[fd] \in Seq(Pieces) /\ pending \in Seq(Pieces)
    BY <1>10, ReceiveCuts DEF TypeOK, OwnerOK, PeerOK
  <2>3. Len(pending') = Len(pending) + n
    BY <2>1, <2>2, Cut, Joined
  <2>4. Len(pending) <= ReplyLimit  BY <1>10 DEF Receive, OwnInv
  <2>5. ReplyIsBounded'
    BY <1>0, <2>1, <2>2, <2>3, <2>4, PiecesSeq DEF ReplyIsBounded
  <2> QED
    BY <1>10, <2>5 DEF Receive, OwnInv, NoSocketLeaks, InPublish, Writing,
      AwaitingReply, Dialling, localVars
<1>11. CASE \E s \in Sockets : Execute(s) \/ SendJunk(s)
  BY <1>11 DEF Execute, SendJunk, OwnInv, NoSocketLeaks, ReplyIsBounded, InPublish, Writing,
    AwaitingReply, Dialling, publisherVars, localVars
<1> QED
  BY <1>2, <1>3, <1>4, <1>5, <1>6, <1>7, <1>8, <1>9, <1>10, <1>11, NextCases

-------------------------------------------------------------------------------
(* Streams: what the steps that send nothing leave as it was. *)

LEMMA WireTyped ==
  ASSUME TypeOK, NEW s \in Sockets
  PROVE  /\ wire[s] \in Seq(Calls) /\ Length(s) \in Nat /\ parsed[s] \in Nat
         /\ inbox[s] \in Seq(Pieces)
         /\ \A i \in 1 .. Length(s) : wire[s][i] \in Nat /\ wire[s][i] \in Calls
<1>1. wire[s] \in Seq(Calls) /\ parsed[s] \in Nat /\ inbox[s] \in Seq(Pieces)
  BY DEF TypeOK, PeerOK
<1>2. Length(s) \in Nat  BY <1>1 DEF Length
<1>3. \A i \in 1 .. Length(s) : wire[s][i] \in Calls  BY <1>1 DEF Length
<1>4. \A k \in Calls : k \in Nat  BY DEF Calls
<1> QED  BY <1>1, <1>2, <1>3, <1>4

LEMMA BeforeMono ==
  ASSUME NEW m \in Nat, NEW n \in Nat, m <= n
  PROVE  Before(m) <= Before(n)
<1>1. Before(m) \in Nat /\ Before(n) \in Nat  BY BeforeNat
<1>2. CASE m = n  BY <1>1, <1>2
<1>3. CASE m < n
  <2>1. CommandLength \in Nat /\ Before(m) + CommandLength <= Before(n)
    BY <1>3, BeforeGrows, RedisAssumption
  <2> QED  BY <1>1, <2>1
<1> QED  BY <1>2, <1>3

\* The place of a command that was run lies in its stream.
LEMMA RanPlace ==
  ASSUME TypeOK, RanInv, NEW s \in Sockets, NEW n \in Nat, n < parsed[s]
  PROVE  Before(n) + 1 \in 1 .. Length(s) /\ Before(n) + 1 <= Before(parsed[s])
<1>1. parsed[s] \in Nat /\ Length(s) \in Nat  BY WireTyped
<1>2. Before(n) + CommandLength <= Before(parsed[s])  BY <1>1, BeforeGrows
<1>3. Before(parsed[s]) <= Length(s)  BY DEF RanInv
<1>4. Before(n) \in Nat /\ Before(parsed[s]) \in Nat  BY <1>1, BeforeNat
<1>5. CommandLength \in Nat \ {0}  BY RedisAssumption
<1> QED  BY <1>1, <1>2, <1>3, <1>4, <1>5

\* Nothing was run that was not called.
LEMMA ExecutedCalled ==
  ASSUME TypeOK, ApartInv, RanInv, NEW i \in DOMAIN executed
  PROVE  executed[i] <= call
<1>1. PICK s \in Sockets, n \in Nat : n < parsed[s] /\ executed[i] = wire[s][Before(n) + 1]
  BY DEF RanInv
<1>2. Before(n) + 1 \in 1 .. Length(s)  BY <1>1, RanPlace
<1> QED  BY <1>1, <1>2 DEF ApartInv

LEMMA QuietStep ==
  ASSUME Inv, TypeOK', UNCHANGED <<wire, parsed, executed, acked>>, call <= call',
         InPublish' => (InPublish /\ UNCHANGED <<fd, call>>) \/ call < call'
  PROVE  WholeInv' /\ ApartInv' /\ RanInv' /\ AckInv'
<1>1. \A s \in Sockets : Length(s)' = Length(s) /\ wire'[s] = wire[s]
  BY DEF Length
<1>2. call \in Nat /\ call' \in Nat  BY DEF Inv, TypeOK, OwnerOK
<1>3. WholeInv'  BY DEF Inv, WholeInv, Length, Before
<1>4. ApartInv'
  <2>1. \A s, t \in Sockets : s # t =>
          \A i \in 1 .. Length(s)', j \in 1 .. Length(t)' : wire'[s][i] # wire'[t][j]
    BY <1>1 DEF Inv, ApartInv
  <2>2. ASSUME NEW s \in Sockets, NEW i \in 1 .. Length(s)
        PROVE  wire[s][i] <= call' /\ (InPublish' /\ s # fd' => wire[s][i] < call')
    <3>1. wire[s][i] \in Nat /\ wire[s][i] <= call  BY WireTyped DEF Inv, ApartInv
    <3>2. InPublish /\ s # fd => wire[s][i] < call  BY DEF Inv, ApartInv
    <3> QED  BY <1>2, <3>1, <3>2
  <2> QED  BY <1>1, <2>1, <2>2 DEF ApartInv
<1>5. RanInv'  BY <1>1 DEF Inv, RanInv, Before
<1>6. AckInv'  BY DEF Inv, AckInv, ReplyMatchesCommand
<1> QED  BY <1>3, <1>4, <1>5, <1>6

\* The fresh sockets are those the process has not created, and the one it connects.
LEMMA FreshStep ==
  ASSUME Inv, UNCHANGED <<wire, parsed, inbox>>,
         \A s \in Sockets : s > sockets' \/ s = sock' => s > sockets \/ s = sock
  PROVE  FreshInv'
BY DEF Inv, FreshInv

\* A step that touches neither the connection nor its streams.
LEMMA StreamKept ==
  ASSUME Inv, UNCHANGED <<fd, wire, parsed, inbox, executed, pending, sent, call>>,
         InPublish' <=> InPublish
  PROVE  StreamInv'
<1>1. Length(fd)' = Length(fd)  BY DEF Length
<1>2. NotRunYet' <=> NotRunYet  BY <1>1 DEF NotRunYet, Before
<1>3. RunOnce' <=> RunOnce  BY <1>1 DEF RunOnce, Before, OneReply, HasLine
<1> QED  BY <1>1, <1>2, <1>3 DEF Inv, StreamInv, Before

\* A fresh socket starts clean.
LEMMA StreamFresh ==
  ASSUME Inv, UNCHANGED <<wire, parsed, inbox>>, ~InPublish', fd' \in Sockets,
         fd' > sockets \/ fd' = sock
  PROVE  StreamInv'
<1>1. wire[fd'] = <<>> /\ parsed[fd'] = 0 /\ NoiseOnly(inbox[fd'])  BY DEF Inv, FreshInv
<1>2. Len(wire'[fd']) = 0 /\ Before(parsed'[fd']) = 0  BY <1>1, BeforeZero
<1>3. Length(fd)' = 0 /\ Before(parsed[fd])' = 0  BY <1>2 DEF Length, Before
<1> QED  BY <1>1, <1>3 DEF StreamInv

-------------------------------------------------------------------------------
(* The steps of the publisher. *)

LEMMA ConnectsStep == Inv /\ TypeOK' /\ OwnInv' /\ Connects => Inv'
<1> SUFFICES ASSUME Inv, TypeOK', OwnInv', Connects PROVE Inv'
  OBVIOUS
<1>1. /\ UNCHANGED <<sent, call, acked, wire, inbox, parsed, executed>>
      /\ ~InPublish /\ ~InPublish'
  BY ConnectsKeeps DEF peerVars, InPublish, Writing, AwaitingReply
<1>2. call \in Nat /\ sockets \in Nat /\ sock \in Nat
  BY DEF Inv, TypeOK, OwnerOK, Sockets, None
<1>3. WholeInv' /\ ApartInv' /\ RanInv' /\ AckInv'  BY <1>1, <1>2, QuietStep
<1>4. FreshInv'
  <2>1. \/ sock' = sock /\ sockets' = sockets
        \/ sock' = None /\ sockets' \in {sockets, sockets + 1}
        \/ sock' = sockets + 1 /\ sockets' = sockets + 1
    BY DEF Connects, Close, ConnectBegin, GiveUpConnecting, CandidateFails,
      CandidateInProgress, CandidateConnectsAtOnce, ConnectInterrupted, ConnectWaits,
      ConnectPollAgain, ConnectPollFails, Established, Adopt, TryingCandidate, localVars
  <2>2. \A s \in Sockets : s > sockets' \/ s = sock' => s > sockets \/ s = sock
    BY <1>2, <2>1 DEF Sockets, None
  <2> QED  BY <1>1, <2>2, FreshStep
<1>5. StreamInv'
  <2>1. \/ fd' \in {None, sock, sockets + 1}
        \/ fd' = fd /\ pending' = pending
    BY DEF Connects, Close, ConnectBegin, CloseConnection, GiveUpConnecting, CandidateFails,
      CandidateInProgress, CandidateConnectsAtOnce, ConnectInterrupted, ConnectWaits,
      ConnectPollAgain, ConnectPollFails, Established, Adopt, TryingCandidate, publisherVars
  <2>2. fd' \in Sockets \cup {None}  BY DEF TypeOK, OwnerOK
  <2>3. CASE fd' = None  BY <2>3 DEF StreamInv
  <2>4. CASE fd' = fd /\ pending' = pending  BY <1>1, <2>4, StreamKept
  <2>5. CASE fd' # None /\ (fd' = sock \/ fd' = sockets + 1)
    BY <1>1, <1>2, <2>2, <2>5, StreamFresh
  <2> QED  BY <2>1, <2>3, <2>4, <2>5
<1> QED  BY <1>3, <1>4, <1>5 DEF Inv

LEMMA WaitsStep == Inv /\ TypeOK' /\ OwnInv' /\ (Waits \/ Signals) => Inv'
<1> SUFFICES ASSUME Inv, TypeOK', OwnInv', Waits \/ Signals PROVE Inv'
  OBVIOUS
<1>1. /\ UNCHANGED <<fd, pending, sock, sockets, sent, call, acked, wire, inbox, parsed,
                     executed>>
      /\ InPublish' <=> InPublish
  BY WaitsKeeps, SignalsKeep DEF publisherVars, localVars, peerVars, InPublish, Writing,
    AwaitingReply
<1>2. call \in Nat  BY DEF Inv, TypeOK, OwnerOK
<1>3. WholeInv' /\ ApartInv' /\ RanInv' /\ AckInv'  BY <1>1, <1>2, QuietStep
<1>4. FreshInv' /\ StreamInv'  BY <1>1, FreshStep, StreamKept
<1> QED  BY <1>3, <1>4 DEF Inv

LEMMA FailsStep == Inv /\ TypeOK' /\ OwnInv' /\ Fails => Inv'
<1> SUFFICES ASSUME Inv, TypeOK', OwnInv', Fails PROVE Inv'
  OBVIOUS
<1>1. /\ UNCHANGED <<sock, sockets, call, acked, wire, inbox, parsed, executed>>
      /\ ~InPublish' /\ fd' = None
  BY FailsKeeps DEF FailPublish, CloseConnection, localVars, peerVars, InPublish, Writing,
    AwaitingReply
<1>2. call \in Nat  BY DEF Inv, TypeOK, OwnerOK
<1>3. WholeInv' /\ ApartInv' /\ RanInv' /\ AckInv'  BY <1>1, <1>2, QuietStep
<1>4. FreshInv'  BY <1>1, FreshStep
<1>5. StreamInv'  BY <1>1 DEF StreamInv
<1> QED  BY <1>3, <1>4, <1>5 DEF Inv

\* A call that begins finds the stream ending with a whole command of an earlier call.
LEMMA BeginStep == Inv /\ TypeOK' /\ OwnInv' /\ (PublishRefused \/ PublishBegin) => Inv'
<1> SUFFICES ASSUME Inv, TypeOK', OwnInv', PublishRefused \/ PublishBegin PROVE Inv'
  OBVIOUS
<1>1. /\ UNCHANGED <<sock, sockets, acked, wire, inbox, parsed, executed>>
      /\ call' = call + 1 /\ ~InPublish
  BY DEF PublishRefused, PublishBegin, localVars, peerVars, InPublish, Writing,
    AwaitingReply
<1>2. call \in Nat  BY DEF Inv, TypeOK, OwnerOK
<1>3. WholeInv' /\ ApartInv' /\ RanInv' /\ AckInv'  BY <1>1, <1>2, QuietStep
<1>4. FreshInv'  BY <1>1, FreshStep
<1>5. StreamInv'
  <2>1. CASE fd' = None  BY <2>1 DEF StreamInv
  <2>2. CASE fd' # None
    <3>1. fd' = fd /\ fd \in Sockets /\ pending' = pending
      BY <2>2 DEF PublishRefused, PublishBegin, CloseConnection, publisherVars, Inv, TypeOK,
        OwnerOK
    <3>2. Before(parsed[fd]) = Length(fd) /\ NoiseOnly(inbox[fd])
      BY <1>1, <3>1 DEF Inv, StreamInv, Sockets, None
    <3>3. pending = <<>> /\ NoiseOnly(pending)
      BY <1>1 DEF Inv, OwnInv, InPublish, NoiseOnly
    <3>4. Length(fd)' = Length(fd) /\ Before(parsed[fd])' = Before(parsed[fd])
      BY <1>1, <3>1 DEF Length, Before
    <3>5. CASE ~InPublish'
      BY <1>1, <3>1, <3>2, <3>4, <3>5 DEF StreamInv
    <3>6. CASE InPublish'
      <4>1. sent' = 0
        BY <1>1, <3>6 DEF PublishRefused, PublishBegin, InPublish, Writing, AwaitingReply
      <4>2. Length(fd) \in Nat /\ \A i \in 1 .. Length(fd) : wire[fd][i] < call'
        <5>1. \A i \in 1 .. Length(fd) : wire[fd][i] <= call /\ wire[fd][i] \in Nat
          BY <3>1, WireTyped DEF Inv, ApartInv
        <5> QED  BY <1>1, <1>2, <3>1, <5>1, WireTyped DEF Inv
      <4>3. NotRunYet'
        BY <1>1, <3>1, <3>2, <3>3, <3>4, <4>1, <4>2 DEF NotRunYet
      <4>4. \A i \in 1 .. Length(fd)' :
              IF i + sent' <= Length(fd)' THEN wire'[fd'][i] < call' ELSE wire'[fd'][i] = call'
        BY <1>1, <3>1, <3>4, <4>1, <4>2
      <4> QED  BY <3>6, <4>3, <4>4 DEF StreamInv
    <3> QED  BY <3>5, <3>6
  <2> QED  BY <2>1, <2>2
<1> QED  BY <1>3, <1>4, <1>5 DEF Inv

-------------------------------------------------------------------------------
(* Send: the command at the end of the stream of fd grows. *)

\* Before the peer has run the current command, its pieces are those after the commands run.
LEMMA CurrentCommand ==
  ASSUME Inv, InPublish, NotRunYet, fd \in Sockets
  PROVE  /\ Before(parsed[fd]) \in Nat /\ Length(fd) = Before(parsed[fd]) + sent
         /\ \A i \in 1 .. Length(fd) :
              IF i <= Before(parsed[fd]) THEN wire[fd][i] < call ELSE wire[fd][i] = call
<1>1. parsed[fd] \in Nat /\ Length(fd) \in Nat /\ sent \in Nat
  BY WireTyped DEF Inv, TypeOK, OwnerOK
<1>2. Before(parsed[fd]) \in Nat  BY <1>1, BeforeNat
<1>3. Length(fd) = Before(parsed[fd]) + sent  BY DEF NotRunYet
<1>4. fd # None  BY DEF Sockets, None
<1>5. \A i \in 1 .. Length(fd) :
        IF i + sent <= Length(fd) THEN wire[fd][i] < call ELSE wire[fd][i] = call
  BY <1>4 DEF Inv, StreamInv
<1> QED  BY <1>1, <1>2, <1>3, <1>5

LEMMA SendStep == Inv /\ TypeOK' /\ OwnInv' /\ Send => Inv'
<1> SUFFICES ASSUME Inv, TypeOK', OwnInv', Send PROVE Inv'
  OBVIOUS
<1> DEFINE p == parsed[fd]
           L == Length(fd)
<1>1. fd \in Sockets /\ call \in Calls /\ call \in Nat /\ fd # None
  BY SendAdds DEF Inv, Calls, Sockets, None
<1>2. PICK n \in 1 .. CommandLength - sent :
        /\ sent' = sent + n
        /\ \A s \in Sockets : s # fd => wire'[s] = wire[s]
        /\ Len(wire'[fd]) = Len(wire[fd]) + n
        /\ \A i \in 1 .. Len(wire[fd]) + n :
             wire'[fd][i] = IF i <= Len(wire[fd]) THEN wire[fd][i] ELSE call
  BY SendAdds DEF Inv
<1>3. /\ UNCHANGED <<fd, pending, sock, sockets, call, acked, inbox, parsed, executed>>
      /\ InPublish /\ InPublish' /\ sent < CommandLength
  BY DEF Send, publisherVars, peerVars, InPublish, Writing, AwaitingReply, Inv, OwnInv
<1>4. /\ CommandLength \in Nat /\ sent \in Nat /\ n \in Nat
      /\ sent + n <= CommandLength /\ L \in Nat /\ p \in Nat
  BY <1>1, <1>2, WireTyped, RedisAssumption DEF Inv, TypeOK, OwnerOK
<1>5. NotRunYet
  BY <1>1, <1>3, <1>4 DEF Inv, StreamInv, RunOnce
<1>6. /\ Before(p) \in Nat /\ L = Before(p) + sent
      /\ \A i \in 1 .. L : IF i <= Before(p) THEN wire[fd][i] < call ELSE wire[fd][i] = call
  BY <1>1, <1>3, <1>5, CurrentCommand
<1>7. /\ Len(wire'[fd]) = L + n /\ Length(fd)' = L + n
      /\ \A i \in 1 .. L : wire'[fd][i] = wire[fd][i]
      /\ \A i \in 1 .. L + n :
           IF i <= Before(p) THEN wire'[fd][i] < call ELSE wire'[fd][i] = call
  <2>1. Len(wire'[fd]) = L + n /\ Length(fd)' = L + n  BY <1>2, <1>3 DEF Length
  <2>2. \A i \in 1 .. L + n : wire'[fd][i] = IF i <= L THEN wire[fd][i] ELSE call
    BY <1>2 DEF Length
  <2>3. \A i \in 1 .. L : wire'[fd][i] = wire[fd][i]  BY <1>4, <2>2
  <2>4. ASSUME NEW i \in 1 .. L + n
        PROVE  IF i <= Before(p) THEN wire'[fd][i] < call ELSE wire'[fd][i] = call
    <3>1. CASE i <= L  BY <1>4, <1>6, <2>3, <3>1
    <3>2. CASE ~(i <= L)  BY <1>4, <1>6, <2>2, <3>2
    <3> QED  BY <3>1, <3>2
  <2> QED  BY <2>1, <2>3, <2>4
<1>8. \A s \in Sockets : s # fd => Len(wire'[s]) = Length(s) /\ wire'[s] = wire[s]
  BY <1>2 DEF Length
<1> HIDE DEF L, p
<1>9. WholeInv'
  <2>1. /\ p + 1 \in Nat /\ Before(p + 1) \in Nat
        /\ Before(p + 1) = Before(p) + CommandLength
    BY <1>4, BeforeNat, BeforeNext
  <2>2. L + n <= Before(p + 1)  BY <1>4, <1>6, <2>1
  <2>3. ASSUME NEW m \in Nat, NEW i \in 1 .. L + n, NEW j \in 1 .. L + n,
               Before(m) < i, i <= Before(m + 1), Before(m) < j, j <= Before(m + 1)
        PROVE  wire'[fd][i] = wire'[fd][j]
    <3>0. m + 1 \in Nat /\ Before(m) \in Nat /\ Before(m + 1) \in Nat  BY BeforeNat
    <3>1. CASE m < p
      <4>1. Before(m + 1) <= Before(p)  BY <1>4, <3>1, BeforeMono
      <4>2. i \in 1 .. L /\ j \in 1 .. L  BY <1>4, <1>6, <2>3, <3>0, <4>1
      <4> QED  BY <1>1, <1>7, <2>3, <4>2 DEF Inv, WholeInv, L
    <3>2. CASE m = p
      BY <1>7, <2>3, <3>2, <1>6, <3>0
    <3>3. CASE m > p
      <4>1. Before(p + 1) <= Before(m)  BY <1>4, <3>3, BeforeMono
      <4> QED  BY <1>4, <2>1, <2>2, <2>3, <3>0, <4>1
    <3> QED  BY <1>4, <3>1, <3>2, <3>3
  <2>4. ASSUME NEW m \in Nat, NEW i \in 1 .. L + n, NEW j \in 1 .. L + n,
               i <= Before(m), Before(m) < j
        PROVE  wire'[fd][i] < wire'[fd][j]
    <3>0. Before(m) \in Nat  BY BeforeNat
    <3>1. CASE j <= Before(p)
      <4>1. i \in 1 .. L /\ j \in 1 .. L  BY <1>4, <1>6, <2>4, <3>0, <3>1
      <4> QED  BY <1>1, <1>7, <2>4, <4>1 DEF Inv, WholeInv, L
    <3>2. CASE Before(p) < j /\ i <= Before(p)
      <4>1. ~(j <= Before(p))  BY <1>6, <3>2
      <4>2. wire'[fd][i] < call  BY <1>7, <3>2
      <4>3. wire'[fd][j] = call  BY <1>7, <4>1
      <4> QED  BY <4>2, <4>3
    <3>3. CASE Before(p) < j /\ Before(p) < i
      <4>1. Before(p) < Before(m)  BY <1>6, <2>4, <3>0, <3>3
      <4>2. p < m
        <5>1. CASE m <= p
          <6>1. Before(m) <= Before(p)  BY <1>4, <5>1, BeforeMono
          <6> QED  BY <1>6, <3>0, <4>1, <6>1
        <5> QED  BY <1>4, <5>1
      <4>3. Before(p + 1) <= Before(m)  BY <1>4, <4>2, BeforeMono
      <4> QED  BY <1>4, <2>1, <2>2, <2>4, <3>0, <4>3
    <3> QED  BY <1>6, <3>1, <3>2, <3>3
  <2>5. ASSUME NEW s \in Sockets, NEW m \in Nat,
               NEW i \in 1 .. Len(wire'[s]), NEW j \in 1 .. Len(wire'[s])
        PROVE  /\ (/\ Before(m) < i /\ i <= Before(m + 1)
                   /\ Before(m) < j /\ j <= Before(m + 1))
                     => wire'[s][i] = wire'[s][j]
               /\ (i <= Before(m) /\ Before(m) < j) => wire'[s][i] < wire'[s][j]
    <3>1. CASE s # fd
      <4>1. i \in 1 .. Length(s) /\ j \in 1 .. Length(s) /\ wire'[s] = wire[s]
        BY <1>8, <3>1
      <4> QED  BY <4>1 DEF Inv, WholeInv
    <3>2. CASE s = fd
      <4>1. i \in 1 .. L + n /\ j \in 1 .. L + n  BY <1>7, <3>2
      <4> QED  BY <2>3, <2>4, <3>2, <4>1
    <3> QED  BY <3>1, <3>2
  <2> QED  BY <2>5 DEF WholeInv, Before, Length
<1>10. ApartInv'
  <2>1. ASSUME NEW s \in Sockets, s # fd, NEW i \in 1 .. Length(s)
        PROVE  wire[s][i] \in Nat /\ wire[s][i] < call
    BY <1>3, <2>1, WireTyped DEF Inv, ApartInv
  <2>2. ASSUME NEW s \in Sockets, s # fd,
               NEW i \in 1 .. L + n, NEW j \in 1 .. Length(s)
        PROVE  wire'[fd][i] # wire[s][j]
    <3>1. CASE i <= L
      <4>1. i \in 1 .. Length(fd)  BY <1>4, <3>1 DEF L
      <4> QED  BY <1>1, <1>7, <2>2, <4>1 DEF Inv, ApartInv, L
    <3>2. CASE ~(i <= L)
      <4>1. wire'[fd][i] = call  BY <1>4, <1>6, <1>7, <3>2
      <4> QED  BY <1>1, <2>1, <2>2, <4>1
    <3> QED  BY <3>1, <3>2
  <2>3. ASSUME NEW s \in Sockets, NEW t \in Sockets, s # t,
               NEW i \in 1 .. Len(wire'[s]), NEW j \in 1 .. Len(wire'[t])
        PROVE  wire'[s][i] # wire'[t][j]
    <3>1. CASE s = fd  BY <1>7, <1>8, <2>2, <2>3, <3>1
    <3>2. CASE t = fd  BY <1>7, <1>8, <2>2, <2>3, <3>2
    <3>3. CASE s # fd /\ t # fd  BY <1>8, <2>3, <3>3 DEF Inv, ApartInv
    <3> QED  BY <3>1, <3>2, <3>3
  <2>4. ASSUME NEW s \in Sockets, NEW i \in 1 .. Len(wire'[s])
        PROVE  wire'[s][i] <= call /\ (s # fd => wire'[s][i] < call)
    <3>1. CASE s = fd
      <4>1. i \in 1 .. L + n  BY <1>7, <3>1
      <4>2. CASE i <= Before(p)
        <5>1. i \in 1 .. Length(fd)  BY <1>4, <1>6, <4>1, <4>2 DEF L
        <5>2. wire[fd][i] \in Nat /\ wire'[fd][i] = wire[fd][i]
          BY <1>1, <1>7, <5>1, WireTyped DEF Inv, L
        <5> QED  BY <1>1, <1>7, <3>1, <4>1, <4>2, <5>2
      <4>3. CASE ~(i <= Before(p))  BY <1>1, <1>7, <3>1, <4>1, <4>3
      <4> QED  BY <4>2, <4>3
    <3>2. CASE s # fd  BY <1>1, <1>8, <2>1, <3>2
    <3> QED  BY <3>1, <3>2
  <2> QED  BY <1>3, <2>3, <2>4 DEF ApartInv, Length
<1>11. RanInv' /\ AckInv'
  <2>1. ASSUME NEW s \in Sockets
        PROVE  Before(parsed[s]) <= Len(wire'[s]) /\ Length(s) <= Len(wire'[s])
    <3>1. Before(parsed[s]) \in Nat /\ Length(s) \in Nat
      BY WireTyped, BeforeNat DEF Inv
    <3>2. Before(parsed[s]) <= Length(s)  BY DEF Inv, RanInv
    <3>3. Len(wire'[s]) = Length(s) \/ Len(wire'[s]) = Length(s) + n  BY <1>7, <1>8 DEF L
    <3> QED  BY <1>4, <3>1, <3>2, <3>3
  <2>2. ASSUME NEW s \in Sockets, NEW m \in Nat, m < parsed[s]
        PROVE  wire'[s][Before(m) + 1] = wire[s][Before(m) + 1]
    <3>1. Before(m) + 1 \in 1 .. Length(s)  BY <2>2, RanPlace DEF Inv
    <3> QED  BY <1>7, <1>8, <3>1 DEF L
  <2>3. ASSUME NEW i \in DOMAIN executed
        PROVE  \E s \in Sockets : \E m \in Nat :
                 m < parsed[s] /\ executed[i] = wire'[s][Before(m) + 1]
    <3>1. PICK s \in Sockets, m \in Nat :
            m < parsed[s] /\ executed[i] = wire[s][Before(m) + 1]
      BY DEF Inv, RanInv
    <3> QED  BY <2>2, <3>1
  <2>4. RanInv'
    BY <1>3, <2>1, <2>3 DEF Inv, RanInv, Before, Length
  <2> QED  BY <1>3, <2>4 DEF Inv, AckInv, ReplyMatchesCommand
<1>12. FreshInv'
  <2>1. \A s \in Sockets : s > sockets \/ s = sock => s # fd
    BY <1>1, <1>3 DEF Inv, OwnInv, NoSocketLeaks, TypeOK, OwnerOK, Sockets, None
  <2> QED  BY <1>3, <1>8, <2>1 DEF Inv, FreshInv
<1>13. StreamInv'
  <2>1. NotRunYet'
    BY <1>1, <1>2, <1>3, <1>4, <1>5, <1>6, <1>7 DEF NotRunYet, Before, p
  <2>2. \A i \in 1 .. Length(fd)' :
          IF i + sent' <= Length(fd)' THEN wire'[fd'][i] < call' ELSE wire'[fd'][i] = call'
    <3>1. ASSUME NEW i \in 1 .. L + n
          PROVE  i + (sent + n) <= L + n <=> i <= Before(p)
      BY <1>4, <1>6
    <3> QED  BY <1>2, <1>3, <1>7, <3>1
  <2> QED  BY <1>3, <2>1, <2>2 DEF StreamInv
<1> QED  BY <1>9, <1>10, <1>11, <1>12, <1>13 DEF Inv

-------------------------------------------------------------------------------
(* Receive and the reply. *)

LEMMA ReceiveStep == Inv /\ TypeOK' /\ OwnInv' /\ Receive => Inv'
<1> SUFFICES ASSUME Inv, TypeOK', OwnInv', Receive PROVE Inv'
  OBVIOUS
<1>1. /\ UNCHANGED <<fd, sock, sockets, sent, call, acked, wire, parsed, executed>>
      /\ InPublish /\ InPublish'
  BY DEF Receive, localVars, peerVars, InPublish, AwaitingReply
<1>2. PICK n \in 1 .. Len(inbox[fd]) :
        /\ pending' = pending \o SubSeq(inbox[fd], 1, n)
        /\ inbox' = [inbox EXCEPT ![fd] = SubSeq(@, n + 1, Len(@))]
  BY ReceiveCuts DEF Inv
<1>3. fd \in Sockets /\ fd # None /\ call \in Nat
  BY ReceiveCuts DEF Inv, Sockets, None, TypeOK, OwnerOK
<1>4. WholeInv' /\ ApartInv' /\ RanInv' /\ AckInv'
  BY <1>1, <1>3, QuietStep DEF Inv
<1>5. \A s \in Sockets : s # fd => inbox'[s] = inbox[s]
  BY <1>2, <1>3 DEF Inv, TypeOK, PeerOK
<1>6. FreshInv'
  <2>1. \A s \in Sockets : s > sockets \/ s = sock => s # fd
    BY <1>3 DEF Inv, OwnInv, NoSocketLeaks, TypeOK, OwnerOK, Sockets, None
  <2> QED  BY <1>1, <1>5, <2>1 DEF Inv, FreshInv
<1> DEFINE q == inbox[fd]
           k == Len(pending)
<1>7. /\ q \in Seq(Pieces) /\ pending \in Seq(Pieces) /\ k \in Nat /\ Len(q) \in Nat
      /\ n \in Nat /\ n <= Len(q)
  BY <1>3, PiecesSeq DEF Inv, TypeOK, OwnerOK, PeerOK
<1>8. /\ DOMAIN pending = 1 .. k /\ DOMAIN q = 1 .. Len(q)
      /\ DOMAIN pending' = 1 .. k + n /\ DOMAIN inbox'[fd] = 1 .. Len(q) - n
      /\ \A i \in 1 .. k + n : pending'[i] = IF i <= k THEN pending[i] ELSE q[i - k]
      /\ \A i \in 1 .. Len(q) - n : inbox'[fd][i] = q[n + i]
  <2>1. /\ SubSeq(q, 1, n) \in Seq(Pieces) /\ Len(SubSeq(q, 1, n)) = n
        /\ \A i \in 1 .. n : SubSeq(q, 1, n)[i] = q[i]
        /\ SubSeq(q, n + 1, Len(q)) \in Seq(Pieces)
        /\ Len(SubSeq(q, n + 1, Len(q))) = Len(q) - n
        /\ \A i \in 1 .. Len(q) - n : SubSeq(q, n + 1, Len(q))[i] = q[n + i]
    BY <1>7, Cut
  <2>2. /\ pending' \in Seq(Pieces) /\ Len(pending') = k + n
        /\ \A i \in 1 .. k + n :
             pending'[i] = IF i <= k THEN pending[i] ELSE SubSeq(q, 1, n)[i - k]
    BY <1>2, <1>7, <2>1, Joined
  <2>3. \A i \in 1 .. k + n : pending'[i] = IF i <= k THEN pending[i] ELSE q[i - k]
    BY <1>7, <2>1, <2>2
  <2>4. inbox'[fd] = SubSeq(q, n + 1, Len(q))
    BY <1>2, <1>3 DEF Inv, TypeOK, PeerOK
  <2> QED  BY <1>7, <2>1, <2>2, <2>3, <2>4, PiecesSeq
<1> HIDE DEF q, k
<1>9. Length(fd)' = Length(fd) /\ Before(parsed[fd])' = Before(parsed[fd])
  BY <1>1 DEF Length, Before
<1>10. NotRunYet => NotRunYet'
  <2> SUFFICES ASSUME NotRunYet PROVE NotRunYet'
    OBVIOUS
  <2>1. NoiseOnly(pending) /\ NoiseOnly(q)  BY DEF NotRunYet, q
  <2>2. NoiseOnly(pending')
    <3> SUFFICES ASSUME NEW i \in 1 .. k + n PROVE Noise(pending'[i])
      BY <1>8 DEF NoiseOnly
    <3>1. CASE i <= k
      <4>1. i \in 1 .. k /\ pending'[i] = pending[i]  BY <1>7, <1>8, <3>1
      <4> QED  BY <1>8, <2>1, <4>1 DEF NoiseOnly
    <3>2. CASE ~(i <= k)
      <4>1. i - k \in 1 .. Len(q)  BY <1>7, <3>2
      <4> QED  BY <1>8, <2>1, <3>2, <4>1 DEF NoiseOnly
    <3> QED  BY <3>1, <3>2
  <2>3. NoiseOnly(inbox'[fd])
    <3> SUFFICES ASSUME NEW i \in 1 .. Len(q) - n PROVE Noise(inbox'[fd][i])
      BY <1>8 DEF NoiseOnly
    <3>1. n + i \in 1 .. Len(q)  BY <1>7
    <3> QED  BY <1>8, <2>1, <3>1 DEF NoiseOnly
  <2> QED  BY <1>1, <1>9, <2>2, <2>3 DEF NotRunYet
<1>11. RunOnce => RunOnce'
  <2> SUFFICES ASSUME RunOnce PROVE RunOnce'
    OBVIOUS
  <2>1. /\ OneReply(pending) /\ OneReply(q)
        /\ \A i \in 1 .. k : pending[i].end => NoiseOnly(q)
    BY <1>8 DEF RunOnce, HasLine, q
  <2>2. \A i \in 1 .. k + n : \/ i \in 1 .. k /\ pending'[i] = pending[i]
                              \/ i - k \in 1 .. n /\ pending'[i] = q[i - k]
    BY <1>7, <1>8
  <2>3. \A i \in 1 .. n : i \in 1 .. Len(q)  BY <1>7
  <2>4. \A i \in 1 .. k + n :
          \/ Noise(pending'[i])
          \/ pending'[i].kind # "junk" /\ pending'[i].call = call
    BY <1>8, <2>1, <2>2, <2>3 DEF OneReply
  <2>5. ASSUME NEW i \in 1 .. k + n, NEW j \in 1 .. k + n, i < j, pending'[i].end
        PROVE  Noise(pending'[j])
    <3>1. CASE i \in 1 .. k /\ j \in 1 .. k
      <4>1. pending'[i] = pending[i] /\ pending'[j] = pending[j]
        BY <1>7, <1>8, <3>1
      <4> QED  BY <1>8, <2>1, <2>5, <3>1, <4>1 DEF OneReply
    <3>2. CASE i \in 1 .. k /\ j - k \in 1 .. n
      <4>1. pending'[i] = pending[i] /\ pending'[j] = q[j - k]
        BY <1>7, <1>8, <3>2
      <4> QED  BY <1>8, <2>1, <2>3, <2>5, <3>2, <4>1 DEF NoiseOnly
    <3>3. CASE i - k \in 1 .. n /\ j - k \in 1 .. n
      <4>1. pending'[i] = q[i - k] /\ pending'[j] = q[j - k] /\ i - k < j - k
        BY <1>7, <1>8, <2>5, <3>3
      <4> QED  BY <1>8, <2>1, <2>3, <2>5, <3>3, <4>1 DEF OneReply
    <3> QED  BY <1>7, <2>5, <3>1, <3>2, <3>3
  <2>6. OneReply(pending)'
    BY <1>1, <1>8, <2>4, <2>5 DEF OneReply
  <2>7. \A i \in 1 .. Len(q) - n : n + i \in 1 .. Len(q)  BY <1>7
  <2>8. \A i, j \in 1 .. Len(q) - n : i < j => n + i < n + j  BY <1>7
  <2>9. OneReply(inbox[fd])'
    <3>1. \A i \in 1 .. Len(q) - n :
            \/ Noise(inbox'[fd][i])
            \/ inbox'[fd][i].kind # "junk" /\ inbox'[fd][i].call = call
      BY <1>8, <2>1, <2>7 DEF OneReply
    <3>2. \A i, j \in 1 .. Len(q) - n : i < j /\ inbox'[fd][i].end => Noise(inbox'[fd][j])
      BY <1>8, <2>1, <2>7, <2>8 DEF OneReply
    <3> QED  BY <1>1, <1>8, <3>1, <3>2 DEF OneReply
  <2>10. HasLine' => NoiseOnly(inbox[fd])'
    <3> SUFFICES ASSUME NEW e \in 1 .. k + n, pending'[e].end,
                        NEW i \in 1 .. Len(q) - n
                 PROVE  Noise(inbox'[fd][i])
      BY <1>1, <1>8 DEF HasLine, NoiseOnly
    <3>1. inbox'[fd][i] = q[n + i]  BY <1>8
    <3>2. CASE e \in 1 .. k
      <4>1. pending'[e] = pending[e]  BY <1>7, <1>8, <3>2
      <4> QED  BY <1>8, <2>1, <2>7, <3>1, <3>2, <4>1 DEF NoiseOnly
    <3>3. CASE e - k \in 1 .. n
      <4>1. pending'[e] = q[e - k]  BY <1>7, <1>8, <3>3
      <4>2. e - k < n + i  BY <1>7, <3>3
      <4> QED  BY <1>8, <2>1, <2>3, <2>7, <3>1, <3>3, <4>1, <4>2 DEF OneReply
    <3> QED  BY <1>7, <3>2, <3>3
  <2> QED  BY <1>1, <1>9, <2>6, <2>9, <2>10 DEF RunOnce
<1>12. StreamInv'
  BY <1>1, <1>3, <1>9, <1>10, <1>11 DEF Inv, StreamInv, Length
<1> QED  BY <1>4, <1>6, <1>12 DEF Inv

\* The reply that is accepted leaves the connection clean, and its command was run last.
LEMMA ReplyStep == Inv /\ TypeOK' /\ OwnInv' /\ ReplyAccepted => Inv'
<1> SUFFICES ASSUME Inv, TypeOK', OwnInv', ReplyAccepted PROVE Inv'
  OBVIOUS
<1>1. /\ UNCHANGED <<fd, sock, sockets, sent, call, wire, inbox, parsed, executed>>
      /\ ~InPublish'
  BY DEF ReplyAccepted, localVars, peerVars, InPublish, Writing, AwaitingReply
<1>2. /\ fd \in Sockets /\ call \in Calls /\ acked' = acked \cup {<<call, call>>}
      /\ RunOnce /\ HasLine
  BY ReplyRead DEF Inv
<1>3. WholeInv' /\ ApartInv' /\ RanInv'
  <2>1. WholeInv'  BY <1>1 DEF Inv, WholeInv, Length, Before
  <2>2. ApartInv'  BY <1>1 DEF Inv, ApartInv, Length
  <2>3. RanInv'  BY <1>1 DEF Inv, RanInv, Length, Before
  <2> QED  BY <2>1, <2>2, <2>3
<1>4. AckInv'
  <2>1. PICK i \in DOMAIN executed : executed[i] = call  BY <1>2 DEF RunOnce
  <2>2. executed \in Seq(Calls)  BY DEF Inv, TypeOK, PeerOK
  <2>3. \A j \in 1 .. i : executed[j] <= call
    <3>1. \A j \in 1 .. i : j \in DOMAIN executed  BY <2>1, <2>2
    <3> QED  BY <3>1, ExecutedCalled DEF Inv
  <2>4. \A a \in acked' : \E m \in DOMAIN executed :
          executed[m] = a[1] /\ \A j \in 1 .. m : executed[j] <= a[1]
    BY <1>2, <2>1, <2>3 DEF Inv, AckInv
  <2>5. ReplyMatchesCommand'  BY <1>2 DEF Inv, AckInv, ReplyMatchesCommand
  <2> QED  BY <1>1, <2>4, <2>5 DEF AckInv
<1>5. FreshInv'  BY <1>1, FreshStep
<1>6. StreamInv'
  BY <1>1, <1>2 DEF RunOnce, StreamInv, Length, Before
<1> QED  BY <1>3, <1>4, <1>5, <1>6 DEF Inv

-------------------------------------------------------------------------------
(* The peer. *)

\* On a socket that is connected or being connected, the peer has nothing to run but the
\* current command, whole and on fd.
LEMMA RunsCurrent ==
  ASSUME Inv, NEW s \in Sockets, Execute(s), s \in opened \/ s = fd
  PROVE  /\ s = fd /\ InPublish /\ NotRunYet /\ sent = CommandLength
         /\ wire[s][Before(parsed[s]) + 1] = call
         /\ Before(parsed[s]) + CommandLength = Length(s)
<1>1. /\ Before(parsed[s]) \in Nat /\ Length(s) \in Nat
      /\ Before(parsed[s]) + CommandLength <= Length(s)
      /\ Before(parsed[s]) + 1 \in 1 .. Length(s)
  BY ExecuteAdds, WireTyped, BeforeNat DEF Inv
<1>2. CommandLength \in Nat \ {0} /\ sent \in 0 .. CommandLength
  BY RedisAssumption DEF Inv, TypeOK, OwnerOK
<1>3. s # sock
  <2>1. wire[s] # <<>>  BY <1>1, <1>2 DEF Length
  <2> QED  BY <2>1 DEF Inv, FreshInv
<1>4. s = fd /\ fd # None
  BY <1>3 DEF Inv, OwnInv, NoSocketLeaks, Sockets, None
<1>5. Before(parsed[fd]) # Length(fd)  BY <1>1, <1>2, <1>4
<1>6. InPublish /\ NotRunYet  BY <1>4, <1>5 DEF Inv, StreamInv, RunOnce
<1>7. sent = CommandLength /\ Before(parsed[s]) + CommandLength = Length(s)
  BY <1>1, <1>2, <1>4, <1>6 DEF NotRunYet
<1>8. wire[s][Before(parsed[s]) + 1] = call
  BY <1>1, <1>4, <1>6, CurrentCommand
<1> QED  BY <1>4, <1>6, <1>7, <1>8

\* The command that is run was not run before.
LEMMA RunsNew ==
  ASSUME Inv, NEW s \in Sockets, Execute(s), NEW i \in DOMAIN executed
  PROVE  executed[i] # wire[s][Before(parsed[s]) + 1]
<1> DEFINE e == Before(parsed[s]) + 1
<1>1. e \in 1 .. Length(s) /\ parsed[s] \in Nat /\ Before(parsed[s]) \in Nat
  BY ExecuteAdds, WireTyped, BeforeNat DEF Inv
<1>2. PICK t \in Sockets, n \in Nat : n < parsed[t] /\ executed[i] = wire[t][Before(n) + 1]
  BY DEF Inv, RanInv
<1>3. Before(n) + 1 \in 1 .. Length(t) /\ Before(n) + 1 <= Before(parsed[t])
  BY <1>2, RanPlace DEF Inv
<1>4. CASE t = s
  <2>1. Before(parsed[s]) < e  BY <1>1
  <2> HIDE DEF e
  <2>2. wire[s][Before(n) + 1] < wire[s][e]
    BY <1>1, <1>3, <1>4, <2>1 DEF Inv, WholeInv
  <2>3. wire[s][Before(n) + 1] \in Nat /\ wire[s][e] \in Nat
    BY <1>1, <1>3, <1>4, WireTyped DEF Inv
  <2>4. executed[i] # wire[s][e]  BY <1>2, <1>4, <2>2, <2>3
  <2> QED  BY <2>4 DEF e
<1>5. CASE t # s
  BY <1>1, <1>2, <1>3, <1>5 DEF Inv, ApartInv
<1> QED  BY <1>4, <1>5

LEMMA ExecuteStep ==
  ASSUME Inv, TypeOK', OwnInv', NEW s \in Sockets, Execute(s)
  PROVE  Inv'
<1> DEFINE k == wire[s][Before(parsed[s]) + 1]
           d == Len(executed)
<1>1. /\ UNCHANGED <<fd, pending, pc, sock, sockets, sent, call, acked, wire, opened>>
      /\ parsed' = [parsed EXCEPT ![s] = @ + 1]
      /\ InPublish' <=> InPublish
  BY DEF Execute, publisherVars, localVars, InPublish, Writing, AwaitingReply
<1>2. /\ Before(parsed[s]) + CommandLength <= Length(s)
      /\ k \in Calls /\ executed' = Append(executed, k)
  BY ExecuteAdds DEF Inv
<1>3. \A i \in DOMAIN executed : executed[i] # k  BY RunsNew
<1>4. PICK kind \in ReplyKinds :
        inbox' = IF s \in opened
                 THEN [inbox EXCEPT ![s] = @ \o <<Body(k, kind), LineEnd(k, kind)>>]
                 ELSE inbox
  BY ExecuteAdds DEF Inv
<1>5. s \in opened \/ s = fd =>
        /\ s = fd /\ InPublish /\ NotRunYet /\ sent = CommandLength /\ k = call
        /\ Before(parsed[s]) + CommandLength = Length(s)
  BY RunsCurrent
<1> HIDE DEF k
<1>6. /\ executed \in Seq(Calls) /\ d \in Nat
      /\ DOMAIN executed = 1 .. d /\ DOMAIN executed' = 1 .. d + 1
      /\ \A i \in 1 .. d : executed'[i] = executed[i]
      /\ executed'[d + 1] = k
  BY <1>2 DEF Inv, TypeOK, PeerOK
<1>7. /\ parsed'[s] = parsed[s] + 1 /\ parsed[s] \in Nat
      /\ \A t \in Sockets : t # s => parsed'[t] = parsed[t]
  BY <1>1 DEF Inv, TypeOK, PeerOK
<1>8. Before(parsed[s] + 1) = Before(parsed[s]) + CommandLength  BY <1>7, BeforeNext
<1> HIDE DEF d
<1>9. WholeInv' /\ ApartInv'
  BY <1>1 DEF Inv, WholeInv, ApartInv, Length, Before
<1>10. RanInv'
  <2>1. \A t \in Sockets : Before(parsed'[t]) <= Length(t)
    BY <1>2, <1>7, <1>8 DEF Inv, RanInv
  <2>2. ASSUME NEW i \in 1 .. d + 1
        PROVE  \E t \in Sockets : \E n \in Nat :
                 n < parsed'[t] /\ executed'[i] = wire[t][Before(n) + 1]
    <3>1. CASE i \in 1 .. d
      <4>1. PICK t \in Sockets, n \in Nat :
              n < parsed[t] /\ executed[i] = wire[t][Before(n) + 1]
        BY <1>6, <3>1 DEF Inv, RanInv
      <4>2. n < parsed'[t]  BY <1>7, <4>1
      <4> QED  BY <1>6, <3>1, <4>1, <4>2
    <3>2. CASE i = d + 1
      <4>1. parsed[s] < parsed'[s]  BY <1>7
      <4>2. executed'[i] = wire[s][Before(parsed[s]) + 1]  BY <1>6, <3>2 DEF k
      <4> QED  BY <1>7, <4>1, <4>2
    <3> QED  BY <1>6, <3>1, <3>2
  <2>3. ASSUME NEW i \in 1 .. d + 1, NEW j \in 1 .. d + 1, executed'[i] = executed'[j]
        PROVE  i = j
    <3>1. CASE i \in 1 .. d /\ j \in 1 .. d
      <4>1. executed[i] = executed[j]  BY <1>6, <2>3, <3>1
      <4> QED  BY <1>6, <3>1, <4>1 DEF Inv, RanInv
    <3>2. CASE i \in 1 .. d /\ j = d + 1  BY <1>3, <1>6, <2>3, <3>2
    <3>3. CASE i = d + 1 /\ j \in 1 .. d  BY <1>3, <1>6, <2>3, <3>3
    <3> QED  BY <1>6, <3>1, <3>2, <3>3
  <2> QED  BY <1>1, <1>6, <2>1, <2>2, <2>3 DEF RanInv, Before, Length
<1>11. AckInv'
  <2>1. ASSUME NEW a \in acked
        PROVE  \E i \in 1 .. d + 1 :
                 executed'[i] = a[1] /\ \A j \in 1 .. i : executed'[j] <= a[1]
    <3>1. PICK i \in 1 .. d : executed[i] = a[1] /\ \A j \in 1 .. i : executed[j] <= a[1]
      BY <1>6 DEF Inv, AckInv
    <3>2. i \in 1 .. d + 1 /\ \A j \in 1 .. i : j \in 1 .. d  BY <1>6, <3>1
    <3> QED  BY <1>6, <3>1, <3>2
  <2> QED  BY <1>1, <1>6, <2>1 DEF Inv, AckInv, ReplyMatchesCommand
<1>12. s # fd => UNCHANGED inbox /\ parsed'[fd] = parsed[fd]
  BY <1>4, <1>5, <1>1 DEF Inv, TypeOK, PeerOK
<1>13. FreshInv'
  <2>1. ~(s > sockets \/ s = sock)
    <3>1. CommandLength \in Nat \ {0} /\ Before(parsed[s]) \in Nat
      BY <1>7, BeforeNat, RedisAssumption
    <3>2. wire[s] # <<>>  BY <1>2, <3>1 DEF Length
    <3> QED  BY <3>2 DEF Inv, FreshInv
  <2>2. \A t \in Sockets : t # s => inbox'[t] = inbox[t]
    BY <1>4 DEF Inv, TypeOK, PeerOK
  <2> QED  BY <1>1, <1>7, <2>1, <2>2 DEF Inv, FreshInv
<1>14. StreamInv'
  <2>1. CASE s # fd
    <3> SUFFICES ASSUME fd # None PROVE StreamInv'
      BY <1>1 DEF StreamInv
    <3>0. fd \in Sockets /\ parsed'[fd] = parsed[fd]
      BY <1>7, <2>1 DEF Inv, TypeOK, OwnerOK
    <3>1. NotRunYet => NotRunYet'
      BY <1>1, <1>12, <2>1, <3>0 DEF NotRunYet, Length, Before
    <3>2. ASSUME RunOnce PROVE RunOnce'
      <4>1. PICK i \in 1 .. d : executed[i] = call  BY <1>6, <3>2 DEF RunOnce
      <4>2. i \in 1 .. d + 1 /\ executed'[i] = call  BY <1>6, <4>1
      <4>3. \E j \in DOMAIN executed' : executed'[j] = call'  BY <1>1, <1>6, <4>2
      <4>4. OneReply(pending)' /\ OneReply(inbox[fd])' /\ (HasLine' => NoiseOnly(inbox[fd])')
        BY <1>1, <1>12, <2>1, <3>2 DEF RunOnce, OneReply, HasLine
      <4> QED
        BY <1>1, <3>0, <3>2, <4>3, <4>4 DEF RunOnce, Length, Before
    <3> QED
      BY <1>1, <1>12, <2>1, <3>0, <3>1, <3>2 DEF Inv, StreamInv, Length, Before
  <2>2. CASE s = fd
    <3>1. /\ InPublish /\ NotRunYet /\ sent = CommandLength /\ k = call
          /\ Before(parsed[s]) + CommandLength = Length(s)
      BY <1>5, <2>2
    <3>2. Before(parsed'[fd]) = Length(fd)  BY <1>7, <1>8, <2>2, <3>1
    <3>3. \E i \in DOMAIN executed' : executed'[i] = call  BY <1>6, <3>1
    <3>4. NoiseOnly(pending) /\ ~HasLine /\ NoiseOnly(inbox[s])
      BY <2>2, <3>1 DEF NotRunYet, NoiseOnly, Noise, HasLine
    <3>5. OneReply(pending)  BY <3>4 DEF OneReply, NoiseOnly
    <3>6. OneReply(inbox'[s])
      <4> DEFINE q == inbox[s]
                 r == <<Body(k, kind), LineEnd(k, kind)>>
      <4>1. q \in Seq(Pieces) /\ r \in Seq(Pieces) /\ Len(r) = 2
            /\ r[1] = Body(k, kind) /\ r[2] = LineEnd(k, kind)
        BY <1>2, PieceTypes, WireTyped DEF Inv
      <4>2. kind # "junk"  BY DEF ReplyKinds
      <4>3. /\ r[1].kind # "junk" /\ r[1].call = call /\ ~r[1].end
            /\ r[2].kind # "junk" /\ r[2].call = call
        BY <3>1, <4>1, <4>2 DEF Body, LineEnd
      <4> HIDE DEF r
      <4>4. inbox'[s] = inbox[s] \/ inbox'[s] = q \o r
        BY <1>4 DEF r, Inv, TypeOK, PeerOK
      <4>5. Len(q) \in Nat /\ DOMAIN q = 1 .. Len(q) /\ \A i \in 1 .. Len(q) : Noise(q[i])
        BY <3>4, <4>1, PiecesSeq DEF NoiseOnly
      <4>6. /\ q \o r \in Seq(Pieces) /\ Len(q \o r) = Len(q) + 2
            /\ \A i \in 1 .. Len(q) : (q \o r)[i] = q[i]
            /\ (q \o r)[Len(q) + 1] = r[1] /\ (q \o r)[Len(q) + 2] = r[2]
        BY <4>1, Joined
      <4>7. DOMAIN (q \o r) = 1 .. Len(q) + 2  BY <4>5, <4>6
      <4> HIDE DEF q
      <4>8. \A i \in 1 .. Len(q) + 2 :
              i \in 1 .. Len(q) \/ i = Len(q) + 1 \/ i = Len(q) + 2
        BY <4>5
      <4>9. OneReply(q \o r)
        <5>1. \A i \in 1 .. Len(q) + 2 :
                \/ Noise((q \o r)[i])
                \/ (q \o r)[i].kind # "junk" /\ (q \o r)[i].call = call
          BY <4>3, <4>5, <4>6, <4>8
        <5>2. \A i \in 1 .. Len(q) + 2 : (q \o r)[i].end => i = Len(q) + 2
          BY <4>3, <4>5, <4>6, <4>8 DEF Noise
        <5>3. \A i, j \in 1 .. Len(q) + 2 : i < j => i # Len(q) + 2
          BY <4>5
        <5> QED  BY <4>7, <5>1, <5>2, <5>3 DEF OneReply
      <4>10. OneReply(q)  BY <4>5 DEF OneReply
      <4> QED  BY <4>4, <4>9, <4>10 DEF q
    <3>7. RunOnce'
      BY <1>1, <2>2, <3>1, <3>2, <3>3, <3>4, <3>5, <3>6
      DEF RunOnce, Length, Before, OneReply, HasLine
    <3>8. \A i \in 1 .. Length(fd) :
            IF i + sent <= Length(fd) THEN wire[fd][i] < call ELSE wire[fd][i] = call
      BY <2>2, <3>1 DEF Inv, StreamInv, Sockets, None
    <3> QED  BY <1>1, <3>1, <3>7, <3>8 DEF StreamInv, Length
  <2> QED  BY <2>1, <2>2
<1> QED  BY <1>9, <1>10, <1>11, <1>13, <1>14 DEF Inv

\* Junk is noise, on its way or received.
LEMMA JunkStep ==
  ASSUME Inv, TypeOK', OwnInv', NEW s \in Sockets, SendJunk(s)
  PROVE  Inv'
<1>1. /\ UNCHANGED <<fd, pending, pc, sock, sockets, sent, call, acked, wire, parsed,
                     executed>>
      /\ inbox' = [inbox EXCEPT ![s] = Append(@, Junk)]
      /\ InPublish' <=> InPublish
  BY DEF SendJunk, publisherVars, localVars, InPublish, Writing, AwaitingReply
<1>2. call \in Nat  BY DEF Inv, TypeOK, OwnerOK
<1>3. WholeInv' /\ ApartInv' /\ RanInv' /\ AckInv'  BY <1>1, <1>2, QuietStep
<1> DEFINE d == Len(inbox[s])
<1>4. /\ inbox[s] \in Seq(Pieces) /\ Junk \in Pieces /\ Noise(Junk)
      /\ inbox'[s] = Append(inbox[s], Junk)
      /\ \A t \in Sockets : t # s => inbox'[t] = inbox[t]
  BY <1>1 DEF Inv, TypeOK, PeerOK, Junk, Body, Pieces, None, Noise
<1>5. /\ d \in Nat /\ DOMAIN inbox[s] = 1 .. d /\ DOMAIN inbox'[s] = 1 .. d + 1
      /\ \A i \in 1 .. d : inbox'[s][i] = inbox[s][i]
      /\ inbox'[s][d + 1] = Junk
  BY <1>4
<1> HIDE DEF d
<1>6. \A i \in 1 .. d + 1 : i \in 1 .. d \/ i = d + 1  BY <1>5
<1>7. \A t \in Sockets : NoiseOnly(inbox[t]) => NoiseOnly(inbox'[t])
  BY <1>4, <1>5, <1>6 DEF NoiseOnly
<1>8. ASSUME NEW t \in Sockets, OneReply(inbox[t]) PROVE OneReply(inbox'[t])
  <2>1. CASE t # s  BY <1>4, <1>8, <2>1
  <2>2. CASE t = s
    <3>1. \A i \in 1 .. d + 1 :
            \/ Noise(inbox'[s][i])
            \/ inbox'[s][i].kind # "junk" /\ inbox'[s][i].call = call
      BY <1>4, <1>5, <1>6, <1>8, <2>2 DEF OneReply
    <3>2. ASSUME NEW i \in 1 .. d + 1, NEW j \in 1 .. d + 1, i < j, inbox'[s][i].end
          PROVE  Noise(inbox'[s][j])
      <4>1. i \in 1 .. d  BY <1>5, <3>2
      <4> QED  BY <1>4, <1>5, <1>6, <1>8, <2>2, <3>2, <4>1 DEF OneReply
    <3> QED  BY <1>5, <2>2, <3>1, <3>2 DEF OneReply
  <2> QED  BY <2>1, <2>2
<1>9. FreshInv'  BY <1>1, <1>7 DEF Inv, FreshInv
<1>10. StreamInv'
  <2> SUFFICES ASSUME fd # None PROVE StreamInv'
    BY <1>1 DEF StreamInv
  <2>1. fd \in Sockets  BY DEF Inv, TypeOK, OwnerOK
  <2>2. NotRunYet => NotRunYet'
    BY <1>1, <1>7, <2>1 DEF NotRunYet, Length, Before
  <2>3. OneReply(inbox[fd]) => OneReply(inbox[fd])'
    BY <1>1, <1>8, <2>1 DEF OneReply
  <2>4. RunOnce => RunOnce'
    BY <1>1, <1>7, <2>1, <2>3 DEF RunOnce, Length, Before, OneReply, HasLine
  <2> QED  BY <1>1, <1>7, <2>1, <2>2, <2>4 DEF Inv, StreamInv, Length, Before
<1> QED  BY <1>3, <1>9, <1>10 DEF Inv

-------------------------------------------------------------------------------
(* The theorems. *)

LEMMA InitInv == Init => Inv
<1> SUFFICES ASSUME Init PROVE Inv
  OBVIOUS
<1>0. /\ Candidates \in Nat /\ MaxCalls \in Nat /\ MaxSockets \in Nat /\ MaxJunk \in Nat
      /\ CommandLength \in Nat \ {0}
  BY RedisAssumption
<1>1. FlagsOK  BY Zenon DEF Init, FlagsOK
<1>2. OwnerOK  BY <1>0 DEF Init, OwnerOK, None
<1>3. PeerOK  BY <1>0 DEF Init, PeerOK
<1>4. OwnInv  BY OwnInit
<1>5. \A s \in Sockets : wire[s] = <<>> /\ Length(s) = 0 /\ parsed[s] = 0 /\ inbox[s] = <<>>
  BY DEF Init, Length
<1>6. WholeInv /\ ApartInv  BY <1>5 DEF WholeInv, ApartInv
<1>7. RanInv  BY <1>5, BeforeZero DEF Init, RanInv
<1>8. AckInv  BY DEF Init, AckInv, ReplyMatchesCommand
<1>9. FreshInv  BY <1>5 DEF FreshInv, NoiseOnly
<1>10. StreamInv  BY DEF Init, StreamInv
<1> QED  BY <1>1, <1>2, <1>3, <1>4, <1>6, <1>7, <1>8, <1>9, <1>10 DEF Inv, TypeOK

LEMMA NextInv == Inv /\ [Next]_vars => Inv'
<1> SUFFICES ASSUME Inv, [Next]_vars PROVE Inv'
  OBVIOUS
<1>1. CASE Next
  <2>1. TypeOK' /\ OwnInv'
    BY <1>1, FlagsTyped, OwnerTyped, PeerTyped, OwnStep DEF Inv, TypeOK
  <2> QED
    BY <1>1, <2>1, NextCases, ConnectsStep, WaitsStep, FailsStep, BeginStep, SendStep,
      ReceiveStep, ReplyStep, ExecuteStep, JunkStep
<1>2. CASE UNCHANGED vars
  <2>1. UNCHANGED <<fd, reader, pending, pc, candidate, sock, sent, call, expired, stop,
                    acked, opened, sockets, wire, inbox, parsed, hungUp, executed, junk>>
    BY <1>2 DEF vars, publisherVars, localVars, peerVars
  <2> QED
    BY <2>1 DEF Inv, TypeOK, FlagsOK, OwnerOK, PeerOK, OwnInv, NoSocketLeaks, ReplyIsBounded,
      InPublish, Writing, AwaitingReply, Dialling, WholeInv, ApartInv, RanInv, AckInv,
      ReplyMatchesCommand, FreshInv, StreamInv, NotRunYet, RunOnce, OneReply, HasLine,
      NoiseOnly, Length, Before
<1> QED  BY <1>1, <1>2

THEOREM Invariance == SafeSpec => []Inv
BY InitInv, NextInv, PTL DEF SafeSpec

\* The types of the publisher and of the peer, of the two streams and of what is on its way.
THEOREM TypeCorrect == SafeSpec => []TypeOK
<1>1. Inv => TypeOK  BY DEF Inv
<1> QED  BY <1>1, Invariance, PTL

\* The command a position belongs to.
LEMMA CommandOf ==
  ASSUME NEW i \in Nat \ {0}
  PROVE  LET n == (i - 1) \div CommandLength IN
           n \in Nat /\ Before(n) < i /\ i <= Before(n + 1)
<1> DEFINE n == (i - 1) \div CommandLength
           m == (i - 1) % CommandLength
<1>1. CommandLength \in Nat \ {0} /\ i - 1 \in Nat  BY RedisAssumption
<1>2. n \in Nat /\ m \in 0 .. CommandLength - 1 /\ i - 1 = CommandLength * n + m
  BY <1>1
<1> HIDE DEF n, m
<1>3. CommandLength * n = Before(n)  BY <1>1, <1>2 DEF Before
<1>4. Before(n) \in Nat /\ Before(n + 1) = Before(n) + CommandLength
  BY <1>2, BeforeNat, BeforeNext
<1>5. n \in Nat /\ Before(n) < i /\ i <= Before(n + 1)
  BY <1>1, <1>2, <1>3, <1>4
<1> QED  BY <1>5 DEF n

\* No reply is read by the wrong call and no command is completed with the bytes of
\* another, whatever was cut off before: publish gives the connection up on every
\* failure (yolov26_rpi_transport.cpp), so a stream is whole commands in call order and
\* what is still to come of it is the reply to the current one.
THEOREM StreamsStayInStep == SafeSpec => []StreamsInStep
<1>1. Inv => StreamsInStep
  <2> SUFFICES ASSUME Inv PROVE StreamsInStep
    OBVIOUS
  <2>1. ReplyMatchesCommand  BY DEF Inv, AckInv
  <2>2. ASSUME NEW s \in Sockets, NEW i \in 1 .. Length(s)
        PROVE  wire[s][i] = wire[s][((i - 1) \div CommandLength) * CommandLength + 1]
    <3> DEFINE n == (i - 1) \div CommandLength
    <3>1. Length(s) \in Nat  BY WireTyped DEF Inv
    <3>2. i \in Nat \ {0} /\ i <= Length(s)  BY <3>1
    <3>3. n \in Nat /\ Before(n) < i /\ i <= Before(n + 1)  BY <3>2, CommandOf
    <3>4. Before(n) \in Nat /\ Before(n + 1) = Before(n) + CommandLength
      BY <3>3, BeforeNat, BeforeNext
    <3>5. ((i - 1) \div CommandLength) * CommandLength = Before(n)  BY DEF Before
    <3> HIDE DEF n
    <3>6. CommandLength \in Nat \ {0}  BY RedisAssumption
    <3>7. /\ Before(n) + 1 \in 1 .. Length(s)
          /\ Before(n) < Before(n) + 1 /\ Before(n) + 1 <= Before(n + 1)
      BY <3>1, <3>2, <3>3, <3>4, <3>6
    <3>8. wire[s][i] = wire[s][Before(n) + 1]
      BY <3>3, <3>7 DEF Inv, WholeInv
    <3> QED  BY <3>5, <3>8
  <2> QED  BY <2>1, <2>2 DEF StreamsInStep, CommandsArriveWhole, Length
<1> QED  BY <1>1, Invariance, PTL

\* A publish that returned a subscriber count was run by the peer exactly once, and nothing
\* called later was run before it; one that failed was run at most once: a command is on
\* one connection only, and the peer runs the commands of a connection in order.
THEOREM AckedMeansRunOnce == SafeSpec => []AckedRunsOnceInOrder
<1>1. Inv => AckedRunsOnceInOrder
  BY DEF Inv, RanInv, AckInv, AckedRunsOnceInOrder
<1> QED  BY <1>1, Invariance, PTL

\* The only sockets open are the connected one and the one being connected, never both, and
\* what is kept of a reply is at most one recv above REPLY_LIMIT: connect_deadline closes
\* what it does not keep, and the read loop checks the size before it receives
\* (yolov26_rpi_transport.cpp:769).
THEOREM NothingLeaksOrGrows == SafeSpec => []NothingPilesUp
<1>1. Inv => NothingPilesUp  BY DEF Inv, OwnInv, NothingPilesUp
<1> QED  BY <1>1, Invariance, PTL
===============================================================================
