---------------------------- MODULE RedisPublisher ----------------------------
(***************************************************************************)
(* RedisPublisher of yolov26_rpi_transport.cpp: one TCP connection, one    *)
(* PUBLISH at a time, every call bounded by a deadline and by the stop     *)
(* token.  The class keeps a socket, a reply reader and the bytes received *)
(* so far; what makes it correct is when it gives the connection up.       *)
(*                                                                         *)
(* A loop iteration of the code is two steps here, the checks at its head  *)
(* and the poll with the send, recv or getsockopt after it, so that stop,  *)
(* the deadline and the peer can act in between.  Bytes are counted in     *)
(* pieces: a command is CommandLength pieces, a reply is a body and its    *)
(* line end.  The peer is external: it runs complete commands in the order *)
(* of each connection, answers each once, may answer late or never, may    *)
(* send junk, and may close.                                               *)
(***************************************************************************)
EXTENDS Naturals, Sequences

CONSTANTS
  Candidates,      \* number of resolved addresses
  CommandLength,   \* pieces of a PUBLISH command
  ReplyLimit,      \* REPLY_LIMIT, in pieces
  RecvMax,         \* most pieces one recv returns
  MaxCalls,        \* bound: publish calls
  MaxSockets,      \* bound: sockets created
  MaxJunk          \* bound: junk pieces the peer sends

ASSUME RedisAssumption ==
  /\ Candidates \in Nat /\ MaxCalls \in Nat /\ MaxSockets \in Nat /\ MaxJunk \in Nat
  /\ CommandLength \in Nat \ {0} /\ ReplyLimit \in Nat \ {0} /\ RecvMax \in Nat \ {0}

None == 0
Calls == 1 .. MaxCalls
Sockets == 1 .. MaxSockets

Body(k, kind) == [call |-> k, kind |-> kind, end |-> FALSE]
LineEnd(k, kind) == [call |-> k, kind |-> kind, end |-> TRUE]
Junk == Body(None, "junk")
ReplyKinds == {"integer", "other"}   \* an error reply is refused like any other type
Pieces == [call : Calls \cup {None}, kind : ReplyKinds \cup {"junk"}, end : BOOLEAN]

VARIABLES
  fd,         \* fd_, or None
  reader,     \* reader_ is allocated
  pending,    \* pending_: pieces received and not consumed
  pc,         \* where the thread that owns the publisher is
  candidate,  \* connect_deadline: index of the address being tried
  sock,       \* connect_deadline: the local fd, or None
  call,       \* publish calls so far; the current one when pc is in publish
  sent,       \* pieces of the current command written
  expired,    \* the deadline of the current call has passed
  stop,       \* stop.requested()
  acked,      \* history: <<call, reply>> for every publish that returned a count
  opened,     \* history: sockets open in this process
  sockets,    \* history: sockets created
  wire,       \* peer: pieces written per socket, named by their call
  parsed,     \* peer: commands run per socket
  inbox,      \* peer: pieces sent and not yet received, per socket
  hungUp,     \* peer: sockets the peer closed
  executed,   \* peer: calls whose command was run, in order
  junk        \* peer: junk pieces sent

publisherVars == <<fd, reader, pending>>
localVars == <<candidate, sock, sent>>
peerVars == <<parsed, hungUp, executed, junk>>
vars == <<publisherVars, pc, localVars, call, expired, stop, acked, opened, sockets,
          wire, inbox, peerVars>>

Init ==
  /\ fd = None /\ reader = FALSE /\ pending = <<>>
  /\ pc = "idle" /\ candidate = 1 /\ sock = None /\ sent = 0
  /\ call = 0 /\ expired = FALSE /\ stop = FALSE
  /\ acked = {} /\ opened = {} /\ sockets = 0
  /\ wire = [s \in Sockets |-> <<>>]
  /\ parsed = [s \in Sockets |-> 0]
  /\ inbox = [s \in Sockets |-> <<>>]
  /\ hungUp = {} /\ executed = <<>> /\ junk = 0

-------------------------------------------------------------------------------
(* close: gives up the socket, the reader and the bytes received. *)

CloseConnection ==
  /\ fd' = None
  /\ reader' = FALSE
  /\ pending' = <<>>
  /\ opened' = opened \ {fd}

\* The caller closes between calls (after a failed publish, and at the end).
Close ==
  /\ pc = "idle"
  /\ CloseConnection
  /\ UNCHANGED <<pc, localVars, call, expired, stop, acked, sockets, wire, inbox, peerVars>>

-------------------------------------------------------------------------------
(* connect_deadline *)

ConnectBegin ==
  /\ pc = "idle"
  /\ CloseConnection
  /\ candidate' = 1
  /\ expired' = FALSE
  /\ pc' = IF stop THEN "idle" ELSE "candidate"
  /\ UNCHANGED <<sock, sent, call, stop, acked, sockets, wire, inbox, peerVars>>

GiveUpConnecting ==
  /\ pc = "candidate"
  /\ stop \/ expired \/ candidate > Candidates
  /\ pc' = "idle"
  /\ UNCHANGED <<publisherVars, localVars, call, expired, stop, acked, opened, sockets,
                 wire, inbox, peerVars>>

TryingCandidate ==
  /\ pc = "candidate"
  /\ ~stop /\ ~expired
  /\ candidate <= Candidates

\* socket, fcntl or connect fails at once; a socket that was created is closed.
CandidateFails ==
  /\ TryingCandidate
  /\ candidate' = candidate + 1
  /\ UNCHANGED <<publisherVars, pc, sock, sent, call, expired, stop, acked, opened,
                 sockets, wire, inbox, peerVars>>

CandidateInProgress ==
  /\ TryingCandidate
  /\ sockets < MaxSockets
  /\ sockets' = sockets + 1
  /\ sock' = sockets + 1
  /\ opened' = opened \cup {sockets + 1}
  /\ pc' = "connectCheck"
  /\ UNCHANGED <<publisherVars, candidate, sent, call, expired, stop, acked, wire, inbox,
                 peerVars>>

\* MUTANT of ConnectInterrupted: the half-open socket is not closed.
ConnectInterruptedLeaks ==
  /\ pc = "connectCheck"
  /\ stop \/ expired
  /\ sock' = None
  /\ pc' = "idle"
  /\ UNCHANGED <<publisherVars, candidate, sent, call, expired, stop, acked, opened,
                 sockets, wire, inbox, peerVars>>

ConnectInterrupted ==
  /\ pc = "connectCheck"
  /\ stop \/ expired
  /\ opened' = opened \ {sock}
  /\ sock' = None
  /\ pc' = "idle"
  /\ UNCHANGED <<publisherVars, candidate, sent, call, expired, stop, acked, sockets,
                 wire, inbox, peerVars>>

ConnectWaits ==
  /\ pc = "connectCheck"
  /\ ~stop /\ ~expired
  /\ pc' = "connectPoll"
  /\ UNCHANGED <<publisherVars, localVars, call, expired, stop, acked, opened, sockets,
                 wire, inbox, peerVars>>

\* poll timed out or was interrupted.
ConnectPollAgain ==
  /\ pc = "connectPoll"
  /\ pc' = "connectCheck"
  /\ UNCHANGED <<publisherVars, localVars, call, expired, stop, acked, opened, sockets,
                 wire, inbox, peerVars>>

\* poll, getsockopt or the connection itself failed: next address.
ConnectPollFails ==
  /\ pc = "connectPoll"
  /\ opened' = opened \ {sock}
  /\ sock' = None
  /\ candidate' = candidate + 1
  /\ pc' = "candidate"
  /\ UNCHANGED <<publisherVars, sent, call, expired, stop, acked, sockets, wire, inbox,
                 peerVars>>

\* The socket is connected: connect_deadline keeps it with a new reader, or
\* closes it again when there is no memory for the reader.
Adopt(s) ==
  /\ sock' = None
  /\ pc' = "idle"
  /\ \/ fd' = s /\ reader' = TRUE /\ opened' = opened \cup {s}
     \/ fd' = None /\ reader' = FALSE /\ opened' = opened \ {s}
  /\ UNCHANGED <<pending, candidate, sent, call, expired, stop, acked, wire, inbox,
                 peerVars>>

Established ==
  /\ pc = "connectPoll"
  /\ Adopt(sock)
  /\ UNCHANGED sockets

CandidateConnectsAtOnce ==
  /\ TryingCandidate
  /\ sockets < MaxSockets
  /\ sockets' = sockets + 1
  /\ Adopt(sockets + 1)

-------------------------------------------------------------------------------
(* publish *)

\* Not connected, or no memory for the command: nothing is touched.
PublishRefused ==
  /\ pc = "idle"
  /\ call < MaxCalls
  /\ fd = None \/ ~stop
  /\ call' = call + 1
  /\ UNCHANGED <<publisherVars, pc, localVars, expired, stop, acked, opened, sockets,
                 wire, inbox, peerVars>>

PublishBegin ==
  /\ pc = "idle"
  /\ call < MaxCalls
  /\ fd # None /\ reader
  /\ call' = call + 1
  /\ sent' = 0
  /\ expired' = FALSE
  /\ IF stop THEN CloseConnection /\ pc' = pc
             ELSE pc' = "writeCheck" /\ UNCHANGED <<publisherVars, opened>>
  /\ UNCHANGED <<candidate, sock, stop, acked, sockets, wire, inbox, peerVars>>

\* Every way a publish fails once it has begun: the connection is given up,
\* because a half-written command or an unread reply may be on it.
FailPublish ==
  /\ CloseConnection
  /\ pc' = "idle"
  /\ UNCHANGED <<localVars, call, expired, stop, acked, sockets, wire, inbox, peerVars>>

\* MUTANT of WriteInterrupted: the half-written connection is kept.
WriteInterruptedKeepsSocket ==
  /\ pc = "writeCheck"
  /\ sent < CommandLength
  /\ stop \/ expired
  /\ pc' = "idle"
  /\ UNCHANGED <<publisherVars, localVars, call, expired, stop, acked, opened, sockets,
                 wire, inbox, peerVars>>

WriteInterrupted ==
  /\ pc = "writeCheck"
  /\ sent < CommandLength
  /\ stop \/ expired
  /\ FailPublish

WriteWaits ==
  /\ pc = "writeCheck"
  /\ sent < CommandLength
  /\ ~stop /\ ~expired
  /\ pc' = "writePoll"
  /\ UNCHANGED <<publisherVars, localVars, call, expired, stop, acked, opened, sockets,
                 wire, inbox, peerVars>>

WriteDone ==
  /\ pc = "writeCheck"
  /\ sent = CommandLength
  /\ pc' = "readCheck"
  /\ UNCHANGED <<publisherVars, localVars, call, expired, stop, acked, opened, sockets,
                 wire, inbox, peerVars>>

\* poll timed out or was interrupted, or send would block.
WritePollAgain ==
  /\ pc = "writePoll"
  /\ pc' = "writeCheck"
  /\ UNCHANGED <<publisherVars, localVars, call, expired, stop, acked, opened, sockets,
                 wire, inbox, peerVars>>

WriteFails == pc = "writePoll" /\ FailPublish

\* send takes any part of what is left; it may still succeed after the peer has
\* closed.
Send ==
  /\ pc = "writePoll"
  /\ \E n \in 1 .. (CommandLength - sent) :
       /\ sent' = sent + n
       /\ wire' = [wire EXCEPT ![fd] = @ \o [i \in 1 .. n |-> call]]
  /\ pc' = "writeCheck"
  /\ UNCHANGED <<publisherVars, candidate, sock, call, expired, stop, acked, opened,
                 sockets, inbox, peerVars>>

HasLine == \E i \in DOMAIN pending : pending[i].end
LineLength == CHOOSE i \in DOMAIN pending :
                /\ pending[i].end
                /\ \A j \in 1 .. i - 1 : ~pending[j].end
Line == SubSeq(pending, 1, LineLength)
Rest == SubSeq(pending, LineLength + 1, Len(pending))
IntegerLine ==
  \A i \in DOMAIN Line : Line[i].kind = "integer" /\ Line[i].call = Line[1].call

\* MUTANT of ReadInterrupted: a timed-out read keeps the connection for the
\* next publish.
ReadTimeoutKeepsSocket ==
  /\ pc = "readCheck"
  /\ stop \/ expired \/ Len(pending) > ReplyLimit
  /\ pc' = "idle"
  /\ UNCHANGED <<publisherVars, localVars, call, expired, stop, acked, opened, sockets,
                 wire, inbox, peerVars>>

\* MUTANT of ReadInterrupted: the read loop forgets the deadline.
ReadIgnoresDeadline ==
  /\ pc = "readCheck"
  /\ stop \/ Len(pending) > ReplyLimit
  /\ FailPublish

\* Stop, the deadline, or a reply longer than REPLY_LIMIT.
ReadInterrupted ==
  /\ pc = "readCheck"
  /\ stop \/ expired \/ Len(pending) > ReplyLimit
  /\ FailPublish

\* MUTANT of Reading: no limit on the bytes kept.
ReadingUnlimited == pc = "readCheck" /\ ~stop /\ ~expired

Reading == pc = "readCheck" /\ ~stop /\ ~expired /\ Len(pending) <= ReplyLimit

\* Anything but one integer line with nothing after it: an error reply, another
\* type, junk, or a second line.
ReplyRejected ==
  /\ Reading
  /\ HasLine
  /\ Rest # <<>> \/ ~IntegerLine
  /\ FailPublish

\* MUTANT of ReplyAccepted: what follows the line is kept in pending_ and the
\* line is not removed.
ReplyAcceptedKeepsBytes ==
  /\ Reading
  /\ HasLine
  /\ Rest = <<>> /\ IntegerLine
  /\ acked' = acked \cup {<<call, Line[1].call>>}
  /\ pc' = "idle"
  /\ UNCHANGED <<publisherVars, localVars, call, expired, stop, opened, sockets, wire,
                 inbox, peerVars>>

ReplyAccepted ==
  /\ Reading
  /\ HasLine
  /\ Rest = <<>> /\ IntegerLine
  /\ acked' = acked \cup {<<call, Line[1].call>>}
  /\ pending' = <<>>
  /\ pc' = "idle"
  /\ UNCHANGED <<fd, reader, localVars, call, expired, stop, opened, sockets, wire,
                 inbox, peerVars>>

ReadWaits ==
  /\ Reading
  /\ ~HasLine
  /\ pc' = "readPoll"
  /\ UNCHANGED <<publisherVars, localVars, call, expired, stop, acked, opened, sockets,
                 wire, inbox, peerVars>>

ReadPollAgain ==
  /\ pc = "readPoll"
  /\ pc' = "readCheck"
  /\ UNCHANGED <<publisherVars, localVars, call, expired, stop, acked, opened, sockets,
                 wire, inbox, peerVars>>

\* poll or recv fails, or the peer has closed and nothing is left to read.
ReadFails == pc = "readPoll" /\ FailPublish

Receive ==
  /\ pc = "readPoll"
  /\ \E n \in 1 .. RecvMax :
       /\ n <= Len(inbox[fd])
       /\ pending' = pending \o SubSeq(inbox[fd], 1, n)
       /\ inbox' = [inbox EXCEPT ![fd] = SubSeq(@, n + 1, Len(@))]
  /\ pc' = "readCheck"
  /\ UNCHANGED <<fd, reader, localVars, call, expired, stop, acked, opened, sockets,
                 wire, peerVars>>

-------------------------------------------------------------------------------
(* The stop token and the clock. *)

RequestStop ==
  /\ ~stop
  /\ stop' = TRUE
  /\ UNCHANGED <<publisherVars, pc, localVars, call, expired, acked, opened, sockets,
                 wire, inbox, peerVars>>

DeadlinePasses ==
  /\ pc # "idle"
  /\ ~expired
  /\ expired' = TRUE
  /\ UNCHANGED <<publisherVars, pc, localVars, call, stop, acked, opened, sockets, wire,
                 inbox, peerVars>>

-------------------------------------------------------------------------------
(* The peer.  A command is cut from the stream by its length, so bytes of the    *)
(* next command would complete one that was left half-written.  Bytes already    *)
(* on their way are run even when the client has closed in the meantime.         *)

CommandAt(s, n) == SubSeq(wire[s], (n - 1) * CommandLength + 1, n * CommandLength)

Execute(s) ==
  /\ Len(wire[s]) >= (parsed[s] + 1) * CommandLength
  /\ s \notin hungUp
  /\ parsed' = [parsed EXCEPT ![s] = @ + 1]
  /\ LET k == CommandAt(s, parsed[s] + 1)[1] IN
       /\ executed' = Append(executed, k)
       /\ \E kind \in ReplyKinds :
            inbox' = IF s \in opened
                     THEN [inbox EXCEPT ![s] = @ \o <<Body(k, kind), LineEnd(k, kind)>>]
                     ELSE inbox
  /\ UNCHANGED <<publisherVars, pc, localVars, call, expired, stop, acked, opened, sockets,
                 wire, hungUp, junk>>

SendJunk(s) ==
  /\ junk < MaxJunk
  /\ s \in opened \ hungUp
  /\ junk' = junk + 1
  /\ inbox' = [inbox EXCEPT ![s] = Append(@, Junk)]
  /\ UNCHANGED <<publisherVars, pc, localVars, call, expired, stop, acked, opened, sockets,
                 wire, parsed, hungUp, executed>>

HangUp(s) ==
  /\ s \in opened \ hungUp
  /\ hungUp' = hungUp \cup {s}
  /\ UNCHANGED <<publisherVars, pc, localVars, call, expired, stop, acked, opened, sockets,
                 wire, inbox, parsed, executed, junk>>

-------------------------------------------------------------------------------
\* Steps the owning thread takes inside a call: it is never blocked for longer
\* than a poll slice.
Connecting ==
  \/ GiveUpConnecting \/ CandidateFails \/ CandidateInProgress \/ CandidateConnectsAtOnce
  \/ ConnectInterrupted \/ ConnectWaits \/ ConnectPollAgain \/ ConnectPollFails
  \/ Established
Publishing ==
  \/ WriteInterrupted \/ WriteWaits \/ WriteDone \/ WritePollAgain \/ WriteFails \/ Send
  \/ ReadInterrupted \/ ReplyRejected \/ ReplyAccepted
  \/ ReadWaits \/ ReadPollAgain \/ ReadFails \/ Receive
Calling == Close \/ ConnectBegin \/ PublishRefused \/ PublishBegin
Peer == \E s \in Sockets : Execute(s) \/ SendJunk(s) \/ HangUp(s)

Next == Calling \/ Connecting \/ Publishing \/ RequestStop \/ DeadlinePasses \/ Peer

SafeSpec == Init /\ [][Next]_vars

\* The thread runs and the clock reaches the deadline of every call.  Nothing is
\* assumed of the peer: it may stay silent for ever.
Spec ==
  /\ SafeSpec
  /\ WF_vars(Connecting) /\ WF_vars(Publishing) /\ WF_vars(DeadlinePasses)

-------------------------------------------------------------------------------
\* The types of the state: the flags, what the owning thread keeps, and what is
\* on its way or with the peer.
FlagsOK == reader \in BOOLEAN /\ expired \in BOOLEAN /\ stop \in BOOLEAN
OwnerOK ==
  /\ fd \in Sockets \cup {None}
  /\ pending \in Seq(Pieces)
  /\ pc \in {"idle", "candidate", "connectCheck", "connectPoll",
             "writeCheck", "writePoll", "readCheck", "readPoll"}
  /\ candidate \in 1 .. Candidates + 1
  /\ sock \in Sockets \cup {None}
  /\ call \in 0 .. MaxCalls
  /\ sent \in 0 .. CommandLength
  /\ opened \subseteq Sockets
  /\ sockets \in 0 .. MaxSockets
PeerOK ==
  /\ wire \in [Sockets -> Seq(Calls)]
  /\ parsed \in [Sockets -> Nat]
  /\ inbox \in [Sockets -> Seq(Pieces)]
  /\ hungUp \subseteq Sockets
  /\ executed \in Seq(Calls)
  /\ junk \in 0 .. MaxJunk
  /\ acked \subseteq Calls \X (Calls \cup {None})
TypeOK == FlagsOK /\ OwnerOK /\ PeerOK

\* The subscriber count that a publish returns is the peer's answer to that very
\* command, however many earlier commands timed out, were cancelled, or were
\* answered late: no reply is ever read by the wrong call.
ReplyMatchesCommand == \A a \in acked : a[1] = a[2]

\* The peer never sees a command completed with the bytes of another one.
CommandsArriveWhole ==
  \A s \in Sockets : \A i \in 1 .. Len(wire[s]) :
    wire[s][i] = wire[s][((i - 1) \div CommandLength) * CommandLength + 1]

\* Both streams of the connection stay in step with the calls: a command or a reply
\* that was cut off by a time-out, a stop or a junk line is never continued by the
\* bytes of the next publish.
StreamsInStep == ReplyMatchesCommand /\ CommandsArriveWhole

\* A publish that reported success was run exactly once, and nothing started
\* after it was run before it.  A publish that failed may have been run too, but
\* not twice.
AckedRunsOnceInOrder ==
  /\ \A i, j \in DOMAIN executed : executed[i] = executed[j] => i = j
  /\ \A a \in acked : \E i \in DOMAIN executed :
       /\ executed[i] = a[1]
       /\ \A j \in 1 .. i : executed[j] <= a[1]

\* Between calls the only socket open is the connected one, with its reader; in
\* a call at most the one being connected.
NoSocketLeaks ==
  /\ opened = {fd, sock} \ {None}
  /\ pc = "idle" => sock = None
  /\ fd # None <=> reader
  /\ sock # None => fd = None

\* The bytes kept of a reply are at most what one recv adds to a buffer still within
\* REPLY_LIMIT, whatever the peer sends.
ReplyIsBounded == Len(pending) <= ReplyLimit + RecvMax

\* Neither sockets nor received bytes pile up, however often calls fail and however
\* much the peer sends.
NothingPilesUp == NoSocketLeaks /\ ReplyIsBounded

\* Every call returns, whatever the peer does.
CallsReturn == pc # "idle" ~> pc = "idle"
===============================================================================
