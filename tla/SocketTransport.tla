---------------------------- MODULE SocketTransport ----------------------------
(***************************************************************************)
(* One sender and one receiver of transport.py, with the circuit breaker   *)
(* of the TCP sender.  The gRPC, NATS and ZeroMQ classes send over TCP     *)
(* when their library is absent, which is the build the code comes with.   *)
(*                                                                         *)
(* A message crosses as a length and a body.  The receiver accepts one     *)
(* connection in its life, reads with a timeout, and forgets at a timeout  *)
(* what it had read of a frame (a cut inside a part is as one between the  *)
(* parts).  A failed connect() leaves the sender with a socket that is not *)
(* connected; a failed put() closes the socket, over UDS it keeps it.      *)
(* HTTP makes a request of each message and queues it at the receiver.     *)
(***************************************************************************)
EXTENDS Integers, Sequences, SequencesExt

CONSTANTS
    SocketTypes,         \* transport types considered
    FailureThreshold,    \* failure_threshold
    Puts,                \* bound: calls of put, numbered as they are made
    Connections,         \* bound: connections made
    Cuts,                \* bound: frames cut by a timeout of get
    Refusals             \* bound: failures the breaker counts

ASSUME SocketAssumption ==
    /\ SocketTypes \subseteq {"tcp", "uds", "http", "grpc", "nats", "zeromq"}
    /\ FailureThreshold \in Nat \ {0}
    /\ Puts \in Nat /\ Connections \in Nat /\ Cuts \in Nat /\ Refusals \in Nat

VARIABLES
    type,         \* the transport type
    listening,    \* the receiver's process lives, its server socket is open
    sock,         \* the sender's: the number of its connection, NoSock, Dead or Absent
    breaker,      \* CircuitBreaker: state and failures
    cooled,       \* recovery_timeout has passed since the last failure
    conns,        \* every connection: what is under way, and whether its ends are open
    conn,         \* the receiver's connection, 0 before accept
    reading,      \* where get is: idle, length, body (and of which message) or garbage
    got,          \* messages get has returned in the life of this receiver
    puts,         \* calls of put so far
    cuts          \* frames cut so far

senderVars   == <<sock, breaker, cooled, puts>>
receiverVars == <<conn, reading, got, cuts>>
socketVars   == <<type, listening, conns, senderVars, receiverVars>>

Absent == -2          \* no sender to put with
Dead   == -1          \* a socket whose connect failed
NoSock == 0

Idle     == [at |-> "idle", of |-> 0]
AtLength == [at |-> "length", of |-> 0]
Garbage  == [at |-> "garbage", of |-> 0]
Body(m)  == [at |-> "body", of |-> m]

Parts == [part : {"length", "body"}, of : 1..Puts]

\* wire: the parts on their way; sent (history): the messages sendall took; open: the
\* sender has not closed it; up: the receiver it was made to lives.
NewConn == [wire |-> <<>>, sent |-> <<>>, open |-> TRUE, up |-> TRUE]

\* create_transport_sender.  A gRPC or ZeroMQ sender has no TCP sender before connect().
\* Over HTTP one queue, in the receiver, takes the place of the connections.
SocketInit ==
    /\ type \in SocketTypes
    /\ listening = TRUE /\ cooled = FALSE
    /\ sock = CASE type \in {"grpc", "zeromq"} -> Absent [] type = "http" -> 1 [] OTHER -> NoSock
    /\ breaker = [state |-> "CLOSED", failures |-> 0]
    /\ conns = (IF type = "http" THEN <<NewConn>> ELSE <<>>)
    /\ conn = Len(conns) /\ reading = Idle
    /\ got = <<>> /\ puts = 0 /\ cuts = 0

-----------------------------------------------------------------------------
(* The circuit breaker.                                                    *)

Breaks == type \notin {"uds", "http"}

Closed == [state |-> "CLOSED", failures |-> 0]

RecordFailure(b) ==
    IF ~ Breaks THEN b
    ELSE [failures |-> b.failures + 1,
          state |-> IF b.failures + 1 >= FailureThreshold THEN "OPEN" ELSE b.state]

RecordSuccess(b) == IF Breaks THEN Closed ELSE b

\* check() raises in the open state until recovery_timeout has passed.
MayTry   == breaker.state # "OPEN" \/ cooled
Checked  == IF breaker.state = "OPEN" THEN [breaker EXCEPT !.state = "HALF_OPEN"] ELSE breaker

Cool == breaker.state = "OPEN" /\ ~ cooled /\ cooled' = TRUE
        /\ UNCHANGED <<type, listening, conns, sock, breaker, puts, receiverVars>>

-----------------------------------------------------------------------------
(* The sender.                                                             *)

Sending == UNCHANGED <<type, listening, receiverVars>>
Called  == puts < Puts /\ puts' = puts + 1 /\ Sending
Failed(b) == b.failures < Refusals /\ breaker' = RecordFailure(b) /\ cooled' = FALSE

Frame(m) == <<[part |-> "length", of |-> m], [part |-> "body", of |-> m]>>

\* What sendall does to a connection.  One whose receiver has gone takes the bytes and
\* loses them, until the answer to the first of them has come back.
Written(c, m) ==
    [c EXCEPT !.sent = Append(@, m), !.wire = IF c.up THEN @ \o Frame(m) ELSE @]

\* CircuitBreakerOpenException, or the AttributeError of a gRPC sender without its TCP sender.
PutRefused ==
    /\ Called /\ (~ MayTry \/ (sock = Absent /\ type = "grpc"))
    /\ UNCHANGED <<conns, sock, breaker, cooled>>

\* gRPC, NATS and ZeroMQ: connect() by itself makes a new TCP sender, whose breaker is new.
Wraps == type \in {"grpc", "nats", "zeromq"}

\* connect() by itself or from a put() that has no socket: the breaker it goes by.
Connecting(alone) ==
    /\ IF alone THEN sock \notin DOMAIN conns
                ELSE sock = NoSock \/ (sock = Absent /\ type = "zeromq")
    /\ (alone /\ Wraps) \/ MayTry
BreakerOf(alone) == IF alone /\ Wraps THEN Closed ELSE Checked

\* socket(), then ten attempts (UDS: a hundred).
Connect(alone) ==
    /\ Connecting(alone) /\ listening /\ Len(conns) < Connections
    /\ sock' = Len(conns) + 1 /\ breaker' = RecordSuccess(BreakerOf(alone)) /\ UNCHANGED cooled

ConnectAlone ==
    /\ Connect(TRUE) /\ Sending
    /\ conns' = Append(conns, NewConn) /\ UNCHANGED puts

\* The put() of a ZeroMQ sender that makes its TCP sender goes on to the ZeroMQ socket it
\* has not, and raises: connected, and nothing is written.
PutConnecting ==
    /\ Called /\ Connect(FALSE)
    /\ conns' = Append(conns, IF sock = Absent THEN NewConn ELSE Written(NewConn, puts'))

ConnectFails ==
    \E alone \in BOOLEAN :
        /\ Connecting(alone) /\ ~ listening
        /\ Failed(BreakerOf(alone)) /\ sock' = Dead /\ UNCHANGED conns
        /\ IF alone THEN Sending /\ UNCHANGED puts ELSE Called

Put ==
    /\ Called /\ MayTry /\ sock \in DOMAIN conns /\ (type = "http" => listening)
    /\ conns' = [conns EXCEPT ![sock] = Written(@, puts')]
    /\ breaker' = RecordSuccess(Checked) /\ UNCHANGED <<sock, cooled>>

Hangup == IF sock \in DOMAIN conns THEN [conns EXCEPT ![sock].open = FALSE] ELSE conns

\* sendall raises on a socket that is not connected or whose peer has gone.
PutFails ==
    /\ Called /\ MayTry /\ Failed(Checked)
    /\ sock = Dead \/ (sock \in DOMAIN conns /\ ~ conns[sock].up)
    /\ IF type = "uds" THEN UNCHANGED <<sock, conns>>
       ELSE sock' = (IF type = "http" THEN sock ELSE NoSock) /\ conns' = Hangup

\* Mutant: a late answer is a refused connection, and the request is made again.
PostUnansweredAgain ==
    /\ type = "http" /\ listening /\ Called
    /\ conns' = [conns EXCEPT ![sock] = Written(Written(@, puts'), puts')]
    /\ UNCHANGED <<sock, breaker, cooled>>

\* HTTP: the request was queued and its answer came too late, or not at all.
PostUnanswered ==
    /\ type = "http" /\ listening /\ Called
    /\ conns' = [conns EXCEPT ![sock] = Written(@, puts')]
    /\ UNCHANGED <<sock, breaker, cooled>>

CloseSender ==
    /\ type # "http" /\ sock \notin {NoSock, Absent}
    /\ sock' = NoSock /\ conns' = Hangup
    /\ Sending /\ UNCHANGED <<breaker, cooled, puts>>

-----------------------------------------------------------------------------
(* The receiver.                                                           *)

Reading == listening /\ UNCHANGED <<type, listening, senderVars>>
Arrived == conns[conn].wire

\* accept(): the oldest connection of the backlog, once in the receiver's life.
AcceptConn ==
    /\ Reading /\ conn = 0
    /\ \E c \in DOMAIN conns :
          conns[c].up /\ (\A d \in 1..(c - 1) : ~ conns[d].up) /\ conn' = c
    /\ UNCHANGED <<conns, reading, got, cuts>>

BeginGet ==
    /\ Reading /\ conn # 0 /\ reading = Idle /\ Arrived # <<>>
    /\ reading' = AtLength /\ UNCHANGED <<conns, conn, got, cuts>>

\* recv(): a length read as one announces its message; a body read as a length announces
\* nonsense, and so does everything that is read to fill it.
Receive ==
    /\ Reading /\ conn # 0 /\ reading # Idle /\ Arrived # <<>>
    /\ conns' = [conns EXCEPT ![conn].wire = Tail(@)]
    /\ \/ reading = AtLength /\ Head(Arrived).part = "length"
          /\ reading' = Body(Head(Arrived).of) /\ UNCHANGED got
       \/ reading.at = "body" /\ reading' = Idle /\ got' = Append(got, reading.of)
       \/ (reading = Garbage \/ (reading = AtLength /\ Head(Arrived).part = "body"))
          /\ reading' = Garbage /\ UNCHANGED got
    /\ UNCHANGED <<conn, cuts>>

\* queue.Empty with part of a frame read: the part is lost.  HTTP has whole messages.
CutFrame ==
    /\ Reading /\ type # "http" /\ reading.at \in {"body", "garbage"} /\ cuts < Cuts
    /\ cuts' = cuts + 1 /\ reading' = Idle /\ UNCHANGED <<conns, conn, got>>

\* DONE in the middle of a frame: the connection's end, or nonsense that is no JSON.  The
\* receiver keeps the connection; DONE between frames changes nothing.
GetDone ==
    /\ Reading /\ reading # Idle
    /\ reading = Garbage \/ (Arrived = <<>> /\ ~ conns[conn].open)
    /\ reading' = Idle /\ UNCHANGED <<conns, conn, got, cuts>>

\* The receiver's process ends, and a new one binds the address.
StopListening ==
    /\ listening /\ listening' = FALSE
    /\ conns' = [c \in DOMAIN conns |-> [conns[c] EXCEPT !.up = FALSE, !.wire = <<>>]]
    /\ reading' = Idle /\ UNCHANGED <<type, senderVars, conn, got, cuts>>

Listen ==
    /\ ~ listening /\ listening' = TRUE
    /\ IF type = "http" THEN conns' = <<NewConn>> /\ UNCHANGED conn
       ELSE conn' = 0 /\ UNCHANGED conns
    /\ got' = <<>> /\ cuts' = 0 /\ UNCHANGED <<type, senderVars, reading>>

SocketNext ==
    \/ PutRefused \/ PutConnecting \/ Put \/ PutFails \/ PostUnanswered
    \/ ConnectAlone \/ ConnectFails \/ CloseSender \/ Cool
    \/ AcceptConn \/ BeginGet \/ Receive \/ CutFrame \/ GetDone
    \/ StopListening \/ Listen

SocketSpec == SocketInit /\ [][SocketNext]_socketVars
-----------------------------------------------------------------------------
(* What the transport must guarantee.                                      *)

SocketTypeOK ==
    /\ type \in SocketTypes /\ listening \in BOOLEAN /\ cooled \in BOOLEAN
    /\ sock \in {Absent, Dead, NoSock} \cup DOMAIN conns
    /\ breaker \in [state : {"CLOSED", "OPEN", "HALF_OPEN"}, failures : 0..Refusals]
    /\ \A c \in DOMAIN conns : /\ conns[c].wire \in Seq(Parts) /\ conns[c].sent \in Seq(1..Puts)
                               /\ conns[c].open \in BOOLEAN /\ conns[c].up \in BOOLEAN
    /\ conn \in {0} \cup DOMAIN conns /\ reading \in [at : {"idle", "length", "body", "garbage"}, of : 0..Puts]
    /\ got \in Seq(1..Puts) /\ puts \in 0..Puts /\ cuts \in 0..Cuts

\* The wire w holds what is left of the frames of the messages s when n parts have been read.
LeftOf(w, s, n) ==
    /\ Len(w) = 2 * Len(s) - n
    /\ \A i \in DOMAIN s : /\ 2 * i - 1 > n => w[2 * i - 1 - n] = Frame(s[i])[1]
                           /\ 2 * i > n => w[2 * i - n] = Frame(s[i])[2]

PartsRead == 2 * Len(got) + (IF reading.at = "body" THEN 1 ELSE 0)

\* get returns what put wrote to the connection it accepted, each message once and in order:
\* while that receiver lives, what it returned is the beginning of what was written, the
\* message it is reading the next, and the rest is on the wire, frame for frame.  After a
\* timeout inside a frame some are missing, and still none is made up, repeated or out of
\* turn.
HeardAsWritten ==
    conn # 0 =>
        /\ \A i, j \in DOMAIN got : i < j => got[i] < got[j]
        /\ Range(got) \subseteq Range(conns[conn].sent)
        /\ listening /\ cuts = 0 =>
              /\ IsPrefix(got, conns[conn].sent)
              /\ reading.at = "body" =>
                    Len(got) < Len(conns[conn].sent) /\ reading.of = conns[conn].sent[Len(got) + 1]
              /\ LeftOf(conns[conn].wire, conns[conn].sent, PartsRead)

\* FAILURE_RECOVERY_GUIDE.md:11: "After a timeout (default 10s), the breaker shifts to
\* HALF_OPEN. If the next connection succeeds, it closes", and OPERATIONAL_RUNBOOK.md:15: "The
\* breaker will automatically close 10 seconds after recovery."  So the first put after the
\* timeout closes the breaker if the receiver is there.
ClosesAfterRecovery ==
    [][ breaker.state = "OPEN" /\ puts' # puts /\ breaker' # breaker /\ listening
          => breaker'.state = "CLOSED" ]_socketVars
=============================================================================
