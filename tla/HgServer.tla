------------------------------- MODULE HgServer -----------------------------
(***************************************************************************)
(* hawkgated's HTTP server: HgServer::run, one thread around an            *)
(* edge-triggered epoll instance, the connections it accepts, reads and    *)
(* answers without blocking, and the parser they feed with whatever a read *)
(* returns.  Around it the kernel's sockets and the clients.               *)
(*                                                                         *)
(* A request is a sequence of symbols: a line's text is one, CR and LF are *)
(* one each, as is every unit of the body; so a read may end anywhere a    *)
(* line is not whole.  A response is a number of units.                    *)
(***************************************************************************)
EXTENDS Integers, Sequences, SequencesExt, FiniteSets

CONSTANTS
  Client,    \* each connects once
  Requests,  \* [Client -> [lines, body, extra]]: lines of the head, units of body and beyond
  Cuts,      \* bound: [Client -> SUBSET Nat], where its stream may be cut into packets
  Leaving,   \* bound: the clients that may shut down or reset
  ReadSize,  \* symbols a read returns at most: 4096 bytes
  SendRoom,  \* units a socket takes before the client has received them
  Answer,    \* units of a response
  MaxFds,    \* connections for which there are descriptors
  Listen,    \* the listening socket
  None

ASSUME ClientAssumption == Listen \notin Client /\ None \notin Client
ASSUME SizeAssumption == {ReadSize, SendRoom, Answer, MaxFds} \subseteq Nat \ {0}

(***************************************************************************)
(* HgParser.  "get" is a request line with two spaces, "junk" one without, *)
(* "hdr" a header, "nocolon" none; of Content-Length, "lenbad" is no       *)
(* number.                                                                 *)
(***************************************************************************)
Text == {"get", "junk", "hdr", "len0", "len1", "len2", "nocolon", "lenbad"}
CRLF == <<"CR", "LF">>
Symbol == Text \cup {"CR", "LF", "b"}
Parser == [state: {"REQUEST_LINE", "HEADERS", "BODY", "COMPLETE", "ERROR"},
           buffer: Seq(Symbol), length: Nat]
ASSUME RequestsAssumption ==
  \A c \in Client :
    /\ Requests[c].lines \in Seq(Text)
    /\ Requests[c].lines # <<>>
    /\ \A i \in DOMAIN Requests[c].lines : Requests[c].lines[i] \in {"get", "junk"} <=> i = 1
    /\ Requests[c].body \in Nat /\ Requests[c].extra \in Nat

Conn == [state: {"READING", "WRITING"}, parser: Parser, left: Nat]
ASSUME NoneAssumption == None \notin Conn

Length == [len0 |-> 0, len1 |-> 1, len2 |-> 2]
NewParser == [state |-> "REQUEST_LINE", buffer |-> <<>>, length |-> 0]

Ends(b) == {n \in 1 .. Len(b) - 1 : SubSeq(b, n, n + 1) = CRLF}
FirstEnd(b) == CHOOSE n \in Ends(b) : \A k \in Ends(b) : n <= k
Line(b) == SubSeq(b, 1, FirstEnd(b) - 1)
Behind(b) == SubSeq(b, FirstEnd(b) + 2, Len(b))

RequestLine(p) ==
  IF Ends(p.buffer) = {} THEN p
  ELSE [state |-> IF Line(p.buffer) = <<"get">> THEN "HEADERS" ELSE "ERROR",
        buffer |-> Behind(p.buffer), length |-> p.length]

Header(p) ==
  IF Ends(p.buffer) = {} THEN p
  ELSE LET line == Line(p.buffer)
           q == [p EXCEPT !.buffer = Behind(@)]
       IN IF line = <<>> THEN [q EXCEPT !.state = IF p.length > 0 THEN "BODY" ELSE "COMPLETE"]
          ELSE IF line[1] \in {"nocolon", "lenbad"} THEN [q EXCEPT !.state = "ERROR"]
          ELSE IF line[1] \in DOMAIN Length THEN [q EXCEPT !.length = Length[line[1]]]
          ELSE q

Body(p) ==
  IF Len(p.buffer) < p.length THEN p
  ELSE [state |-> "COMPLETE",
        buffer |-> SubSeq(p.buffer, p.length + 1, Len(p.buffer)), length |-> p.length]

ParseStep[p \in Parser] ==
  CASE p.state = "REQUEST_LINE" -> RequestLine(p)
    [] p.state = "HEADERS" -> Header(p)
    [] p.state = "BODY" -> Body(p)
    [] OTHER -> p

\* The while loop, until a step changes nothing: every other one takes a line or
\* the body from the buffer, so that there are no more of them than symbols in it.
Parse(p) ==
  LET run[n \in Nat] == IF n = 0 THEN p ELSE ParseStep[run[n - 1]]
  IN  run[Len(p.buffer)]

\* Mutant of Feed: what is left of the last read is overwritten.
MFeed(p, data) == Parse([p EXCEPT !.buffer = data])

Feed(p, data) == Parse([p EXCEPT !.buffer = @ \o data])

(***************************************************************************)
(* The state.                                                              *)
(***************************************************************************)
RequestHead(r) ==
  [k \in 1 .. 3 * Len(r.lines) |->
     IF k % 3 = 1 THEN r.lines[(k + 2) \div 3] ELSE CRLF[((k + 1) % 3) + 1]] \o CRLF
Stream ==
  [c \in Client |-> RequestHead(Requests[c])
                     \o [i \in 1 .. Requests[c].body + Requests[c].extra |-> "b"]]

VARIABLES
  phase,   \* client -> "new", "queued", "open", "closed", "refused": its connection
  todo,    \* client -> what it has yet to send
  rx,      \* client -> received by the kernel, not read
  fin,     \* clients that have shut down their sending side
  rst,     \* clients that have reset the connection
  tx,      \* client -> units of the response under way to it
  got,     \* client -> units it has received
  queue,   \* the listening socket's queue
  conn,    \* connections: client -> [state, parser, left], or None
  ready,   \* epoll: sockets with an edge to report, oldest first
  batch,   \* run: the sockets of the last epoll_wait that are not handled yet
  alive,   \* the daemon has not been killed by SIGPIPE
  stalled  \* history: an accept failed and no connection has arrived since

kernel == <<todo, rx, fin, rst, tx, got>>
vars == <<phase, kernel, queue, conn, ready, batch, alive, stalled>>

Init ==
  /\ phase = [c \in Client |-> "new"]
  /\ todo = Stream
  /\ rx = [c \in Client |-> <<>>]
  /\ fin = {} /\ rst = {}
  /\ tx = [c \in Client |-> 0]
  /\ got = [c \in Client |-> 0]
  /\ queue = <<>>
  /\ conn = [c \in Client |-> None]
  /\ ready = <<>>
  /\ batch = <<>>
  /\ alive = TRUE
  /\ stalled = FALSE

Open == {c \in Client : phase[c] = "open"}

\* What a socket is watched for: EPOLLIN until its request is complete, then
\* EPOLLOUT; and whether it has that to report.
Wants(c) == IF conn[c] = None THEN "none" ELSE conn[c].state
HasInput(c) == rx[c] # <<>> \/ c \in fin \cup rst

\* An edge puts a watched socket on the ready list once.
Edge(f) == IF f \in ToSet(ready) THEN ready ELSE Append(ready, f)

\* A socket that is closed is taken from it.
Without(s, f) ==
  IF f \notin ToSet(s) THEN s
  ELSE LET n == CHOOSE n \in DOMAIN s : s[n] = f
       IN  SubSeq(s, 1, n - 1) \o SubSeq(s, n + 1, Len(s))

(***************************************************************************)
(* Clients.                                                                *)
(***************************************************************************)
Connect(c) ==
  /\ phase[c] = "new"
  /\ phase' = [phase EXCEPT ![c] = "queued"]
  /\ queue' = Append(queue, c)
  /\ ready' = Edge(Listen)
  /\ stalled' = FALSE
  /\ UNCHANGED <<kernel, conn, batch, alive>>

Reachable(c) == phase[c] \in {"queued", "open"} /\ c \notin rst
InputEdge(c) == ready' = IF Wants(c) = "READING" THEN Edge(c) ELSE ready

Send(c) ==
  /\ Reachable(c) /\ c \notin fin
  /\ \E n \in {n \in 1 .. Len(todo[c]) : Len(Stream[c]) - Len(todo[c]) + n \in Cuts[c]} :
       /\ rx' = [rx EXCEPT ![c] = @ \o SubSeq(todo[c], 1, n)]
       /\ todo' = [todo EXCEPT ![c] = SubSeq(@, n + 1, Len(@))]
  /\ InputEdge(c)
  /\ UNCHANGED <<phase, fin, rst, tx, got, queue, conn, batch, alive, stalled>>

Finish(c) ==
  /\ c \in Leaving /\ Reachable(c) /\ c \notin fin
  /\ fin' = fin \cup {c}
  /\ InputEdge(c)
  /\ UNCHANGED <<phase, todo, rx, rst, tx, got, queue, conn, batch, alive, stalled>>

\* A reset is an edge whatever the socket is watched for.
Reset(c) ==
  /\ c \in Leaving /\ Reachable(c)
  /\ rst' = rst \cup {c}
  /\ ready' = IF conn[c] # None THEN Edge(c) ELSE ready
  /\ UNCHANGED <<phase, todo, rx, fin, tx, got, queue, conn, batch, alive, stalled>>

\* The client takes what has arrived, also after the daemon has closed.
Receive(c) ==
  /\ tx[c] > 0 /\ c \notin rst
  /\ tx' = [tx EXCEPT ![c] = 0]
  /\ got' = [got EXCEPT ![c] = @ + tx[c]]
  /\ ready' = IF Wants(c) = "WRITING" THEN Edge(c) ELSE ready
  /\ UNCHANGED <<phase, todo, rx, fin, rst, queue, conn, batch, alive, stalled>>

(***************************************************************************)
(* The loop.                                                               *)
(***************************************************************************)
\* epoll_wait; all there is fits into MAX_EVENTS.
EpollWait ==
  /\ alive /\ batch = <<>> /\ ready # <<>>
  /\ batch' = ready
  /\ ready' = <<>>
  /\ UNCHANGED <<phase, kernel, queue, conn, alive, stalled>>

Now(f) == alive /\ batch # <<>> /\ Head(batch) = f
Handled == batch' = Tail(batch)

\* accept_connections: one accept of its loop.
Accept ==
  /\ Now(Listen)
  /\ queue # <<>> /\ Cardinality(Open) < MaxFds
  /\ LET c == Head(queue) IN
       /\ phase' = [phase EXCEPT ![c] = "open"]
       /\ conn' = [conn EXCEPT ![c] = [state |-> "READING", parser |-> NewParser, left |-> 0]]
       /\ ready' = IF HasInput(c) THEN Edge(c) ELSE ready
  /\ queue' = Tail(queue)
  /\ UNCHANGED <<kernel, batch, alive, stalled>>

\* fcntl or epoll_ctl fails: this connection is closed, and the next accepted.
AcceptRefused ==
  /\ Now(Listen)
  /\ queue # <<>> /\ Cardinality(Open) < MaxFds
  /\ phase' = [phase EXCEPT ![Head(queue)] = "refused"]
  /\ queue' = Tail(queue)
  /\ UNCHANGED <<kernel, conn, ready, batch, alive, stalled>>

\* Mutant of AcceptEnds: one connection for each event.
MAcceptEnds ==
  /\ Now(Listen)
  /\ stalled' = (queue # <<>> /\ Cardinality(Open) = MaxFds)
  /\ Handled
  /\ UNCHANGED <<phase, kernel, queue, conn, ready, alive>>

\* EAGAIN; or an error, for want of descriptors or of anything else, and what is
\* queued stays there.
AcceptEnds ==
  /\ Now(Listen)
  /\ stalled' = (queue # <<>>)
  /\ Handled
  /\ UNCHANGED <<phase, kernel, queue, conn, ready, alive>>

\* remove_connection.  A batch has each socket once and its handler is the only
\* one to close it, so no event of a closed connection is left in it.  Closing a
\* socket with input unread resets it.
RemoveConnection(c) ==
  /\ phase' = [phase EXCEPT ![c] = "closed"]
  /\ conn' = [conn EXCEPT ![c] = None]
  /\ ready' = Without(ready, c)
  /\ tx' = IF rx[c] # <<>> THEN [tx EXCEPT ![c] = 0] ELSE tx
  /\ Handled

Reading(c) == Now(c) /\ Wants(c) = "READING"

\* One read of on_readable, and the parser.  Once the request is complete it is
\* routed, and the socket watched for EPOLLOUT, for which there is room.
Read(c) ==
  /\ Reading(c) /\ rx[c] # <<>>
  /\ \E n \in {IF Len(rx[c]) < ReadSize THEN Len(rx[c]) ELSE ReadSize} :
     \E parser \in {Feed(conn[c].parser, SubSeq(rx[c], 1, n))} :
        /\ rx' = [rx EXCEPT ![c] = SubSeq(@, n + 1, Len(@))]
        /\ \/ /\ parser.state = "COMPLETE"
              /\ conn' = [conn EXCEPT ![c] = [state |-> "WRITING", parser |-> parser,
                                              left |-> Answer]]
              /\ ready' = Edge(c)
              /\ Handled
              /\ UNCHANGED <<phase, tx>>
           \/ /\ parser.state = "ERROR"
              /\ RemoveConnection(c)
           \/ /\ parser.state \notin {"COMPLETE", "ERROR"}
              /\ conn' = [conn EXCEPT ![c].parser = parser]
              /\ UNCHANGED <<phase, tx, ready, batch>>
  /\ UNCHANGED <<todo, fin, rst, got, queue, alive, stalled>>

\* Mutant of ReadAgain: one read for each event.
MReadAgain(c) ==
  /\ Reading(c)
  /\ Handled
  /\ UNCHANGED <<phase, kernel, queue, conn, ready, alive, stalled>>

\* EAGAIN.
ReadAgain(c) ==
  /\ Reading(c) /\ ~HasInput(c)
  /\ Handled
  /\ UNCHANGED <<phase, kernel, queue, conn, ready, alive, stalled>>

\* End of file, or the reset.
ReadEnd(c) ==
  /\ Reading(c) /\ rx[c] = <<>> /\ HasInput(c)
  /\ RemoveConnection(c)
  /\ UNCHANGED <<todo, rx, fin, rst, got, queue, alive, stalled>>

Writing(c) == Now(c) /\ Wants(c) = "WRITING"

\* One write of on_writable.
Write(c) ==
  /\ Writing(c) /\ c \notin rst /\ conn[c].left > 0 /\ tx[c] < SendRoom
  /\ tx' = [tx EXCEPT ![c] = @ + 1]
  /\ conn' = [conn EXCEPT ![c].left = @ - 1]
  /\ UNCHANGED <<phase, todo, rx, fin, rst, got, queue, ready, batch, alive, stalled>>

WriteAgain(c) ==
  /\ Writing(c) /\ c \notin rst /\ conn[c].left > 0 /\ tx[c] = SendRoom
  /\ Handled
  /\ UNCHANGED <<phase, kernel, queue, conn, ready, alive, stalled>>

\* All is written; or the connection is reset and the write fails.
WriteEnd(c) ==
  /\ Writing(c)
  /\ conn[c].left = 0 \/ c \in rst
  /\ RemoveConnection(c)
  /\ UNCHANGED <<todo, rx, fin, rst, got, queue, alive, stalled>>

\* A reset after the client's end of file makes the write fail with EPIPE.  The
\* daemon leaves SIGPIPE as it finds it: systemd has it ignored, and the write
\* returns (WriteEnd); when the daemon is started by hand the signal kills it.
BrokenPipe(c) ==
  /\ Writing(c) /\ conn[c].left > 0 /\ c \in rst \cap fin
  /\ alive' = FALSE
  /\ UNCHANGED <<phase, kernel, queue, conn, ready, batch, stalled>>

Serve(c) == Read(c) \/ ReadAgain(c) \/ ReadEnd(c) \/ Write(c) \/ WriteAgain(c) \/ WriteEnd(c)
            \/ BrokenPipe(c)
Loop == EpollWait \/ Accept \/ AcceptRefused \/ AcceptEnds \/ \E c \in Client : Serve(c)

Next == Loop \/ \E c \in Client : Connect(c) \/ Send(c) \/ Finish(c) \/ Reset(c) \/ Receive(c)

Spec == Init /\ [][Next]_vars

\* The loop runs, however long a route may take it, and what a client's host has
\* received the client takes.  Nothing is assumed of when, or whether, it sends.
FairSpec == Spec /\ WF_vars(Loop) /\ \A c \in Client : WF_vars(Receive(c))

-----------------------------------------------------------------------------
(***************************************************************************)
(* Properties.                                                             *)
(***************************************************************************)
\* Where a request is decided: at the end of its first bad line, or where its
\* last Content-Length says.
BadLines(r) ==
  {i \in 1 .. Len(r.lines) :
     r.lines[i] \in (IF i = 1 THEN {"junk"} ELSE {"nocolon", "lenbad"})}
Lengths(r) == {i \in 1 .. Len(r.lines) : r.lines[i] \in DOMAIN Length}
Declared(r) ==
  IF Lengths(r) = {} THEN 0
  ELSE Length[r.lines[CHOOSE i \in Lengths(r) : \A k \in Lengths(r) : k <= i]]
Malformed == {c \in Client : BadLines(Requests[c]) # {}}
Decided ==
  [c \in Client |->
     IF c \notin Malformed THEN Len(RequestHead(Requests[c])) + Declared(Requests[c])
     ELSE 3 * (CHOOSE i \in BadLines(Requests[c]) : \A j \in BadLines(Requests[c]) : i <= j)]
Taken(c) == Len(Stream[c]) - Len(todo[c]) - Len(rx[c])

\* However a request is cut into reads, the connection waits for more until it
\* is decided and no longer, and only a whole, well-formed one is answered.
ReadsWholeRequests ==
  \A c \in Open :
    IF Wants(c) = "READING" THEN Taken(c) < Decided[c]
    ELSE c \notin Malformed /\ Taken(c) >= Decided[c]

\* With edges reported once, the loop never goes to sleep over something left to
\* do: input to read, room to write, a reset, or a connection to accept, unless
\* the last accept failed (accept_connections, on_readable, on_writable).
NoLostEdge ==
  (alive /\ batch = <<>>) =>
    /\ \A c \in Open : (IF Wants(c) = "READING" THEN HasInput(c)
                        ELSE tx[c] < SendRoom \/ c \in rst) => c \in ToSet(ready)
    /\ queue # <<>> /\ ~stalled => Listen \in ToSet(ready)

\* A client that has sent a whole request, and nothing after it, gets the whole
\* answer, whatever other clients do or leave undone.
Exact == {c \in Client : c \notin Malformed /\ Decided[c] = Len(Stream[c])}
Answered ==
  \A c \in Exact : (phase[c] = "open" /\ todo[c] = <<>>)
                      ~> (got[c] = Answer \/ c \in rst \/ ~alive)

\* Unless an accept fails, every connection is taken from the queue.
QueuedIsAccepted ==
  []~stalled => \A c \in Client : phase[c] = "queued" ~> (phase[c] # "queued" \/ ~alive)
=============================================================================
