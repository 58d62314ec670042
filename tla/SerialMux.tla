----------------------------- MODULE SerialMux -----------------------------
(***************************************************************************)
(* The UART server thread (src/src/uart_server.c): one poll loop that      *)
(* accepts TCP clients, copies what the flight controller says to every    *)
(* client, copies what the commanding client says to the serial port, and  *)
(* takes user commands from a FIFO.                                        *)
(*                                                                         *)
(* The client list is the linked list of the code: a node is named by the  *)
(* id of its client, `next' is its next field, `head' is g_clients, and a  *)
(* `struct ClientNode **' is the node whose next field it points to, or    *)
(* NULL for &g_clients.  Every handler of the loop is a step of its own,   *)
(* so that peers, the flight controller and signals act between any two.   *)
(*                                                                         *)
(* The kernel's side of a TCP connection is external and modelled as the   *)
(* code sees it through poll, recv and send:                               *)
(*   est   established                                                     *)
(*   fin   the peer has closed its end: recv gives 0 once rx is drained    *)
(*   rst   reset, error not yet reported: the next recv or send gives -1   *)
(*   dead  reset, error reported (or the peer had closed first): send      *)
(*         gives EPIPE and raises SIGPIPE                                  *)
(* Every bound is a constant; all bounds restrict the environment only.    *)
(***************************************************************************)
EXTENDS Integers

CONSTANTS
    MaxId,           \* bound: ids 0 .. MaxId are given out
    Fds,             \* the descriptors the process may still open
    Backlog,         \* bound: connections waiting in listen()'s queue
    SndBuf,          \* bound: chunks a peer leaves unread before send blocks
    MaxRx,           \* bound: chunks a peer has sent and recv has not taken
    MaxCmd,          \* bound: user commands waiting in the FIFO
    MaxChunk,        \* bound: chunks read from the serial port
    Signals,         \* bound: whether a termination signal may arrive
    SigpipeIgnored   \* TRUE when GLib's sockets (an RTSP camera) set SIG_IGN

ASSUME MuxAssumption ==
    /\ MaxId \in Nat
    /\ Fds \subseteq Nat
    /\ Backlog \in Nat \ {0}
    /\ SndBuf \in Nat \ {0}
    /\ MaxRx \in Nat \ {0}
    /\ MaxCmd \in Nat
    /\ MaxChunk \in Nat
    /\ Signals \in BOOLEAN
    /\ SigpipeIgnored \in BOOLEAN

VARIABLES
    \* the client list
    head,            \* g_clients
    next,            \* the next field of every node
    nodes,           \* the nodes allocated and not freed
    fd,              \* the client field (socket) of every node
    lastId,          \* g_last_id
    \* the commanding client
    commanding,      \* g_commanding_client
    waiter,          \* g_waiters[EVENT_CLIENT_INDEX].fd
    lastCommander,   \* the static last_commander
    tryout,          \* the static tryout
    author,          \* the client whose data was last written to the port
    \* control of the loop
    pc,              \* where the thread is in the loop
    rev,             \* the revents fields filled in by poll
    prev, cur,       \* the cursor (previous, current) of the fan-out
    proc,            \* "up", "exited", or "killed" by SIGPIPE
    \* the environment
    sock, rx, tx,    \* per connection: TCP state, unread by us, by the peer
    pending,         \* connections waiting to be accepted
    serialIn,        \* the serial port: "idle", "data" to read, or "hup"
    chunk,           \* chunks read from the serial port so far
    got,             \* per client: chunks sent to it, or missed before it
    fifo,            \* user commands waiting
    closing          \* a byte is in the g_close pipe

listVars == <<head, next, nodes, fd, waiter, sock, rx, tx, got>>
commandVars == <<commanding, lastCommander, tryout, author>>
cursorVars == <<prev, cur>>
envVars == <<pending, serialIn, fifo, closing>>
vars == <<listVars, commandVars, cursorVars, envVars, lastId, pc, rev, proc,
          chunk>>

Ids == 0 .. MaxId
NULL == -1
NoFd == -1
SockStates == {"none", "est", "fin", "rst", "dead"}
Pcs == {"poll", "client", "server", "serial", "send", "cmd", "elect",
        "shutdown"}

Revents == [client : SUBSET {"IN", "HUP"}, server : BOOLEAN,
            serial : BOOLEAN, cmd : BOOLEAN]
NoRevents == [client |-> {}, server |-> FALSE, serial |-> FALSE, cmd |-> FALSE]

\* The loop is entered with no client; connections and commands may already
\* be queued, because the listening socket and the FIFO are open while the
\* thread still waits for the flight controller.
Init ==
    /\ head = NULL
    /\ next = [n \in Ids |-> NULL]
    /\ nodes = {}
    /\ fd = [n \in Ids |-> NoFd]
    /\ lastId = -1
    /\ commanding = -1
    /\ waiter = NoFd
    /\ lastCommander = -1
    /\ tryout = 0
    /\ author = -1
    /\ pc = "poll"
    /\ rev = NoRevents
    /\ prev = NULL
    /\ cur = NULL
    /\ proc = "up"
    /\ sock = [n \in Ids |-> "none"]
    /\ rx = [n \in Ids |-> 0]
    /\ tx = [n \in Ids |-> 0]
    /\ pending \in {p \in 0 .. Backlog : p <= MaxId + 1}
    /\ serialIn = "idle"
    /\ chunk = 0
    /\ got = [n \in Ids |-> 0]
    /\ fifo \in 0 .. MaxCmd
    /\ closing = FALSE
-----------------------------------------------------------------------------
(* terminate_client *)

\* What `*pointer' is.
Deref(p) == IF p = NULL THEN head ELSE next[p]

\* The early return of terminate_client: nothing to do, NULL is returned.
Refused(n, p) == n = NULL \/ Deref(p) # n

\* The next node, which terminate_client returns.
Successor_skipsOne(n, p) == IF next[n] = NULL THEN NULL ELSE next[next[n]]
Successor(n, p) == IF Refused(n, p) THEN NULL ELSE next[n]

\* The event wait on the commanding client ends with it.
WaiterWithout_kept(n) == waiter
WaiterWithout(n) == IF n = commanding THEN NoFd ELSE waiter

\* The list without node n: the link p takes over what n pointed to.
NextWithout_unlinkLast(n, p) == [next EXCEPT ![n] = NULL]
NextWithout(n, p) == [m \in Ids |-> IF m = n THEN NULL
                                   ELSE IF m = p THEN next[n] ELSE next[m]]

\* Unlink node n from the link p, close its socket and free it.  The fields of
\* a freed node go back to what they were before it was allocated.
TerminateClient(n, p) ==
    IF Refused(n, p) THEN UNCHANGED listVars
    ELSE
      /\ waiter' = WaiterWithout(n)
      /\ head' = IF p = NULL THEN next[n] ELSE head
      /\ next' = NextWithout(n, p)
      /\ nodes' = nodes \ {n}
      /\ fd' = [fd EXCEPT ![n] = NoFd]
      /\ sock' = [sock EXCEPT ![n] = "none"]
      /\ rx' = [rx EXCEPT ![n] = 0]
      /\ tx' = [tx EXCEPT ![n] = 0]
      /\ got' = [got EXCEPT ![n] = 0]
-----------------------------------------------------------------------------
(* The main loop *)

At(l) == proc = "up" /\ pc = l

\* What poll reports for the connection of node n.
Readiness(n) ==
    (IF rx[n] > 0 \/ sock[n] # "est" THEN {"IN"} ELSE {})
      \cup (IF sock[n] \in {"rst", "dead"} THEN {"HUP"} ELSE {})

\* poll looks at descriptors, not at nodes: whichever connection has the
\* descriptor in the waiter is the one reported.
ClientRevents == UNION {Readiness(n) : n \in {m \in nodes : fd[m] = waiter}}

\* poll with no timeout: a step only when something is ready.  The close event
\* is tested first and leaves the loop.
Poll ==
    /\ At("poll")
    /\ rev' = [client |-> ClientRevents,
               server |-> pending > 0,
               serial |-> serialIn # "idle",
               cmd |-> fifo > 0]
    /\ closing \/ rev' # NoRevents
    /\ pc' = IF closing THEN "shutdown" ELSE "client"
    /\ UNCHANGED <<listVars, commandVars, cursorVars, envVars, lastId, proc,
                   chunk>>

\* POLLHUP or POLLERR on the waiter: the head of the list is removed; revents
\* is not cleared.
ClientHangup ==
    /\ At("client")
    /\ "HUP" \in rev.client
    /\ TerminateClient(head, NULL)
    /\ pc' = "server"
    /\ UNCHANGED <<commandVars, cursorVars, envVars, lastId, rev, proc, chunk>>

\* tryout as handle_commanding_client leaves it before the recv.
Tries_neverReset == tryout
Tries_alwaysReset == 0
Tries == IF lastCommander = commanding THEN tryout ELSE 0

\* recv gave data, which goes to the serial port under serial_tx_mtx; a failed
\* serial_write is not noticed.
CommandData ==
    /\ rx[head] > 0
    /\ lastCommander' = commanding
    /\ tryout' = Tries
    /\ rx' = [rx EXCEPT ![head] = @ - 1]
    /\ author' = head
    /\ UNCHANGED <<head, next, nodes, fd, waiter, sock, tx, got, commanding>>

\* recv gave 0 or -1: three such results are forgiven, the fourth removes the
\* client.  Reporting the error of a reset connection uses it up.
CommandFailure ==
    /\ rx[head] = 0 /\ sock[head] # "est"
    /\ lastCommander' = commanding
    /\ tryout' = Tries + 1
    /\ IF Tries = 3
       THEN TerminateClient(head, NULL)
       ELSE /\ sock' = [sock EXCEPT ![head] = IF @ = "rst" THEN "dead" ELSE @]
            /\ UNCHANGED <<head, next, nodes, fd, waiter, rx, tx, got>>
    /\ UNCHANGED <<commanding, author>>

\* handle_commanding_client.  recv is called on the head of the list and
\* blocks while an established connection has nothing to read.
HandleCommandingClient ==
    /\ At("client")
    /\ "HUP" \notin rev.client /\ "IN" \in rev.client
    /\ IF head = NULL THEN UNCHANGED <<listVars, commandVars>>
       ELSE CommandData \/ CommandFailure
    /\ rev' = [rev EXCEPT !.client = {}]
    /\ pc' = "server"
    /\ UNCHANGED <<cursorVars, envVars, lastId, proc, chunk>>

\* The list with node id at its end, where the walk along next stops; its own
\* next field is cleared.
NextWith(id) == [m \in Ids |-> IF m = id THEN NULL
                              ELSE IF m \in nodes /\ next[m] = NULL
                                   THEN id ELSE next[m]]

\* The id of the next client.
FreshId_lowest == CHOOSE n \in Ids \ nodes : \A m \in Ids \ nodes : n <= m
FreshId == lastId + 1

\* accept_client: the new node goes to the end of the list.
AcceptClient(f) ==
    /\ At("server") /\ rev.server
    /\ f \in Fds /\ \A n \in nodes : fd[n] # f
    /\ lastId < MaxId
    /\ LET id == FreshId IN
         /\ lastId' = id
         /\ nodes' = nodes \cup {id}
         /\ fd' = [fd EXCEPT ![id] = f]
         /\ sock' = [sock EXCEPT ![id] = "est"]
         /\ got' = [got EXCEPT ![id] = chunk]
         /\ head' = IF head = NULL THEN id ELSE head
         /\ next' = NextWith(id)
    /\ pending' = pending - 1
    /\ rev' = [rev EXCEPT !.server = FALSE]
    /\ pc' = "serial"
    /\ UNCHANGED <<waiter, rx, tx, commandVars, cursorVars, serialIn, fifo,
                   closing, proc, chunk>>

\* accept fails for want of a descriptor: the node is freed again and the
\* connection stays in the queue.
AcceptFails ==
    /\ At("server") /\ rev.server
    /\ \A f \in Fds : \E n \in nodes : fd[n] = f
    /\ rev' = [rev EXCEPT !.server = FALSE]
    /\ pc' = "serial"
    /\ UNCHANGED <<listVars, commandVars, cursorVars, envVars, lastId, proc,
                   chunk>>

\* send_data_to_clients up to its loop: a chunk is read and the cursor is put
\* on the first client.
ReadSerial ==
    /\ At("serial") /\ rev.serial
    /\ serialIn = "data"
    /\ chunk' = chunk + 1
    /\ serialIn' = "idle"
    /\ cur' = head /\ prev' = NULL
    /\ rev' = [rev EXCEPT !.serial = FALSE]
    /\ pc' = "send"
    /\ UNCHANGED <<listVars, commandVars, lastId, proc, pending, fifo, closing>>

\* The port has been hung up: serial_read gives 0 and the handler returns.
ReadSerialFails ==
    /\ At("serial") /\ rev.serial
    /\ serialIn = "hup"
    /\ rev' = [rev EXCEPT !.serial = FALSE]
    /\ pc' = "cmd"
    /\ UNCHANGED <<listVars, commandVars, cursorVars, envVars, lastId, proc,
                   chunk>>

\* The sockets block: a client whose peer has stopped reading keeps the thread
\* here.
SendChunk ==
    /\ At("send") /\ cur # NULL
    /\ sock[cur] \in {"est", "fin"}
    /\ tx[cur] < SndBuf
    /\ tx' = [tx EXCEPT ![cur] = @ + 1]
    /\ got' = [got EXCEPT ![cur] = @ + 1]
    /\ prev' = Deref(prev)
    /\ cur' = next[cur]
    /\ UNCHANGED <<head, next, nodes, fd, waiter, sock, rx, commandVars,
                   envVars, lastId, pc, rev, proc, chunk>>

\* send gave -1: the client is removed and the cursor moves to the next one.
SendFails_retried ==
    /\ At("send") /\ cur # NULL
    /\ sock[cur] = "rst" \/ (sock[cur] = "dead" /\ SigpipeIgnored)
    /\ sock' = [sock EXCEPT ![cur] = "dead"]
    /\ UNCHANGED <<head, next, nodes, fd, waiter, rx, tx, got, cursorVars,
                   commandVars, envVars, lastId, pc, rev, proc, chunk>>
SendFails ==
    /\ At("send") /\ cur # NULL
    /\ sock[cur] = "rst" \/ (sock[cur] = "dead" /\ SigpipeIgnored)
    /\ TerminateClient(cur, prev)
    /\ cur' = Successor(cur, prev)
    /\ UNCHANGED <<prev, commandVars, envVars, lastId, pc, rev, proc, chunk>>

\* send is called without MSG_NOSIGNAL: with the default action SIGPIPE ends
\* the process.
SendKills ==
    /\ At("send") /\ cur # NULL
    /\ sock[cur] = "dead" /\ ~SigpipeIgnored
    /\ proc' = "killed"
    /\ UNCHANGED <<listVars, commandVars, cursorVars, envVars, lastId, pc, rev,
                   chunk>>

SendDone ==
    /\ At("send") /\ cur = NULL
    /\ pc' = "cmd"
    /\ UNCHANGED <<listVars, commandVars, cursorVars, envVars, lastId, rev,
                   proc, chunk>>

\* read_user_cmd takes one command and sends its tune.
ReadUserCmd ==
    /\ At("cmd") /\ rev.cmd
    /\ fifo' = fifo - 1
    /\ rev' = [rev EXCEPT !.cmd = FALSE]
    /\ pc' = "elect"
    /\ UNCHANGED <<listVars, commandVars, cursorVars, lastId, proc, chunk,
                   pending, serialIn, closing>>

\* Whether the head of the list has yet to take command.
Vacant_onlyOnce == head # NULL /\ commanding = -1
Vacant == head # NULL /\ commanding # head

\* The descriptor to wait on from now.
Armed_lastInList == fd[CHOOSE n \in nodes : next[n] = NULL]
Armed == fd[head]

\* The end of the loop body: the head of the list takes command.
Elect ==
    /\ At("elect")
    /\ IF Vacant
       THEN /\ waiter' = Armed
            /\ rev' = [rev EXCEPT !.client = {}]
            /\ commanding' = head
       ELSE UNCHANGED <<waiter, rev, commanding>>
    /\ pc' = "poll"
    /\ UNCHANGED <<head, next, nodes, fd, sock, rx, tx, got, lastCommander,
                   tryout, author, cursorVars, envVars, lastId, proc, chunk>>

\* An event that poll did not report is passed over.
Skip(here, there) ==
    /\ At(here)
    /\ pc' = there
    /\ UNCHANGED <<listVars, commandVars, cursorVars, envVars, lastId, rev,
                   proc, chunk>>

SkipEvent ==
    \/ rev.client = {} /\ Skip("client", "server")
    \/ ~rev.server /\ Skip("server", "serial")
    \/ ~rev.serial /\ Skip("serial", "cmd")
    \/ ~rev.cmd /\ Skip("cmd", "elect")

\* poll fails, and the loop is left.
PollFails == Skip("poll", "shutdown")

\* After the loop: remove every client, then exit.
ShutdownClient ==
    /\ At("shutdown") /\ head # NULL
    /\ TerminateClient(head, NULL)
    /\ UNCHANGED <<commandVars, cursorVars, envVars, lastId, pc, rev, proc,
                   chunk>>

ShutdownExit ==
    /\ At("shutdown") /\ head = NULL
    /\ proc' = "exited"
    /\ UNCHANGED <<listVars, commandVars, cursorVars, envVars, lastId, pc, rev,
                   chunk>>

Server ==
    \/ Poll \/ ClientHangup \/ HandleCommandingClient
    \/ (\E f \in Fds : AcceptClient(f)) \/ AcceptFails
    \/ ReadSerial \/ ReadSerialFails
    \/ SendChunk \/ SendFails \/ SendKills \/ SendDone
    \/ ReadUserCmd \/ Elect \/ SkipEvent \/ ShutdownClient \/ ShutdownExit
-----------------------------------------------------------------------------
(* sig_handler, on whichever thread the signal arrives: it writes to the pipe *)
(* and calls exit(0) itself, with the UART thread anywhere in its loop.       *)

Signal ==
    /\ Signals /\ proc = "up" /\ ~closing
    /\ closing' = TRUE
    /\ UNCHANGED <<listVars, commandVars, cursorVars, pending, serialIn, fifo,
                   lastId, pc, rev, proc, chunk>>

HandlerExit ==
    /\ proc = "up" /\ closing
    /\ proc' = "exited"
    /\ UNCHANGED <<listVars, commandVars, cursorVars, envVars, lastId, pc, rev,
                   chunk>>
-----------------------------------------------------------------------------
(* The environment: TCP peers, the flight controller, the commander process *)

EnvUnchanged == UNCHANGED <<head, next, nodes, fd, waiter, got, commandVars,
                            cursorVars, lastId, pc, rev, proc, chunk>>

PeerConnects ==
    /\ pending < Backlog /\ lastId + 1 + pending <= MaxId
    /\ pending' = pending + 1
    /\ UNCHANGED <<sock, rx, tx, serialIn, fifo, closing>>
    /\ EnvUnchanged

PeerSends(c) ==
    /\ sock[c] = "est" /\ rx[c] < MaxRx
    /\ rx' = [rx EXCEPT ![c] = @ + 1]
    /\ UNCHANGED <<sock, tx, pending, serialIn, fifo, closing>>
    /\ EnvUnchanged

PeerReads(c) ==
    /\ sock[c] \in {"est", "fin"} /\ tx[c] > 0
    /\ tx' = [tx EXCEPT ![c] = @ - 1]
    /\ UNCHANGED <<sock, rx, pending, serialIn, fifo, closing>>
    /\ EnvUnchanged

PeerCloses(c) ==
    /\ sock[c] = "est"
    /\ sock' = [sock EXCEPT ![c] = "fin"]
    /\ UNCHANGED <<rx, tx, pending, serialIn, fifo, closing>>
    /\ EnvUnchanged

\* A reset after the peer's FIN leaves EPIPE, not ECONNRESET, on the socket.
PeerResets(c) ==
    /\ sock[c] \in {"est", "fin"}
    /\ sock' = [sock EXCEPT ![c] = IF @ = "est" THEN "rst" ELSE "dead"]
    /\ UNCHANGED <<rx, tx, pending, serialIn, fifo, closing>>
    /\ EnvUnchanged

FcuSends ==
    /\ serialIn = "idle" /\ chunk < MaxChunk
    /\ serialIn' = "data"
    /\ UNCHANGED <<sock, rx, tx, pending, fifo, closing>>
    /\ EnvUnchanged

\* The serial device goes away.
SerialHangup ==
    /\ serialIn # "hup"
    /\ serialIn' = "hup"
    /\ UNCHANGED <<sock, rx, tx, pending, fifo, closing>>
    /\ EnvUnchanged

UserCommand ==
    /\ fifo < MaxCmd
    /\ fifo' = fifo + 1
    /\ UNCHANGED <<sock, rx, tx, pending, serialIn, closing>>
    /\ EnvUnchanged

Peer(c) == PeerSends(c) \/ PeerReads(c) \/ PeerCloses(c) \/ PeerResets(c)

Environment ==
    /\ proc = "up"
    /\ \/ PeerConnects \/ FcuSends \/ SerialHangup \/ UserCommand
       \/ \E c \in Ids : Peer(c)

\* The process has ended.
Ended == proc # "up" /\ UNCHANGED vars

Next == Server \/ PollFails \/ Signal \/ HandlerExit \/ Environment \/ Ended

Spec == Init /\ [][Next]_vars

\* What a client has not read is read some day, or its connection is reset.
\* The code relies on it: its sockets block, so a client that keeps its
\* connection open and never reads stops the whole thread.
Drain(c) == proc = "up" /\ tx[c] > 0 /\ (PeerReads(c) \/ PeerResets(c))

\* The thread is scheduled, and peers drain.  Nothing obliges a peer, the
\* flight controller or a user to act otherwise, a signal to arrive, or poll to
\* fail.
FairSpec == Spec /\ WF_vars(Server) /\ \A c \in Ids : WF_vars(Drain(c))
-----------------------------------------------------------------------------
(* Properties *)

TypeOK ==
    /\ head \in Ids \cup {NULL}
    /\ next \in [Ids -> Ids \cup {NULL}]
    /\ nodes \subseteq Ids
    /\ fd \in [Ids -> Fds \cup {NoFd}]
    /\ lastId \in -1 .. MaxId
    /\ commanding \in -1 .. MaxId
    /\ waiter \in Fds \cup {NoFd}
    /\ lastCommander \in -1 .. MaxId
    /\ tryout \in 0 .. 4
    /\ author \in -1 .. MaxId
    /\ pc \in Pcs
    /\ rev \in Revents
    /\ prev \in Ids \cup {NULL}
    /\ cur \in Ids \cup {NULL}
    /\ proc \in {"up", "exited", "killed"}
    /\ sock \in [Ids -> SockStates]
    /\ rx \in [Ids -> 0 .. MaxRx]
    /\ tx \in [Ids -> 0 .. SndBuf]
    /\ pending \in 0 .. Backlog
    /\ serialIn \in {"idle", "data", "hup"}
    /\ chunk \in 0 .. MaxChunk
    /\ got \in [Ids -> 0 .. MaxChunk]
    /\ fifo \in 0 .. MaxCmd
    /\ closing \in BOOLEAN

\* The list holds exactly the connections accepted and not closed, oldest
\* first: g_clients is the oldest, every next field leads to the next older
\* one and never to a freed node, and no two nodes share a descriptor
\* (accept_client, terminate_client).
ListSound ==
    /\ head = NULL <=> nodes = {}
    /\ head # NULL => head \in nodes /\ \A m \in nodes : head <= m
    /\ \A n \in nodes :
         IF next[n] = NULL
         THEN \A m \in nodes : m <= n
         ELSE /\ next[n] \in nodes /\ n < next[n]
              /\ \A m \in nodes : m <= n \/ next[n] <= m
    /\ \A m, n \in nodes : fd[m] = fd[n] => m = n

\* Throughout the fan-out `*previous' is `current', and neither cursor is ever
\* left on a client that terminate_client has freed (send_data_to_clients).
CursorSound ==
    pc = "send" => /\ {cur, prev} \subseteq nodes \cup {NULL}
                   /\ Deref(prev) = cur

\* Whenever the thread waits, the descriptor it waits on for commands is that
\* of the client connected longest, and there is one unless no client is
\* left; at no time is it that of any other client, although descriptors are
\* reused (terminate_client and the end of the loop).
ArmedOnOldest ==
    waiter # NoFd => head # NULL /\ commanding = head /\ waiter = fd[head]

CommanderIsOldest ==
    /\ ArmedOnOldest
    /\ pc = "poll" /\ nodes # {} => waiter # NoFd

\* handle_commanding_client reads from the head of the list because poll
\* reported the waiter's descriptor: the two are the same connection and the
\* recv that follows cannot block the loop.
RecvNeverBlocks ==
    pc = "client" /\ rev.client # {} =>
        /\ head # NULL
        /\ rx[head] > 0 \/ sock[head] # "est"

\* A client that is still connected has never been forgiven more than three
\* failed reads, although the counter outlives the clients it counts for:
\* `tryout++ == 3' is an equality, and a count beyond it would never match.
TryoutBounded == lastCommander \in nodes => tryout <= 3

\* Every client has been sent every chunk read since it was accepted, once,
\* as soon as a fan-out is over; during one, those before the cursor have had
\* the new chunk and those from the cursor on have not, also when clients are
\* removed on the way (send_data_to_clients).
FanOutComplete ==
    \A n \in nodes :
        got[n] = IF pc = "send" /\ cur # NULL /\ n >= cur
                 THEN chunk - 1 ELSE chunk

\* First-come, first-served command of the serial port: the multiplexer
\* implements the lease.  A client holds it while the waiter is armed.
Lease == INSTANCE CommandLease WITH
            MaxTicket <- MaxId,
            last <- lastId,
            members <- nodes,
            holder <- IF waiter = NoFd THEN -1 ELSE commanding

LeaseImplemented == Lease!Spec

\* Command passes on in the order of connection and never comes back: nothing
\* is written to the port for a client that connected before the one whose
\* data was written last (handle_commanding_client and the end of the loop).
CommandNeverReturns == [][author' >= author]_author

\* Ids are issued in order and the command variables only name issued ones;
\* no client older than the last author is connected; the waiter is armed as
\* long as the commanding client is.
IdsInOrder ==
    /\ nodes \subseteq 0 .. lastId
    /\ commanding <= lastId /\ author <= lastId
    /\ \A n \in nodes : fd[n] \in Fds /\ author <= n
    /\ commanding \in nodes => waiter # NoFd

\* What the thread has been told of the environment is still so when it acts
\* on it: the events poll reported are there when their handler runs.
EventsPending ==
    /\ pc = "client" /\ rev.client # {} => waiter # NoFd
    /\ rev.server => pending > 0
    /\ rev.cmd => fifo > 0
    /\ serialIn = "data" => chunk < MaxChunk

Bookkeeping == IdsInOrder /\ EventsPending /\ lastCommander <= lastId

\* The inductive invariant: the safety properties together, with what they
\* need of each other's variables.
IInv ==
    /\ TypeOK
    /\ Bookkeeping
    /\ ListSound
    /\ CursorSound
    /\ CommanderIsOldest
    /\ RecvNeverBlocks
    /\ TryoutBounded
    /\ FanOutComplete

\* Command is never left vacant: while clients are connected, one of them
\* comes to command the port.
CommanderElected ==
    nodes # {} ~> (waiter # NoFd \/ nodes = {} \/ proc # "up")

\* A commanding client whose peer is gone is removed after a bounded number of
\* failed reads, so that the next client can take over.
DeadCommanderReplaced ==
    \A c \in Ids :
        (c \in nodes /\ c = commanding /\ sock[c] # "est")
            ~> (c \notin nodes \/ proc # "up")

\* A fan-out ends, whoever hangs up during it.  That is the reception of every
\* other client, of the commanding client's data and of the server's own
\* messages: one thread does all of it (send_data_to_clients).  "Serves a
\* serial port over TCP to multiple clients" (uart_server.c:2).
FanOutEnds == pc = "send" ~> (pc # "send" \/ proc # "up")

\* "Register for application termination requests to allow graceful shut down"
\* (uart_server.c:532): when the process exits on a signal, every client has
\* been shut down.
GracefulExit == proc = "exited" => nodes = {}

\* "serves a serial port over TCP to multiple clients" (uart_server.c:2): a
\* client that leaves does not end the service of the others.
ServiceSurvivesClients == proc # "killed"
=============================================================================
