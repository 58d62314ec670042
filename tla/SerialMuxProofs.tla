-------------------------- MODULE SerialMuxProofs --------------------------
(***************************************************************************)
(* Proofs about the UART server loop, for any number of clients, any       *)
(* descriptors and any of the bounds: its inductive invariant, with it the *)
(* safety properties the runs check, and that the loop implements the      *)
(* first-come, first-served lease of CommandLease.                         *)
(***************************************************************************)
EXTENDS SerialMux, TLAPS

USE MuxAssumption DEF MuxAssumption, Ids, NULL, NoFd

-----------------------------------------------------------------------------
(* The list *)

\* The clients younger than n are those from n's next field on.
LEMMA Younger ==
    ASSUME TypeOK, ListSound, NEW n \in nodes, NEW m \in nodes
    PROVE  m > n <=> next[n] # NULL /\ m >= next[n]
<1>1. n \in Nat /\ m \in Nat
    BY DEF TypeOK
<1>2. CASE next[n] = NULL
    BY <1>1, <1>2 DEF ListSound
<1>3. CASE next[n] # NULL
    <2>1. next[n] \in nodes /\ n < next[n]
        BY <1>3 DEF ListSound
    <2>2. m <= n \/ next[n] <= m
        BY <1>3 DEF ListSound
    <2>3. next[n] \in Nat
        BY SMTT(60), <2>1 DEF TypeOK
    <2>4. QED BY <1>1, <1>3, <2>1, <2>2, <2>3
<1>4. QED BY <1>2, <1>3

-----------------------------------------------------------------------------
(* terminate_client *)

\* A client whose link is at hand is removed.
LEMMA TerminateEffect ==
    ASSUME TypeOK, ListSound, NEW n \in nodes, NEW p \in nodes \cup {NULL},
           Deref(p) = n, TerminateClient(n, p)
    PROVE  /\ p # n
           /\ waiter' = IF n = commanding THEN NoFd ELSE waiter
           /\ head' = IF p = NULL THEN next[n] ELSE head
           /\ next' = NextWithout(n, p)
           /\ nodes' = nodes \ {n}
           /\ fd' = [fd EXCEPT ![n] = NoFd]
           /\ sock' = [sock EXCEPT ![n] = "none"]
           /\ rx' = [rx EXCEPT ![n] = 0]
           /\ tx' = [tx EXCEPT ![n] = 0]
           /\ got' = [got EXCEPT ![n] = 0]
<1>1. ~Refused(n, p)
    BY DEF Refused, TypeOK
<1>2. nodes \subseteq Nat
    BY DEF TypeOK
<1>3. p # n
    BY <1>2 DEF Deref, ListSound
<1>4. QED
    BY <1>1, <1>3 DEF TerminateClient, WaiterWithout

\* The variables keep their types.
LEMMA TerminateTypes ==
    ASSUME TypeOK, ListSound, NEW n \in nodes, NEW p \in nodes \cup {NULL},
           Deref(p) = n, TerminateClient(n, p)
    PROVE  /\ head' \in Ids \cup {NULL}
           /\ next' \in [Ids -> Ids \cup {NULL}]
           /\ nodes' \subseteq Ids
           /\ fd' \in [Ids -> Fds \cup {NoFd}]
           /\ waiter' \in Fds \cup {NoFd}
           /\ sock' \in [Ids -> SockStates]
           /\ rx' \in [Ids -> 0 .. MaxRx]
           /\ tx' \in [Ids -> 0 .. SndBuf]
           /\ got' \in [Ids -> 0 .. MaxChunk]
<1>1. n \in Ids /\ next[n] \in Ids \cup {NULL}
    BY DEF TypeOK
<1>2. /\ waiter' = IF n = commanding THEN NoFd ELSE waiter
      /\ head' = IF p = NULL THEN next[n] ELSE head
      /\ next' = NextWithout(n, p)
      /\ nodes' = nodes \ {n}
      /\ fd' = [fd EXCEPT ![n] = NoFd]
      /\ sock' = [sock EXCEPT ![n] = "none"]
      /\ rx' = [rx EXCEPT ![n] = 0]
      /\ tx' = [tx EXCEPT ![n] = 0]
      /\ got' = [got EXCEPT ![n] = 0]
    BY TerminateEffect
<1>3. next' \in [Ids -> Ids \cup {NULL}]
    BY <1>1, <1>2 DEF TypeOK, NextWithout
<1>4. head' \in Ids \cup {NULL} /\ waiter' \in Fds \cup {NoFd}
      /\ nodes' \subseteq Ids
    BY <1>1, <1>2 DEF TypeOK
<1>5. /\ fd' \in [Ids -> Fds \cup {NoFd}]
      /\ sock' \in [Ids -> SockStates]
    BY <1>1, <1>2 DEF TypeOK, SockStates
<1>6. rx' \in [Ids -> 0 .. MaxRx]
    BY <1>1, <1>2 DEF TypeOK
<1>7. tx' \in [Ids -> 0 .. SndBuf]
    BY <1>1, <1>2 DEF TypeOK
<1>8. got' \in [Ids -> 0 .. MaxChunk]
    BY <1>1, <1>2 DEF TypeOK
<1>9. QED
    BY <1>3, <1>4, <1>5, <1>6, <1>7, <1>8

\* The node is unlinked, no other is, and the list stays sound.
LEMMA TerminateList ==
    ASSUME TypeOK, ListSound, NEW n \in nodes, NEW p \in nodes \cup {NULL},
           Deref(p) = n, TerminateClient(n, p)
    PROVE  ListSound'
<1>1. /\ p # n
      /\ head' = IF p = NULL THEN next[n] ELSE head
      /\ next' = NextWithout(n, p)
      /\ nodes' = nodes \ {n}
      /\ fd' = [fd EXCEPT ![n] = NoFd]
    BY TerminateEffect
<1>2. nodes \subseteq Nat
    BY DEF TypeOK
<1>3. /\ (head = NULL <=> nodes = {})'
      /\ (head # NULL => head \in nodes /\ \A m \in nodes : head <= m)'
    <2>1. CASE p = NULL /\ next[n] = NULL
        <3>1. \A m \in nodes : m = n
            BY <1>2, <2>1 DEF ListSound, Deref
        <3>2. QED BY <1>1, <2>1, <3>1
    <2>2. CASE p = NULL /\ next[n] # NULL
        <3>1. next[n] \in nodes /\ next[n] # n
              /\ \A m \in nodes \ {n} : next[n] <= m
            BY <1>2, <2>2 DEF ListSound, Deref
        <3>2. QED BY <1>1, <2>2, <3>1
    <2>3. CASE p # NULL
        <3>1. next[p] = n /\ head \in nodes /\ head # n
            BY <1>2, <2>3 DEF ListSound, Deref
        <3>2. QED BY <1>1, <2>3, <3>1 DEF ListSound
    <2>4. QED BY <2>1, <2>2, <2>3
<1>4. ASSUME NEW a \in nodes'
      PROVE  (IF next[a] = NULL
              THEN \A m \in nodes : m <= a
              ELSE /\ next[a] \in nodes /\ a < next[a]
                   /\ \A m \in nodes : m <= a \/ next[a] <= m)'
    <2>1. a \in Ids /\ a \in nodes /\ a # n
        BY <1>1 DEF TypeOK
    <2>2. CASE a = p
        <3>1. next[a] = n /\ next'[a] = next[n]
            BY <1>1, <2>1, <2>2 DEF Deref, NextWithout
        <3>2. a < n
            BY <1>2, <2>1, <3>1 DEF ListSound
        <3>3. \A m \in nodes : m <= a \/ n <= m
            BY <1>2, <2>1, <3>1 DEF ListSound
        <3>4. CASE next[n] = NULL
            BY <1>1, <1>2, <2>1, <3>1, <3>3, <3>4 DEF ListSound
        <3>5. CASE next[n] # NULL
            <4>1. next[n] \in nodes /\ n < next[n]
                BY <3>5 DEF ListSound
            <4>2. \A m \in nodes : m <= n \/ next[n] <= m
                BY <3>5 DEF ListSound
            <4>3. next[n] # n /\ a < next[n]
                <5>1. a \in Nat /\ n \in Nat /\ next[n] \in Nat
                    BY <1>2, <2>1, <4>1
                <5>2. QED BY <5>1, <3>2, <4>1
            <4>4. \A m \in nodes' : m <= a \/ next[n] <= m
                BY <1>1, <1>2, <2>1, <3>3, <4>1, <4>2
            <4>5. QED BY <1>1, <3>1, <3>5, <4>1, <4>3, <4>4
        <3>6. QED BY <3>4, <3>5
    <2>3. CASE a # p
        <3>1. next'[a] = next[a]
            BY <1>1, <2>1, <2>3 DEF NextWithout
        <3>2. next[a] # n
            BY <1>2, <2>1, <2>3 DEF ListSound, Deref
        <3>3. QED
            BY <1>1, <1>2, <2>1, <3>1, <3>2 DEF ListSound
    <2>4. QED BY <2>2, <2>3
<1>5. (\A a, b \in nodes : fd[a] = fd[b] => a = b)'
    BY <1>1 DEF ListSound, TypeOK
<1>6. QED
    BY <1>3, <1>4, <1>5 DEF ListSound
-----------------------------------------------------------------------------
(* Steps that leave the list and the command variables alone *)

\* The parts of the invariant that only speak of these variables.
LEMMA QuietStep ==
    ASSUME IInv, UNCHANGED <<listVars, commandVars, lastId>>
    PROVE  /\ ListSound'
           /\ TryoutBounded'
           /\ ArmedOnOldest'
           /\ IdsInOrder' /\ lastCommander' <= lastId'
    BY DEF IInv, ListSound, TryoutBounded, CommanderIsOldest, ArmedOnOldest,
       Bookkeeping, IdsInOrder, EventsPending, listVars, commandVars

\* A step that also leaves the cursor alone, and only moves on past an event,
\* takes a command, or ends the process.
LEMMA PassiveStep ==
    ASSUME IInv,
           UNCHANGED <<listVars, commandVars, cursorVars, lastId, chunk,
                       pending, serialIn>>,
           pc' \in Pcs, rev' \in Revents,
           proc' \in {"up", "exited", "killed"},
           fifo' \in 0 .. MaxCmd, closing' \in BOOLEAN,
           \/ pc' = pc
           \/ /\ pc' \notin {"poll", "client", "send"}
              /\ pc = "send" => cur = NULL,
           rev'.client = rev.client,
           rev'.server => rev.server,
           rev'.cmd => fifo' > 0
    PROVE  IInv'
<1>1. TypeOK'
    BY DEF IInv, TypeOK, listVars, commandVars, cursorVars
<1>2. Bookkeeping'
    BY QuietStep DEF IInv, Bookkeeping, IdsInOrder, EventsPending, listVars
<1>3. ListSound' /\ TryoutBounded' /\ CommanderIsOldest'
    BY QuietStep DEF IInv, CommanderIsOldest, ArmedOnOldest, listVars
<1>4. CursorSound' /\ RecvNeverBlocks'
    BY DEF IInv, CursorSound, RecvNeverBlocks, Deref, listVars, cursorVars
<1>5. FanOutComplete'
    BY DEF IInv, FanOutComplete, listVars, cursorVars
<1>6. QED
    BY <1>1, <1>2, <1>3, <1>4, <1>5 DEF IInv

LEMMA SkipKeeps == IInv /\ (SkipEvent \/ PollFails) => IInv'
<1> SUFFICES ASSUME IInv, SkipEvent \/ PollFails PROVE IInv'
    OBVIOUS
<1>1. /\ UNCHANGED <<listVars, commandVars, cursorVars, envVars, lastId, rev,
                     proc, chunk>>
      /\ pc \in {"poll", "client", "server", "serial", "cmd"}
      /\ pc' \in {"server", "serial", "cmd", "elect", "shutdown"}
    BY DEF SkipEvent, PollFails, Skip, At
<1>2. pc' \in Pcs /\ rev' \in Revents
    BY <1>1 DEF IInv, TypeOK, Pcs
<1>3. /\ proc' \in {"up", "exited", "killed"}
      /\ fifo' \in 0 .. MaxCmd /\ closing' \in BOOLEAN
    BY <1>1 DEF IInv, TypeOK, envVars
<1>4. rev'.cmd => fifo' > 0
    BY <1>1 DEF IInv, Bookkeeping, EventsPending, envVars
<1>5. QED
    BY <1>1, <1>2, <1>3, <1>4, PassiveStep DEF envVars

LEMMA AcceptFailsKeeps == IInv /\ AcceptFails => IInv'
<1> SUFFICES ASSUME IInv, AcceptFails PROVE IInv'
    OBVIOUS
<1>1. /\ UNCHANGED <<listVars, commandVars, cursorVars, envVars, lastId,
                     proc, chunk>>
      /\ pc = "server" /\ pc' = "serial"
      /\ rev' = [rev EXCEPT !.server = FALSE]
    BY DEF AcceptFails, At
<1>2. rev' \in Revents /\ rev'.client = rev.client /\ ~rev'.server
      /\ rev'.cmd = rev.cmd
    BY <1>1 DEF IInv, TypeOK, Revents
<1>3. pc' \in Pcs /\ rev' \in Revents
    BY <1>1, <1>2 DEF IInv, TypeOK, Pcs
<1>4. /\ proc' \in {"up", "exited", "killed"}
      /\ fifo' \in 0 .. MaxCmd /\ closing' \in BOOLEAN
    BY <1>1 DEF IInv, TypeOK, envVars
<1>5. rev'.cmd => fifo' > 0
    BY <1>1, <1>2 DEF IInv, Bookkeeping, EventsPending, envVars
<1>6. QED
    BY <1>1, <1>2, <1>3, <1>4, <1>5, PassiveStep DEF envVars

LEMMA ReadSerialFailsKeeps == IInv /\ ReadSerialFails => IInv'
<1> SUFFICES ASSUME IInv, ReadSerialFails PROVE IInv'
    OBVIOUS
<1>1. /\ UNCHANGED <<listVars, commandVars, cursorVars, envVars, lastId,
                     proc, chunk>>
      /\ pc = "serial" /\ pc' = "cmd"
      /\ rev' = [rev EXCEPT !.serial = FALSE]
    BY DEF ReadSerialFails, At
<1>2. rev' \in Revents /\ rev'.client = rev.client
      /\ rev'.server = rev.server /\ rev'.cmd = rev.cmd
    BY <1>1 DEF IInv, TypeOK, Revents
<1>3. pc' \in Pcs /\ rev' \in Revents
    BY <1>1, <1>2 DEF IInv, TypeOK, Pcs
<1>4. /\ proc' \in {"up", "exited", "killed"}
      /\ fifo' \in 0 .. MaxCmd /\ closing' \in BOOLEAN
    BY <1>1 DEF IInv, TypeOK, envVars
<1>5. rev'.cmd => fifo' > 0
    BY <1>1, <1>2 DEF IInv, Bookkeeping, EventsPending, envVars
<1>6. QED
    BY <1>1, <1>2, <1>3, <1>4, <1>5, PassiveStep DEF envVars

LEMMA ReadUserCmdKeeps == IInv /\ ReadUserCmd => IInv'
<1> SUFFICES ASSUME IInv, ReadUserCmd PROVE IInv'
    OBVIOUS
<1>1. /\ UNCHANGED <<listVars, commandVars, cursorVars, lastId, proc, chunk,
                     pending, serialIn, closing>>
      /\ pc = "cmd" /\ pc' = "elect" /\ rev.cmd
      /\ fifo' = fifo - 1
      /\ rev' = [rev EXCEPT !.cmd = FALSE]
    BY DEF ReadUserCmd, At
<1>2. rev' \in Revents /\ rev'.client = rev.client
      /\ rev'.server = rev.server /\ ~rev'.cmd
    BY <1>1 DEF IInv, TypeOK, Revents
<1>3. fifo' \in 0 .. MaxCmd
    BY SMTT(60), <1>1 DEF IInv, TypeOK, Bookkeeping, IdsInOrder, EventsPending
<1>4. QED
    BY <1>1, <1>2, <1>3, PassiveStep DEF IInv, TypeOK, Pcs

LEMMA SendDoneKeeps == IInv /\ SendDone => IInv'
<1> SUFFICES ASSUME IInv, SendDone PROVE IInv'
    OBVIOUS
<1>1. /\ UNCHANGED <<listVars, commandVars, cursorVars, envVars, lastId, rev,
                     proc, chunk>>
      /\ cur = NULL /\ pc' = "cmd"
    BY DEF SendDone, At
<1>2. pc' \in Pcs /\ rev' \in Revents
    BY <1>1 DEF IInv, TypeOK, Pcs
<1>3. /\ proc' \in {"up", "exited", "killed"}
      /\ fifo' \in 0 .. MaxCmd /\ closing' \in BOOLEAN
    BY <1>1 DEF IInv, TypeOK, envVars
<1>4. rev'.cmd => fifo' > 0
    BY <1>1 DEF IInv, Bookkeeping, EventsPending, envVars
<1>5. QED
    BY <1>1, <1>2, <1>3, <1>4, PassiveStep DEF envVars

\* The ways the process ends, and the signal that asks it to.
LEMMA EndingKeeps ==
    IInv /\ (SendKills \/ ShutdownExit \/ Signal \/ HandlerExit) => IInv'
<1> SUFFICES ASSUME IInv, SendKills \/ ShutdownExit \/ Signal \/ HandlerExit
             PROVE IInv'
    OBVIOUS
<1>1. /\ UNCHANGED <<listVars, commandVars, cursorVars, lastId, pc, rev,
                     chunk, pending, serialIn, fifo>>
      /\ proc' \in {proc, "exited", "killed"}
      /\ closing' \in {closing, TRUE}
    BY DEF SendKills, ShutdownExit, Signal, HandlerExit, envVars
<1>2. pc' \in Pcs /\ rev' \in Revents
    BY <1>1 DEF IInv, TypeOK, Pcs
<1>3. /\ proc' \in {"up", "exited", "killed"}
      /\ fifo' \in 0 .. MaxCmd /\ closing' \in BOOLEAN
    BY <1>1 DEF IInv, TypeOK
<1>4. rev'.cmd => fifo' > 0
    BY <1>1 DEF IInv, Bookkeeping, EventsPending
<1>5. QED
    BY <1>1, <1>2, <1>3, <1>4, PassiveStep

LEMMA PollKeeps == IInv /\ Poll => IInv'
<1> SUFFICES ASSUME IInv, Poll PROVE IInv'
    OBVIOUS
<1>1. /\ UNCHANGED <<listVars, commandVars, cursorVars, envVars, lastId,
                     proc, chunk>>
      /\ pc = "poll" /\ pc' \in {"client", "shutdown"}
      /\ rev' = [client |-> ClientRevents,
                 server |-> pending > 0,
                 serial |-> serialIn # "idle",
                 cmd |-> fifo > 0]
    BY DEF Poll, At
<1>2. rev' \in Revents
    BY <1>1 DEF Revents, ClientRevents, Readiness
<1>3. TypeOK'
    BY SMTT(60), <1>1, <1>2 DEF IInv, TypeOK, Pcs, listVars, commandVars,
                                cursorVars, envVars
<1>4. ASSUME ClientRevents # {}
      PROVE  /\ waiter # NoFd /\ head # NULL
             /\ rx[head] > 0 \/ sock[head] # "est"
    <2>1. PICK n \in nodes : fd[n] = waiter /\ Readiness(n) # {}
        BY <1>4 DEF ClientRevents
    <2>2. waiter # NoFd
        BY <2>1 DEF IInv, Bookkeeping, IdsInOrder, EventsPending
    <2>3. head # NULL /\ waiter = fd[head] /\ n = head
        BY <2>1, <2>2 DEF IInv, CommanderIsOldest, ArmedOnOldest, ListSound
    <2>4. QED
        BY <2>1, <2>2, <2>3 DEF Readiness
<1>5. Bookkeeping'
    BY <1>1, <1>4, QuietStep DEF IInv, Bookkeeping, IdsInOrder,
       EventsPending, envVars, listVars
<1>6. RecvNeverBlocks'
    BY <1>1, <1>4 DEF RecvNeverBlocks, listVars
<1>7. ListSound' /\ TryoutBounded' /\ CommanderIsOldest' /\ CursorSound'
    BY <1>1, QuietStep DEF CommanderIsOldest, ArmedOnOldest, CursorSound
<1>8. FanOutComplete'
    BY <1>1 DEF IInv, FanOutComplete, listVars, cursorVars
<1>9. QED
    BY <1>3, <1>5, <1>6, <1>7, <1>8 DEF IInv

-----------------------------------------------------------------------------
(* The environment *)

\* Whatever peers, the flight controller and users do, what poll has reported
\* stays true: data or an error that is there does not go away by itself.
LEMMA EnvironmentKeeps == IInv /\ Environment => IInv'
<1> SUFFICES ASSUME IInv, Environment PROVE IInv'
    OBVIOUS
<1>1. /\ UNCHANGED <<head, next, nodes, fd, waiter, got, commandVars,
                     cursorVars, lastId, pc, rev, proc, chunk>>
      /\ closing' = closing
    BY DEF Environment, PeerConnects, FcuSends, SerialHangup, UserCommand,
           Peer, PeerSends, PeerReads, PeerCloses, PeerResets, EnvUnchanged
<1>2. /\ pending' \in 0 .. Backlog /\ pending' >= pending
      /\ fifo' \in 0 .. MaxCmd /\ fifo' >= fifo
      /\ /\ serialIn' \in {"idle", "data", "hup"}
         /\ serialIn' = "data" => chunk < MaxChunk
    <2>1. CASE PeerConnects
        BY SMTT(60), <2>1 DEF PeerConnects, IInv, TypeOK, Bookkeeping,
           IdsInOrder, EventsPending
    <2>2. CASE FcuSends
        BY <2>2 DEF FcuSends, IInv, TypeOK
    <2>3. CASE SerialHangup
        BY <2>3 DEF SerialHangup, IInv, TypeOK
    <2>4. CASE UserCommand
        BY <2>4 DEF UserCommand, IInv, TypeOK, Bookkeeping, IdsInOrder,
           EventsPending
    <2>5. ASSUME NEW c \in Ids, Peer(c)
          PROVE  UNCHANGED <<pending, fifo, serialIn>>
        BY <2>5 DEF Peer, PeerSends, PeerReads, PeerCloses, PeerResets
    <2>6. (\E c \in Ids : Peer(c)) => UNCHANGED <<pending, fifo, serialIn>>
        BY <2>5
    <2>7. UNCHANGED <<pending, fifo, serialIn>> => <1>2!1 /\ <1>2!2 /\ <1>2!3
        BY DEF IInv, TypeOK, Bookkeeping, IdsInOrder, EventsPending
    <2>8. QED
        BY <2>1, <2>2, <2>3, <2>4, <2>6, <2>7 DEF Environment
<1>3. /\ sock' \in [Ids -> SockStates]
      /\ rx' \in [Ids -> 0 .. MaxRx]
      /\ tx' \in [Ids -> 0 .. SndBuf]
      /\ \A c \in Ids : /\ rx'[c] >= rx[c]
                        /\ sock[c] # "est" => sock'[c] # "est"
    <2>1. CASE PeerConnects \/ FcuSends \/ SerialHangup \/ UserCommand
        BY SMTT(60), <2>1 DEF PeerConnects, FcuSends, SerialHangup,
                              UserCommand, IInv, TypeOK
    <2>2. ASSUME NEW c \in Ids, Peer(c)
          PROVE  <1>3!1 /\ <1>3!2 /\ <1>3!3 /\ <1>3!4
        <3>1. CASE PeerSends(c)
            BY SMTT(60), <3>1 DEF PeerSends, IInv, TypeOK
        <3>2. CASE PeerReads(c)
            BY SMTT(60), <3>2 DEF PeerReads, IInv, TypeOK
        <3>3. CASE PeerCloses(c)
            BY SMTT(60), <3>3 DEF PeerCloses, IInv, TypeOK, SockStates
        <3>4. CASE PeerResets(c)
            BY <3>4 DEF PeerResets, IInv, TypeOK, SockStates
        <3>5. QED
            BY <2>2, <3>1, <3>2, <3>3, <3>4 DEF Peer
    <2>3. QED
        BY <2>1, <2>2 DEF Environment
<1>4. TypeOK'
    BY <1>1, <1>2, <1>3 DEF IInv, TypeOK, commandVars, cursorVars
<1>5. Bookkeeping'
    BY <1>1, <1>2 DEF IInv, TypeOK, Bookkeeping, IdsInOrder, EventsPending,
       commandVars
<1>6. ListSound' /\ TryoutBounded' /\ CommanderIsOldest'
    BY <1>1 DEF IInv, ListSound, TryoutBounded, CommanderIsOldest,
       ArmedOnOldest, commandVars
<1>7. CursorSound' /\ FanOutComplete'
    BY <1>1 DEF IInv, CursorSound, FanOutComplete, Deref, cursorVars
<1>8. RecvNeverBlocks'
    BY SMTT(60), <1>1, <1>3 DEF IInv, TypeOK, RecvNeverBlocks
<1>9. QED
    BY <1>4, <1>5, <1>6, <1>7, <1>8 DEF IInv

-----------------------------------------------------------------------------
(* The fan-out *)

LEMMA ReadSerialKeeps == IInv /\ ReadSerial => IInv'
<1> SUFFICES ASSUME IInv, ReadSerial PROVE IInv'
    OBVIOUS
<1>1. /\ UNCHANGED <<listVars, commandVars, lastId, proc, pending, fifo,
                     closing>>
      /\ pc = "serial" /\ pc' = "send"
      /\ cur' = head /\ prev' = NULL
      /\ serialIn = "data" /\ serialIn' = "idle"
      /\ chunk' = chunk + 1
      /\ rev' = [rev EXCEPT !.serial = FALSE]
    BY DEF ReadSerial, At
<1>2. rev' \in Revents /\ rev'.client = rev.client
      /\ rev'.server = rev.server /\ rev'.cmd = rev.cmd
    BY <1>1 DEF IInv, TypeOK, Revents
<1>3. chunk' \in 0 .. MaxChunk
    BY SMTT(60), <1>1 DEF IInv, TypeOK, Bookkeeping, IdsInOrder, EventsPending
<1>4. TypeOK'
    BY <1>1, <1>2, <1>3 DEF IInv, TypeOK, Pcs, listVars, commandVars
<1>5. Bookkeeping'
    BY <1>1, <1>2, QuietStep DEF IInv, Bookkeeping, IdsInOrder,
       EventsPending, listVars
<1>6. ListSound' /\ TryoutBounded' /\ CommanderIsOldest' /\ RecvNeverBlocks'
    BY <1>1, QuietStep DEF CommanderIsOldest, ArmedOnOldest, RecvNeverBlocks
<1>7. CursorSound'
    BY <1>1 DEF IInv, ListSound, CursorSound, Deref, listVars
<1>8. FanOutComplete'
    <2> SUFFICES ASSUME NEW n \in nodes
                 PROVE  got[n] = IF head # NULL /\ n >= head
                                 THEN chunk' - 1 ELSE chunk'
        BY <1>1 DEF FanOutComplete, listVars
    <2>1. head # NULL /\ n >= head
        BY DEF IInv, TypeOK, ListSound
    <2>2. got[n] = chunk
        BY <1>1 DEF IInv, FanOutComplete
    <2>3. chunk' - 1 = chunk
        BY <1>1 DEF IInv, TypeOK
    <2>4. QED BY <2>1, <2>2, <2>3
<1>9. QED
    BY <1>4, <1>5, <1>6, <1>7, <1>8 DEF IInv

LEMMA SendChunkKeeps == IInv /\ SendChunk => IInv'
<1> SUFFICES ASSUME IInv, SendChunk PROVE IInv'
    OBVIOUS
<1>1. /\ UNCHANGED <<head, next, nodes, fd, waiter, sock, rx, commandVars,
                     envVars, lastId, pc, rev, proc, chunk>>
      /\ pc = "send" /\ cur # NULL
      /\ tx[cur] < SndBuf
      /\ tx' = [tx EXCEPT ![cur] = @ + 1]
      /\ got' = [got EXCEPT ![cur] = @ + 1]
      /\ prev' = Deref(prev)
      /\ cur' = next[cur]
    BY DEF SendChunk, At
<1>2. /\ cur \in nodes /\ cur \in Ids /\ cur = Deref(prev)
      /\ next[cur] \in nodes \cup {NULL}
    BY <1>1 DEF IInv, TypeOK, CursorSound, ListSound
<1>a. cur \in Nat /\ chunk \in 0 .. MaxChunk /\ tx[cur] \in 0 .. SndBuf
    BY <1>2 DEF IInv, TypeOK
<1>b. got[cur] = chunk - 1
    BY <1>1, <1>2, <1>a DEF IInv, FanOutComplete
<1>3. tx' \in [Ids -> 0 .. SndBuf]
    <2>1. tx[cur] + 1 \in 0 .. SndBuf
        BY <1>1, <1>a
    <2>2. QED
        BY <1>1, <1>2, <2>1 DEF IInv, TypeOK
<1>4. got'[cur] = chunk /\ got' \in [Ids -> 0 .. MaxChunk]
    BY <1>1, <1>2, <1>a, <1>b DEF IInv, TypeOK
<1>5. TypeOK'
    BY <1>1, <1>2, <1>3, <1>4 DEF IInv, TypeOK, commandVars, envVars
<1>6. Bookkeeping' /\ RecvNeverBlocks'
    BY <1>1 DEF IInv, Bookkeeping, IdsInOrder, EventsPending,
       RecvNeverBlocks, commandVars, envVars
<1>7. ListSound' /\ TryoutBounded' /\ CommanderIsOldest'
    BY <1>1 DEF IInv, ListSound, TryoutBounded, CommanderIsOldest,
       ArmedOnOldest, commandVars
<1>8. CursorSound'
    BY <1>1, <1>2 DEF CursorSound, Deref
<1>9. FanOutComplete'
    <2> SUFFICES ASSUME NEW n \in nodes
                 PROVE  got'[n] = IF next[cur] # NULL /\ n >= next[cur]
                                  THEN chunk - 1 ELSE chunk
        BY <1>1 DEF FanOutComplete
    <2>1. n \in Ids /\ n \in Nat
        BY DEF IInv, TypeOK
    <2>2. n > cur <=> next[cur] # NULL /\ n >= next[cur]
        BY <1>2, Younger DEF IInv
    <2>3. CASE n = cur
        BY <1>4, <1>a, <2>2, <2>3
    <2>4. CASE n # cur
        <3>1. got'[n] = IF n >= cur THEN chunk - 1 ELSE chunk
            BY <1>1, <2>1, <2>4 DEF IInv, TypeOK, FanOutComplete
        <3>2. n >= cur <=> n > cur
            BY <1>a, <2>1, <2>4
        <3>3. QED
            BY <2>2, <3>1, <3>2
    <2>5. QED BY <2>3, <2>4
<1>10. QED
    BY <1>5, <1>6, <1>7, <1>8, <1>9 DEF IInv

-----------------------------------------------------------------------------
(* Steps that remove a client *)

\* What removing a client leaves of the invariant, wherever the thread is.
LEMMA RemovalKeeps ==
    ASSUME IInv, NEW n \in nodes, NEW p \in nodes \cup {NULL}, Deref(p) = n,
           TerminateClient(n, p), UNCHANGED <<commanding, author, lastId>>
    PROVE  /\ ListSound'
           /\ ArmedOnOldest'
           /\ IdsInOrder'
           /\ \A m \in nodes' : m # n /\ m \in nodes /\ got'[m] = got[m]
<1>1. /\ waiter' = IF n = commanding THEN NoFd ELSE waiter
      /\ head' = IF p = NULL THEN next[n] ELSE head
      /\ nodes' = nodes \ {n}
      /\ fd' = [fd EXCEPT ![n] = NoFd]
      /\ got' = [got EXCEPT ![n] = 0]
    BY TerminateEffect DEF IInv
<1>2. ListSound'
    BY TerminateList DEF IInv
<1>3. \A m \in nodes' : /\ m # n /\ m \in nodes
                         /\ got'[m] = got[m] /\ fd'[m] = fd[m]
    BY <1>1 DEF IInv, TypeOK
<1>4. ArmedOnOldest'
    <2> SUFFICES ASSUME waiter' # NoFd
                 PROVE  head' # NULL /\ commanding = head'
                        /\ waiter' = fd'[head']
        BY DEF ArmedOnOldest
    <2>1. waiter' = waiter /\ n # head /\ head # NULL /\ commanding = head
          /\ waiter = fd[head]
        BY <1>1 DEF IInv, CommanderIsOldest, ArmedOnOldest
    <2>2. head' = head
        BY <1>1, <2>1 DEF Deref
    <2>3. head \in nodes'
        BY <1>1, <2>1 DEF IInv, ListSound
    <2>4. QED BY <1>3, <2>1, <2>2, <2>3
<1>5. QED
    BY <1>1, <1>2, <1>3, <1>4 DEF IInv, Bookkeeping, IdsInOrder, EventsPending

LEMMA ClientHangupKeeps == IInv /\ ClientHangup => IInv'
<1> SUFFICES ASSUME IInv, ClientHangup PROVE IInv'
    OBVIOUS
<1>1. /\ UNCHANGED <<commandVars, cursorVars, envVars, lastId, rev, proc,
                     chunk>>
      /\ pc = "client" /\ pc' = "server" /\ rev.client # {}
      /\ TerminateClient(head, NULL)
    BY DEF ClientHangup, At
<1>2. head \in nodes /\ Deref(NULL) = head
    BY <1>1 DEF IInv, RecvNeverBlocks, ListSound, Deref
<1>3. /\ ListSound'
      /\ ArmedOnOldest'
      /\ IdsInOrder'
      /\ \A m \in nodes' : m # head /\ m \in nodes /\ got'[m] = got[m]
    BY <1>1, <1>2, RemovalKeeps DEF commandVars
<1>4. TypeOK'
    BY <1>1, <1>2, TerminateTypes DEF IInv, TypeOK, Pcs, commandVars,
       cursorVars, envVars
<1>5. Bookkeeping'
    BY <1>1, <1>3 DEF IInv, Bookkeeping, IdsInOrder, EventsPending,
       commandVars, envVars
<1>6. CursorSound' /\ CommanderIsOldest' /\ RecvNeverBlocks'
    BY <1>1, <1>3 DEF CursorSound, CommanderIsOldest, ArmedOnOldest,
       RecvNeverBlocks
<1>7. TryoutBounded' /\ FanOutComplete'
    BY <1>1, <1>3 DEF IInv, TryoutBounded, FanOutComplete, commandVars
<1>8. QED
    BY <1>3, <1>4, <1>5, <1>6, <1>7 DEF IInv

LEMMA ShutdownClientKeeps == IInv /\ ShutdownClient => IInv'
<1> SUFFICES ASSUME IInv, ShutdownClient PROVE IInv'
    OBVIOUS
<1>1. /\ UNCHANGED <<commandVars, cursorVars, envVars, lastId, pc, rev, proc,
                     chunk>>
      /\ pc = "shutdown" /\ head # NULL
      /\ TerminateClient(head, NULL)
    BY DEF ShutdownClient, At
<1>2. head \in nodes /\ Deref(NULL) = head
    BY <1>1 DEF IInv, ListSound, Deref
<1>3. /\ ListSound'
      /\ ArmedOnOldest'
      /\ IdsInOrder'
      /\ \A m \in nodes' : m # head /\ m \in nodes /\ got'[m] = got[m]
    BY <1>1, <1>2, RemovalKeeps DEF commandVars
<1>4. TypeOK'
    BY <1>1, <1>2, TerminateTypes DEF IInv, TypeOK, commandVars, cursorVars,
       envVars
<1>5. Bookkeeping'
    BY <1>1, <1>3 DEF IInv, Bookkeeping, IdsInOrder, EventsPending,
       commandVars, envVars
<1>6. CursorSound' /\ CommanderIsOldest' /\ RecvNeverBlocks'
    BY <1>1, <1>3 DEF CursorSound, CommanderIsOldest, ArmedOnOldest,
       RecvNeverBlocks
<1>7. TryoutBounded' /\ FanOutComplete'
    BY <1>1, <1>3 DEF IInv, TryoutBounded, FanOutComplete, commandVars
<1>8. QED
    BY <1>3, <1>4, <1>5, <1>6, <1>7 DEF IInv

\* The cursor survives the removal of the client it is on.
LEMMA SendFailsKeeps == IInv /\ SendFails => IInv'
<1> SUFFICES ASSUME IInv, SendFails PROVE IInv'
    OBVIOUS
<1>1. /\ UNCHANGED <<prev, commandVars, envVars, lastId, pc, rev, proc, chunk>>
      /\ pc = "send" /\ cur # NULL
      /\ TerminateClient(cur, prev)
      /\ cur' = Successor(cur, prev)
    BY DEF SendFails, At
<1>2. cur \in nodes /\ prev \in nodes \cup {NULL} /\ Deref(prev) = cur
    BY <1>1 DEF IInv, CursorSound
<1>3. /\ ListSound'
      /\ ArmedOnOldest'
      /\ IdsInOrder'
      /\ \A m \in nodes' : m # cur /\ m \in nodes /\ got'[m] = got[m]
    BY <1>1, <1>2, RemovalKeeps DEF commandVars
<1>4. /\ prev # cur
      /\ head' = IF prev = NULL THEN next[cur] ELSE head
      /\ next' = NextWithout(cur, prev)
      /\ nodes' = nodes \ {cur}
    BY <1>1, <1>2, TerminateEffect DEF IInv
<1>5. cur' = next[cur] /\ next[cur] \in Ids \cup {NULL}
    BY <1>1, <1>2 DEF IInv, TypeOK, Successor, Refused
<1>6. TypeOK'
    BY <1>1, <1>2, <1>5, TerminateTypes DEF IInv, TypeOK, commandVars, envVars
<1>7. Bookkeeping'
    BY <1>1, <1>3 DEF IInv, Bookkeeping, IdsInOrder, EventsPending,
       commandVars, envVars
<1>8. CursorSound'
    <2>1. next[cur] \in nodes' \cup {NULL}
        <3>1. next[cur] # NULL => next[cur] \in nodes /\ cur < next[cur]
            BY <1>2 DEF IInv, ListSound
        <3>2. cur \in Nat
            BY <1>2 DEF IInv, TypeOK
        <3>3. QED BY <1>4, <3>1, <3>2
    <2>2. prev \in nodes' \cup {NULL}
        BY <1>2, <1>4
    <2>3. prev # NULL => next'[prev] = next[cur]
        BY <1>2, <1>4 DEF IInv, TypeOK, NextWithout
    <2>4. QED
        BY <1>1, <1>4, <1>5, <2>1, <2>2, <2>3 DEF CursorSound, Deref
<1>9. CommanderIsOldest' /\ RecvNeverBlocks' /\ TryoutBounded'
    BY <1>1, <1>3 DEF IInv, CommanderIsOldest, ArmedOnOldest,
       RecvNeverBlocks, TryoutBounded, commandVars
<1>10. FanOutComplete'
    <2> SUFFICES ASSUME NEW m \in nodes'
                 PROVE  got'[m] = IF next[cur] # NULL /\ m >= next[cur]
                                  THEN chunk - 1 ELSE chunk
        BY <1>1, <1>5 DEF FanOutComplete
    <2>1. m # cur /\ m \in nodes /\ got'[m] = got[m]
        BY <1>3
    <2>2. m > cur <=> next[cur] # NULL /\ m >= next[cur]
        BY <1>2, <2>1, Younger DEF IInv
    <2>3. m >= cur <=> m > cur
        BY SMTT(60), <1>2, <2>1 DEF IInv, TypeOK
    <2>4. got[m] = IF m >= cur THEN chunk - 1 ELSE chunk
        BY <1>1, <2>1 DEF IInv, FanOutComplete
    <2>5. QED BY <2>1, <2>2, <2>3, <2>4
<1>11. QED
    BY <1>3, <1>6, <1>7, <1>8, <1>9, <1>10 DEF IInv

-----------------------------------------------------------------------------
(* The commanding client *)

\* What handle_commanding_client does besides the recv.
LEMMA HandlerFrame ==
    ASSUME IInv, HandleCommandingClient
    PROVE  /\ UNCHANGED <<cursorVars, envVars, lastId, proc, chunk>>
           /\ pc = "client" /\ pc' = "server"
           /\ rev' \in Revents /\ rev'.client = {}
           /\ rev'.server = rev.server /\ rev'.cmd = rev.cmd
           /\ head \in nodes /\ commanding = head /\ waiter # NoFd
           /\ CommandData \/ CommandFailure
<1>1. /\ UNCHANGED <<cursorVars, envVars, lastId, proc, chunk>>
      /\ pc = "client" /\ pc' = "server" /\ rev.client # {}
      /\ rev' = [rev EXCEPT !.client = {}]
    BY DEF HandleCommandingClient, At
<1>2. rev' \in Revents /\ rev'.client = {}
      /\ rev'.server = rev.server /\ rev'.cmd = rev.cmd
    BY <1>1 DEF IInv, TypeOK, Revents
<1>3. head # NULL /\ head \in nodes /\ commanding = head /\ waiter # NoFd
    BY <1>1 DEF IInv, RecvNeverBlocks, Bookkeeping, IdsInOrder,
       EventsPending, CommanderIsOldest, ArmedOnOldest, ListSound
<1>4. CommandData \/ CommandFailure
    BY <1>3 DEF HandleCommandingClient
<1>5. QED
    BY <1>1, <1>2, <1>3, <1>4

\* The counter of failed reads before the recv.
LEMMA TriesBounded ==
    ASSUME IInv, commanding \in nodes
    PROVE  Tries \in 0 .. 3
BY DEF IInv, TypeOK, TryoutBounded, Tries

LEMMA CommandDataKeeps ==
    IInv /\ HandleCommandingClient /\ CommandData => IInv'
<1> SUFFICES ASSUME IInv, HandleCommandingClient, CommandData PROVE IInv'
    OBVIOUS
<1>1. /\ UNCHANGED <<cursorVars, envVars, lastId, proc, chunk>>
      /\ pc' = "server" /\ rev' \in Revents /\ rev'.client = {}
      /\ rev'.server = rev.server /\ rev'.cmd = rev.cmd
      /\ head \in nodes /\ commanding = head /\ waiter # NoFd
    BY HandlerFrame
<1>2. /\ UNCHANGED <<head, next, nodes, fd, waiter, sock, tx, got, commanding>>
      /\ rx[head] > 0
      /\ lastCommander' = commanding /\ tryout' = Tries
      /\ rx' = [rx EXCEPT ![head] = @ - 1]
      /\ author' = head
    BY DEF CommandData
<1>3. tryout' \in 0 .. 3
    BY <1>1, <1>2, TriesBounded
<1>4. rx' \in [Ids -> 0 .. MaxRx]
    <2>1. head \in Ids /\ rx[head] \in 0 .. MaxRx
        BY <1>1 DEF IInv, TypeOK
    <2>2. rx[head] - 1 \in 0 .. MaxRx
        BY <1>2, <2>1
    <2>3. QED
        BY <1>2, <2>1, <2>2 DEF IInv, TypeOK
<1>5. TypeOK'
    <2>1. tryout' \in 0 .. 4 /\ pc' \in Pcs
        BY <1>1, <1>3 DEF Pcs
    <2>2. lastCommander' \in -1 .. MaxId /\ author' \in -1 .. MaxId
          /\ commanding' \in -1 .. MaxId
        BY <1>1, <1>2 DEF IInv, TypeOK
    <2>3. QED
        BY <1>1, <1>2, <1>4, <2>1, <2>2 DEF IInv, TypeOK, cursorVars, envVars
<1>6. Bookkeeping'
    <2>1. \A n \in nodes : head <= n
        BY <1>1 DEF IInv, ListSound, TypeOK
    <2>2. QED
        BY <1>1, <1>2, <2>1 DEF IInv, Bookkeeping, IdsInOrder, EventsPending,
           envVars
<1>7. ListSound' /\ CommanderIsOldest'
    BY <1>1, <1>2 DEF IInv, ListSound, CommanderIsOldest, ArmedOnOldest
<1>8. CursorSound' /\ RecvNeverBlocks' /\ TryoutBounded'
    BY <1>1, <1>3 DEF CursorSound, RecvNeverBlocks, TryoutBounded
<1>9. FanOutComplete'
    BY <1>1, <1>2, HandlerFrame DEF IInv, FanOutComplete
<1>10. QED
    BY <1>5, <1>6, <1>7, <1>8, <1>9 DEF IInv

LEMMA CommandFailureKeeps ==
    IInv /\ HandleCommandingClient /\ CommandFailure => IInv'
<1> SUFFICES ASSUME IInv, HandleCommandingClient, CommandFailure PROVE IInv'
    OBVIOUS
<1>1. /\ UNCHANGED <<cursorVars, envVars, lastId, proc, chunk>>
      /\ pc = "client" /\ pc' = "server"
      /\ rev' \in Revents /\ rev'.client = {}
      /\ rev'.server = rev.server /\ rev'.cmd = rev.cmd
      /\ head \in nodes /\ commanding = head /\ waiter # NoFd
    BY HandlerFrame
<1>2. /\ UNCHANGED <<commanding, author>>
      /\ lastCommander' = commanding /\ tryout' = Tries + 1
      /\ Tries \in 0 .. 3
    BY <1>1, TriesBounded DEF CommandFailure
<1>3. CursorSound' /\ RecvNeverBlocks'
    BY <1>1 DEF CursorSound, RecvNeverBlocks
<1>a. tryout' \in 0 .. 4 /\ pc' \in Pcs
    BY <1>1, <1>2 DEF Pcs
<1>b. lastCommander' \in -1 .. MaxId /\ author' \in -1 .. MaxId
      /\ commanding' \in -1 .. MaxId
    BY <1>1, <1>2 DEF IInv, TypeOK
<1>4. CASE Tries = 3
    <2>1. TerminateClient(head, NULL)
        BY <1>4 DEF CommandFailure
    <2>2. Deref(NULL) = head
        BY DEF Deref
    <2>3. /\ ListSound'
          /\ ArmedOnOldest'
          /\ IdsInOrder'
          /\ \A m \in nodes' : m # head /\ m \in nodes /\ got'[m] = got[m]
        BY <1>1, <1>2, <2>1, <2>2, RemovalKeeps
    <2>4. TypeOK'
        <3>1. /\ head' \in Ids \cup {NULL}
              /\ next' \in [Ids -> Ids \cup {NULL}]
              /\ nodes' \subseteq Ids
              /\ fd' \in [Ids -> Fds \cup {NoFd}]
              /\ waiter' \in Fds \cup {NoFd}
              /\ sock' \in [Ids -> SockStates]
              /\ rx' \in [Ids -> 0 .. MaxRx]
              /\ tx' \in [Ids -> 0 .. SndBuf]
              /\ got' \in [Ids -> 0 .. MaxChunk]
            BY <1>1, <2>1, <2>2, TerminateTypes DEF IInv
        <3>2. QED
            BY <1>1, <1>a, <1>b, <3>1 DEF IInv, TypeOK, cursorVars, envVars
    <2>5. Bookkeeping'
        BY <1>1, <1>2, <2>3 DEF IInv, Bookkeeping, IdsInOrder, EventsPending,
           envVars
    <2>6. CommanderIsOldest' /\ TryoutBounded' /\ FanOutComplete'
        BY <1>1, <1>2, <2>3 DEF IInv, CommanderIsOldest, ArmedOnOldest,
           TryoutBounded, FanOutComplete
    <2>7. QED
        BY <1>3, <2>3, <2>4, <2>5, <2>6 DEF IInv
<1>5. CASE Tries # 3
    <2>1. /\ UNCHANGED <<head, next, nodes, fd, waiter, rx, tx, got>>
          /\ sock' = [sock EXCEPT ![head] = IF @ = "rst" THEN "dead" ELSE @]
        BY <1>5 DEF CommandFailure
    <2>2. sock' \in [Ids -> SockStates]
        BY <1>1, <2>1 DEF IInv, TypeOK, SockStates
    <2>3. TypeOK'
        BY <1>1, <1>a, <1>b, <2>1, <2>2 DEF IInv, TypeOK, cursorVars, envVars
    <2>4. Bookkeeping'
        BY <1>1, <1>2, <2>1 DEF IInv, Bookkeeping, IdsInOrder, EventsPending,
           envVars
    <2>5. ListSound' /\ CommanderIsOldest'
        BY <1>1, <1>2, <2>1 DEF IInv, ListSound, CommanderIsOldest,
           ArmedOnOldest
    <2>6. TryoutBounded'
        BY <1>2, <1>5 DEF TryoutBounded
    <2>7. FanOutComplete'
        BY <1>1, <2>1 DEF IInv, FanOutComplete
    <2>8. QED
        BY <1>3, <2>3, <2>4, <2>5, <2>6, <2>7 DEF IInv
<1>6. QED
    BY <1>4, <1>5

LEMMA ElectKeeps == IInv /\ Elect => IInv'
<1> SUFFICES ASSUME IInv, Elect PROVE IInv'
    OBVIOUS
<1>1. /\ UNCHANGED <<head, next, nodes, fd, sock, rx, tx, got, lastCommander,
                     tryout, author, cursorVars, envVars, lastId, proc, chunk>>
      /\ pc = "elect" /\ pc' = "poll"
    BY DEF Elect, At
<1>2. CursorSound' /\ RecvNeverBlocks' /\ TryoutBounded' /\ FanOutComplete'
    BY <1>1 DEF IInv, CursorSound, RecvNeverBlocks, TryoutBounded,
                FanOutComplete
<1>3. ListSound'
    BY <1>1 DEF IInv, ListSound
<1>4. CASE Vacant
    <2>1. /\ head # NULL /\ waiter' = fd[head] /\ commanding' = head
          /\ rev' = [rev EXCEPT !.client = {}]
        BY <1>4 DEF Elect, Vacant, Armed
    <2>2. head \in nodes /\ fd[head] \in Fds
        BY <2>1 DEF IInv, ListSound, Bookkeeping, IdsInOrder, EventsPending
    <2>3. rev' \in Revents /\ rev'.server = rev.server /\ rev'.cmd = rev.cmd
        BY <2>1 DEF IInv, TypeOK, Revents
    <2>4. TypeOK'
        <3>1. /\ waiter' \in Fds \cup {NoFd} /\ pc' \in Pcs
              /\ commanding' \in -1 .. MaxId
            BY <1>1, <2>1, <2>2 DEF IInv, TypeOK, Pcs
        <3>2. QED
            BY <1>1, <2>3, <3>1 DEF IInv, TypeOK, cursorVars, envVars
    <2>5. Bookkeeping'
        BY SMTT(60), <1>1, <2>1, <2>2, <2>3
           DEF IInv, TypeOK, Bookkeeping, IdsInOrder, EventsPending, envVars
    <2>6. CommanderIsOldest'
        BY <1>1, <2>1, <2>2 DEF CommanderIsOldest, ArmedOnOldest
    <2>7. QED
        BY <1>2, <1>3, <2>4, <2>5, <2>6 DEF IInv
<1>5. CASE ~Vacant
    <2>1. UNCHANGED <<waiter, rev, commanding>>
          /\ (head = NULL \/ commanding = head)
        BY <1>5 DEF Elect, Vacant, Armed
    <2>2. TypeOK'
        BY <1>1, <2>1 DEF IInv, TypeOK, Pcs, cursorVars, envVars
    <2>3. Bookkeeping'
        BY <1>1, <2>1 DEF IInv, Bookkeeping, IdsInOrder, EventsPending,
           envVars
    <2>4. CommanderIsOldest'
        BY <1>1, <2>1 DEF IInv, CommanderIsOldest, ArmedOnOldest, ListSound,
           Bookkeeping, IdsInOrder, EventsPending
    <2>5. QED
        BY <1>2, <1>3, <2>2, <2>3, <2>4 DEF IInv
<1>6. QED
    BY <1>4, <1>5

-----------------------------------------------------------------------------
(* accept_client *)

\* The new client, youngest of all, comes last in the list.
LEMMA AcceptList ==
    ASSUME IInv, NEW f \in Fds, AcceptClient(f)
    PROVE  ListSound'
<1> DEFINE id == lastId + 1
<1>1. /\ id \in Ids /\ id \in Nat
      /\ nodes \subseteq Nat /\ nodes \subseteq Ids
      /\ \A n \in nodes : n < id
    <2>1. lastId \in -1 .. MaxId /\ lastId < MaxId /\ nodes \subseteq Ids
          /\ nodes \subseteq 0 .. lastId
        BY DEF AcceptClient, FreshId, IInv, TypeOK, Bookkeeping, IdsInOrder,
           EventsPending
    <2>2. QED
        BY <2>1
<1>2. /\ nodes' = nodes \cup {id}
      /\ fd' = [fd EXCEPT ![id] = f]
      /\ \A n \in nodes : fd[n] # f
      /\ head' = IF head = NULL THEN id ELSE head
      /\ next' = NextWith(id)
    BY DEF AcceptClient, FreshId
<1> HIDE DEF id
<1>3. next'[id] = NULL
    BY <1>1, <1>2 DEF NextWith
<1>4. (\A a, b \in nodes : fd[a] = fd[b] => a = b)'
    BY SMTT(60), <1>1, <1>2 DEF IInv, TypeOK, ListSound
<1>5. CASE head = NULL
    <2>1. nodes' = {id} /\ head' = id
        BY <1>2, <1>5 DEF IInv, ListSound
    <2>2. QED
        BY <1>1, <1>3, <1>4, <2>1 DEF ListSound
<1>6. CASE head # NULL
    <2>1. head' = head /\ head \in nodes /\ \A m \in nodes : head <= m
        BY <1>2, <1>6 DEF IInv, ListSound
    <2>2. (head # NULL => head \in nodes /\ \A m \in nodes : head <= m)'
          /\ (head = NULL <=> nodes = {})'
        BY <1>1, <1>2, <1>6, <2>1
    <2>3. ASSUME NEW a \in nodes'
          PROVE  (IF next[a] = NULL
                  THEN \A m \in nodes : m <= a
                  ELSE /\ next[a] \in nodes /\ a < next[a]
                       /\ \A m \in nodes : m <= a \/ next[a] <= m)'
        <3>1. CASE a = id
            BY <1>1, <1>2, <1>3, <3>1
        <3>2. CASE a # id /\ next[a] = NULL
            <4>1. a \in nodes /\ next'[a] = id
                BY <1>1, <1>2, <1>6, <3>2 DEF NextWith
            <4>2. \A m \in nodes : m <= a
                BY <3>2, <4>1 DEF IInv, ListSound
            <4>3. QED
                BY <1>1, <1>2, <4>1, <4>2
        <3>3. CASE a # id /\ next[a] # NULL
            <4>1. a \in nodes /\ next'[a] = next[a]
                BY <1>1, <1>2, <1>6, <3>3 DEF NextWith
            <4>2. next[a] \in nodes /\ a < next[a]
                BY <3>3, <4>1 DEF IInv, ListSound
            <4>3. \A m \in nodes : m <= a \/ next[a] <= m
                BY <3>3, <4>1 DEF IInv, ListSound
            <4>4. next[a] <= id
                <5>1. next[a] \in Nat /\ next[a] < id
                    BY <1>1, <4>2
                <5>2. QED
                    BY <1>1, <5>1
            <4>5. QED
                BY <1>2, <3>3, <4>1, <4>2, <4>3, <4>4
        <3>4. QED BY <3>1, <3>2, <3>3
    <2>4. QED
        BY <1>4, <2>2, <2>3 DEF ListSound
<1>7. QED BY <1>5, <1>6

LEMMA AcceptClientKeeps ==
    ASSUME IInv, NEW f \in Fds, AcceptClient(f)
    PROVE  IInv'
<1> DEFINE id == lastId + 1
<1>1. /\ UNCHANGED <<waiter, rx, tx, commandVars, cursorVars, serialIn, fifo,
                     closing, proc, chunk>>
      /\ pc = "server" /\ pc' = "serial" /\ rev.server
      /\ lastId' = id
      /\ nodes' = nodes \cup {id}
      /\ fd' = [fd EXCEPT ![id] = f]
      /\ sock' = [sock EXCEPT ![id] = "est"]
      /\ got' = [got EXCEPT ![id] = chunk]
      /\ pending' = pending - 1
      /\ rev' = [rev EXCEPT !.server = FALSE]
    BY DEF AcceptClient, FreshId, At
<1>2. /\ id \in Ids /\ id \in Nat /\ id \notin nodes /\ lastId \in -1 .. MaxId
      /\ nodes \subseteq Ids
    <2>1. lastId \in -1 .. MaxId /\ lastId < MaxId /\ nodes \subseteq Ids
          /\ nodes \subseteq 0 .. lastId
        BY DEF AcceptClient, FreshId, IInv, TypeOK, Bookkeeping, IdsInOrder,
           EventsPending
    <2>2. QED
        BY <2>1
<1>3. rev' \in Revents /\ rev'.client = rev.client /\ ~rev'.server
      /\ rev'.cmd = rev.cmd
    BY <1>1 DEF IInv, TypeOK, Revents
<1>4. head' \in Ids \cup {NULL} /\ (head # NULL => head' = head)
    BY <1>2 DEF AcceptClient, FreshId, IInv, TypeOK
<1>5. next' \in [Ids -> Ids \cup {NULL}]
    BY <1>2 DEF AcceptClient, FreshId, NextWith, IInv, TypeOK
<1>6. fd' \in [Ids -> Fds \cup {NoFd}] /\ sock' \in [Ids -> SockStates]
    BY <1>1, <1>2 DEF IInv, TypeOK, SockStates
<1>7. got' \in [Ids -> 0 .. MaxChunk]
    BY <1>1, <1>2 DEF IInv, TypeOK
<1>8. pending' \in 0 .. Backlog
    <2>1. pending \in 0 .. Backlog /\ pending > 0
        BY <1>1 DEF IInv, TypeOK, Bookkeeping, IdsInOrder, EventsPending
    <2>2. QED
        BY <1>1, <2>1
<1> HIDE DEF id
<1>9. TypeOK'
    <2>1. lastId' \in -1 .. MaxId /\ nodes' \subseteq Ids /\ pc' \in Pcs
        BY <1>1, <1>2 DEF Pcs
    <2>2. QED
        BY <1>1, <1>3, <1>4, <1>5, <1>6, <1>7, <1>8, <2>1 DEF IInv, TypeOK,
           commandVars, cursorVars
<1>10. ListSound'
    BY AcceptList
<1>11. /\ lastId < id
       /\ commanding <= lastId /\ lastCommander <= lastId /\ author <= lastId
    BY <1>2 DEF id, IInv, Bookkeeping, IdsInOrder, EventsPending
<1>12. commanding # id /\ lastCommander # id /\ author < id
    BY <1>2, <1>11 DEF IInv, TypeOK
<1>13. \A n \in nodes' : fd'[n] \in Fds /\ author <= n
    BY SMTT(60), <1>1, <1>2, <1>12 DEF IInv, TypeOK, Bookkeeping, IdsInOrder,
       EventsPending
<1>14. nodes' \subseteq 0 .. id
    BY <1>1, <1>2, <1>11 DEF IInv, Bookkeeping, IdsInOrder, EventsPending
<1>15. Bookkeeping'
    <2>1. commanding <= id /\ lastCommander <= id /\ author <= id
        BY <1>2, <1>11 DEF IInv, TypeOK
    <2>2. QED
        BY <1>1, <1>3, <1>12, <1>13, <1>14, <2>1 DEF IInv, Bookkeeping,
           IdsInOrder, EventsPending, commandVars
<1>16. CommanderIsOldest'
    <2>1. waiter # NoFd => /\ head # NULL /\ head \in nodes
                          /\ commanding = head /\ waiter = fd[head]
        BY DEF IInv, CommanderIsOldest, ArmedOnOldest, ListSound
    <2>2. QED
        BY <1>1, <1>2, <1>4, <2>1 DEF CommanderIsOldest, ArmedOnOldest,
           commandVars, IInv, TypeOK
<1>17. CursorSound' /\ RecvNeverBlocks'
    BY <1>1 DEF CursorSound, RecvNeverBlocks
<1>18. TryoutBounded'
    BY <1>1, <1>12 DEF IInv, TryoutBounded, commandVars
<1>19. FanOutComplete'
    BY <1>1, <1>2 DEF IInv, TypeOK, FanOutComplete
<1>20. QED
    BY <1>9, <1>10, <1>15, <1>16, <1>17, <1>18, <1>19 DEF IInv

-----------------------------------------------------------------------------
(* The theorems *)

LEMMA InitIInv == Init => IInv
<1> SUFFICES ASSUME Init PROVE IInv
    OBVIOUS
<1>1. rev \in Revents
    BY DEF Init, NoRevents, Revents
<1>2. TypeOK
    <2>1. /\ next \in [Ids -> Ids \cup {NULL}]
          /\ fd \in [Ids -> Fds \cup {NoFd}]
          /\ sock \in [Ids -> SockStates]
        BY DEF Init, SockStates
    <2>2. /\ rx \in [Ids -> 0 .. MaxRx]
          /\ tx \in [Ids -> 0 .. SndBuf]
          /\ got \in [Ids -> 0 .. MaxChunk]
        BY DEF Init
    <2>3. /\ pc \in Pcs /\ pending \in 0 .. Backlog
        BY DEF Init, Pcs
    <2>4. /\ head \in Ids \cup {NULL} /\ nodes \subseteq Ids
          /\ lastId \in -1 .. MaxId /\ commanding \in -1 .. MaxId
          /\ waiter \in Fds \cup {NoFd} /\ lastCommander \in -1 .. MaxId
          /\ tryout \in 0 .. 4 /\ author \in -1 .. MaxId
        BY DEF Init
    <2>5. /\ prev \in Ids \cup {NULL} /\ cur \in Ids \cup {NULL}
          /\ proc \in {"up", "exited", "killed"}
          /\ serialIn \in {"idle", "data", "hup"}
          /\ chunk \in 0 .. MaxChunk
        BY DEF Init
    <2>6. fifo \in 0 .. MaxCmd
        BY DEF Init
    <2>7. closing \in BOOLEAN
        BY DEF Init
    <2>8. QED
        BY <1>1, <2>1, <2>2, <2>3, <2>4, <2>5, <2>6, <2>7 DEF TypeOK
<1>3. QED
    BY <1>2 DEF Init, IInv, Bookkeeping, IdsInOrder, EventsPending,
       ListSound, CursorSound, CommanderIsOldest, ArmedOnOldest,
       RecvNeverBlocks, TryoutBounded, FanOutComplete, NoRevents

LEMMA StutterIInv == IInv /\ UNCHANGED vars => IInv'
<1> SUFFICES ASSUME IInv, UNCHANGED vars PROVE IInv'
    OBVIOUS
<1>1. UNCHANGED <<listVars, commandVars, cursorVars, envVars, lastId, pc, rev,
                  proc, chunk>>
    BY DEF vars
<1>2. QED
    BY <1>1, PassiveStep DEF IInv, TypeOK, Bookkeeping, IdsInOrder,
       EventsPending, envVars

LEMMA NextIInv == IInv /\ [Next]_vars => IInv'
<1> SUFFICES ASSUME IInv, [Next]_vars PROVE IInv'
    OBVIOUS
<1>1. CASE Poll
    BY <1>1, PollKeeps
<1>2. CASE ClientHangup
    BY <1>2, ClientHangupKeeps
<1>3. CASE HandleCommandingClient
    BY <1>3, HandlerFrame, CommandDataKeeps, CommandFailureKeeps
<1>4. CASE \E f \in Fds : AcceptClient(f)
    BY <1>4, AcceptClientKeeps
<1>5. CASE AcceptFails
    BY <1>5, AcceptFailsKeeps
<1>6. CASE ReadSerial \/ ReadSerialFails
    BY <1>6, ReadSerialKeeps, ReadSerialFailsKeeps
<1>7. CASE SendChunk
    BY <1>7, SendChunkKeeps
<1>8. CASE SendFails
    BY <1>8, SendFailsKeeps
<1>9. CASE SendDone
    BY <1>9, SendDoneKeeps
<1>10. CASE ReadUserCmd
    BY <1>10, ReadUserCmdKeeps
<1>11. CASE Elect
    BY <1>11, ElectKeeps
<1>12. CASE SkipEvent \/ PollFails
    BY <1>12, SkipKeeps
<1>13. CASE ShutdownClient
    BY <1>13, ShutdownClientKeeps
<1>14. CASE SendKills \/ ShutdownExit \/ Signal \/ HandlerExit
    BY <1>14, EndingKeeps
<1>15. CASE Environment
    BY <1>15, EnvironmentKeeps
<1>16. CASE Ended \/ UNCHANGED vars
    BY <1>16, StutterIInv DEF Ended
<1>17. QED
    BY <1>1, <1>2, <1>3, <1>4, <1>5, <1>6, <1>7, <1>8, <1>9, <1>10, <1>11,
       <1>12, <1>13, <1>14, <1>15, <1>16 DEF Next, Server

\* The inductive invariant holds in every state of the loop, however many
\* clients come and go (run_uart_server and its handlers).
THEOREM InductiveInvariant == Spec => []IInv
<1>1. QED
    BY InitIInv, NextIInv, PTL DEF Spec

\* Every variable keeps its type; in particular the count of failed reads never
\* passes 4 (handle_commanding_client).
THEOREM TypeCorrect == Spec => []TypeOK
<1>1. IInv => TypeOK
    BY DEF IInv
<1>2. QED
    BY <1>1, InductiveInvariant, PTL

\* The linked list always holds exactly the open connections, oldest first
\* (accept_client, terminate_client).
THEOREM ListCorrect == Spec => []ListSound
<1>1. IInv => ListSound
    BY DEF IInv
<1>2. QED
    BY <1>1, InductiveInvariant, PTL

\* The fan-out's pointers never dangle, whichever clients it removes on its
\* way (send_data_to_clients).
THEOREM CursorCorrect == Spec => []CursorSound
<1>1. IInv => CursorSound
    BY DEF IInv
<1>2. QED
    BY <1>1, InductiveInvariant, PTL

\* The descriptor the loop waits on for commands is always that of the client
\* connected longest (terminate_client and the end of the loop).
THEOREM CommanderCorrect == Spec => []CommanderIsOldest
<1>1. IInv => CommanderIsOldest
    BY DEF IInv
<1>2. QED
    BY <1>1, InductiveInvariant, PTL

\* The blocking recv of handle_commanding_client never blocks the loop.
THEOREM RecvCorrect == Spec => []RecvNeverBlocks
<1>1. IInv => RecvNeverBlocks
    BY DEF IInv
<1>2. QED
    BY <1>1, InductiveInvariant, PTL

\* The equality test on tryout cannot be jumped over
\* (handle_commanding_client).
THEOREM TryoutCorrect == Spec => []TryoutBounded
<1>1. IInv => TryoutBounded
    BY DEF IInv
<1>2. QED
    BY <1>1, InductiveInvariant, PTL

\* Every client is sent every chunk of serial data exactly once
\* (send_data_to_clients).
THEOREM FanOutCorrect == Spec => []FanOutComplete
<1>1. IInv => FanOutComplete
    BY DEF IInv
<1>2. QED
    BY <1>1, InductiveInvariant, PTL

-----------------------------------------------------------------------------
(* The lease *)

LEMMA LeaseInit == Init => Lease!Init
BY DEF Init, Lease!Init, Lease!Nobody

\* Removing a client is leaving the lease, and gives it up if it was held.
LEMMA RemovalLeaves ==
    ASSUME IInv, NEW n \in nodes, NEW p \in nodes \cup {NULL}, Deref(p) = n,
           TerminateClient(n, p), UNCHANGED <<commanding, author, lastId>>
    PROVE  Lease!Next
<1>1. /\ waiter' = IF n = commanding THEN NoFd ELSE waiter
      /\ nodes' = nodes \ {n}
    BY TerminateEffect DEF IInv
<1>2. n \in 0 .. MaxId
    BY DEF IInv, TypeOK
<1>3. Lease!Leave(n)
    BY <1>1, <1>2 DEF Lease!Leave, Lease!Nobody
<1>4. QED
    BY <1>2, <1>3 DEF Lease!Next, Lease!Tickets

LEMMA LeaseStep == IInv /\ [Next]_vars => [Lease!Next]_(Lease!leaseVars)
<1> SUFFICES ASSUME IInv, [Next]_vars
             PROVE  [Lease!Next]_(Lease!leaseVars)
    OBVIOUS
<1>1. CASE UNCHANGED <<lastId, nodes, waiter, commanding, author>>
    BY <1>1 DEF Lease!leaseVars
<1>2. CASE ClientHangup \/ ShutdownClient
    <2>1. head \in nodes /\ Deref(NULL) = head
        BY <1>2 DEF ClientHangup, ShutdownClient, At, IInv, RecvNeverBlocks,
           ListSound, Deref
    <2>2. TerminateClient(head, NULL)
          /\ UNCHANGED <<commanding, author, lastId>>
        BY <1>2 DEF ClientHangup, ShutdownClient, commandVars
    <2>3. QED
        BY <2>1, <2>2, RemovalLeaves
<1>3. CASE SendFails
    <2>1. /\ cur \in nodes /\ prev \in nodes \cup {NULL} /\ Deref(prev) = cur
          /\ TerminateClient(cur, prev)
          /\ UNCHANGED <<commanding, author, lastId>>
        BY <1>3 DEF SendFails, At, IInv, CursorSound, commandVars
    <2>2. QED
        BY <2>1, RemovalLeaves
<1>4. CASE HandleCommandingClient
    <2>1. head \in nodes /\ commanding = head /\ waiter # NoFd
          /\ lastId' = lastId /\ (CommandData \/ CommandFailure)
        BY <1>4, HandlerFrame
    <2>2. CASE CommandData
        <3>1. /\ author' = commanding /\ commanding # -1
              /\ UNCHANGED <<lastId, nodes, waiter, commanding>>
            BY <2>1, <2>2 DEF CommandData, IInv, TypeOK
        <3>2. Lease!Speak
            BY <2>1, <3>1 DEF Lease!Speak, Lease!Nobody
        <3>3. QED
            BY <3>2 DEF Lease!Next
    <2>3. CASE CommandFailure /\ Tries = 3
        <3>1. TerminateClient(head, NULL) /\ UNCHANGED <<commanding, author>>
            BY <2>3 DEF CommandFailure
        <3>2. Deref(NULL) = head
            BY DEF Deref
        <3>3. QED
            BY <2>1, <3>1, <3>2, RemovalLeaves
    <2>4. CASE CommandFailure /\ Tries # 3
        <3>1. UNCHANGED <<nodes, waiter, commanding, author>>
            BY <2>4 DEF CommandFailure
        <3>2. QED
            BY <2>1, <3>1 DEF Lease!leaseVars
    <2>5. QED
        BY <2>1, <2>2, <2>3, <2>4
<1>5. CASE \E f \in Fds : AcceptClient(f)
    <2>1. Lease!Join
        BY <1>5 DEF AcceptClient, FreshId, Lease!Join, commandVars
    <2>2. QED
        BY <2>1 DEF Lease!Next
<1>6. CASE Elect
    <2>1. CASE Vacant
        <3>1. head \in nodes /\ \A m \in nodes : head <= m
            BY <2>1 DEF Vacant, IInv, ListSound
        <3>2. waiter = NoFd
            BY <2>1 DEF Vacant, IInv, CommanderIsOldest, ArmedOnOldest
        <3>3. fd[head] # NoFd /\ head \in 0 .. MaxId
            BY <3>1 DEF IInv, TypeOK, Bookkeeping, IdsInOrder
        <3>4. Lease!Grant(head)
            BY <1>6, <2>1, <3>1, <3>2, <3>3 DEF Elect, Armed, Lease!Grant,
               Lease!Nobody
        <3>5. QED
            BY <3>3, <3>4 DEF Lease!Next, Lease!Tickets
    <2>2. CASE ~Vacant
        BY <1>6, <2>2 DEF Elect, Lease!leaseVars
    <2>3. QED
        BY <2>1, <2>2
<1>7. ASSUME \/ Poll \/ AcceptFails \/ ReadSerial \/ ReadSerialFails
             \/ SendChunk \/ SendKills \/ SendDone \/ ReadUserCmd \/ SkipEvent
             \/ PollFails \/ ShutdownExit \/ Signal \/ HandlerExit
             \/ Environment \/ Ended
             \/ UNCHANGED vars
      PROVE  UNCHANGED <<lastId, nodes, waiter, commanding, author>>
    <2>1. CASE Environment
        BY <2>1 DEF Environment, PeerConnects, FcuSends, SerialHangup,
           UserCommand, Peer, PeerSends, PeerReads, PeerCloses, PeerResets,
           EnvUnchanged, commandVars
    <2>2. QED
        BY <1>7, <2>1 DEF Poll, AcceptFails, ReadSerial, ReadSerialFails,
           SendChunk, SendKills, SendDone, ReadUserCmd, SkipEvent, Skip,
           PollFails, ShutdownExit, Signal, HandlerExit, Ended, vars, listVars,
           commandVars
<1>8. QED
    BY <1>1, <1>2, <1>3, <1>4, <1>5, <1>6, <1>7 DEF Next, Server

\* The server loop implements the first-come, first-served lease of the serial
\* port: whoever writes to the port holds it, and it is granted to the oldest
\* client, once its holder is gone (run_uart_server).
THEOREM Refinement == Spec => LeaseImplemented
<1>1. QED
    BY LeaseInit, LeaseStep, InductiveInvariant, PTL DEF Spec, Lease!Spec,
       LeaseImplemented

\* Nothing is written to the port for a client older than the last author
\* (handle_commanding_client, the end of the loop).
THEOREM CommandMovesOn == Spec => CommandNeverReturns
<1>1. IInv /\ [Next]_vars => [author' >= author]_author
    <2> SUFFICES ASSUME IInv, [Next]_vars PROVE [author' >= author]_author
        OBVIOUS
    <2>1. CASE CommandData /\ HandleCommandingClient
        BY <2>1, HandlerFrame DEF CommandData, IInv, Bookkeeping, IdsInOrder
    <2>2. CASE Environment
        BY <2>2 DEF Environment, PeerConnects, FcuSends, SerialHangup,
           UserCommand, Peer, PeerSends, PeerReads, PeerCloses, PeerResets,
           EnvUnchanged, commandVars
    <2>3. CASE HandleCommandingClient /\ ~CommandData
        BY <2>3, HandlerFrame DEF CommandFailure
    <2>4. CASE ~HandleCommandingClient /\ ~Environment
        BY <2>4 DEF Next, Server, Poll, ClientHangup, AcceptClient, FreshId,
           AcceptFails, ReadSerial, ReadSerialFails, SendChunk, SendFails,
           SendKills, SendDone, ReadUserCmd, Elect, SkipEvent, Skip,
           PollFails, ShutdownClient, ShutdownExit, Signal, HandlerExit, Ended,
           vars, commandVars
    <2>5. QED
        BY <2>1, <2>2, <2>3, <2>4
<1>2. QED
    BY <1>1, InductiveInvariant, PTL DEF Spec, CommandNeverReturns

=============================================================================
