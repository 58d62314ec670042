----------------------------- MODULE CommandFifo -----------------------------
(***************************************************************************)
(* Servers and commanders on one machine: the pid file (system.c), the     *)
(* command FIFO a commander writes a tune into (main.c), and its reading   *)
(* by the UART thread (read_user_cmd in uart_server.c), up to the request  *)
(* that plays the tune (mavlink_publisher.c).                              *)
(*                                                                         *)
(* External: the kernel's FIFO.  It holds bytes as long as somebody has it *)
(* open; one write is in one piece; a read takes what there is, up to what *)
(* is asked for, and fails when there is nothing.  The file itself stays   *)
(* when all processes have ended: nobody removes it.                       *)
(***************************************************************************)
EXTENDS Integers, Sequences

CONSTANTS
    Servers, NoServer,  \* the processes started as a server, and none
    Commanders,         \* the processes started with --send-tune
    Magnitudes,         \* the numbers given to --send-tune, up to their sign
    TuneCnt,            \* 19: the tunes in the table
    CmdSize,            \* 20: the bytes of a command
    Room                \* bound: the commands a FIFO has room for

ASSUME FifoAssumption ==
    /\ NoServer \notin Servers
    /\ Magnitudes \subseteq Nat
    /\ TuneCnt \in Nat /\ CmdSize \in Nat \ {0} /\ Room \in Nat \ {0}

\* The bytes of the commands; those of the stack are these and any other.
Bytes == Commanders \X (1 .. CmdSize)
Cells == Bytes \cup {<<NoServer, 0>>}

\* What atoi returns.
Numbers == Magnitudes \cup {-n : n \in Magnitudes}

VARIABLES
    server,             \* where each server is
    pidfile,            \* the server named in the pid file, or NoServer
    received,           \* the static of read_user_cmd
    ready,              \* poll has reported the FIFO to the server
    commander,          \* where each commander is
    tune,               \* its argument
    exists,             \* the FIFO is in the file system
    fifo,               \* the bytes in it: which commander's, which of them
    overlap,            \* history: two servers have run at once
    completed,          \* history: the buffer at each completed read
    played              \* history: the tunes sent to the flight controller

history == <<overlap, completed, played>>
vars == <<server, pidfile, received, ready, commander, tune, exists, fifo,
          history>>

HasOpen == {"open", "serving", "ending"}
Live == {"started", "pid"} \cup HasOpen
Users(srv, com) == {s \in Servers : srv[s] \in HasOpen}
                   \cup {c \in Commanders : com[c] \in {"open", "written"}}

\* What is in the FIFO is lost with the last process that has it open.
KeptBy(srv, com, bytes) == IF Users(srv, com) = {} THEN <<>> ELSE bytes

Init ==
    /\ server = [s \in Servers |-> "off"]
    /\ pidfile = NoServer
    /\ received = [s \in Servers |-> 0]
    /\ ready = [s \in Servers |-> FALSE]
    /\ commander = [c \in Commanders |-> "off"]
    /\ tune \in [Commanders -> Numbers]
    /\ exists = FALSE
    /\ fifo = <<>>
    /\ overlap = FALSE /\ completed = <<>> /\ played = <<>>
-----------------------------------------------------------------------------
(* run_server and run_uart_server *)

\* A server that is started, having read its configuration.  Nothing looks
\* for another one, which a TCP port of its own keeps from being in its way.
Start(s) ==
    /\ server[s] = "off"
    /\ overlap' = (overlap \/ \E o \in Servers : server[o] \in Live)
    /\ server' = [server EXCEPT ![s] = "started"]
    /\ UNCHANGED <<pidfile, received, ready, commander, tune, exists, fifo,
                   completed, played>>

CreatePidfile_keepsOld(s) ==
    /\ server[s] = "started"
    /\ server' = [server EXCEPT ![s] = "pid"]
    /\ pidfile' = IF pidfile = NoServer THEN s ELSE pidfile
    /\ UNCHANGED <<received, ready, commander, tune, exists, fifo, history>>
CreatePidfile(s) ==
    /\ server[s] = "started"
    /\ server' = [server EXCEPT ![s] = "pid"]
    /\ pidfile' = s
    /\ UNCHANGED <<received, ready, commander, tune, exists, fifo, history>>

\* mkfifo, whose failure for a FIFO that is there already is not looked at.
OpenFifo(s) ==
    /\ server[s] = "pid"
    /\ server' = [server EXCEPT ![s] = "open"]
    /\ exists' = TRUE
    /\ UNCHANGED <<pidfile, received, ready, commander, tune, fifo, history>>

\* The socket and the serial port are open, the flight controller is there.
Serve(s) ==
    /\ server[s] = "open"
    /\ server' = [server EXCEPT ![s] = "serving"]
    /\ UNCHANGED <<pidfile, received, ready, commander, tune, exists, fifo,
                   history>>

\* poll, which reports the FIFO while there is something in it.
Poll(s) ==
    /\ server[s] = "serving" /\ ~ready[s] /\ fifo # <<>>
    /\ ready' = [ready EXCEPT ![s] = TRUE]
    /\ UNCHANGED <<server, pidfile, received, commander, tune, exists, fifo,
                   history>>
-----------------------------------------------------------------------------
(* read_user_cmd *)

\* What read takes from the FIFO, and the count it returns: -1 for nothing.
Wanted_received(s) == received[s]
Wanted(s) == CmdSize - received[s]
Smaller(m, n) == IF m < n THEN m ELSE n
Taken(s) == SubSeq(fifo, 1, Smaller(Len(fifo), Wanted(s)))
Rsize(s) == IF fifo = <<>> THEN -1 ELSE Len(Taken(s))

\* mavlink_send_play_tune: the number is compared as an unsigned one, so that
\* a negative number is far beyond the table.
InTable_signed(n) == n < TuneCnt
InTable(n) == 0 <= n /\ n < TuneCnt

\* One whole command in its order.
Whole(bytes) ==
    \E c \in Commanders : bytes = [i \in 1 .. CmdSize |-> <<c, i>>]

\* The command is a local variable: a read fills the part behind the received
\* bytes.  Before it there is whatever the stack holds, perhaps bytes of an
\* earlier call.  After a failed read, which makes the count negative, the first
\* bytes are written before the variable.
Buffers(s) ==
    {b \in [1 .. CmdSize -> Cells] :
       \A i \in 1 .. CmdSize :
         LET n == i - received[s]
         IN  n \in DOMAIN Taken(s) => b[i] = Taken(s)[n]}

\* A command that is not whole has any type and any argument.
Arguments(b) == IF Whole(b) THEN {tune[b[1][1]]} ELSE Numbers

ReadUserCmd(s) ==
    /\ server[s] = "serving" /\ ready[s]
    /\ ready' = [ready EXCEPT ![s] = FALSE]
    /\ fifo' = SubSeq(fifo, Len(Taken(s)) + 1, Len(fifo))
    /\ IF received[s] + Rsize(s) = CmdSize
       THEN /\ received' = [received EXCEPT ![s] = 0]
            /\ \E b \in Buffers(s) :
                 /\ completed' = Append(completed, b)
                 /\ \E n \in Arguments(b) :
                      played' = IF InTable(n) THEN Append(played, n)
                                ELSE played
       ELSE /\ received' = [received EXCEPT ![s] = @ + Rsize(s)]
            /\ UNCHANGED <<completed, played>>
    /\ UNCHANGED <<server, pidfile, commander, tune, exists, overlap>>
-----------------------------------------------------------------------------
(* The end of a server *)

\* The process is gone, and what it had open is closed.
Gone(s) ==
    /\ server' = [server EXCEPT ![s] = "ended"]
    /\ fifo' = KeptBy(server', commander, fifo)
    /\ UNCHANGED <<received, ready, commander, tune, exists, history>>

\* sig_handler, registered before the server waits for the flight controller:
\* the pid file goes first, then the process.
Terminate(s) ==
    /\ server[s] \in {"open", "serving"}
    /\ server' = [server EXCEPT ![s] = "ending"]
    /\ pidfile' = NoServer
    /\ UNCHANGED <<received, ready, commander, tune, exists, fifo, history>>

Terminated(s) == server[s] = "ending" /\ Gone(s) /\ UNCHANGED pidfile

\* Every other end, of a failed start, of a camera or of poll, leaves the pid
\* file where it is.
Exit(s) == server[s] \in Live \ {"ending"} /\ Gone(s) /\ UNCHANGED pidfile
-----------------------------------------------------------------------------
(* run_commander *)

\* A FIFO that is not there is the only sign of a server that is not running.
OpenCommander(c) ==
    /\ commander[c] = "off"
    /\ commander' = [commander EXCEPT ![c] =
                       IF exists THEN "open" ELSE "refused"]
    /\ UNCHANGED <<server, pidfile, received, ready, tune, exists, fifo,
                   history>>

\* write blocks until there is room, and writes the command in one piece.
Piece_oneMore(c) == [i \in 1 .. CmdSize + 1 |-> <<c, i>>]
Piece(c) == [i \in 1 .. CmdSize |-> <<c, i>>]
WriteCommand(c) ==
    /\ commander[c] = "open" /\ Len(fifo) + CmdSize <= Room * CmdSize
    /\ commander' = [commander EXCEPT ![c] = "written"]
    /\ fifo' = fifo \o Piece(c)
    /\ UNCHANGED <<server, pidfile, received, ready, tune, exists, history>>

\* It reports that the request has been sent, and exits.
ReportSent(c) ==
    /\ commander[c] = "written"
    /\ commander' = [commander EXCEPT ![c] = "sent"]
    /\ fifo' = KeptBy(server, commander', fifo)
    /\ UNCHANGED <<server, pidfile, received, ready, tune, exists, history>>

Read == \E s \in Servers : Poll(s) \/ ReadUserCmd(s)

Next ==
    \/ \E s \in Servers :
         \/ Start(s) \/ CreatePidfile(s) \/ OpenFifo(s) \/ Serve(s)
         \/ Terminate(s) \/ Terminated(s) \/ Exit(s)
    \/ Read
    \/ \E c \in Commanders :
         OpenCommander(c) \/ WriteCommand(c) \/ ReportSent(c)

Spec == Init /\ [][Next]_vars

\* The UART thread is scheduled.  Nobody is obliged to start or end anything.
FairSpec == Spec /\ WF_vars(Read)
-----------------------------------------------------------------------------
(* Properties *)

TypeOK ==
    /\ server \in [Servers -> {"off", "ended"} \cup Live]
    /\ pidfile \in Servers \cup {NoServer}
    /\ received \in [Servers -> Int]
    /\ ready \in [Servers -> BOOLEAN]
    /\ commander \in [Commanders -> {"off", "refused", "open", "written",
                                     "sent"}]
    /\ tune \in [Commanders -> Numbers]
    /\ exists \in BOOLEAN
    /\ fifo \in Seq(Bytes)
    /\ overlap \in BOOLEAN
    /\ completed \in Seq(Seq(Cells)) /\ played \in Seq(Int)

\* "read complete" (uart_server.c:452): what is acted on is one command as it
\* was written, although the count of bytes outlives the buffer they went to;
\* unless two servers have read the same FIFO, when a read that came second has
\* failed and was counted all the same (read_user_cmd).
ReadComplete == overlap \/ \A i \in DOMAIN completed : Whole(completed[i])

\* What is played is a tune of the table, whatever number is asked for, and
\* unless two servers have run at once it is the tune of a command that has been
\* read (read_user_cmd, mavlink_send_play_tune).
PlayedAsAsked ==
    \A i \in DOMAIN played :
        /\ played[i] \in 0 .. TuneCnt - 1
        /\ overlap \/ \E n \in DOMAIN completed :
                        played[i] = tune[completed[n][1][1]]

\* The pid file names the server that is running, also after earlier servers
\* ended without removing it, unless two servers have run at once
\* (create_pidfile, sig_handler).
PidfileNamesServer ==
    overlap \/ \A s \in Servers : server[s] = "serving" => pidfile = s

\* Why: from the moment it has written the pid file, a server that is alone is
\* the one named there.
OneServer ==
    overlap \/
      \A s \in Servers :
        /\ server[s] \in Live =>
             \A o \in Servers \ {s} : server[o] \notin Live
        /\ server[s] \in {"pid", "open", "serving"} => pidfile = s

\* Why a command is read whole: the FIFO holds whole commands, one behind the
\* other, as long as only one server reads.
WholeCommands ==
    overlap \/
      /\ fifo # <<>> => fifo[1][2] = 1
      /\ \A i \in DOMAIN fifo : fifo[i][2] = 1 =>
           /\ i + CmdSize <= Len(fifo) + 1
           /\ \A k \in 1 .. CmdSize : fifo[i + k - 1] = <<fifo[i][1], k>>
           /\ i + CmdSize <= Len(fifo) => fifo[i + CmdSize][2] = 1

\* And nothing is left over from an earlier read: a server that has been told
\* of the FIFO finds something in it.
ReadsAtOnce ==
    overlap \/
      \A s \in Servers :
        /\ received[s] = 0
        /\ server[s] \in {"off", "started", "pid", "open"} => ~ready[s]
        /\ server[s] = "serving" /\ ready[s] => fifo # <<>>

\* The inductive invariant.
FifoInv ==
    /\ TypeOK
    /\ OneServer
    /\ WholeCommands
    /\ ReadsAtOnce
    /\ ReadComplete
    /\ PlayedAsAsked

\* A command in the FIFO is taken out of it, or the server ends
\* (read_user_cmd).
FifoDrained ==
    \A c \in Commanders, s \in Servers :
        server[s] = "serving" /\ fifo # <<>> /\ fifo[1][1] = c ~>
            server[s] # "serving" \/ fifo = <<>> \/ fifo[1][1] # c
=============================================================================
