----------------------------- MODULE SerialLine -----------------------------
(***************************************************************************)
(* Writing to the serial port.  Two threads share it: the UART thread      *)
(* (uart_server.c), which answers MAVLink commands, plays tunes and passes *)
(* on what the commanding client sends, and the transmit thread            *)
(* (mavlink_publisher.c), which sends a heartbeat every second.  Both      *)
(* write under serial_tx_mtx with serial_write (serial.c), on a port that  *)
(* is opened O_NONBLOCK: a write may take any part of what it is given,    *)
(* and fail in the middle of a frame when the output buffer is full.       *)
(*                                                                         *)
(* The module starts with the two threads, before the mutex and the port   *)
(* exist, and includes the handshake with the flight controller that both  *)
(* threads wait for.  A frame is a name; on the line, only the frame last  *)
(* begun is kept: who writes it and how many of its bytes are missing.     *)
(***************************************************************************)
EXTENDS Integers, Sequences

CONSTANT Sizes      \* the lengths of frames and client chunks, in bytes

ASSUME LineAssumption == Sizes \subseteq Nat \ {0}

VARIABLES
    stage,          \* the UART thread: before, in and after the handshake
    mutexReady,     \* pthread_mutex_init has been called
    connected,      \* serial_is_ready
    beating,        \* the transmit thread has left its waiting loop
    holder,         \* who holds serial_tx_mtx, or NoThread
    outbox,         \* per thread: frames it still has to send, in order
    pc,             \* per thread: where it is in the call for the first one
    size, written,  \* per thread: the arguments and progress of serial_write
    writer, missing,\* the frame last begun on the line
    refused,        \* history: the last serial_write returned false
    asked           \* the flight controller has a request to answer

callVars == <<holder, outbox, pc, size, written>>
lineVars == <<writer, missing, refused>>
vars == <<stage, mutexReady, connected, beating, callVars, lineVars, asked>>

Threads == {"uart", "tx"}
NoThread == "none"

\* Messages of the flight controller, as far as they have different answers,
\* and the frames mav_command_long sends for each.
Messages == {"camera_information", "camera_settings", "storage_information",
             "capture_status", "set_camera_mode", "capture", "version", "other"}
Answers(m) ==
    CASE m = "camera_information" -> <<"ack", "camera_information">>
      [] m = "camera_settings" -> <<"ack", "camera_settings">>
      [] m = "capture_status" -> <<"ack", "capture_status">>
      [] m = "set_camera_mode" -> <<"ack", "ack", "capture_status">>
      [] m \in {"storage_information", "capture"} -> <<"ack">>
      [] m \in {"version", "other"} -> <<>>
Frames == {"ack", "camera_information", "camera_settings", "capture_status",
           "request", "tune", "client", "heartbeat"}

Init ==
    /\ stage = "start"
    /\ mutexReady = FALSE
    /\ connected = FALSE
    /\ beating = FALSE
    /\ holder = NoThread
    /\ outbox = [t \in Threads |-> <<>>]
    /\ pc = [t \in Threads |-> "idle"]
    /\ size = [t \in Threads |-> 0]
    /\ written = [t \in Threads |-> 0]
    /\ writer = NoThread
    /\ missing = 0
    /\ refused = FALSE
    /\ asked = FALSE
-----------------------------------------------------------------------------
(* mavlink_send_msg, and the end of handle_commanding_client *)

Idle(t) == outbox[t] = <<>>

\* Whether pthread_mutex_lock lets a thread through.
Free_always == TRUE
Free == holder = NoThread

Lock(t) ==
    /\ pc[t] = "idle" /\ ~Idle(t)
    /\ Free
    /\ holder' = t
    /\ pc' = [pc EXCEPT ![t] = "write"]
    /\ \E s \in Sizes : size' = [size EXCEPT ![t] = s]
    /\ written' = [written EXCEPT ![t] = 0]
    /\ UNCHANGED <<stage, mutexReady, connected, beating, outbox, lineVars,
                   asked>>

\* Whether serial_write returns true after n bytes.
Done_anyWrite(t, n) == n > 0
Done(t, n) == n = size[t]

\* How many bytes the next write is given.
Rest(t) == size[t] - written[t]

\* One turn of the loop in serial_write: write takes w bytes.
WriteSome(t) ==
    /\ pc[t] = "write"
    /\ \E w \in 1 .. Rest(t) :
         LET n == written[t] + w IN
           /\ written' = [written EXCEPT ![t] = n]
           /\ writer' = t /\ missing' = size[t] - n
           /\ IF Done(t, n)
              THEN /\ pc' = [pc EXCEPT ![t] = "unlock"]
                   /\ refused' = FALSE
                   /\ asked' = (asked \/ Head(outbox[t]) = "request")
              ELSE UNCHANGED <<pc, refused, asked>>
    /\ UNCHANGED <<stage, mutexReady, connected, beating, holder, outbox, size>>

\* write fails, and serial_write with it; its callers do not look.
WriteFails(t) ==
    /\ pc[t] = "write"
    /\ pc' = [pc EXCEPT ![t] = "unlock"]
    /\ refused' = TRUE
    /\ UNCHANGED <<stage, mutexReady, connected, beating, holder, outbox, size,
                   written, writer, missing, asked>>

\* What is left to send after the call; a frame that failed is not retried.
Remaining_retry(t) == IF refused THEN outbox[t] ELSE Tail(outbox[t])
Remaining(t) == Tail(outbox[t])

Unlock(t) ==
    /\ pc[t] = "unlock"
    /\ holder' = NoThread
    /\ pc' = [pc EXCEPT ![t] = "idle"]
    /\ outbox' = [outbox EXCEPT ![t] = Remaining(t)]
    /\ UNCHANGED <<stage, mutexReady, connected, beating, size, written,
                   lineVars, asked>>

Send(t) == Lock(t) \/ WriteSome(t) \/ WriteFails(t) \/ Unlock(t)
-----------------------------------------------------------------------------
(* run_uart_server: start, handshake, and what the loop sends *)

\* The mutex is initialised, then the port is opened.
OpenPort ==
    /\ stage = "start"
    /\ mutexReady' = TRUE
    /\ stage' = "handshake"
    /\ UNCHANGED <<connected, beating, callVars, lineVars, asked>>

Post(t, frames) == outbox' = [outbox EXCEPT ![t] = frames]

\* Every round of the handshake asks for the autopilot's capabilities again.
Request_once == IF writer = NoThread THEN <<"request">> ELSE <<>>
Request == <<"request">>

Ask ==
    /\ stage = "handshake" /\ Idle("uart") /\ ~connected
    /\ Post("uart", Request)
    /\ stage' = "reading"
    /\ UNCHANGED <<mutexReady, connected, beating, holder, pc, size, written,
                   lineVars, asked>>

\* A message of the flight controller is handled, in the handshake or in the
\* loop; AUTOPILOT_VERSION, asked for or not, makes the connection.
Receive(m) ==
    /\ stage \in {"reading", "serve"} /\ Idle("uart")
    /\ Post("uart", Answers(m))
    /\ connected' = (connected \/ m = "version")
    /\ asked' = (asked /\ m # "version")
    /\ UNCHANGED <<stage, mutexReady, beating, holder, pc, size, written,
                   lineVars>>

\* The bytes read in this round are used up; what was asked is not awaited.
ReadDone ==
    /\ stage = "reading" /\ Idle("uart")
    /\ stage' = "handshake"
    /\ asked' = FALSE
    /\ UNCHANGED <<mutexReady, connected, beating, callVars, lineVars>>

EnterLoop ==
    /\ stage = "handshake" /\ Idle("uart") /\ connected
    /\ stage' = "serve"
    /\ UNCHANGED <<mutexReady, connected, beating, callVars, lineVars, asked>>

\* handle_commanding_client passes on a chunk; read_user_cmd plays a tune (a
\* number that is not in the table has no effect).
PassOn(frame) ==
    /\ stage = "serve" /\ Idle("uart")
    /\ Post("uart", <<frame>>)
    /\ UNCHANGED <<stage, mutexReady, connected, beating, holder, pc, size,
                   written, lineVars, asked>>

Handshake == OpenPort \/ Ask \/ ReadDone \/ EnterLoop
-----------------------------------------------------------------------------
(* mavlink_tx_thread *)

MayBeat_atOnce == TRUE
MayBeat == connected

StartBeating ==
    /\ ~beating /\ MayBeat
    /\ beating' = TRUE
    /\ UNCHANGED <<stage, mutexReady, connected, callVars, lineVars, asked>>

Heartbeat ==
    /\ beating /\ Idle("tx")
    /\ Post("tx", <<"heartbeat">>)
    /\ UNCHANGED <<stage, mutexReady, connected, beating, holder, pc, size,
                   written, lineVars, asked>>

Next ==
    \/ \E t \in Threads : Send(t)
    \/ Handshake
    \/ \E m \in Messages : Receive(m)
    \/ \E frame \in {"client", "tune"} : PassOn(frame)
    \/ StartBeating \/ Heartbeat

Spec == Init /\ [][Next]_vars

Answered == asked /\ Receive("version")
RequestSent == ~asked /\ WriteSome("uart") /\ asked'

\* Both threads are scheduled, and each gets the mutex although the other asks
\* for it again and again: they sleep or poll between two calls.  One read
\* brings at most 1024 bytes, so its messages come to an end.  The output
\* buffer drains, so that not every request is refused, and of those that are
\* sent the flight controller answers some in time.
FairSpec ==
    /\ Spec
    /\ WF_vars(Handshake) /\ SF_vars(ReadDone) /\ WF_vars(StartBeating)
    /\ SF_vars(RequestSent) /\ SF_vars(Answered)
    /\ \A t \in Threads :
         /\ SF_vars(Lock(t))
         /\ WF_vars(WriteSome(t) \/ WriteFails(t)) /\ WF_vars(Unlock(t))
-----------------------------------------------------------------------------
(* Properties *)

TypeOK ==
    /\ stage \in {"start", "handshake", "reading", "serve"}
    /\ mutexReady \in BOOLEAN /\ connected \in BOOLEAN /\ beating \in BOOLEAN
    /\ refused \in BOOLEAN /\ asked \in BOOLEAN
    /\ holder \in Threads \cup {NoThread}
    /\ outbox \in [Threads -> Seq(Frames)]
    /\ pc \in [Threads -> {"idle", "write", "unlock"}]
    /\ size \in [Threads -> Sizes \cup {0}]
    /\ written \in [Threads -> Nat]
    /\ \A t \in Threads : written[t] <= size[t]
    /\ writer \in Threads \cup {NoThread}
    /\ missing \in Nat

\* The bytes of one call of serial_write are contiguous on the line: while a
\* thread is in the middle of a frame, that frame is the one last begun, and
\* exactly what the thread has not written is missing (serial_tx_mtx).
FramesContiguous ==
    \A t \in Threads :
        pc[t] = "write" /\ written[t] > 0 =>
            writer = t /\ missing = size[t] - written[t]

\* A frame is cut short on the line only when serial_write returned false for
\* it: "TRUE if all the bytes were successfully written" (serial.h:100).
FramesWhole ==
    [][(\E t \in Threads : written[t] = 0 /\ written'[t] > 0)
         => missing = 0 \/ refused]_vars

\* To those who send, the line takes one frame at a time, each once and in order,
\* and lets go of a frame only when it is complete or was refused; a frame is done
\* with when serial_write returns, before the mutex is released
\* (mavlink_send_msg, serial_write).
Sender ==
    IF holder # NoThread /\ pc[holder] = "write" /\ written[holder] > 0
    THEN holder ELSE NoThread
Queue ==
    [t \in Threads |->
        IF pc[t] = "unlock" THEN Tail(outbox[t]) ELSE outbox[t]]

Line == INSTANCE FrameLine WITH
            Senders <- Threads, NoSender <- NoThread, Frames <- Frames,
            queue <- Queue, sender <- Sender, rest <- missing

LineImplemented == Line!Spec

\* The transmit thread runs while the UART thread is still setting up, but no
\* thread takes the mutex before it has been initialised (run_uart_server,
\* mavlink_tx_thread).
MutexReadyWhenUsed == \A t \in Threads : ~Idle(t) => mutexReady

\* The mutex is held by the thread that is between its lock and its unlock, and
\* such a thread has a frame in hand.  Before the port is open nothing is
\* connected and nothing is to be sent.  Bytes are missing from the frame last
\* begun only while it is being written or because a write was refused.
LockDiscipline ==
    \A t \in Threads :
        /\ holder = t <=> pc[t] # "idle"
        /\ pc[t] # "idle" => ~Idle(t)
StartOrder ==
    /\ ~mutexReady <=> stage = "start"
    /\ stage = "start" => ~connected /\ Idle("uart")
    /\ ~connected => ~beating
    /\ ~beating => Idle("tx")
MissingExplained ==
    missing # 0 => refused \/ \E t \in Threads : pc[t] = "write" /\ written[t] > 0

\* The inductive invariant.
LineInv ==
    /\ TypeOK
    /\ LockDiscipline
    /\ StartOrder
    /\ MissingExplained
    /\ FramesContiguous

\* A thread that has something to send gets through, also after a failed
\* write: neither the mutex nor the port holds it up for ever
\* (mavlink_send_msg, handle_commanding_client).
EverySendReturns == \A t \in Threads : ~Idle(t) ~> Idle(t)

\* The server comes to serve, however many requests or answers are lost on
\* the line, and the heartbeat starts (run_uart_server).
Connects == <>(stage = "serve" /\ beating)
=============================================================================
