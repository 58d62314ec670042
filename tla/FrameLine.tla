------------------------------ MODULE FrameLine ------------------------------
(***************************************************************************)
(* What serial_tx_mtx and serial_write promise about the serial line: it   *)
(* takes one frame at a time, the frames of a sender in their order, each  *)
(* of them once, and a frame that was begun ends only when its last byte   *)
(* is out or when the port refused to take more of it.                     *)
(***************************************************************************)
EXTENDS Integers, Sequences

CONSTANTS
    Senders,
    NoSender,   \* the line is free
    Frames

VARIABLES
    queue,      \* per sender: the frames it still has to send, in order
    sender,     \* the one whose frame is on the line, or NoSender
    rest        \* how many bytes are missing from the frame begun last

lineSpecVars == <<queue, sender, rest>>

Init ==
    /\ queue = [t \in Senders |-> <<>>]
    /\ sender = NoSender
    /\ rest = 0

\* A sender that has nothing to send is given frames.
Post(t) ==
    /\ queue[t] = <<>>
    /\ queue'[t] \in Seq(Frames)
    /\ queue' = [queue EXCEPT ![t] = queue'[t]]
    /\ UNCHANGED <<sender, rest>>

MayWrite(t) == sender \in {NoSender, t} /\ queue[t] # <<>>
Leave(t) ==
    /\ sender' = NoSender
    /\ queue' = [queue EXCEPT ![t] = Tail(@)]

\* The line takes the first bytes of a frame, or some more of them.
Begin(t) ==
    /\ MayWrite(t) /\ sender = NoSender
    /\ rest' \in Nat \ {0}
    /\ sender' = t
    /\ UNCHANGED queue

Continue(t) ==
    /\ MayWrite(t) /\ sender = t
    /\ rest' \in 1 .. rest - 1
    /\ UNCHANGED <<queue, sender>>

\* It takes the last of them, or no more.
Complete(t) ==
    /\ MayWrite(t)
    /\ sender = t => rest # 0
    /\ rest' = 0
    /\ Leave(t)

Refuse(t) ==
    /\ MayWrite(t)
    /\ Leave(t)
    /\ UNCHANGED rest

Next ==
    \E t \in Senders :
        Post(t) \/ Begin(t) \/ Continue(t) \/ Complete(t) \/ Refuse(t)

Spec == Init /\ [][Next]_lineSpecVars
=============================================================================
