-------------------------- MODULE SerialLineProofs --------------------------
(***************************************************************************)
(* Proofs about SerialLine: for frames of any lengths, the inductive       *)
(* invariant LineInv, and from it that frames are never mixed on the line, *)
(* that they are cut only by a refused write, that the mutex is not used   *)
(* before it is initialised, and that the line implements FrameLine.       *)
(***************************************************************************)
EXTENDS SerialLine, TLAPS

\* The size and the progress of a call are numbers.
LEMMA Numbers ==
    ASSUME TypeOK, NEW t \in Threads
    PROVE  size[t] \in Nat /\ written[t] \in Nat /\ written[t] <= size[t]
<1>1. size[t] \in Sizes \cup {0}
  BY DEF TypeOK
<1>2. \A s \in Sizes : s \in Nat
  BY LineAssumption
<1>3. size[t] \in Nat
  <2>1. CASE size[t] \in Sizes
    BY <1>2, <2>1
  <2>2. CASE size[t] = 0
    BY <2>2
  <2> QED BY <1>1, <2>1, <2>2
<1>4. written[t] \in Nat
  BY DEF TypeOK
<1>5. written[t] <= size[t]
  BY DEF TypeOK
<1> QED BY <1>3, <1>4, <1>5

\* Short sequences (of frames).
LEMMA ShortSequences ==
    ASSUME NEW S, NEW a \in S, NEW b \in S, NEW c \in S
    PROVE  /\ <<>> \in Seq(S)
           /\ <<a>> \in Seq(S)
           /\ <<a, b>> \in Seq(S)
           /\ <<a, b, c>> \in Seq(S)
           /\ <<a>> # <<>>
  OBVIOUS

\* The frames a command is answered with are a sequence of known frames
\* (mav_command_long).
LEMMA AnswersType ==
    ASSUME NEW m \in Messages
    PROVE  Answers(m) \in Seq(Frames)
<1>1. {"ack", "camera_information", "camera_settings", "capture_status"}
        \subseteq Frames
  BY DEF Frames
<1>2. CASE m = "camera_information"
  BY <1>1, <1>2, ShortSequences DEF Answers
<1>3. CASE m = "camera_settings"
  BY <1>1, <1>3, ShortSequences DEF Answers
<1>4. CASE m = "capture_status"
  BY <1>1, <1>4, ShortSequences DEF Answers
<1>5. CASE m = "set_camera_mode"
  BY <1>1, <1>5, ShortSequences DEF Answers
<1>6. CASE m \in {"storage_information", "capture"}
  BY <1>1, <1>6, ShortSequences DEF Answers
<1>7. CASE m \in {"version", "other"}
  BY <1>1, <1>7, ShortSequences DEF Answers
<1> QED BY <1>2, <1>3, <1>4, <1>5, <1>6, <1>7 DEF Messages

\* Every initial state satisfies the invariant.
LEMMA InitInv == Init => LineInv
<1> SUFFICES ASSUME Init PROVE LineInv
  OBVIOUS
<1>1. TypeOK
  <2>1. outbox \in [Threads -> Seq(Frames)]
    BY DEF Init
  <2>2. size \in [Threads -> Sizes \cup {0}]
    BY DEF Init
  <2>3. written \in [Threads -> Nat]
    BY DEF Init
  <2>4. \A t \in Threads : written[t] <= size[t]
    BY DEF Init
  <2>5. pc \in [Threads -> {"idle", "write", "unlock"}]
    BY DEF Init
  <2> QED BY <2>1, <2>2, <2>3, <2>4, <2>5 DEF Init, TypeOK
<1>2. LockDiscipline
  BY DEF Init, LockDiscipline, Threads, NoThread
<1>3. StartOrder
  BY DEF Init, StartOrder, Idle, Threads
<1>4. MissingExplained
  BY DEF Init, MissingExplained
<1>5. FramesContiguous
  BY DEF Init, FramesContiguous
<1> QED BY <1>1, <1>2, <1>3, <1>4, <1>5 DEF LineInv

\* Taking the mutex keeps the invariant (mavlink_send_msg).
LEMMA LockKeeps ==
    ASSUME LineInv, NEW t \in Threads, Lock(t)
    PROVE  LineInv'
<1> USE DEF LineInv
<1>1. TypeOK'
  BY LineAssumption DEF Lock, TypeOK, lineVars
<1>2. LockDiscipline'
  BY DEF Lock, LockDiscipline, TypeOK, Free, Idle, Threads, NoThread
<1>3. StartOrder'
  BY DEF Lock, StartOrder, Idle
<1>4. MissingExplained'
  BY DEF Lock, MissingExplained, TypeOK, lineVars
<1>5. FramesContiguous'
  BY DEF Lock, FramesContiguous, TypeOK, lineVars
<1> QED BY <1>1, <1>2, <1>3, <1>4, <1>5

\* A write that takes some bytes keeps the invariant (serial_write).
LEMMA WriteSomeKeeps ==
    ASSUME LineInv, NEW t \in Threads, WriteSome(t)
    PROVE  LineInv'
<1> USE DEF LineInv
<1>1. PICK w \in 1 .. Rest(t) :
        /\ written' = [written EXCEPT ![t] = written[t] + w]
        /\ writer' = t /\ missing' = size[t] - (written[t] + w)
        /\ IF Done(t, written[t] + w)
           THEN pc' = [pc EXCEPT ![t] = "unlock"] /\ refused' = FALSE
           ELSE UNCHANGED <<pc, refused, asked>>
  BY DEF WriteSome
<1>2. /\ size[t] \in Nat /\ written[t] \in Nat
      /\ written[t] <= size[t] /\ w \in Nat \ {0}
  BY Numbers DEF Rest
<1>3. written[t] + w \in Nat /\ written[t] + w <= size[t] /\ missing' \in Nat
  BY <1>1, <1>2 DEF Rest
<1>4. TypeOK'
  BY <1>1, <1>2, <1>3, LineAssumption DEF WriteSome, TypeOK
<1>5. LockDiscipline'
  BY <1>1 DEF WriteSome, LockDiscipline, TypeOK, Idle
<1>6. StartOrder'
  BY DEF WriteSome, StartOrder, Idle
<1>7. MissingExplained'
  BY <1>1, <1>2, <1>3 DEF WriteSome, MissingExplained, TypeOK, Done
<1>8. FramesContiguous'
  <2> SUFFICES ASSUME NEW u \in Threads, pc'[u] = "write", written'[u] > 0
               PROVE  writer' = u /\ missing' = size'[u] - written'[u]
    BY DEF FramesContiguous
  <2>1. pc[t] = "write" /\ size' = size
    BY DEF WriteSome
  <2>2. u = t
    <3> SUFFICES ASSUME u # t PROVE FALSE
      OBVIOUS
    <3>1. pc[u] = "write"
      BY <1>1 DEF WriteSome, TypeOK
    <3>2. holder = t /\ holder = u
      BY <2>1, <3>1 DEF LockDiscipline
    <3> QED BY <3>2
  <2>3. written'[t] = written[t] + w
    BY <1>1 DEF TypeOK
  <2> QED BY <1>1, <2>1, <2>2, <2>3
<1> QED BY <1>4, <1>5, <1>6, <1>7, <1>8

\* A failed write keeps the invariant (serial_write).
LEMMA WriteFailsKeeps ==
    ASSUME LineInv, NEW t \in Threads, WriteFails(t)
    PROVE  LineInv'
<1> USE DEF LineInv, WriteFails
<1>1. TypeOK'
  BY DEF TypeOK
<1>2. LockDiscipline'
  BY DEF LockDiscipline, TypeOK, Idle
<1>3. StartOrder'
  BY DEF StartOrder, Idle
<1>4. MissingExplained'
  BY DEF MissingExplained
<1>5. FramesContiguous'
  BY DEF FramesContiguous, TypeOK
<1> QED BY <1>1, <1>2, <1>3, <1>4, <1>5

\* Releasing the mutex keeps the invariant (mavlink_send_msg).
LEMMA UnlockKeeps ==
    ASSUME LineInv, NEW t \in Threads, Unlock(t)
    PROVE  LineInv'
<1> USE DEF LineInv
<1>1. outbox[t] \in Seq(Frames) /\ outbox[t] # <<>>
  <2>1. outbox[t] \in Seq(Frames)
    BY DEF TypeOK
  <2>2. outbox[t] # <<>>
    <3>1. pc[t] # "idle"
      BY DEF Unlock
    <3>2. ~Idle(t)
      BY <3>1 DEF LockDiscipline
    <3> QED BY <3>2 DEF Idle
  <2> QED BY <2>1, <2>2
<1>2. Remaining(t) \in Seq(Frames)
  BY <1>1 DEF Remaining
<1>3. TypeOK'
  BY <1>2 DEF Unlock, TypeOK, lineVars, NoThread
<1>4. LockDiscipline'
  BY DEF Unlock, LockDiscipline, TypeOK, Idle, Threads, NoThread
<1>5. StartOrder'
  BY <1>1 DEF Unlock, StartOrder, TypeOK, Idle, Threads
<1>6. MissingExplained'
  BY DEF Unlock, MissingExplained, TypeOK, lineVars
<1>7. FramesContiguous'
  BY DEF Unlock, FramesContiguous, TypeOK, lineVars
<1> QED BY <1>3, <1>4, <1>5, <1>6, <1>7

-----------------------------------------------------------------------------
(* The steps outside of a call *)

\* What a thread is given to send while it has nothing keeps the invariant:
\* no call is under way in that thread.
LEMMA PostKeeps ==
    ASSUME LineInv, NEW t \in Threads, Idle(t), mutexReady,
           t = "tx" => beating,
           NEW frames \in Seq(Frames), Post(t, frames),
           mutexReady' \in BOOLEAN, connected' \in BOOLEAN, asked' \in BOOLEAN,
           stage' \in {"handshake", "reading", "serve"},
           mutexReady' = mutexReady, connected => connected',
           UNCHANGED <<beating, holder, pc, size, written, lineVars>>
    PROVE  LineInv'
<1> USE DEF LineInv, lineVars, Post
<1>1. TypeOK'
  BY DEF TypeOK
<1>2. pc[t] = "idle"
  BY DEF LockDiscipline
<1>3. LockDiscipline'
  BY <1>2 DEF LockDiscipline, TypeOK, Idle
<1>4. StartOrder'
  BY DEF StartOrder, TypeOK, Idle
<1>5. MissingExplained' /\ FramesContiguous'
  BY DEF MissingExplained, FramesContiguous
<1> QED BY <1>1, <1>3, <1>4, <1>5

\* The steps that send nothing and write nothing.
LEMMA QuietKeeps ==
    ASSUME LineInv, OpenPort \/ ReadDone \/ EnterLoop \/ StartBeating
    PROVE  LineInv'
<1> USE DEF LineInv, OpenPort, ReadDone, EnterLoop, StartBeating, MayBeat,
            callVars, lineVars
<1>1. TypeOK'
  BY DEF TypeOK
<1>2. LockDiscipline'
  BY DEF LockDiscipline, Idle
<1>3. StartOrder'
  BY DEF StartOrder, Idle, TypeOK
<1>4. MissingExplained' /\ FramesContiguous'
  BY DEF MissingExplained, FramesContiguous
<1> QED BY <1>1, <1>2, <1>3, <1>4

\* Every step of the system, and a step that changes nothing, keeps the
\* invariant.
LEMMA NextInv == LineInv /\ [Next]_vars => LineInv'
<1> SUFFICES ASSUME LineInv, [Next]_vars PROVE LineInv'
  OBVIOUS
<1>0. mutexReady \in BOOLEAN /\ connected \in BOOLEAN /\ asked \in BOOLEAN
  BY DEF LineInv, TypeOK
<1>1. CASE \E t \in Threads : Send(t)
  BY <1>1, LockKeeps, WriteSomeKeeps, WriteFailsKeeps, UnlockKeeps DEF Send
<1>2. CASE Ask
  <2>1. Request \in Seq(Frames)
    BY ShortSequences DEF Request, Frames
  <2> QED BY <1>0, <1>2, <2>1, PostKeeps DEF Ask, LineInv, StartOrder, Threads
<1>3. CASE OpenPort \/ ReadDone \/ EnterLoop \/ StartBeating
  BY <1>3, QuietKeeps
<1>4. ASSUME NEW m \in Messages, Receive(m)
      PROVE  LineInv'
  <2>1. Answers(m) \in Seq(Frames)
    BY AnswersType
  <2>2. stage' \in {"handshake", "reading", "serve"} /\ mutexReady
    BY <1>0, <1>4 DEF Receive, LineInv, StartOrder
  <2>3. connected' \in BOOLEAN /\ asked' \in BOOLEAN
    BY <1>0, <1>4 DEF Receive
  <2> QED BY <1>0, <1>4, <2>1, <2>2, <2>3, PostKeeps DEF Receive, Threads
<1>5. ASSUME NEW frame \in {"client", "tune"}, PassOn(frame)
      PROVE  LineInv'
  <2>1. <<frame>> \in Seq(Frames)
    BY ShortSequences DEF Frames
  <2>2. stage' \in {"handshake", "reading", "serve"} /\ mutexReady
    BY <1>0, <1>5 DEF PassOn, LineInv, StartOrder
  <2> QED BY <1>0, <1>5, <2>1, <2>2, PostKeeps DEF PassOn, Threads
<1>6. CASE Heartbeat
  <2>1. <<"heartbeat">> \in Seq(Frames)
    BY ShortSequences DEF Frames
  <2>2. stage' \in {"handshake", "reading", "serve"} /\ mutexReady
    BY <1>0, <1>6 DEF Heartbeat, LineInv, StartOrder, TypeOK
  <2> QED BY <1>0, <1>6, <2>1, <2>2, PostKeeps DEF Heartbeat, Threads
<1>7. CASE UNCHANGED vars
  BY <1>7 DEF vars, callVars, lineVars, LineInv, TypeOK, LockDiscipline,
     StartOrder, MissingExplained, FramesContiguous, Idle
<1> QED
  BY <1>1, <1>2, <1>3, <1>4, <1>5, <1>6, <1>7 DEF Next, Handshake

-----------------------------------------------------------------------------
(* The theorems *)

\* The invariant holds throughout, for frames of any lengths.
THEOREM LineInvariant == Spec => []LineInv
BY InitInv, NextInv, PTL DEF Spec

\* The variables keep their types.
THEOREM LineTypeCorrect == Spec => []TypeOK
<1>1. LineInv => TypeOK
  BY DEF LineInv
<1> QED BY <1>1, LineInvariant, PTL

\* The bytes of one call of serial_write are contiguous on the line
\* (serial_tx_mtx).
THEOREM NeverMixed == Spec => []FramesContiguous
<1>1. LineInv => FramesContiguous
  BY DEF LineInv
<1> QED BY <1>1, LineInvariant, PTL

\* No thread sets out to send before the mutex is initialised
\* (run_uart_server, mavlink_tx_thread).
THEOREM InitialisedBeforeUse == Spec => []MutexReadyWhenUsed
<1>1. LineInv => MutexReadyWhenUsed
  BY DEF LineInv, StartOrder, MutexReadyWhenUsed, Threads, TypeOK
<1> QED BY <1>1, LineInvariant, PTL

\* A frame is begun only behind a complete one, unless serial_write returned
\* false for the one before (serial_write, serial_tx_mtx).
THEOREM CutOnlyWhenRefused == Spec => FramesWhole
<1>1. ASSUME LineInv, [Next]_vars,
             NEW t \in Threads, written[t] = 0, written'[t] > 0
      PROVE  missing = 0 \/ refused
  <2>1. WriteSome(t)
    <3>1. CASE \E u \in Threads : Send(u)
      <4> PICK u \in Threads : Send(u)
        BY <3>1
      <4>1. written'[t] > 0 /\ ~(0 > 0)
        BY <1>1
      <4>2. ~Lock(u)
        <5> SUFFICES ASSUME Lock(u) PROVE FALSE
          OBVIOUS
        <5>1. written' = [written EXCEPT ![u] = 0]
          BY DEF Lock
        <5>2. written'[t] = 0
          BY <1>1, <5>1 DEF LineInv, TypeOK
        <5> QED BY <4>1, <5>2
      <4>3. ~WriteFails(u) /\ ~Unlock(u)
        BY <1>1 DEF WriteFails, Unlock
      <4>4. WriteSome(u)
        BY <4>2, <4>3 DEF Send
      <4>5. u = t
        BY <1>1, <4>4 DEF WriteSome, LineInv, TypeOK
      <4> QED BY <4>4, <4>5
    <3>2. CASE UNCHANGED written
      BY <1>1, <3>2
    <3> QED
      BY <1>1, <3>1, <3>2 DEF Next, Handshake, OpenPort, Ask, Receive, ReadDone,
         EnterLoop, PassOn, StartBeating, Heartbeat, vars, callVars
  <2>2. pc[t] = "write"
    BY <2>1 DEF WriteSome
  <2>3. SUFFICES ASSUME missing # 0, ~refused PROVE FALSE
    OBVIOUS
  <2>4. PICK u \in Threads : pc[u] = "write" /\ written[u] > 0
    BY <1>1, <2>3 DEF LineInv, MissingExplained
  <2>5. holder = t /\ holder = u
    BY <1>1, <2>2, <2>4 DEF LineInv, LockDiscipline
  <2> QED BY <1>1, <2>4, <2>5
<1>2. LineInv /\ [Next]_vars =>
        [(\E t \in Threads : written[t] = 0 /\ written'[t] > 0)
            => missing = 0 \/ refused]_vars
  BY <1>1
<1> QED BY <1>2, LineInvariant, PTL DEF Spec, FramesWhole
-----------------------------------------------------------------------------
(* The line implements FrameLine *)

\* The line belongs to the thread that holds the mutex and has begun to write.
LEMMA SenderIsHolder ==
    ASSUME LineInv, NEW t \in Threads
    PROVE  /\ Sender = t <=> pc[t] = "write" /\ written[t] > 0
           /\ pc[t] # "idle" => Sender \in {NoThread, t}
           /\ Sender = t => missing = size[t] - written[t]
  BY DEF LineInv, LockDiscipline, FramesContiguous, Sender, Threads, NoThread

\* Taking the mutex is no step of the line (mavlink_send_msg).
LEMMA LockMaps ==
    ASSUME LineInv, LineInv', NEW t \in Threads, Lock(t)
    PROVE  UNCHANGED <<Queue, Sender, missing>>
<1> USE DEF LineInv
<1>1. holder = NoThread /\ missing' = missing /\ outbox' = outbox
      /\ holder' = t /\ pc[t] = "idle"
  BY DEF Lock, Free, lineVars
<1>2. pc' = [pc EXCEPT ![t] = "write"] /\ written' = [written EXCEPT ![t] = 0]
  BY DEF Lock
<1>3. Sender = NoThread
  BY <1>1 DEF Sender
<1>4. Sender' = NoThread
  <2>1. written'[t] = 0
    BY <1>2 DEF TypeOK
  <2> QED BY <1>1, <2>1 DEF Sender
<1>5. Queue' = Queue
  <2>1. \A u \in Threads : pc'[u] = "unlock" <=> pc[u] = "unlock"
    BY <1>1, <1>2 DEF TypeOK
  <2> QED BY <1>1, <2>1 DEF Queue
<1> QED BY <1>1, <1>3, <1>4, <1>5

\* A frame that is done with is taken off the queue.
LEMMA QueueLeaves ==
    ASSUME TypeOK, NEW t \in Threads, pc[t] # "unlock",
           pc' = [pc EXCEPT ![t] = "unlock"], outbox' = outbox
    PROVE  Queue' = [Queue EXCEPT ![t] = Tail(@)]
<1>1. \A u \in Threads : pc'[u] = IF u = t THEN "unlock" ELSE pc[u]
  BY DEF TypeOK
<1>2. Queue[t] = outbox[t]
  BY DEF Queue
<1> QED BY <1>1, <1>2 DEF Queue

\* A write that takes some bytes begins a frame, goes on with it or completes it
\* (serial_write).
LEMMA WriteSomeMaps ==
    ASSUME LineInv, LineInv', NEW t \in Threads, WriteSome(t)
    PROVE  Line!Begin(t) \/ Line!Continue(t) \/ Line!Complete(t)
<1> USE DEF LineInv
<1>1. PICK w \in 1 .. Rest(t) :
        /\ written' = [written EXCEPT ![t] = written[t] + w]
        /\ missing' = size[t] - (written[t] + w)
        /\ IF Done(t, written[t] + w)
           THEN pc' = [pc EXCEPT ![t] = "unlock"]
           ELSE pc' = pc
  BY DEF WriteSome
<1>2. /\ pc[t] = "write" /\ holder' = holder /\ outbox' = outbox
      /\ outbox[t] # <<>>
  BY DEF WriteSome, LockDiscipline, Idle
<1>3. /\ size[t] \in Nat /\ written[t] \in Nat /\ written[t] <= size[t]
      /\ w \in Nat \ {0} /\ w <= size[t] - written[t]
  BY Numbers DEF Rest
<1>4. /\ Sender = t <=> written[t] > 0
      /\ Sender \in {NoThread, t}
      /\ Sender = t => missing = size[t] - written[t]
  BY <1>2, SenderIsHolder
<1>5. Queue[t] = outbox[t]
  BY <1>2 DEF Queue
<1>6. Line!MayWrite(t)
  BY <1>2, <1>4, <1>5 DEF Line!MayWrite
<1>7. CASE Done(t, written[t] + w)
  <2>1. pc' = [pc EXCEPT ![t] = "unlock"] /\ missing' = 0
    BY <1>1, <1>3, <1>7 DEF Done
  <2>2. Sender = t => missing # 0
    BY <1>3, <1>4
  <2>3. Sender' = NoThread
    <3>1. holder' = t /\ pc'[t] = "unlock"
      BY <1>2, <2>1 DEF LockDiscipline, TypeOK
    <3> QED BY <3>1 DEF Sender
  <2>4. Queue' = [Queue EXCEPT ![t] = Tail(@)]
    BY <1>2, <2>1, QueueLeaves
  <2> QED BY <1>6, <2>1, <2>2, <2>3, <2>4 DEF Line!Complete, Line!Leave
<1>8. CASE ~Done(t, written[t] + w)
  <2>1. pc' = pc /\ missing' \in Nat \ {0}
    BY <1>1, <1>3, <1>8 DEF Done
  <2>2. Queue' = Queue
    BY <1>2, <2>1 DEF Queue
  <2>3. Sender' = t
    <3>1. written'[t] > 0
      BY <1>1, <1>3 DEF TypeOK
    <3>2. holder' = t /\ pc'[t] = "write" /\ t # NoThread
      BY <1>2, <2>1 DEF LockDiscipline, Threads, NoThread
    <3> QED BY <3>1, <3>2 DEF Sender
  <2>4. CASE Sender = NoThread
    BY <1>6, <2>1, <2>2, <2>3, <2>4 DEF Line!Begin
  <2>5. CASE Sender = t
    <3>1. missing' \in 1 .. missing - 1
      BY <1>1, <1>3, <1>4, <2>1, <2>5
    <3> QED BY <1>6, <2>2, <2>3, <2>5, <3>1 DEF Line!Continue
  <2> QED BY <1>4, <2>4, <2>5
<1> QED BY <1>7, <1>8

\* A failed write is a refusal (serial_write).
LEMMA WriteFailsMaps ==
    ASSUME LineInv, NEW t \in Threads, WriteFails(t)
    PROVE  Line!Refuse(t)
<1> USE DEF LineInv
<1>1. /\ pc[t] = "write" /\ pc' = [pc EXCEPT ![t] = "unlock"]
      /\ holder' = holder /\ outbox' = outbox /\ missing' = missing
      /\ outbox[t] # <<>>
  BY DEF WriteFails, LockDiscipline, Idle
<1>2. Line!MayWrite(t)
  <2>1. Sender \in {NoThread, t}
    BY <1>1, SenderIsHolder
  <2>2. Queue[t] = outbox[t]
    BY <1>1 DEF Queue
  <2> QED BY <1>1, <2>1, <2>2 DEF Line!MayWrite
<1>3. Sender' = NoThread
  <2>1. holder' = t /\ pc'[t] = "unlock"
    BY <1>1 DEF LockDiscipline, TypeOK
  <2> QED BY <2>1 DEF Sender
<1>4. Queue' = [Queue EXCEPT ![t] = Tail(@)]
  BY <1>1, QueueLeaves
<1> QED BY <1>1, <1>2, <1>3, <1>4 DEF Line!Refuse, Line!Leave

\* Releasing the mutex is no step of the line (mavlink_send_msg).
LEMMA UnlockMaps ==
    ASSUME LineInv, NEW t \in Threads, Unlock(t)
    PROVE  UNCHANGED <<Queue, Sender, missing>>
<1> USE DEF LineInv
<1>1. /\ pc[t] = "unlock" /\ pc' = [pc EXCEPT ![t] = "idle"]
      /\ outbox' = [outbox EXCEPT ![t] = Tail(outbox[t])]
      /\ holder' = NoThread /\ missing' = missing
  BY DEF Unlock, Remaining, lineVars
<1>2. Sender = NoThread
  <2>1. holder = t
    BY <1>1 DEF LockDiscipline
  <2> QED BY <1>1, <2>1 DEF Sender
<1>3. Sender' = NoThread
  BY <1>1 DEF Sender
<1>4. Queue' = Queue
  <2>1. ASSUME NEW u \in Threads
        PROVE  (IF pc'[u] = "unlock" THEN Tail(outbox'[u]) ELSE outbox'[u])
                 = (IF pc[u] = "unlock" THEN Tail(outbox[u]) ELSE outbox[u])
    BY <1>1 DEF TypeOK
  <2> QED BY <2>1 DEF Queue
<1> QED BY <1>1, <1>2, <1>3, <1>4

\* A thread that sets out to send is given frames.
LEMMA PostMaps ==
    ASSUME LineInv, NEW t \in Threads, Idle(t), NEW frames \in Seq(Frames),
           Post(t, frames), UNCHANGED <<holder, pc, written, missing>>
    PROVE  Line!Post(t)
<1> USE DEF LineInv
<1>1. pc[t] = "idle" /\ outbox[t] = <<>>
  BY DEF LockDiscipline, Idle
<1>2. Queue[t] = <<>>
  BY <1>1 DEF Queue
<1>3. /\ outbox' = [outbox EXCEPT ![t] = frames] /\ pc' = pc
      /\ holder' = holder /\ written' = written /\ missing' = missing
  BY DEF Post
<1>4. Queue' = [Queue EXCEPT ![t] = frames]
  <2>1. ASSUME NEW u \in Threads
        PROVE  (IF pc'[u] = "unlock" THEN Tail(outbox'[u]) ELSE outbox'[u])
                 = IF u = t THEN frames ELSE Queue[u]
    BY <1>1, <1>3 DEF Queue, TypeOK
  <2> QED BY <2>1 DEF Queue
<1>5. Queue'[t] = frames
  BY <1>4 DEF Queue
<1>6. Sender' = Sender
  BY <1>3 DEF Sender
<1> QED BY <1>2, <1>3, <1>4, <1>5, <1>6 DEF Line!Post

\* Every step of the threads is a step of the line or none.
LEMMA StepMaps ==
    LineInv /\ LineInv' /\ [Next]_vars => [Line!Next]_(Line!lineSpecVars)
<1> SUFFICES ASSUME LineInv, LineInv', [Next]_vars
             PROVE  Line!Next \/ UNCHANGED <<Queue, Sender, missing>>
  BY DEF Line!lineSpecVars
<1>1. ASSUME NEW t \in Threads, Send(t)
      PROVE  Line!Next \/ UNCHANGED <<Queue, Sender, missing>>
  BY <1>1, LockMaps, WriteSomeMaps, WriteFailsMaps, UnlockMaps
     DEF Send, Line!Next
<1>2. ASSUME NEW t \in Threads, Idle(t), NEW frames \in Seq(Frames),
             Post(t, frames), UNCHANGED <<holder, pc, written, missing>>
      PROVE  Line!Next
  BY <1>2, PostMaps DEF Line!Next
<1>3. CASE Ask
  <2>1. Request \in Seq(Frames)
    BY ShortSequences DEF Request, Frames
  <2> QED BY <1>2, <1>3, <2>1 DEF Ask, Threads, lineVars
<1>4. ASSUME NEW m \in Messages, Receive(m)
      PROVE  Line!Next
  <2>1. Answers(m) \in Seq(Frames)
    BY AnswersType
  <2> QED BY <1>2, <1>4, <2>1 DEF Receive, Threads, lineVars
<1>5. ASSUME NEW frame \in {"client", "tune"}, PassOn(frame)
      PROVE  Line!Next
  <2>1. <<frame>> \in Seq(Frames)
    BY ShortSequences DEF Frames
  <2> QED BY <1>2, <1>5, <2>1 DEF PassOn, Threads, lineVars
<1>6. CASE Heartbeat
  <2>1. <<"heartbeat">> \in Seq(Frames)
    BY ShortSequences DEF Frames
  <2> QED BY <1>2, <1>6, <2>1 DEF Heartbeat, Threads, lineVars
<1>7. CASE OpenPort \/ ReadDone \/ EnterLoop \/ StartBeating \/ UNCHANGED vars
  <2>1. UNCHANGED <<outbox, pc, holder, written, missing>>
    BY <1>7 DEF OpenPort, ReadDone, EnterLoop, StartBeating, vars, callVars,
                lineVars
  <2> QED BY <2>1 DEF Queue, Sender
<1> QED
  BY <1>1, <1>3, <1>4, <1>5, <1>6, <1>7 DEF Next, Handshake

\* The two threads behave as a line that takes one frame at a time
\* (serial_tx_mtx, serial_write).
THEOREM LineRefinement == Spec => LineImplemented
<1>1. Init => Line!Init
  <2> SUFFICES ASSUME Init PROVE Line!Init
    OBVIOUS
  <2>1. Queue = [t \in Threads |-> <<>>]
    BY DEF Init, Queue
  <2>2. Sender = NoThread /\ missing = 0
    BY DEF Init, Sender
  <2> QED BY <2>1, <2>2 DEF Line!Init
<1> QED
  BY <1>1, StepMaps, LineInvariant, PTL DEF Spec, LineImplemented, Line!Spec
=============================================================================
