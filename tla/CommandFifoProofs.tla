--------------------------- MODULE CommandFifoProofs ---------------------------
(***************************************************************************)
(* Proofs about the servers and commanders of CommandFifo, for any number  *)
(* of them, any table of tunes and any size of a command.                  *)
(***************************************************************************)
EXTENDS CommandFifo, SequenceTheorems, TLAPS

USE FifoAssumption DEF FifoAssumption

\* What a read leaves in the FIFO.
Rest(s) == SubSeq(fifo, Len(Taken(s)) + 1, Len(fifo))

\* The numbers that atoi may return are integers.
LEMMA NumbersAreIntegers == \A n \in Numbers : n \in Int
<1>1. ASSUME NEW n \in Magnitudes
      PROVE  n \in Int /\ -n \in Int
  <2>1. n \in Nat
    OBVIOUS
  <2> QED
    BY <2>1
<1> QED
  BY <1>1 DEF Numbers

\* A buffer is a sequence of cells (read_user_cmd).
LEMMA BufferIsSequence ==
    ASSUME NEW s \in Servers, NEW b \in Buffers(s)
    PROVE  /\ b \in Seq(Cells) /\ b \in [1 .. CmdSize -> Cells]
           /\ \A i \in 1 .. CmdSize :
                i - received[s] \in DOMAIN Taken(s) =>
                    b[i] = Taken(s)[i - received[s]]
<1>1. /\ b \in [1 .. CmdSize -> Cells] /\ CmdSize \in Nat
      /\ \A i \in 1 .. CmdSize :
           i - received[s] \in DOMAIN Taken(s) =>
               b[i] = Taken(s)[i - received[s]]
  BY DEF Buffers
<1>2. b \in Seq(Cells)
  BY <1>1, SeqDef
<1> QED
  BY <1>1, <1>2

\* The number that a completed read hands to mavlink_send_play_tune is an
\* integer, whether the command is whole or in pieces (read_user_cmd).
LEMMA ArgumentIsInteger ==
    ASSUME TypeOK, NEW b, NEW n \in Arguments(b)
    PROVE  n \in Int
<1>1. CASE Whole(b)
  <2>1. PICK c \in Commanders : b = [i \in 1 .. CmdSize |-> <<c, i>>]
    BY <1>1 DEF Whole
  <2>2. b[1] = <<c, 1>>
    BY <2>1
  <2>3. n = tune[b[1][1]]
    BY <1>1 DEF Arguments
  <2>4. n = tune[c]
    BY <2>2, <2>3
  <2>5. tune[c] \in Numbers
    BY DEF TypeOK
  <2> QED
    BY <2>4, <2>5, NumbersAreIntegers
<1>2. CASE ~Whole(b)
  BY <1>2, NumbersAreIntegers DEF Arguments
<1> QED
  BY <1>1, <1>2

\* What a read takes is the beginning of the FIFO, and the rest stays
\* (read_user_cmd).
LEMMA TakenFromFront ==
    ASSUME TypeOK, NEW s \in Servers
    PROVE  /\ Len(Taken(s)) \in 0 .. Len(fifo)
           /\ Taken(s) \in Seq(Bytes)
           /\ \A i \in 1 .. Len(Taken(s)) : Taken(s)[i] = fifo[i]
           /\ Rest(s) \in Seq(Bytes)
           /\ Len(Rest(s)) = Len(fifo) - Len(Taken(s))
           /\ \A i \in 1 .. Len(Rest(s)) :
                Rest(s)[i] = fifo[i + Len(Taken(s))]
<1> DEFINE m == Smaller(Len(fifo), Wanted(s))
<1>1. /\ fifo \in Seq(Bytes) /\ Len(fifo) \in Nat /\ m \in Int
      /\ m <= Len(fifo) /\ \A i \in 1 .. Len(fifo) : fifo[i] \in Bytes
  BY DEF TypeOK, Smaller, Wanted
<1>2. /\ Taken(s) \in Seq(Bytes)
      /\ Len(Taken(s)) = IF 1 <= m THEN m ELSE 0
      /\ \A i \in 1 .. m : Taken(s)[i] = fifo[i]
  <2> HIDE DEF m
  <2>1. \A i \in 1 .. m : fifo[i] \in Bytes
    BY <1>1
  <2> QED
    BY <1>1, <2>1, SubSeqProperties DEF Taken, m
<1>3. Len(Taken(s)) \in 0 .. Len(fifo) /\ Len(Taken(s)) \in Nat
  <2> HIDE DEF m
  <2> QED
    BY <1>1, <1>2
<1>4. /\ Rest(s) \in Seq(Bytes)
      /\ Len(Rest(s)) = Len(fifo) - Len(Taken(s))
      /\ \A i \in 1 .. Len(Rest(s)) : Rest(s)[i] = fifo[i + Len(Taken(s))]
  <2> DEFINE k == Len(Taken(s)) + 1
  <2>1. k \in Int /\ Len(fifo) \in Int /\ 1 <= k /\ k <= Len(fifo) + 1
    BY <1>1, <1>3
  <2> HIDE DEF k
  <2>2. \A i \in k .. Len(fifo) : fifo[i] \in Bytes
    BY <1>1, <2>1
  <2>3. /\ SubSeq(fifo, k, Len(fifo)) \in Seq(Bytes)
        /\ Len(SubSeq(fifo, k, Len(fifo)))
             = IF k <= Len(fifo) THEN Len(fifo) - k + 1 ELSE 0
        /\ \A i \in 1 .. Len(fifo) - k + 1 :
             SubSeq(fifo, k, Len(fifo))[i] = fifo[k + i - 1]
    BY <2>1, <2>2, SubSeqProperties
  <2> QED
    BY <1>3, <2>1, <2>3 DEF Rest, k
<1> QED
  BY <1>1, <1>2, <1>3, <1>4

\* A command as it is written is a sequence of bytes of its commander
\* (run_commander).
LEMMA PieceProperties ==
    ASSUME NEW c \in Commanders
    PROVE  /\ Piece(c) \in Seq(Bytes)
           /\ Len(Piece(c)) = CmdSize
           /\ \A i \in 1 .. CmdSize : Piece(c)[i] = <<c, i>>
<1>1. CmdSize \in Nat /\ Piece(c) \in [1 .. CmdSize -> Bytes]
  BY DEF Piece, Bytes
<1>2. Piece(c) \in Seq(Bytes)
  BY <1>1, SeqDef
<1> QED
  BY <1>1, <1>2 DEF Piece

\* What writing does to the FIFO: the command comes behind what is there.
LEMMA WrittenBehind ==
    ASSUME TypeOK, NEW c \in Commanders, WriteCommand(c)
    PROVE  /\ fifo' \in Seq(Bytes)
           /\ Len(fifo') = Len(fifo) + CmdSize
           /\ \A i \in 1 .. Len(fifo) : fifo'[i] = fifo[i]
           /\ \A i \in 1 .. CmdSize : fifo'[i + Len(fifo)] = <<c, i>>
<1>1. fifo \in Seq(Bytes) /\ Len(fifo) \in Nat
  BY DEF TypeOK
<1>2. /\ fifo' \in Seq(Bytes) /\ Len(fifo') = Len(fifo) + CmdSize
      /\ \A i \in 1 .. Len(fifo) + CmdSize :
           fifo'[i] = IF i <= Len(fifo) THEN fifo[i]
                      ELSE Piece(c)[i - Len(fifo)]
  BY <1>1, PieceProperties, ConcatProperties DEF WriteCommand
<1>3. ASSUME NEW i \in 1 .. CmdSize
      PROVE  fifo'[i + Len(fifo)] = <<c, i>>
  <2>1. /\ i + Len(fifo) \in 1 .. Len(fifo) + CmdSize
        /\ ~(i + Len(fifo) <= Len(fifo)) /\ i + Len(fifo) - Len(fifo) = i
    BY <1>1, <1>3
  <2> QED
    BY <1>2, <2>1, PieceProperties
<1>4. ASSUME NEW i \in 1 .. Len(fifo)
      PROVE  fifo'[i] = fifo[i]
  <2>1. i \in 1 .. Len(fifo) + CmdSize /\ i <= Len(fifo)
    BY <1>1
  <2> QED
    BY <1>2, <2>1
<1> QED
  BY <1>2, <1>3, <1>4

\* A process that ends leaves the FIFO as it is, or empty.
LEMMA KeptOrLost ==
    ASSUME NEW srv, NEW com
    PROVE  KeptBy(srv, com, fifo) \in {fifo, <<>>}
  BY DEF KeptBy

\* What a step other than a read or a write may do to the bytes: keep them or
\* lose them, and change no commander that has written into one that has not.
LEMMA OtherSteps ==
    ASSUME TypeOK, [Next]_vars,
           ~ \E s \in Servers : ReadUserCmd(s),
           ~ \E c \in Commanders : WriteCommand(c)
    PROVE  /\ fifo' \in {fifo, <<>>}
           /\ UNCHANGED <<received, tune, completed, played>>
           /\ commander' \in [Commanders -> {"off", "refused", "open",
                                             "written", "sent"}]
           /\ \A c \in Commanders :
                commander[c] \in {"written", "sent"} =>
                    commander'[c] \in {"written", "sent"}
<1>1. ASSUME NEW s \in Servers,
             \/ Start(s) \/ CreatePidfile(s) \/ OpenFifo(s) \/ Serve(s)
             \/ Terminate(s) \/ Poll(s)
      PROVE  UNCHANGED <<fifo, received, tune, commander, completed, played>>
  BY <1>1 DEF Start, CreatePidfile, OpenFifo, Serve, Terminate, Poll, history
<1>2. ASSUME NEW s \in Servers, Terminated(s) \/ Exit(s)
      PROVE  /\ fifo' \in {fifo, <<>>}
             /\ UNCHANGED <<received, tune, commander, completed, played>>
  BY <1>2, KeptOrLost DEF Terminated, Exit, Gone, history
<1>3. ASSUME NEW c \in Commanders, OpenCommander(c) \/ ReportSent(c)
      PROVE  /\ fifo' \in {fifo, <<>>}
             /\ UNCHANGED <<received, tune, completed, played>>
             /\ \E st \in {"open", "refused", "sent"} :
                  /\ commander' = [commander EXCEPT ![c] = st]
                  /\ commander[c] \in {"written", "sent"} => st = "sent"
  <2>1. CASE OpenCommander(c)
    <3>1. UNCHANGED <<fifo, received, tune, completed, played>>
      BY <2>1 DEF OpenCommander, history
    <3>2. commander[c] = "off"
      BY <2>1 DEF OpenCommander
    <3>3. CASE exists
      BY <2>1, <3>1, <3>2, <3>3 DEF OpenCommander
    <3>4. CASE ~exists
      BY <2>1, <3>1, <3>2, <3>4 DEF OpenCommander
    <3> QED
      BY <3>3, <3>4
  <2>2. CASE ReportSent(c)
    BY <2>2, KeptOrLost DEF ReportSent, history
  <2> QED
    BY <1>3, <2>1, <2>2
<1>4. CASE UNCHANGED vars
  BY <1>4 DEF vars, history, TypeOK
<1>5. commander \in [Commanders -> {"off", "refused", "open", "written",
                                    "sent"}]
  BY DEF TypeOK
<1>6. CASE \E c \in Commanders : OpenCommander(c) \/ ReportSent(c)
  <2>1. PICK c \in Commanders : OpenCommander(c) \/ ReportSent(c)
    BY <1>6
  <2>2. PICK st \in {"open", "refused", "sent"} :
          /\ commander' = [commander EXCEPT ![c] = st]
          /\ commander[c] \in {"written", "sent"} => st = "sent"
    BY <1>3, <2>1
  <2> QED
    BY <1>3, <1>5, <2>1, <2>2
<1> QED
  BY <1>1, <1>2, <1>4, <1>5, <1>6 DEF Next, Read

\* The types (run_server, run_commander, read_user_cmd).
LEMMA ReadTyped ==
    ASSUME TypeOK, NEW s \in Servers, ReadUserCmd(s)
    PROVE  TypeOK'
<1>1. fifo' \in Seq(Bytes)
  BY TakenFromFront DEF ReadUserCmd, Rest
<1>2. received' \in [Servers -> Int]
  <2>1. Rsize(s) \in Int
    BY TakenFromFront DEF Rsize
  <2>2. received[s] + Rsize(s) \in Int
    BY <2>1 DEF TypeOK
  <2>3. received' \in {[received EXCEPT ![s] = 0],
                       [received EXCEPT ![s] = @ + Rsize(s)]}
    BY DEF ReadUserCmd
  <2> QED
    BY <2>2, <2>3 DEF TypeOK
<1>3. completed' \in Seq(Seq(Cells))
  <2>1. CASE UNCHANGED completed
    BY <2>1 DEF TypeOK
  <2>2. CASE completed' # completed
    <3>1. PICK b \in Buffers(s) : completed' = Append(completed, b)
      BY <2>2 DEF ReadUserCmd
    <3>2. b \in Seq(Cells) /\ completed \in Seq(Seq(Cells))
      BY BufferIsSequence DEF TypeOK
    <3> QED
      BY <3>1, <3>2, AppendProperties
  <2> QED
    BY <2>1, <2>2
<1>4. played' \in Seq(Int)
  <2>1. CASE UNCHANGED played
    BY <2>1 DEF TypeOK
  <2>2. CASE played' # played
    <3>0. PICK b \in Buffers(s) : \E n \in Arguments(b) :
            played' = IF InTable(n) THEN Append(played, n) ELSE played
      BY <2>2 DEF ReadUserCmd
    <3>1. PICK n \in Arguments(b) :
            played' = IF InTable(n) THEN Append(played, n) ELSE played
      BY <3>0
    <3>2. n \in Int
      BY <3>1, ArgumentIsInteger
    <3> QED
      BY <2>2, <3>1, <3>2, AppendProperties DEF TypeOK
  <2> QED
    BY <2>1, <2>2
<1>5. ready' \in [Servers -> BOOLEAN]
  BY DEF ReadUserCmd, TypeOK
<1> QED
  BY <1>1, <1>2, <1>3, <1>4, <1>5 DEF TypeOK, ReadUserCmd

LEMMA TypeKept == TypeOK /\ [Next]_vars => TypeOK'
<1> SUFFICES ASSUME TypeOK, [Next]_vars PROVE TypeOK'
  OBVIOUS
<1>1. ASSUME NEW s \in Servers, ReadUserCmd(s) PROVE TypeOK'
  BY <1>1, ReadTyped
<1>2. ASSUME NEW c \in Commanders, WriteCommand(c) PROVE TypeOK'
  BY <1>2, WrittenBehind DEF WriteCommand, TypeOK, history
<1>3. ASSUME ~ \E s \in Servers : ReadUserCmd(s),
             ~ \E c \in Commanders : WriteCommand(c)
      PROVE  TypeOK'
  <2>1. /\ fifo' \in Seq(Bytes) /\ received' \in [Servers -> Int]
        /\ tune' \in [Commanders -> Numbers]
        /\ completed' \in Seq(Seq(Cells)) /\ played' \in Seq(Int)
        /\ commander' \in [Commanders -> {"off", "refused", "open",
                                          "written", "sent"}]
    <3>1. <<>> \in Seq(Bytes)
      OBVIOUS
    <3> QED
      BY <1>3, <3>1, OtherSteps DEF TypeOK
  <2>2. /\ server' \in [Servers -> {"off", "ended"} \cup Live]
        /\ pidfile' \in Servers \cup {NoServer}
        /\ ready' \in [Servers -> BOOLEAN]
        /\ exists' \in BOOLEAN /\ overlap' \in BOOLEAN
    <3> USE DEF TypeOK, Live, HasOpen
    <3>1. ASSUME NEW s \in Servers, Start(s)
          PROVE  <2>2!1 /\ <2>2!2 /\ <2>2!3 /\ <2>2!4
      BY <3>1 DEF Start
    <3>2. ASSUME NEW s \in Servers,
                 \/ CreatePidfile(s) \/ OpenFifo(s) \/ Serve(s) \/ Terminate(s)
          PROVE  <2>2!1 /\ <2>2!2 /\ <2>2!3 /\ <2>2!4
      BY <3>2 DEF CreatePidfile, OpenFifo, Serve, Terminate, history
    <3>3. ASSUME NEW s \in Servers, Poll(s) \/ Terminated(s) \/ Exit(s)
          PROVE  <2>2!1 /\ <2>2!2 /\ <2>2!3 /\ <2>2!4
      BY <3>3 DEF Poll, Terminated, Exit, Gone, history
    <3>4. ASSUME NEW c \in Commanders, OpenCommander(c) \/ ReportSent(c)
          PROVE  <2>2!1 /\ <2>2!2 /\ <2>2!3 /\ <2>2!4
      BY <3>4 DEF OpenCommander, ReportSent, history
    <3>5. CASE UNCHANGED vars
      BY <3>5 DEF vars, history
    <3> QED
      BY <1>3, <3>1, <3>2, <3>3, <3>4, <3>5 DEF Next, Read
  <2> QED
    BY <2>1, <2>2 DEF TypeOK
<1> QED
  BY <1>1, <1>2, <1>3

\* Two servers that have run at once cannot have not done so.
LEMMA OverlapStays ==
    ASSUME TypeOK, [Next]_vars
    PROVE  overlap => overlap'
<1>1. ASSUME NEW s \in Servers, Start(s)
      PROVE  overlap => overlap'
  BY <1>1 DEF Start
<1>2. ASSUME ~ \E s \in Servers : Start(s)
      PROVE  overlap' = overlap
  BY <1>2 DEF Next, Read, CreatePidfile, OpenFifo, Serve, Poll, ReadUserCmd,
     Terminate, Terminated, Exit, Gone, OpenCommander, WriteCommand,
     ReportSent, vars, history
<1> QED
  BY <1>1, <1>2

\* A server that reads while it is alone takes the first command, whole
\* (read_user_cmd).
LEMMA ReadsOneCommand ==
    ASSUME TypeOK, WholeCommands, ReadsAtOnce, ~overlap,
           NEW s \in Servers, ReadUserCmd(s)
    PROVE  /\ CmdSize <= Len(fifo)
           /\ Len(Taken(s)) = CmdSize
           /\ Rsize(s) = CmdSize
           /\ Whole(Taken(s))
           /\ Buffers(s) \subseteq {Taken(s)}
           /\ 1 + CmdSize <= Len(fifo) => fifo[1 + CmdSize][2] = 1
           /\ received[s] = 0
<1>1. fifo # <<>> /\ received[s] = 0
  BY DEF ReadsAtOnce, ReadUserCmd
<1>2. /\ fifo \in Seq(Bytes) /\ Len(fifo) \in Nat \ {0}
      /\ DOMAIN fifo = 1 .. Len(fifo) /\ CmdSize \in Nat \ {0}
  BY <1>1, EmptySeq, LenProperties DEF TypeOK
<1>3. /\ 1 + CmdSize <= Len(fifo) + 1
      /\ \A k \in 1 .. CmdSize : fifo[1 + k - 1] = <<fifo[1][1], k>>
      /\ 1 + CmdSize <= Len(fifo) => fifo[1 + CmdSize][2] = 1
  <2>1. 1 \in DOMAIN fifo /\ fifo[1][2] = 1
    BY <1>1, <1>2 DEF WholeCommands
  <2> QED
    BY <2>1 DEF WholeCommands
<1>4. CmdSize <= Len(fifo)
  BY <1>2, <1>3
<1>5. fifo[1][1] \in Commanders
  <2>1. fifo[1] \in Bytes
    BY <1>2, ElementOfSeq
  <2> QED
    BY <2>1 DEF Bytes
<1>6. Smaller(Len(fifo), Wanted(s)) = CmdSize
  <2>1. Wanted(s) = CmdSize - 0 /\ CmdSize \in Int /\ Len(fifo) \in Int
    BY <1>1, <1>2 DEF Wanted
  <2>2. Wanted(s) = CmdSize
    BY <2>1
  <2> QED
    BY <1>4, <2>1, <2>2 DEF Smaller
<1>7. Len(Taken(s)) = CmdSize
  <2>1. \A i \in 1 .. CmdSize : fifo[i] \in Bytes
    BY <1>2, <1>4
  <2>2. Taken(s) = SubSeq(fifo, 1, CmdSize)
    BY <1>6 DEF Taken
  <2>3. Len(SubSeq(fifo, 1, CmdSize)) = IF 1 <= CmdSize THEN CmdSize ELSE 0
    <3>1. 1 \in Int /\ CmdSize \in Int /\ CmdSize - 1 + 1 = CmdSize
      BY <1>2
    <3> QED
      BY <2>1, <3>1, SubSeqProperties
  <2> QED
    BY <1>2, <2>2, <2>3
<1>8. Rsize(s) = CmdSize
  BY <1>1, <1>7 DEF Rsize
<1>9. Taken(s) = [k \in 1 .. CmdSize |-> <<fifo[1][1], k>>]
  <2>1. \A k \in 1 .. CmdSize : Taken(s)[k] = <<fifo[1][1], k>>
    <3>1. ASSUME NEW k \in 1 .. CmdSize
          PROVE  Taken(s)[k] = <<fifo[1][1], k>>
      <4>1. Taken(s)[k] = fifo[k]
        BY <1>7, TakenFromFront
      <4>2. fifo[1 + k - 1] = <<fifo[1][1], k>> /\ 1 + k - 1 = k
        BY <1>2, <1>3
      <4> QED
        BY <4>1, <4>2
    <3> QED
      BY <3>1
  <2>2. Taken(s) \in Seq(Bytes) /\ Piece(fifo[1][1]) \in Seq(Bytes)
    BY <1>5, TakenFromFront, PieceProperties
  <2>3. Taken(s) = Piece(fifo[1][1])
    <3>1. /\ Len(Piece(fifo[1][1])) = CmdSize
          /\ \A k \in 1 .. CmdSize : Piece(fifo[1][1])[k] = <<fifo[1][1], k>>
      BY <1>5, PieceProperties
    <3>2. /\ Len(Taken(s)) = Len(Piece(fifo[1][1]))
          /\ \A k \in 1 .. Len(Taken(s)) :
               Taken(s)[k] = Piece(fifo[1][1])[k]
      BY <1>7, <2>1, <3>1
    <3> QED
      BY <2>2, <3>2, SeqEqual
  <2> QED
    BY <2>3 DEF Piece
<1>10. Whole(Taken(s))
  BY <1>5, <1>9 DEF Whole
<1>11. ASSUME NEW b \in Buffers(s)
       PROVE  b = Taken(s)
  <2>1. DOMAIN Taken(s) = 1 .. CmdSize
    BY <1>9
  <2>2. ASSUME NEW i \in 1 .. CmdSize
        PROVE  b[i] = <<fifo[1][1], i>>
    <3>1. i - received[s] = i
      BY <1>1
    <3>2. i - received[s] \in DOMAIN Taken(s)
      BY <2>1, <3>1
    <3>3. b[i] = Taken(s)[i - received[s]]
      BY <3>2, BufferIsSequence
    <3> QED
      BY <1>9, <3>1, <3>3
  <2>3. b \in [1 .. CmdSize -> Cells]
    BY BufferIsSequence
  <2>4. b = [i \in 1 .. CmdSize |-> <<fifo[1][1], i>>]
    BY <2>2, <2>3
  <2> QED
    BY <1>9, <2>4
<1>12. Buffers(s) \subseteq {Taken(s)}
  BY <1>11
<1> QED
  BY <1>1, <1>3, <1>4, <1>7, <1>8, <1>10, <1>12

\* Whole commands stay whole: the first is taken, a new one comes behind the
\* last, or all are lost (read_user_cmd, run_commander).
LEMMA WholeKept ==
    ASSUME TypeOK, WholeCommands, ReadsAtOnce, [Next]_vars
    PROVE  WholeCommands'
<1> SUFFICES ASSUME ~overlap' PROVE WholeCommands'
  BY DEF WholeCommands
<1>1. ~overlap
  BY OverlapStays
<1>2. /\ fifo \in Seq(Bytes) /\ Len(fifo) \in Nat /\ CmdSize \in Nat \ {0}
      /\ DOMAIN fifo = 1 .. Len(fifo)
  BY LenProperties DEF TypeOK
<1>3. /\ fifo # <<>> => fifo[1][2] = 1
      /\ \A i \in DOMAIN fifo : fifo[i][2] = 1 =>
           /\ i + CmdSize <= Len(fifo) + 1
           /\ \A k \in 1 .. CmdSize : fifo[i + k - 1] = <<fifo[i][1], k>>
           /\ i + CmdSize <= Len(fifo) => fifo[i + CmdSize][2] = 1
  BY <1>1 DEF WholeCommands
<1>4. ASSUME NEW s \in Servers, ReadUserCmd(s)
      PROVE  WholeCommands'
  <2>1. /\ CmdSize <= Len(fifo)
        /\ 1 + CmdSize <= Len(fifo) => fifo[1 + CmdSize][2] = 1
        /\ fifo' \in Seq(Bytes) /\ Len(fifo') = Len(fifo) - CmdSize
        /\ \A i \in 1 .. Len(fifo') : fifo'[i] = fifo[i + CmdSize]
    <3>1. /\ CmdSize <= Len(fifo) /\ Len(Taken(s)) = CmdSize
          /\ 1 + CmdSize <= Len(fifo) => fifo[1 + CmdSize][2] = 1
      BY <1>1, <1>4, ReadsOneCommand
    <3>2. fifo' = Rest(s)
      BY <1>4 DEF ReadUserCmd, Rest
    <3>3. /\ Rest(s) \in Seq(Bytes)
          /\ Len(Rest(s)) = Len(fifo) - Len(Taken(s))
          /\ \A i \in 1 .. Len(Rest(s)) :
               Rest(s)[i] = fifo[i + Len(Taken(s))]
      BY TakenFromFront
    <3> QED
      BY <3>1, <3>2, <3>3
  <2>2. DOMAIN fifo' = 1 .. Len(fifo') /\ Len(fifo') \in Nat
    BY <2>1, LenProperties
  <2>3. fifo' # <<>> => fifo'[1][2] = 1
    <3>1. fifo' # <<>> => 1 \in 1 .. Len(fifo')
      BY <2>1, <2>2, EmptySeq
    <3> QED
      BY <1>2, <2>1, <2>2, <3>1
  <2>4. ASSUME NEW i \in DOMAIN fifo', fifo'[i][2] = 1
        PROVE  /\ i + CmdSize <= Len(fifo') + 1
               /\ \A k \in 1 .. CmdSize : fifo'[i + k - 1] = <<fifo'[i][1], k>>
               /\ i + CmdSize <= Len(fifo') => fifo'[i + CmdSize][2] = 1
    <3>1. i + CmdSize \in DOMAIN fifo /\ fifo'[i] = fifo[i + CmdSize]
      BY <1>2, <2>1, <2>2
    <3>2. /\ i + CmdSize + CmdSize <= Len(fifo) + 1
          /\ \A k \in 1 .. CmdSize :
               fifo[i + CmdSize + k - 1] = <<fifo[i + CmdSize][1], k>>
          /\ i + CmdSize + CmdSize <= Len(fifo) =>
               fifo[i + CmdSize + CmdSize][2] = 1
      BY <1>3, <2>4, <3>1
    <3>3. ASSUME NEW k \in 1 .. CmdSize
          PROVE  fifo'[i + k - 1] = <<fifo'[i][1], k>>
      <4>1. /\ i + k - 1 \in 1 .. Len(fifo')
            /\ i + k - 1 + CmdSize = i + CmdSize + k - 1
        BY <1>2, <2>1, <2>2, <3>2
      <4> QED
        BY <2>1, <3>1, <3>2, <4>1
    <3>4. i + CmdSize <= Len(fifo') => fifo'[i + CmdSize][2] = 1
      <4>1. i + CmdSize <= Len(fifo') => i + CmdSize \in 1 .. Len(fifo')
        BY <1>2, <2>2
      <4>2. i + CmdSize <= Len(fifo') => i + CmdSize + CmdSize <= Len(fifo)
        BY <1>2, <2>1, <2>2
      <4> QED
        BY <2>1, <3>2, <4>1, <4>2
    <3>5. i + CmdSize <= Len(fifo') + 1
      BY <1>2, <2>1, <2>2, <3>2
    <3> QED
      BY <3>3, <3>4, <3>5
  <2> QED
    BY <2>3, <2>4 DEF WholeCommands
<1>5. ASSUME NEW c \in Commanders, WriteCommand(c)
      PROVE  WholeCommands'
  <2>1. /\ fifo' \in Seq(Bytes) /\ Len(fifo') = Len(fifo) + CmdSize
        /\ \A i \in 1 .. Len(fifo) : fifo'[i] = fifo[i]
        /\ \A k \in 1 .. CmdSize : fifo'[k + Len(fifo)] = <<c, k>>
    BY <1>5, WrittenBehind
  <2>2. DOMAIN fifo' = 1 .. Len(fifo')
    BY <2>1, LenProperties
  <2>3. fifo'[1 + Len(fifo)] = <<c, 1>> /\ fifo'[1 + Len(fifo)][2] = 1
    BY <1>2, <2>1
  <2>4. fifo' # <<>> => fifo'[1][2] = 1
    <3>1. CASE Len(fifo) = 0
      BY <2>3, <3>1
    <3>2. CASE Len(fifo) # 0
      <4>1. fifo # <<>> /\ 1 \in 1 .. Len(fifo)
        BY <1>2, <3>2
      <4> QED
        BY <1>3, <2>1, <4>1
    <3> QED
      BY <3>1, <3>2
  <2>5. ASSUME NEW i \in DOMAIN fifo', fifo'[i][2] = 1
        PROVE  /\ i + CmdSize <= Len(fifo') + 1
               /\ \A k \in 1 .. CmdSize : fifo'[i + k - 1] = <<fifo'[i][1], k>>
               /\ i + CmdSize <= Len(fifo') => fifo'[i + CmdSize][2] = 1
    <3>1. CASE i <= Len(fifo)
      <4>1. i \in DOMAIN fifo /\ fifo'[i] = fifo[i]
        BY <1>2, <2>1, <2>2, <3>1
      <4>2. /\ i + CmdSize <= Len(fifo) + 1
            /\ \A k \in 1 .. CmdSize : fifo[i + k - 1] = <<fifo[i][1], k>>
            /\ i + CmdSize <= Len(fifo) => fifo[i + CmdSize][2] = 1
        BY <1>3, <2>5, <4>1
      <4>3. ASSUME NEW k \in 1 .. CmdSize
            PROVE  fifo'[i + k - 1] = <<fifo'[i][1], k>>
        <5>1. i + k - 1 \in 1 .. Len(fifo)
          BY <1>2, <4>1, <4>2
        <5> QED
          BY <2>1, <4>1, <4>2, <5>1
      <4>4. fifo'[i + CmdSize][2] = 1
        <5>1. CASE i + CmdSize <= Len(fifo)
          <6>1. i + CmdSize \in 1 .. Len(fifo)
            BY <1>2, <4>1, <5>1
          <6> QED
            BY <2>1, <4>2, <5>1, <6>1
        <5>2. CASE ~(i + CmdSize <= Len(fifo))
          <6>1. i \in Int /\ i + CmdSize <= Len(fifo) + 1
            BY <1>2, <4>1, <4>2
          <6>2. i + CmdSize = 1 + Len(fifo)
            BY <1>2, <5>2, <6>1
          <6> QED
            BY <2>3, <6>2
        <5> QED
          BY <5>1, <5>2
      <4>5. i + CmdSize <= Len(fifo') + 1
        BY <1>2, <2>1, <4>1, <4>2
      <4> QED
        BY <4>3, <4>4, <4>5
    <3>2. CASE ~(i <= Len(fifo))
      <4>1. PICK j \in 1 .. CmdSize : i = j + Len(fifo)
        <5>1. i - Len(fifo) \in 1 .. CmdSize /\ i = i - Len(fifo) + Len(fifo)
          BY <1>2, <2>1, <2>2, <3>2
        <5> QED
          BY <5>1
      <4>2. fifo'[i] = <<c, j>> /\ j = 1
        <5>1. fifo'[j + Len(fifo)] = <<c, j>>
          BY <2>1
        <5>2. fifo'[i] = <<c, j>>
          BY <4>1, <5>1
        <5>3. <<c, j>>[2] = 1
          BY <2>5, <5>2
        <5> QED
          BY <5>2, <5>3
      <4>3. i = 1 + Len(fifo) /\ fifo'[i][1] = c
        BY <4>1, <4>2
      <4>4. ASSUME NEW k \in 1 .. CmdSize
            PROVE  fifo'[i + k - 1] = <<fifo'[i][1], k>>
        <5>1. i + k - 1 = k + Len(fifo)
          BY <1>2, <4>3
        <5> QED
          BY <2>1, <4>3, <5>1
      <4>5. i + CmdSize = Len(fifo') + 1
        BY <1>2, <2>1, <4>3
      <4>6. ~(i + CmdSize <= Len(fifo'))
        BY <1>2, <2>1, <4>5
      <4>7. i + CmdSize <= Len(fifo') + 1
        <5>1. Len(fifo') + 1 \in Int
          BY <1>2, <2>1
        <5> QED
          BY <4>5, <5>1
      <4> QED
        BY <4>4, <4>6, <4>7
    <3> QED
      BY <3>1, <3>2
  <2> QED
    BY <2>4, <2>5 DEF WholeCommands
<1>6. ASSUME ~ \E s \in Servers : ReadUserCmd(s),
             ~ \E c \in Commanders : WriteCommand(c)
      PROVE  WholeCommands'
  <2>1. CASE fifo' = fifo
    BY <1>3, <2>1 DEF WholeCommands
  <2>2. CASE fifo' = <<>>
    BY <2>2 DEF WholeCommands
  <2> QED
    BY <1>6, <2>1, <2>2, OtherSteps
<1> QED
  BY <1>4, <1>5, <1>6

\* Nothing is left over from an earlier read, and a server that has been told of
\* the FIFO finds something in it (run_uart_server, read_user_cmd).
LEMMA ReadsAtOnceKept ==
    ASSUME TypeOK, OneServer, WholeCommands, ReadsAtOnce, [Next]_vars
    PROVE  ReadsAtOnce'
<1> SUFFICES ASSUME ~overlap' PROVE ReadsAtOnce'
  BY DEF ReadsAtOnce
<1>1. ~overlap
  BY OverlapStays
<1>2. \A s \in Servers :
        /\ received[s] = 0
        /\ server[s] \in {"off", "started", "pid", "open"} => ~ready[s]
        /\ server[s] = "serving" /\ ready[s] => fifo # <<>>
  BY <1>1 DEF ReadsAtOnce
<1>3. \A s \in Servers : server[s] \in Live =>
        \A o \in Servers \ {s} : server[o] \notin Live
  BY <1>1 DEF OneServer
<1>4. /\ server \in [Servers -> {"off", "ended"} \cup Live]
      /\ ready \in [Servers -> BOOLEAN] /\ received \in [Servers -> Int]
  BY DEF TypeOK
<1>5. ASSUME NEW s \in Servers,
             \/ Start(s) \/ CreatePidfile(s) \/ OpenFifo(s) \/ Serve(s)
             \/ Terminate(s)
      PROVE  ReadsAtOnce'
  BY <1>2, <1>4, <1>5
  DEF ReadsAtOnce, Start, CreatePidfile, OpenFifo, Serve, Terminate, history
<1>6. ASSUME NEW s \in Servers, Poll(s)
      PROVE  ReadsAtOnce'
  BY <1>2, <1>4, <1>6 DEF ReadsAtOnce, Poll, history
<1>7. ASSUME NEW s \in Servers, ReadUserCmd(s)
      PROVE  ReadsAtOnce'
  <2>1. received[s] + Rsize(s) = CmdSize
    <3>1. Rsize(s) = CmdSize /\ received[s] = 0
      BY <1>1, <1>7, ReadsOneCommand
    <3> QED
      BY <3>1
  <2>2. /\ server[s] = "serving"
        /\ ready' = [ready EXCEPT ![s] = FALSE]
        /\ received' = [received EXCEPT ![s] = 0]
        /\ UNCHANGED server
    BY <1>7, <2>1 DEF ReadUserCmd
  <2>3. \A o \in Servers \ {s} : server[o] # "serving"
    BY <1>3, <2>2 DEF Live, HasOpen
  <2> QED
    BY <1>2, <1>4, <2>2, <2>3 DEF ReadsAtOnce
<1>8. ASSUME NEW s \in Servers, Terminated(s) \/ Exit(s)
      PROVE  ReadsAtOnce'
  <2>1. /\ server[s] \in Live
        /\ server' = [server EXCEPT ![s] = "ended"]
        /\ UNCHANGED <<received, ready>>
    BY <1>8 DEF Terminated, Exit, Gone, Live, HasOpen
  <2>2. \A o \in Servers \ {s} : server[o] # "serving"
    BY <1>3, <2>1 DEF Live, HasOpen
  <2> QED
    BY <1>2, <1>4, <2>1, <2>2 DEF ReadsAtOnce
<1>9. ASSUME NEW c \in Commanders, OpenCommander(c)
      PROVE  ReadsAtOnce'
  BY <1>2, <1>9 DEF ReadsAtOnce, OpenCommander, history
<1>10. ASSUME NEW c \in Commanders, WriteCommand(c)
       PROVE  ReadsAtOnce'
  <2>1. fifo' # <<>>
    <3>1. Len(fifo') = Len(fifo) + CmdSize /\ Len(fifo) \in Nat
      BY <1>10, WrittenBehind DEF TypeOK
    <3>2. Len(fifo') # 0
      BY <3>1
    <3> QED
      BY <3>2
  <2> QED
    BY <1>2, <1>10, <2>1 DEF ReadsAtOnce, WriteCommand, history
<1>11. ASSUME NEW c \in Commanders, ReportSent(c)
       PROVE  ReadsAtOnce'
  <2>1. ASSUME NEW s \in Servers, server[s] = "serving"
        PROVE  fifo' = fifo
    BY <1>11, <2>1 DEF ReportSent, KeptBy, Users, HasOpen
  <2> QED
    BY <1>2, <1>11, <2>1 DEF ReadsAtOnce, ReportSent, history
<1>12. CASE UNCHANGED vars
  BY <1>2, <1>12 DEF ReadsAtOnce, vars, history
<1> QED
  BY <1>5, <1>6, <1>7, <1>8, <1>9, <1>10, <1>11, <1>12 DEF Next, Read

\* What has been read, and what has been played, after a read of a server that
\* is alone: one command more, and its tune if the table has it (read_user_cmd).
LEMMA OneCommandMore ==
    ASSUME TypeOK, WholeCommands, ReadsAtOnce, ~overlap,
           NEW s \in Servers, ReadUserCmd(s)
    PROVE  /\ Whole(Taken(s))
           /\ completed' = Append(completed, Taken(s))
           /\ LET n == tune[Taken(s)[1][1]] IN
                played' = IF InTable(n) THEN Append(played, n) ELSE played
<1>1. /\ Whole(Taken(s)) /\ Rsize(s) = CmdSize /\ received[s] = 0
      /\ \A b \in Buffers(s) : b = Taken(s)
  BY ReadsOneCommand
<1>2. received[s] + Rsize(s) = CmdSize
  BY <1>1
<1>3. PICK b \in Buffers(s) :
        /\ completed' = Append(completed, b)
        /\ \E n \in Arguments(b) :
             played' = IF InTable(n) THEN Append(played, n) ELSE played
  BY <1>2 DEF ReadUserCmd
<1>4. Arguments(b) = {tune[Taken(s)[1][1]]}
  BY <1>1 DEF Arguments
<1> QED
  BY <1>1, <1>3, <1>4

\* What was read is a command as it was written (read_user_cmd).
LEMMA CompleteKept ==
    ASSUME TypeOK, WholeCommands, ReadsAtOnce, ReadComplete, [Next]_vars
    PROVE  ReadComplete'
<1> SUFFICES ASSUME ~overlap' PROVE ReadComplete'
  BY DEF ReadComplete
<1>1. ~overlap /\ completed \in Seq(Seq(Cells))
  BY OverlapStays DEF TypeOK
<1>2. \A i \in DOMAIN completed : Whole(completed[i])
  BY <1>1 DEF ReadComplete
<1>3. CASE completed' = completed
  BY <1>2, <1>3 DEF ReadComplete
<1>4. CASE completed' # completed
  <2>1. PICK s \in Servers : ReadUserCmd(s)
    <3>1. ASSUME NEW c \in Commanders, WriteCommand(c)
          PROVE  completed' = completed
      BY <3>1 DEF WriteCommand, history
    <3> QED
      BY <1>4, <3>1, OtherSteps
  <2>2. Whole(Taken(s)) /\ completed' = Append(completed, Taken(s))
    BY <1>1, <2>1, OneCommandMore
  <2>3. Taken(s) \in Seq(Cells)
    <3>1. Taken(s) \in Seq(Bytes) /\ Bytes \subseteq Cells
      BY TakenFromFront DEF Cells
    <3> QED
      BY <3>1
  <2>4. /\ DOMAIN completed' = 1 .. Len(completed) + 1
        /\ \A i \in 1 .. Len(completed) : completed'[i] = completed[i]
        /\ completed'[Len(completed) + 1] = Taken(s)
    BY <1>1, <2>2, <2>3, AppendProperties
  <2>5. DOMAIN completed = 1 .. Len(completed) /\ Len(completed) \in Nat
    BY <1>1
  <2>6. ASSUME NEW i \in DOMAIN completed' PROVE Whole(completed'[i])
    <3>1. CASE i \in 1 .. Len(completed)
      BY <1>2, <2>4, <2>5, <3>1
    <3>2. CASE i = Len(completed) + 1
      BY <2>2, <2>4, <3>2
    <3> QED
      BY <2>4, <2>5, <3>1, <3>2
  <2> QED
    BY <2>6 DEF ReadComplete
<1> QED
  BY <1>3, <1>4

\* What is played is in the table, and the tune of a command that has been read
\* (read_user_cmd, mavlink_send_play_tune).
LEMMA PlayedKept ==
    ASSUME TypeOK, WholeCommands, ReadsAtOnce, PlayedAsAsked, [Next]_vars
    PROVE  PlayedAsAsked'
<1>1. completed \in Seq(Seq(Cells)) /\ played \in Seq(Int)
  BY DEF TypeOK
<1>2. /\ DOMAIN completed = 1 .. Len(completed) /\ Len(completed) \in Nat
      /\ DOMAIN played = 1 .. Len(played) /\ Len(played) \in Nat
  BY <1>1
<1>3. overlap => overlap'
  BY OverlapStays
<1>4. ASSUME NEW i \in DOMAIN played
      PROVE  /\ played[i] \in 0 .. TuneCnt - 1
             /\ overlap \/ \E n \in DOMAIN completed :
                             played[i] = tune[completed[n][1][1]]
  BY <1>4 DEF PlayedAsAsked
<1>5. CASE UNCHANGED <<tune, completed, played>>
  BY <1>3, <1>4, <1>5 DEF PlayedAsAsked
<1>6. ASSUME NEW s \in Servers, ReadUserCmd(s)
      PROVE  PlayedAsAsked'
  <2>1. \A b \in Buffers(s) : b \in Seq(Cells)
    BY BufferIsSequence
  <2>2. UNCHANGED <<tune, overlap>>
    BY <1>6 DEF ReadUserCmd
  <2>3. /\ DOMAIN completed \subseteq DOMAIN completed'
        /\ \A n \in DOMAIN completed : completed'[n] = completed[n]
    <3>1. \/ completed' = completed
          \/ \E b \in Buffers(s) : completed' = Append(completed, b)
      BY <1>6 DEF ReadUserCmd
    <3>2. ASSUME NEW b \in Buffers(s), completed' = Append(completed, b)
          PROVE  <2>3
      <4>1. /\ DOMAIN completed' = 1 .. Len(completed) + 1
            /\ \A n \in 1 .. Len(completed) : completed'[n] = completed[n]
        BY <1>1, <2>1, <3>2, AppendProperties
      <4> QED
        BY <1>2, <4>1
    <3> QED
      BY <3>1, <3>2
  <2>4. ASSUME NEW i \in DOMAIN played
        PROVE  /\ played[i] \in 0 .. TuneCnt - 1
               /\ overlap \/ \E n \in DOMAIN completed' :
                               played[i] = tune[completed'[n][1][1]]
    <3>1. CASE overlap
      BY <1>4, <3>1
    <3>2. CASE ~overlap
      <4>1. PICK n \in DOMAIN completed : played[i] = tune[completed[n][1][1]]
        BY <1>4, <3>2
      <4> QED
        BY <1>4, <2>3, <4>1
    <3> QED
      BY <3>1, <3>2
  <2>5. CASE played' = played
    BY <2>2, <2>4, <2>5 DEF PlayedAsAsked
  <2>6. CASE played' # played
    <3>0. PICK b \in Buffers(s) :
            /\ completed' = Append(completed, b)
            /\ \E n \in Arguments(b) :
                 played' = IF InTable(n) THEN Append(played, n) ELSE played
      BY <1>6, <2>6 DEF ReadUserCmd
    <3>1. PICK n \in Arguments(b) :
            /\ completed' = Append(completed, b)
            /\ played' = IF InTable(n) THEN Append(played, n) ELSE played
      BY <3>0
    <3>2. /\ n \in Int /\ InTable(n) /\ played' = Append(played, n)
      BY <2>6, <3>1, ArgumentIsInteger
    <3>3. n \in 0 .. TuneCnt - 1
      BY <3>2 DEF InTable
    <3>4. overlap \/ \E m \in DOMAIN completed' :
                       n = tune[completed'[m][1][1]]
      <4>1. CASE overlap
        BY <4>1
      <4>2. CASE ~overlap
        <5>1. Whole(Taken(s)) /\ b = Taken(s)
          BY <1>6, <4>2, ReadsOneCommand
        <5>2. n = tune[b[1][1]]
          BY <3>1, <5>1 DEF Arguments
        <5>3. /\ DOMAIN completed' = 1 .. Len(completed) + 1
              /\ completed'[Len(completed) + 1] = b
          BY <1>1, <2>1, <3>1, AppendProperties
        <5>4. Len(completed) + 1 \in DOMAIN completed'
          BY <1>2, <5>3
        <5> QED
          BY <5>2, <5>3, <5>4
      <4> QED
        BY <4>1, <4>2
    <3>5. /\ DOMAIN played' = 1 .. Len(played) + 1
          /\ \A i \in 1 .. Len(played) : played'[i] = played[i]
          /\ played'[Len(played) + 1] = n
      BY <1>1, <3>2, AppendProperties
    <3>6. ASSUME NEW i \in DOMAIN played'
          PROVE  /\ played'[i] \in 0 .. TuneCnt - 1
                 /\ overlap \/ \E m \in DOMAIN completed' :
                                 played'[i] = tune[completed'[m][1][1]]
      <4>1. CASE i \in DOMAIN played
        BY <1>2, <2>4, <3>5, <4>1
      <4>2. CASE i = Len(played) + 1
        BY <3>3, <3>4, <3>5, <4>2
      <4> QED
        BY <1>2, <3>5, <4>1, <4>2
    <3> QED
      BY <2>2, <3>6 DEF PlayedAsAsked
  <2> QED
    BY <2>5, <2>6
<1>7. ASSUME NEW c \in Commanders, WriteCommand(c)
      PROVE  UNCHANGED <<tune, completed, played>>
  BY <1>7 DEF WriteCommand, history
<1> QED
  BY <1>5, <1>6, <1>7, OtherSteps

\* A server that is alone is the one named in the pid file (run_server,
\* create_pidfile, sig_handler).
LEMMA ServerKept ==
    ASSUME TypeOK, OneServer, [Next]_vars
    PROVE  OneServer'
<1> USE DEF TypeOK, OneServer, Live, HasOpen
<1>1. ASSUME NEW s \in Servers, Start(s)
      PROVE  OneServer'
  BY <1>1 DEF Start
<1>2. ASSUME NEW s \in Servers, CreatePidfile(s)
      PROVE  OneServer'
  <2>1. /\ server[s] = "started" /\ UNCHANGED overlap
        /\ server' = [server EXCEPT ![s] = "pid"] /\ pidfile' = s
    BY <1>2 DEF CreatePidfile, history
  <2> QED
    BY <2>1, SMTT(60)
<1>3. ASSUME NEW s \in Servers, OpenFifo(s) \/ Serve(s)
      PROVE  OneServer'
  <2>1. /\ server[s] \in {"pid", "open"} /\ UNCHANGED <<pidfile, overlap>>
        /\ \E st \in {"open", "serving"} : server' = [server EXCEPT ![s] = st]
    BY <1>3 DEF OpenFifo, Serve, history
  <2>2. PICK st \in {"open", "serving"} : server' = [server EXCEPT ![s] = st]
    BY <2>1
  <2> QED
    BY <2>1, <2>2, SMTT(60)
<1>4. ASSUME NEW s \in Servers, Terminate(s)
      PROVE  OneServer'
  <2>1. /\ server[s] \in {"open", "serving"} /\ UNCHANGED overlap
        /\ server' = [server EXCEPT ![s] = "ending"]
    BY <1>4 DEF Terminate, history
  <2> QED
    BY <2>1, SMTT(60)
<1>5. ASSUME NEW s \in Servers, Terminated(s) \/ Exit(s)
      PROVE  OneServer'
  <2>1. /\ server[s] \in Live /\ UNCHANGED <<pidfile, overlap>>
        /\ server' = [server EXCEPT ![s] = "ended"]
    BY <1>5 DEF Terminated, Exit, Gone, history
  <2> QED
    BY <2>1, SMTT(60)
<1>6. ASSUME NEW s \in Servers, Poll(s) \/ ReadUserCmd(s)
      PROVE  UNCHANGED <<server, pidfile, overlap>>
  BY <1>6 DEF Poll, ReadUserCmd, history
<1>7. ASSUME NEW c \in Commanders,
             OpenCommander(c) \/ WriteCommand(c) \/ ReportSent(c)
      PROVE  UNCHANGED <<server, pidfile, overlap>>
  BY <1>7 DEF OpenCommander, WriteCommand, ReportSent, history
<1>8. ASSUME UNCHANGED vars
      PROVE  UNCHANGED <<server, pidfile, overlap>>
  BY <1>8 DEF vars, history
<1>9. ASSUME UNCHANGED <<server, pidfile, overlap>>
      PROVE  OneServer'
  BY <1>9
<1> QED
  BY <1>1, <1>2, <1>3, <1>4, <1>5, <1>6, <1>7, <1>8, <1>9 DEF Next, Read

\* Nobody has started, and the FIFO is not there (run_server, run_commander).
LEMMA InitHolds == Init => FifoInv
<1> SUFFICES ASSUME Init PROVE FifoInv
  OBVIOUS
<1>1. TypeOK
  <2>1. <<>> \in Seq(Bytes) /\ <<>> \in Seq(Seq(Cells)) /\ <<>> \in Seq(Int)
    OBVIOUS
  <2>2. /\ server = [s \in Servers |-> "off"]
        /\ ready = [s \in Servers |-> FALSE]
        /\ exists = FALSE /\ overlap = FALSE
    BY DEF Init
  <2>3. ready \in [Servers -> BOOLEAN] /\ exists \in BOOLEAN
        /\ overlap \in BOOLEAN
    BY <2>2, Zenon
  <2>4. server \in [Servers -> {"off", "ended"} \cup Live]
    BY <2>2
  <2> QED
    BY <2>1, <2>3, <2>4 DEF Init, TypeOK
<1>2. OneServer /\ ReadsAtOnce
  BY DEF Init, OneServer, ReadsAtOnce, Live, HasOpen
<1>3. fifo = <<>> /\ completed = <<>> /\ played = <<>>
  BY DEF Init
<1>4. WholeCommands /\ ReadComplete /\ PlayedAsAsked
  BY <1>3 DEF WholeCommands, ReadComplete, PlayedAsAsked
<1> QED
  BY <1>1, <1>2, <1>4 DEF FifoInv

\* The inductive invariant holds for any servers and commanders, any table and
\* any size of a command.
THEOREM FifoInvariant == Spec => []FifoInv
<1>1. FifoInv /\ [Next]_vars => FifoInv'
  <2> SUFFICES ASSUME FifoInv, [Next]_vars PROVE FifoInv'
    OBVIOUS
  <2>1. /\ TypeOK /\ OneServer /\ WholeCommands /\ ReadsAtOnce
        /\ ReadComplete /\ PlayedAsAsked
    BY DEF FifoInv
  <2>2. TypeOK' /\ OneServer'
    BY <2>1, TypeKept, ServerKept
  <2>3. WholeCommands' /\ ReadsAtOnce'
    BY <2>1, WholeKept, ReadsAtOnceKept
  <2>4. ReadComplete' /\ PlayedAsAsked'
    BY <2>1, CompleteKept, PlayedKept
  <2> QED
    BY <2>2, <2>3, <2>4 DEF FifoInv
<1> QED
  BY InitHolds, <1>1, PTL DEF Spec

\* What is taken for a command is one command as it was written, although the
\* count of its bytes outlives the buffer: for a server that is alone, every
\* read finds whole commands only (read_user_cmd).
THEOREM ReadsAreComplete == Spec => []ReadComplete
<1>1. FifoInv => ReadComplete
  BY DEF FifoInv
<1> QED
  BY FifoInvariant, <1>1, PTL

\* Whatever number a commander or a broken command asks for, only tunes of the
\* table are played, and a server that is alone plays what it was asked for
\* (read_user_cmd, mavlink_send_play_tune).
THEOREM PlaysAsAsked == Spec => []PlayedAsAsked
<1>1. FifoInv => PlayedAsAsked
  BY DEF FifoInv
<1> QED
  BY FifoInvariant, <1>1, PTL

\* While servers run one at a time, the pid file names the one that serves
\* (create_pidfile, sig_handler).
THEOREM PidfileCorrect == Spec => []PidfileNamesServer
<1>1. FifoInv => PidfileNamesServer
  BY DEF FifoInv, OneServer, PidfileNamesServer
<1> QED
  BY FifoInvariant, <1>1, PTL
=============================================================================
