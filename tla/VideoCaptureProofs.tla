------------------------- MODULE VideoCaptureProofs -------------------------
(***************************************************************************)
(* Proofs about VideoCapture for any switch positions, any length of time  *)
(* and a source that may end its stream: the inductive invariant, the      *)
(* safety properties that follow from it, and the implementation of        *)
(* Recorder.                                                               *)
(***************************************************************************)
EXTENDS VideoCapture, TLAPS

USE VideoAssumption

\* The types are kept, one kind of variable after the other.
LEMMA FlagsKept ==
    ASSUME TypeOK, [Next]_vars
    PROVE  FlagsOK'
<1> USE DEF TypeOK, FlagsOK, cameraVars, pipelineVars, uartVars, streamVars
<1>1. CASE Receive
    <2>1. ChangeRecordState => busy' \in BOOLEAN /\ eos' \in BOOLEAN
                               /\ ignored' \in BOOLEAN
        BY DEF ChangeRecordState
    <2>2. SaveImage => request' \in BOOLEAN
        BY DEF SaveImage
    <2>3. /\ busy' \in BOOLEAN /\ eos' \in BOOLEAN /\ ignored' \in BOOLEAN
          /\ request' \in BOOLEAN
        BY <1>1, <2>1, <2>2 DEF Receive, RcChannels, CommandLong,
           ImageStartCapture, VideoStartCapture, VideoStopCapture
    <2>4. UNCHANGED <<ready, recording, playing, drained, live, videoStatus,
                      up>>
        BY <1>1 DEF Receive, RcChannels, CommandLong
    <2>5. QED
        BY <2>3, <2>4
<1>2. CASE Uart
    BY ZenonT(60), <1>2 DEF Uart, StopDone, ShutdownDone, Restart, RestartDone,
       HandlerReturns, StatusAfter
<1>3. CASE Eos \/ Sample
    BY ZenonT(60), <1>3 DEF Eos, EosHandled, EosRedirects, Sample, PullSample,
                            HandleSample
<1>4. CASE \/ StartPipeline \/ PipelineFails \/ CameraReady \/ PipelineError
           \/ StreamEnds
    BY ZenonT(60), <1>4
       DEF StartPipeline, PipelineFails, CameraReady, PipelineError, StreamEnds
<1>5. CASE Tick \/ Ended \/ UNCHANGED vars
    BY <1>5 DEF Tick, Ended, vars
<1>6. QED
    BY <1>1, <1>2, <1>3, <1>4, <1>5 DEF Next

LEMMA PlacesKept ==
    ASSUME TypeOK, [Next]_vars
    PROVE  PlacesOK'
<1> USE DEF TypeOK, PlacesOK, Starting, cameraVars, pipelineVars, uartVars,
        streamVars
<1>1. CASE Receive
    BY <1>1 DEF Receive, RcChannels, CommandLong, ImageStartCapture,
       VideoStartCapture, VideoStopCapture, ChangeRecordState
<1>2. CASE Uart
    BY <1>2 DEF Uart, StopDone, ShutdownDone, Restart, RestartDone,
       HandlerReturns
<1>3. CASE Eos \/ Sample
    BY <1>3 DEF Eos, EosHandled, EosRedirects, Sample, PullSample, HandleSample
<1>4. CASE \/ StartPipeline \/ PipelineFails \/ CameraReady \/ PipelineError
           \/ StreamEnds
    BY <1>4
       DEF StartPipeline, PipelineFails, CameraReady, PipelineError, StreamEnds
<1>5. CASE Tick \/ Ended \/ UNCHANGED vars
    BY <1>5 DEF Tick, Ended, vars
<1>6. QED
    BY <1>1, <1>2, <1>3, <1>4, <1>5 DEF Next

LEMMA BoundsKept ==
    ASSUME TypeOK, [Next]_vars
    PROVE  BoundsOK'
<1> USE DEF cameraVars, uartVars
<1>1. BoundsOK
    BY DEF TypeOK
<1>2. CASE Tick
    BY <1>1, <1>2 DEF Tick, BoundsOK
<1>3. CASE Restart
    <2>1. second \in 0 .. MaxSecond
          /\ file' = second /\ UNCHANGED <<recordLast, snapshotLast, second>>
        BY <1>1, <1>3 DEF Restart, Name, BoundsOK
    <2>2. QED
        BY <1>1, <2>1 DEF BoundsOK
<1>4. CASE Receive
    <2>1. /\ recordLast' \in Positions \cup {0}
          /\ snapshotLast' \in Positions \cup {0}
          /\ UNCHANGED <<file, second>>
        BY <1>1, <1>4 DEF Receive, RcChannels, CommandLong, BoundsOK
    <2>2. QED
        BY <1>1, <2>1 DEF BoundsOK
<1>5. ASSUME ~Tick, ~Restart, ~Receive
      PROVE  UNCHANGED <<file, recordLast, snapshotLast, second>>
    <2>1. CASE Uart
        BY <1>5, <2>1 DEF Uart, StopDone, ShutdownDone, RestartDone,
           HandlerReturns
    <2>2. CASE Eos \/ Sample
        BY <1>5, <2>2 DEF Eos, EosHandled, EosRedirects, Sample, PullSample,
           HandleSample
    <2>3. CASE \/ StartPipeline \/ CameraReady \/ PipelineError
           \/ PipelineFails
               \/ StreamEnds \/ Ended \/ UNCHANGED vars
        BY <2>3 DEF StartPipeline, PipelineFails, CameraReady, PipelineError,
                    StreamEnds,
           Ended, vars
    <2>4. QED
        BY <1>5, <2>1, <2>2, <2>3 DEF Next
<1>6. QED
    BY <1>1, <1>2, <1>3, <1>4, <1>5 DEF BoundsOK

\* The invariant without the types.
Rest == /\ FileGetsTheRecording /\ StartsAtRest /\ SavesEnded
        /\ RecordsReady /\ MessageKnown

\* The entry of rtsp_change_record_state from a handler that was idle.
LEMMA ChangeStep ==
    ASSUME VideoInv, uart = "idle", ChangeRecordState,
           message' \in {"rc", "video_start", "video_stop"},
           message' = "video_start" => ~videoStatus,
           message' = "video_stop" => videoStatus,
           UNCHANGED <<ready, recording, file, pad, videoStatus, probe>>
    PROVE  Rest' /\ StatusFollows'
<1> USE DEF VideoInv, Rest
<1>1. CASE Refuses
    <2>1. uart' = "return" /\ ignored' = TRUE /\ UNCHANGED busy
        BY <1>1 DEF ChangeRecordState
    <2>2. QED
        BY <2>1 DEF FileGetsTheRecording, StartsAtRest, SavesEnded, Starting,
           RecordsReady, MessageKnown, StatusFollows
<1>2. CASE ~Refuses /\ recording
    <2>1. /\ uart' = "stop" /\ busy' = TRUE /\ UNCHANGED ignored
          /\ ready /\ ~busy
        BY <1>2 DEF ChangeRecordState, Refuses
    <2>2. Rest'
        BY <1>2, <2>1 DEF FileGetsTheRecording, StartsAtRest, SavesEnded,
           Starting, RecordsReady, MessageKnown
    <2>3. StatusFollows'
        BY <1>2, <2>1 DEF StatusFollows, Starting, TypeOK, FlagsOK
    <2>4. QED
        BY <2>2, <2>3
<1>3. CASE ~Refuses /\ ~recording
    <2>1. /\ uart' = "shutdown" /\ UNCHANGED <<busy, ignored>>
          /\ ready /\ ~busy
        BY <1>3 DEF ChangeRecordState, Refuses
    <2>2. Rest'
        BY <1>3, <2>1 DEF FileGetsTheRecording, StartsAtRest, SavesEnded,
           Starting, RecordsReady, MessageKnown
    <2>3. StatusFollows'
        BY <1>3, <2>1 DEF StatusFollows, Starting, TypeOK, FlagsOK
    <2>4. QED
        BY <2>2, <2>3
<1>4. QED
    BY <1>1, <1>2, <1>3

\* A step that leaves alone what the invariant is about.
LEMMA FrameStep ==
    ASSUME VideoInv,
           UNCHANGED <<recording, busy, pad, uart, message, videoStatus, probe,
                       ignored>>,
           ready => ready'
    PROVE  Rest' /\ StatusFollows'
BY DEF VideoInv, Rest, FileGetsTheRecording, StartsAtRest, SavesEnded,
   Starting, RecordsReady, MessageKnown, StatusFollows, StatusAfter

LEMMA ReceiveStep ==
    ASSUME VideoInv, Receive
    PROVE  Rest' /\ StatusFollows'
<1>1. ASSUME NEW record \in Positions, NEW snapshot \in Positions,
             RcChannels(record, snapshot)
      PROVE  Rest' /\ StatusFollows'
    <2>1. /\ uart = "idle"
          /\ UNCHANGED <<ready, recording, file, pad, videoStatus, probe>>
        BY <1>1 DEF RcChannels, streamVars
    <2>2. CASE message' = "rc" /\ ChangeRecordState
        BY <2>1, <2>2, ChangeStep
    <2>3. CASE UNCHANGED <<message, uart, busy, eos, ignored>>
        BY <2>1, <2>3, FrameStep
    <2>4. QED
        BY <1>1, <2>2, <2>3 DEF RcChannels
<1>2. ASSUME NEW command \in Commands, CommandLong(command)
      PROVE  Rest' /\ StatusFollows'
    <2>1. /\ uart = "idle"
          /\ UNCHANGED <<ready, recording, file, pad, videoStatus, probe>>
        BY <1>2 DEF CommandLong, streamVars
    <2>2. CASE UNCHANGED <<message, uart, busy, eos, ignored>>
        BY <2>1, <2>2, FrameStep
    <2>3. CASE ~videoStatus /\ message' = "video_start" /\ ChangeRecordState
        BY <2>1, <2>3, ChangeStep
    <2>4. CASE videoStatus /\ message' = "video_stop" /\ ChangeRecordState
        BY <2>1, <2>4, ChangeStep
    <2>5. QED
        BY <1>2, <2>2, <2>3, <2>4 DEF CommandLong, ImageStartCapture,
           VideoStartCapture, VideoStopCapture
<1>3. QED
    BY <1>1, <1>2 DEF Receive

LEMMA UartStep ==
    ASSUME VideoInv, Uart
    PROVE  Rest' /\ StatusFollows'
<1> USE DEF VideoInv, Rest, cameraVars, pipelineVars, streamVars
<1>1. CASE StopDone
    <2>1. Rest'
        BY <1>1 DEF StopDone, FileGetsTheRecording, StartsAtRest, SavesEnded,
           Starting, RecordsReady, MessageKnown
    <2>2. StatusFollows'
        BY <1>1 DEF StopDone, StatusFollows, Starting, StatusAfter
    <2>3. QED
        BY <2>1, <2>2
<1>2. CASE ShutdownDone
    <2>1. Rest'
        BY <1>2 DEF ShutdownDone, Stopped, FileGetsTheRecording, StartsAtRest,
           SavesEnded, Starting, RecordsReady, MessageKnown
    <2>2. StatusFollows'
        BY <1>2 DEF ShutdownDone, StatusFollows, Starting, StatusAfter
    <2>3. QED
        BY <2>1, <2>2
<1>3. CASE Restart
    <2>1. Rest'
        BY <1>3 DEF Restart, FileGetsTheRecording, StartsAtRest, SavesEnded,
           Starting, RecordsReady, MessageKnown
    <2>2. StatusFollows'
        BY <1>3 DEF Restart, StatusFollows, Starting, StatusAfter
    <2>3. QED
        BY <2>1, <2>2
<1>4. CASE RestartDone
    <2>1. Rest'
        BY <1>4 DEF RestartDone, FileGetsTheRecording, StartsAtRest,
           SavesEnded, Starting, RecordsReady, MessageKnown
    <2>2. StatusFollows'
        BY <1>4 DEF RestartDone, StatusFollows, Starting, StatusAfter
    <2>3. QED
        BY <2>1, <2>2
<1>5. CASE HandlerReturns
    <2>1. Rest'
        BY <1>5 DEF HandlerReturns, FileGetsTheRecording, StartsAtRest,
           SavesEnded, Starting, RecordsReady, MessageKnown
    <2>2. StatusFollows'
        BY <1>5 DEF HandlerReturns, StatusFollows, Starting
    <2>3. QED
        BY <2>1, <2>2
<1>6. QED
    BY <1>1, <1>2, <1>3, <1>4, <1>5 DEF Uart

\* The end-of-stream probe: of the streaming threads' steps, the ones that
\* touch what the invariant is about.
LEMMA EosStep ==
    ASSUME VideoInv, Eos
    PROVE  Rest' /\ StatusFollows'
<1> USE DEF VideoInv, Rest, cameraVars, uartVars
<1>1. CASE EosHandled
    <2>1. Rest'
        BY <1>1 DEF EosHandled, Saving, FileGetsTheRecording, StartsAtRest,
           SavesEnded, Starting, RecordsReady, MessageKnown
    <2>2. StatusFollows'
        BY <1>1 DEF EosHandled, StatusFollows, StatusAfter
    <2>3. QED
        BY <2>1, <2>2
<1>2. CASE EosRedirects
    <2>1. Rest'
        BY <1>2 DEF EosRedirects, FileGetsTheRecording, StartsAtRest,
           SavesEnded, Starting, RecordsReady, MessageKnown
    <2>2. StatusFollows'
        BY <1>2 DEF EosRedirects, StatusFollows, StatusAfter
    <2>3. QED
        BY <2>1, <2>2
<1>3. QED
    BY <1>1, <1>2 DEF Eos

LEMMA OtherStep ==
    ASSUME VideoInv,
           \/ Sample \/ StartPipeline \/ CameraReady \/ PipelineError
           \/ PipelineFails
           \/ StreamEnds \/ Tick \/ Ended \/ UNCHANGED vars
    PROVE  Rest' /\ StatusFollows'
<1>1. /\ UNCHANGED <<recording, busy, pad, uart, message, videoStatus, probe,
                     ignored>>
      /\ ready => ready'
    BY DEF Sample, PullSample, HandleSample, StartPipeline, CameraReady,
       PipelineError, PipelineFails, StreamEnds, Tick, Ended, vars, cameraVars,
       pipelineVars,
       uartVars, streamVars
<1>2. QED
    BY <1>1, FrameStep

\* The inductive invariant: what the flags of the four threads say about each
\* other at every step of a recording (mavlink_receiver.c, rtsp_stream.c).
THEOREM VideoInvariant == Spec => []VideoInv
<1>1. Init => VideoInv
    <2> SUFFICES ASSUME Init PROVE VideoInv
        OBVIOUS
    <2>1. FlagsOK /\ PlacesOK
        BY DEF Init, FlagsOK, PlacesOK
    <2>2. BoundsOK
        BY DEF Init, BoundsOK
    <2>3. /\ FileGetsTheRecording /\ StartsAtRest /\ SavesEnded
          /\ RecordsReady /\ MessageKnown /\ StatusFollows
        BY DEF Init, FileGetsTheRecording, StartsAtRest, SavesEnded, Starting,
           RecordsReady, MessageKnown, StatusFollows
    <2>4. QED
        BY <2>1, <2>2, <2>3 DEF VideoInv, TypeOK
<1>2. VideoInv /\ [Next]_vars => VideoInv'
    <2> SUFFICES ASSUME VideoInv, [Next]_vars PROVE VideoInv'
        OBVIOUS
    <2>1. TypeOK'
        BY FlagsKept, PlacesKept, BoundsKept DEF VideoInv, TypeOK
    <2>2. Rest' /\ StatusFollows'
        BY ReceiveStep, UartStep, EosStep, OtherStep DEF Next
    <2>3. QED
        BY <2>1, <2>2 DEF VideoInv, Rest
<1>3. QED
    BY <1>1, <1>2, PTL DEF Spec

\* The types, for any length of time.
THEOREM VideoTyped == Spec => []TypeOK
BY VideoInvariant, PTL DEF VideoInv

\* The file gets the frames of the recording, and the late write of the probe
\* never lands in the next one (eos_handler, rtsp_change_record_state).
THEOREM FileGetsIt == Spec => []FileGetsTheRecording
BY VideoInvariant, PTL DEF VideoInv

\* The reported status is right as long as nothing was refused
\* (mav_fcu_rc_channels, mav_command_long).
THEOREM StatusTells == Spec => []StatusTellsRecording
<1>1. VideoInv => StatusTellsRecording
    BY DEF VideoInv, StatusFollows, StatusTellsRecording
<1>2. QED
    BY <1>1, VideoInvariant, PTL

\* A command does what it says, however often it is repeated
\* (mav_command_long).
THEOREM CommandsDo == Spec => []CommandsObeyed
<1>1. VideoInv => CommandsObeyed
    BY DEF VideoInv, StatusFollows, CommandsObeyed, Starting
<1>2. QED
    BY <1>1, VideoInvariant, PTL

\* Nothing touches a video while it is being finalised
\* (rtsp_change_record_state).
THEOREM SavingIsUndisturbed == Spec => SavingUndisturbed
<1> DEFINE Undisturbed ==
        busy /\ busy' => UNCHANGED <<file, pad, playing, recording>>
                         \/ (uart = "stop" /\ UNCHANGED <<file, pad, playing>>)
<1>1. VideoInv /\ [Next]_vars => [Undisturbed]_vars
    <2> SUFFICES ASSUME VideoInv, [Next]_vars, busy, busy'
                 PROVE  \/ UNCHANGED <<file, pad, playing, recording>>
                        \/ uart = "stop" /\ UNCHANGED <<file, pad, playing>>
        OBVIOUS
    <2> USE DEF VideoInv, cameraVars, pipelineVars, uartVars, streamVars, vars
    <2>1. CASE Receive
        BY <2>1 DEF Receive, RcChannels, CommandLong
    <2>2. CASE Uart
        BY <2>2 DEF Uart, StopDone, ShutdownDone, Restart, RestartDone,
           HandlerReturns, StartsAtRest, Starting
    <2>3. CASE Eos \/ Sample
        BY <2>3 DEF Eos, EosHandled, EosRedirects, Sample, PullSample,
           HandleSample, SavesEnded
    <2>4. CASE StartPipeline
        BY <2>4 DEF StartPipeline, RecordsReady
    <2>5. CASE \/ CameraReady \/ PipelineError \/ PipelineFails \/ StreamEnds
               \/ Tick \/ Ended
               \/ UNCHANGED vars
        BY <2>5 DEF CameraReady, PipelineError, PipelineFails, StreamEnds, Tick,
                    Ended
    <2>6. QED
        BY <2>1, <2>2, <2>3, <2>4, <2>5 DEF Next
<1>2. QED
    BY <1>1, VideoInvariant, PTL DEF Spec, SavingUndisturbed
-----------------------------------------------------------------------------
(* The implementation of Recorder *)

LEMMA RecorderStep ==
    ASSUME VideoInv, VideoInv', [Next]_vars
    PROVE  [Recording!Next]_Recording!recorderVars
<1> USE DEF VideoInv, cameraVars, pipelineVars, uartVars, streamVars, vars, Recording!recorderVars
<1>1. CASE Receive
    <2>1. /\ uart = "idle"
          /\ UNCHANGED <<recording, file, pad, probe>>
        BY <1>1 DEF Receive, RcChannels, CommandLong
    <2>2. CASE uart' = "stop" /\ busy' = TRUE /\ recording /\ ~busy
        <3>1. Recording!Stop
            BY <2>1, <2>2 DEF Recording!Stop, SavesEnded
        <3>2. QED
            BY <3>1 DEF Recording!Next
    <2>3. CASE /\ uart' \in {"idle", "return", "shutdown"} /\ busy' = busy
        BY <2>1, <2>3
    <2>4. ChangeRecordState \/ UNCHANGED <<uart, busy>>
        BY <1>1 DEF Receive, RcChannels, CommandLong, Commands,
           ImageStartCapture, VideoStartCapture, VideoStopCapture
    <2>5. QED
        BY <2>1, <2>2, <2>3, <2>4 DEF ChangeRecordState, Refuses
<1>2. CASE Restart
    <2>1. Name \in 0 .. MaxSecond
        BY DEF Name, TypeOK, BoundsOK
    <2>2. ~busy /\ probe # "saved" /\ ~recording
        BY <1>2 DEF Restart, StartsAtRest, Starting
    <2>3. Recording!Start(Name)
        BY <1>2, <2>2 DEF Restart, Recording!Start
    <2>4. QED
        BY <2>1, <2>3 DEF Recording!Next
<1>3. CASE EosRedirects
    <2>1. Recording!Saved
        <3>1. ~busy /\ ~(uart = "started" \/ (recording /\ uart # "stop"))
            BY <1>3 DEF EosRedirects, SavesEnded, StartsAtRest
        <3>2. QED
            BY <1>3, <3>1 DEF EosRedirects, Recording!Saved
    <2>2. QED
        BY <2>1 DEF Recording!Next
<1>4. CASE StopDone
    BY <1>4 DEF StopDone
<1>5. CASE ShutdownDone
    BY <1>5 DEF ShutdownDone, StartsAtRest, Starting
<1>6. CASE RestartDone
    BY <1>6 DEF RestartDone
<1>7. CASE HandlerReturns
    BY <1>7 DEF HandlerReturns
<1>8. CASE EosHandled
    BY <1>8 DEF EosHandled, Saving
<1>9. CASE \/ Sample \/ StartPipeline \/ CameraReady \/ PipelineError
           \/ PipelineFails
           \/ StreamEnds \/ Tick \/ Ended \/ UNCHANGED vars
    BY <1>9 DEF Sample, PullSample, HandleSample, StartPipeline, CameraReady,
       PipelineError, PipelineFails, StreamEnds, Tick, Ended
<1>10. QED
    BY <1>1, <1>2, <1>3, <1>4, <1>5, <1>6, <1>7, <1>8, <1>9 DEF Next, Uart, Eos

\* The camera layer implements the recorder: one video at a time, under one
\* name (rtsp_change_record_state, eos_handler).
THEOREM ImplementsRecorder == Spec => RecorderImplemented
<1>1. Init => Recording!Init
    BY DEF Init, Recording!Init
<1>2. QED
    BY <1>1, RecorderStep, VideoInvariant, PTL DEF Spec, Recording!Spec,
       RecorderImplemented
=============================================================================
