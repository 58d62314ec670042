---------------------------- MODULE VideoCapture ----------------------------
(***************************************************************************)
(* Recording and snapshots of camera 0: the MAVLink handlers that ask for  *)
(* them (mavlink_receiver.c), the camera layer that performs them          *)
(* (rtsp_stream.c), and the video status reported to the ground station    *)
(* (mavlink_publisher.c).                                                  *)
(*                                                                         *)
(* Four threads share the camera's flags without a common lock: the UART   *)
(* thread handles one MAVLink message after another; rtsp_saver starts the *)
(* pipeline and waits for an error; GStreamer's streaming threads run the  *)
(* end-of-stream probe behind the MP4 muxer and the new-sample callback of *)
(* the JPEG branch.  Accesses of shared flags are separate steps, unless   *)
(* no order of the other threads' steps could tell them from one step.     *)
(*                                                                         *)
(* GStreamer is external and modelled as the code relies on it: an EOS     *)
(* event sent into the encoder comes out of the muxer once the video is    *)
(* complete, an EOS on a branch that has seen one is dropped, and leaving  *)
(* PLAYING for NULL waits for the callbacks that are running.              *)
(***************************************************************************)
EXTENDS Integers

CONSTANTS
    Positions,      \* the values of an RC switch; 0 is a value like others
    MaxSecond,      \* bound: the clock runs from second 0 to MaxSecond
    StreamMayEnd    \* bound: whether the RTSP source may end its stream

ASSUME VideoAssumption ==
    /\ Positions \subseteq Nat
    /\ MaxSecond \in Nat
    /\ StreamMayEnd \in BOOLEAN

VARIABLES
    \* gst_data_t
    ready,          \* camera_ready
    recording,      \* recording
    busy,           \* busy
    request,        \* snapshot_request
    file,           \* mp4_file_name: the second in it, or NoFile
    \* the pipeline
    playing,        \* its state is PLAYING, not NULL
    pad,            \* active-pad of the output selector
    eos,            \* an EOS event is on its way to the muxer
    drained,        \* the MP4 branch has seen an EOS and drops another
    live,           \* the source has not ended its stream
    \* the UART thread
    uart,           \* where it is in rtsp_change_record_state
    message,        \* the message it is handling
    videoStatus,    \* video_status of the publisher
    recordLast,     \* the static record_last
    snapshotLast,   \* the static button_snapshot_last
    \* the streaming threads
    probe,          \* "saved" between the two writes of eos_handler
    sampler,        \* "pulled" between pull-sample and its test
    \* time, the process, and history
    second,         \* the clock, as far as file names show it
    up,             \* the process is running
    ignored         \* history: a change of the record state was refused

cameraVars == <<ready, recording, busy, request, file>>
pipelineVars == <<playing, pad, eos, drained, live>>
uartVars == <<uart, message, videoStatus, recordLast, snapshotLast>>
streamVars == <<probe, sampler>>
vars == <<cameraVars, pipelineVars, uartVars, streamVars, ignored, second, up>>

NoFile == -1
Starting == {"shutdown", "restart", "started"}
Commands == {"image_start", "video_start", "video_stop"}

Init ==
    /\ ready = FALSE
    /\ recording = FALSE
    /\ busy = FALSE
    /\ request = FALSE
    /\ file = NoFile
    /\ playing = FALSE
    /\ pad = "fake"
    /\ eos = FALSE
    /\ drained = FALSE
    /\ live = TRUE
    /\ uart = "idle"
    /\ message = "none"
    /\ videoStatus = FALSE
    /\ recordLast = 0
    /\ snapshotLast = 0
    /\ probe = "idle"
    /\ sampler = "idle"
    /\ second = 0
    /\ up = TRUE
    /\ ignored = FALSE
-----------------------------------------------------------------------------
(* rtsp_saver *)

\* An unknown codec, or an element that cannot be made or linked, ends the whole
\* process.
PipelineFails ==
    /\ up /\ ~playing /\ ~ready
    /\ up' = FALSE
    /\ UNCHANGED <<cameraVars, pipelineVars, uartVars, streamVars, ignored,
                   second>>

StartPipeline ==
    /\ up /\ ~playing /\ ~ready
    /\ playing' = TRUE
    /\ UNCHANGED <<cameraVars, pad, eos, drained, live, uartVars, streamVars,
                   ignored, second, up>>

CameraReady ==
    /\ up /\ playing /\ ~ready
    /\ ready' = TRUE
    /\ UNCHANGED <<recording, busy, request, file, pipelineVars, uartVars,
                   streamVars, ignored, second, up>>

\* An error on the bus ends the whole process.
PipelineError ==
    /\ up /\ ready
    /\ up' = FALSE
    /\ UNCHANGED <<cameraVars, pipelineVars, uartVars, streamVars, ignored,
                   second>>
-----------------------------------------------------------------------------
(* rtsp_save_image and rtsp_change_record_state, on the UART thread *)

\* A snapshot request, dropped while the camera is not ready.
SaveImage == request' = (request \/ ready)

\* Whether rtsp_change_record_state returns early.
Refuses_onlyUnready == ~ready
Refuses == ~ready \/ busy

\* The entry of rtsp_change_record_state: it refuses, asks for the end of the
\* recording, or begins to shut the pipeline down for a new one.
ChangeRecordState ==
    IF Refuses THEN
      /\ uart' = "return"
      /\ ignored' = TRUE
      /\ UNCHANGED <<busy, eos>>
    ELSE IF recording THEN
      /\ uart' = "stop"
      /\ busy' = TRUE
      /\ eos' = (eos \/ ~drained)
      /\ UNCHANGED ignored
    ELSE
      /\ uart' = "shutdown"
      /\ UNCHANGED <<busy, eos, ignored>>

StopDone ==
    /\ up /\ uart = "stop"
    /\ recording' = FALSE
    /\ uart' = "return"
    /\ UNCHANGED <<ready, busy, request, file, pipelineVars, message,
                   videoStatus, recordLast, snapshotLast, streamVars,
                   ignored, second, up>>

\* gst_element_get_state waits, with no time limit, until the pipeline has
\* reached NULL: no callback is running any more and what was in flight is gone.
Stopped_noWait == TRUE
Stopped == probe = "idle" /\ sampler = "idle"

ShutdownDone ==
    /\ up /\ uart = "shutdown" /\ Stopped
    /\ playing' = FALSE
    /\ eos' = FALSE
    /\ uart' = "restart"
    /\ UNCHANGED <<cameraVars, pad, drained, live, message, videoStatus,
                   recordLast, snapshotLast, streamVars, ignored, second,
                   up>>

\* The new file takes the time of day for its name, in whole seconds.
Name == second

Restart ==
    /\ up /\ uart = "restart"
    /\ file' = Name
    /\ pad' = "file"
    /\ playing' = TRUE /\ drained' = FALSE /\ live' = TRUE
    /\ uart' = "started"
    /\ UNCHANGED <<ready, recording, busy, request, eos, message, videoStatus,
                   recordLast, snapshotLast, streamVars, ignored, second, up>>

RestartDone ==
    /\ up /\ uart = "started"
    /\ recording' = TRUE
    /\ uart' = "return"
    /\ UNCHANGED <<ready, busy, request, file, pipelineVars, message,
                   videoStatus, recordLast, snapshotLast, streamVars,
                   ignored, second, up>>
-----------------------------------------------------------------------------
(* The message handlers *)

\* mav_fcu_rc_channels: a switch acts when it differs from its last position;
\* a last position of 0 stands for none.
Last(last, position) == IF last = 0 THEN position ELSE last

RcChannels(record, snapshot) ==
    /\ up /\ uart = "idle"
    /\ recordLast' = record
    /\ snapshotLast' = snapshot
    /\ IF snapshot # Last(snapshotLast, snapshot)
       THEN SaveImage ELSE UNCHANGED request
    /\ IF record # Last(recordLast, record)
       THEN message' = "rc" /\ ChangeRecordState
       ELSE UNCHANGED <<message, uart, busy, eos, ignored>>
    /\ UNCHANGED <<ready, recording, file, playing, pad, drained, live,
                   videoStatus, streamVars, second, up>>

\* mav_command_long: a command that the video status says is already obeyed
\* is not passed on.  Every one is acknowledged as accepted first.
ImageStartCapture ==
    /\ SaveImage
    /\ UNCHANGED <<message, uart, busy, eos, ignored>>

VideoStartCapture ==
    /\ IF videoStatus
       THEN UNCHANGED <<message, uart, busy, eos, ignored>>
       ELSE message' = "video_start" /\ ChangeRecordState
    /\ UNCHANGED request

VideoStopCapture ==
    /\ IF videoStatus
       THEN message' = "video_stop" /\ ChangeRecordState
       ELSE UNCHANGED <<message, uart, busy, eos, ignored>>
    /\ UNCHANGED request

CommandLong(command) ==
    /\ up /\ uart = "idle"
    /\ \/ command = "image_start" /\ ImageStartCapture
       \/ command = "video_start" /\ VideoStartCapture
       \/ command = "video_stop" /\ VideoStopCapture
    /\ UNCHANGED <<ready, recording, file, playing, pad, drained, live,
                   videoStatus, recordLast, snapshotLast, streamVars,
                   second, up>>

\* The status once rtsp_change_record_state has returned, which tells its
\* callers nothing.
StatusAfter_rcSets(m) == m \in {"rc", "video_start"}
StatusAfter(m) == m = "video_start" \/ (m = "rc" /\ ~videoStatus)

HandlerReturns ==
    /\ up /\ uart = "return"
    /\ videoStatus' = StatusAfter(message)
    /\ uart' = "idle"
    /\ message' = "none"
    /\ UNCHANGED <<cameraVars, pipelineVars, recordLast, snapshotLast,
                   streamVars, ignored, second, up>>
-----------------------------------------------------------------------------
(* The streaming threads *)

\* eos_handler: the two writes of the saving path, in their order.  An EOS
\* that nobody asked for is passed on without effect.
Saving_whileRecording == recording
Saving == busy

EosHandled ==
    /\ up /\ playing /\ eos /\ probe = "idle"
    /\ eos' = FALSE
    /\ drained' = TRUE
    /\ IF Saving THEN busy' = FALSE /\ probe' = "saved"
                 ELSE UNCHANGED <<busy, probe>>
    /\ UNCHANGED <<ready, recording, request, file, playing, pad, live,
                   uartVars, sampler, ignored, second, up>>

EosRedirects ==
    /\ up /\ probe = "saved"
    /\ pad' = "fake"
    /\ probe' = "idle"
    /\ UNCHANGED <<cameraVars, playing, eos, drained, live, uartVars, sampler,
                   ignored, second, up>>

\* on_new_sample_handler: pull the sample, then test the request.
PullSample ==
    /\ up /\ playing /\ live /\ sampler = "idle"
    /\ sampler' = "pulled"
    /\ UNCHANGED <<cameraVars, pipelineVars, uartVars, probe, ignored,
                   second, up>>

HandleSample_keepsRequest ==
    /\ up /\ sampler = "pulled"
    /\ sampler' = "idle"
    /\ UNCHANGED <<cameraVars, pipelineVars, uartVars, probe, ignored,
                   second, up>>
HandleSample ==
    /\ up /\ sampler = "pulled"
    /\ sampler' = "idle"
    /\ request' = FALSE
    /\ UNCHANGED <<ready, recording, busy, file, pipelineVars, uartVars, probe,
                   ignored, second, up>>
-----------------------------------------------------------------------------
(* The environment *)

\* The RTSP source ends its stream: an EOS that no one asked for.
StreamEnds ==
    /\ up /\ StreamMayEnd /\ playing /\ live
    /\ live' = FALSE
    /\ eos' = (eos \/ ~drained)
    /\ UNCHANGED <<cameraVars, playing, pad, drained, uartVars, streamVars,
                   ignored, second, up>>

Tick ==
    /\ up /\ second < MaxSecond
    /\ second' = second + 1
    /\ UNCHANGED <<cameraVars, pipelineVars, uartVars, streamVars, ignored,
                   up>>

Receive ==
    \/ \E record, snapshot \in Positions : RcChannels(record, snapshot)
    \/ \E command \in Commands : CommandLong(command)

Uart == StopDone \/ ShutdownDone \/ Restart \/ RestartDone \/ HandlerReturns
Eos == EosHandled \/ EosRedirects
Sample == PullSample \/ HandleSample

\* The process has ended.
Ended == ~up /\ UNCHANGED vars

Next ==
    \/ StartPipeline \/ PipelineFails \/ CameraReady \/ PipelineError
    \/ Receive \/ Uart \/ Eos \/ Sample
    \/ StreamEnds \/ Tick \/ Ended

Spec == Init /\ [][Next]_vars

\* The UART thread finishes a call it has begun and an EOS event travels on.
\* The camera delivers a frame now and then, be it between restarts of the
\* pipeline: a recording may last less than a frame, but not every one does,
\* hence the strong fairness.  No message is owed.
FairSpec == Spec /\ WF_vars(Uart) /\ WF_vars(Eos) /\ SF_vars(PullSample)
                 /\ WF_vars(HandleSample)
-----------------------------------------------------------------------------
(* Properties *)

FlagsOK ==
    /\ ready \in BOOLEAN /\ recording \in BOOLEAN
    /\ busy \in BOOLEAN /\ request \in BOOLEAN
    /\ playing \in BOOLEAN /\ eos \in BOOLEAN
    /\ drained \in BOOLEAN /\ live \in BOOLEAN
    /\ videoStatus \in BOOLEAN
    /\ up \in BOOLEAN /\ ignored \in BOOLEAN

PlacesOK ==
    /\ pad \in {"file", "fake"}
    /\ uart \in {"idle", "stop", "return"} \cup Starting
    /\ message \in {"none", "rc", "video_start", "video_stop"}
    /\ probe \in {"idle", "saved"}
    /\ sampler \in {"idle", "pulled"}

BoundsOK ==
    /\ file \in {NoFile} \cup 0 .. MaxSecond
    /\ recordLast \in Positions \cup {0}
    /\ snapshotLast \in Positions \cup {0}
    /\ second \in 0 .. MaxSecond

TypeOK == FlagsOK /\ PlacesOK /\ BoundsOK

\* Frames go to the file exactly while a recording is open: from the restart
\* of the pipeline to the moment its end of stream has come out of the muxer.
\* The late write of active-pad in eos_handler, after busy is cleared, never
\* lands in the next recording (eos_handler, rtsp_change_record_state).
FileGetsTheRecording ==
    pad = "file" <=> \/ busy \/ probe = "saved"
                     \/ recording /\ uart # "stop"
                     \/ uart = "started"

\* While a video is being finalised nothing touches it: not its name, not the
\* selector, not the pipeline, whatever messages arrive
\* (rtsp_change_record_state).
SavingUndisturbed ==
    [][busy /\ busy' => UNCHANGED <<file, pad, playing, recording>>
                        \/ (uart = "stop" /\ UNCHANGED <<file, pad, playing>>)
      ]_vars

\* The status reported to the ground station can only be wrong after a command
\* was refused: otherwise, between messages, it tells whether the camera
\* records (mav_fcu_rc_channels, mav_command_long).
StatusTellsRecording ==
    ~ignored /\ uart = "idle" => videoStatus = recording

\* One video at a time: the camera layer implements the recorder, whose video
\* is being saved until the selector has left the file (eos_handler,
\* rtsp_change_record_state).
Recording == INSTANCE Recorder WITH
                Names <- 0 .. MaxSecond,
                NoName <- NoFile,
                phase <- IF busy \/ probe = "saved" THEN "saving"
                         ELSE IF uart = "started" \/ (recording /\ uart # "stop")
                              THEN "recording" ELSE "idle",
                name <- file,
                sink <- pad

RecorderImplemented == Recording!Spec

\* Without a refused command, a command does what it says, once, however often
\* it is repeated: VIDEO_START_CAPTURE never stops a recording, nor does
\* VIDEO_STOP_CAPTURE start one (mav_command_long).
CommandsObeyed ==
    ~ignored => /\ uart = "stop" => message # "video_start"
                /\ uart \in Starting => message # "video_stop"

\* A new recording is only begun on a camera at rest.
StartsAtRest ==
    /\ uart \in Starting => ~busy /\ ~recording
    /\ uart \in {"restart", "started"} => probe = "idle"

\* A video is saved once its recording has ended, and the probe moves the
\* selector only for that video.
SavesEnded ==
    /\ uart = "stop" => recording
    /\ recording /\ uart # "stop" => ~busy /\ probe = "idle"
    /\ probe = "saved" => ~busy

\* Only a camera that is ready records.
RecordsReady == busy \/ recording \/ uart \in {"stop"} \cup Starting => ready

\* A handler that has called the camera layer knows its message.
MessageKnown == uart # "idle" => message # "none"

\* The status is what the handler will make it when it returns, unless a
\* command was refused.
StatusFollows ==
    ~ignored =>
        /\ uart = "idle" => videoStatus = recording
        /\ uart = "stop" => videoStatus /\ message \in {"rc", "video_stop"}
        /\ uart \in Starting =>
               ~videoStatus /\ message \in {"rc", "video_start"}
        /\ uart = "return" => StatusAfter(message) = recording

\* The inductive invariant of the proofs.
VideoInv ==
    /\ TypeOK
    /\ FileGetsTheRecording
    /\ StartsAtRest
    /\ SavesEnded
    /\ RecordsReady
    /\ MessageKnown
    /\ StatusFollows

\* The wait for a video to be saved ends, so that recording is possible again,
\* unless the source itself has ended its stream: then the event that would
\* end the wait is dropped (eos_handler, rtsp_change_record_state).
SavingEnds == busy ~> (~busy \/ ~live \/ ~up)

\* A snapshot that was accepted is taken, also when the pipeline is restarted
\* for a recording in between, as long as the source sends frames
\* (rtsp_save_image, on_new_sample_handler).
SnapshotServed == request ~> (~request \/ ~live \/ ~up)

\* "Stop recording" (mavlink_receiver.c:227): handling VIDEO_STOP_CAPTURE never
\* starts a recording.
StopNeverStarts == message = "video_stop" => uart # "restart"
=============================================================================
