------------------------------ MODULE Recorder ------------------------------
(***************************************************************************)
(* What the camera layer promises about recording: one video at a time,    *)
(* under one name from its first frame to its last, and a new one only     *)
(* when the one before has been saved.  Frames go to the file from the     *)
(* start of a recording to the end of saving it and at no other time.      *)
(***************************************************************************)
CONSTANTS
    Names,      \* the names videos may be given
    NoName      \* the name before the first video

VARIABLES
    phase,      \* "idle", "recording", or "saving"
    name,       \* the name of the video, or of the last one
    sink        \* where frames go: "file" or "fake"

recorderVars == <<phase, name, sink>>

Init ==
    /\ phase = "idle"
    /\ name = NoName
    /\ sink = "fake"

Start(n) ==
    /\ phase = "idle"
    /\ phase' = "recording"
    /\ name' = n
    /\ sink' = "file"

Stop ==
    /\ phase = "recording"
    /\ phase' = "saving"
    /\ UNCHANGED <<name, sink>>

Saved ==
    /\ phase = "saving"
    /\ phase' = "idle"
    /\ sink' = "fake"
    /\ UNCHANGED name

Next ==
    \/ \E n \in Names : Start(n)
    \/ Stop
    \/ Saved

Spec == Init /\ [][Next]_recorderVars
=============================================================================
