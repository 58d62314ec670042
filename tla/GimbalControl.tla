---------------------------- MODULE GimbalControl ----------------------------
(***************************************************************************)
(* Attitude and zoom of camera 0, from the sticks of the remote control to *)
(* the camera: the RC handler (mavlink_receiver.c), which keeps angles and *)
(* zoom in static variables, the device registry (device.c), the driver    *)
(* that packs a datagram for each call (siyi_camera.c), and the opening of *)
(* the device when the server starts (config.c).                           *)
(*                                                                         *)
(* The driver keeps no state and waits for no answer, so what the server   *)
(* takes for the camera's state is only as good as the datagrams: any of   *)
(* them may be lost, the camera may lose power and come back, and the      *)
(* server may end and be started again with fresh variables.  Datagrams on *)
(* the one link to the camera stay in order, so that delivery is part of   *)
(* sending.  Angles are in tenths of a degree, zoom in tenths.             *)
(***************************************************************************)
EXTENDS Integers

CONSTANTS
    Raw,                \* the values an RC channel takes
    Buttons,            \* the values the channel of button A takes
    Rc,                 \* rc.yaml: the configuration of the channels
    Inc,                \* 3: the angle a message adds
    YawMax,             \* 1350: yaw is bounded on both sides
    PitchDown, PitchMax,\* 900 and 250: how far the pitch goes down and up
    ZoomMin, ZoomMax,   \* 10 and 40: the bounds of the zoom ratio
    ZoomInc,            \* 5: the step of the zoom ratio
    MaxSlack            \* bound: how far lost datagrams are added up

ASSUME GimbalAssumption ==
    /\ Raw \subseteq Nat /\ Buttons \subseteq Nat
    /\ Rc \in [{"yaw", "pitch", "scroll"} ->
                 [min : Nat, mid : Nat, max : Nat, reverse : BOOLEAN]]
    /\ \A channel \in DOMAIN Rc : Rc[channel].min < Rc[channel].max
    /\ {Inc, YawMax, PitchDown, PitchMax, ZoomInc, MaxSlack} \subseteq Nat
    /\ ZoomMin \in Nat /\ ZoomMax \in Nat /\ 10 <= ZoomMin /\ ZoomMin <= ZoomMax

VARIABLES
    stage,              \* how far the server has come since it was started
    registered,         \* camera_devs[0].camera_ops is set
    cameraPriv,         \* camera_devs[0].camera_priv is set
    gimbalPriv,         \* camera_devs[0].gimbal_priv is set
    cam_yaw, cam_pitch, \* the statics of mav_fcu_rc_channels
    button_a_last,
    zoom_ratio, zoom_dir, zoom_stop,
    camera,             \* the camera's attitude and zoom
    stale,              \* history: the camera missed the last command of a kind
    slack,              \* history: what the datagrams lost in a row add up to
    adrift,             \* history: the camera's angles are anybody's guess
    fault               \* history: a call went to a device that is not there

registryVars == <<registered, cameraPriv, gimbalPriv>>
angleVars == <<cam_yaw, cam_pitch, button_a_last>>
zoomVars == <<zoom_ratio, zoom_dir, zoom_stop>>
deviceVars == <<camera, stale, slack, adrift>>
vars == <<stage, registryVars, angleVars, zoomVars, deviceVars, fault>>

Startup == {"register", "camera_open", "gimbal_open", "zoom", "centre"}

\* The variables of a process that starts; the camera is in some state.
FreshProcess ==
    /\ registered = FALSE /\ cameraPriv = FALSE /\ gimbalPriv = FALSE
    /\ cam_yaw = 0 /\ cam_pitch = 0 /\ button_a_last = 0
    /\ zoom_ratio = ZoomMin /\ zoom_dir = 0 /\ zoom_stop = FALSE

Init ==
    /\ stage = "down"
    /\ FreshProcess
    /\ camera \in [zoom : {ZoomMin, ZoomMax}, yaw : {0, YawMax}, pitch : {0}]
    /\ stale = [zoom |-> FALSE, attitude |-> FALSE]
    /\ slack = 0 /\ adrift = TRUE
    /\ fault = FALSE
-----------------------------------------------------------------------------
(* From a call to the camera *)

\* A call is dispatched when either half of the device is open; the driver's
\* functions all use the socket of the gimbal's half.
Present == cameraPriv \/ gimbalPriv
Follows == fault' = (fault \/ (Present /\ ~gimbalPriv))

\* siyi_cam_manual_zoom: an integer part and a decimal place.
Zoomed(c, ratio) == [c EXCEPT !.zoom = 10 * (ratio \div 10) + (ratio % 10)]

\* siyi_cam_gimbal_rotate, siyi_cam_gimbal_centering
Rotated(c, yaw, pitch) == [c EXCEPT !.yaw = yaw, !.pitch = pitch]

\* One call: c is what the camera makes of the datagram, if it arrives.
Send(kind, c) ==
    /\ Follows
    /\ IF Present
       THEN \E arrives \in BOOLEAN :
              /\ camera' = IF arrives THEN c ELSE camera
              /\ stale' = [stale EXCEPT ![kind] = ~arrives]
       ELSE UNCHANGED <<camera, stale>>

\* A process ends, and its variables with it.
ProcessGone ==
    /\ stage' = "down"
    /\ registered' = FALSE /\ cameraPriv' = FALSE /\ gimbalPriv' = FALSE
    /\ cam_yaw' = 0 /\ cam_pitch' = 0 /\ button_a_last' = 0
    /\ zoom_ratio' = ZoomMin /\ zoom_dir' = 0 /\ zoom_stop' = FALSE
    /\ slack' = 0 /\ adrift' = TRUE
    /\ UNCHANGED <<camera, stale, fault>>
-----------------------------------------------------------------------------
(* siyi_camera_init, called for an enabled device before any thread starts *)

\* The files are read at every start.  Device 0 is enabled, or not; a missing
\* type (a null pointer to strcmp) and an unknown one end the process.
Start ==
    /\ stage = "down"
    /\ \E enabled \in BOOLEAN, type \in {"siyi", "none", "other", "missing"} :
         stage' = IF ~enabled \/ type = "none" THEN "serving"
                  ELSE IF type = "siyi" THEN "register" ELSE "down"
    /\ UNCHANGED <<registryVars, angleVars, zoomVars, deviceVars, fault>>

Register ==
    /\ stage = "register"
    /\ registered' = TRUE
    /\ stage' = "camera_open"
    /\ UNCHANGED <<cameraPriv, gimbalPriv, angleVars, zoomVars, deviceVars,
                   fault>>

\* rtsp_open looks at no malloc: the memset through a null pointer ends the
\* process.
OpenCameraFails == stage = "camera_open" /\ ProcessGone

OpenCamera ==
    /\ stage = "camera_open"
    /\ cameraPriv' = TRUE
    /\ fault' = (fault \/ ~registered)
    /\ stage' = "gimbal_open"
    /\ UNCHANGED <<registered, gimbalPriv, angleVars, zoomVars, deviceVars>>

\* No socket, no connection: the process ends.  So it does without memory, but
\* by the memset through the null pointer, which comes before the test of it.
OpenGimbalFails_carriesOn ==
    /\ stage = "gimbal_open"
    /\ stage' = "zoom"
    /\ UNCHANGED <<registryVars, angleVars, zoomVars, deviceVars, fault>>
OpenGimbalFails == stage = "gimbal_open" /\ ProcessGone

OpenGimbal ==
    /\ stage = "gimbal_open"
    /\ gimbalPriv' = TRUE
    /\ fault' = (fault \/ ~registered)
    /\ stage' = "zoom"
    /\ UNCHANGED <<registered, cameraPriv, angleVars, zoomVars, deviceVars>>

\* camera_zoom(id, 1, 0) brings the camera to where zoom_ratio starts.
FirstZoom_skipped ==
    /\ stage = "zoom"
    /\ stage' = "centre"
    /\ UNCHANGED <<registryVars, angleVars, zoomVars, deviceVars, fault>>
FirstZoom ==
    /\ stage = "zoom"
    /\ Send("zoom", Zoomed(camera, ZoomMin))
    /\ stage' = "centre"
    /\ UNCHANGED <<registryVars, angleVars, zoomVars, slack, adrift>>

\* gimbal_centering(id) likewise for the angles.
FirstCentre_skipped ==
    /\ stage = "centre"
    /\ stage' = "serving"
    /\ UNCHANGED <<registryVars, angleVars, zoomVars, deviceVars, fault>>
FirstCentre ==
    /\ stage = "centre"
    /\ Send("attitude", Rotated(camera, 0, 0))
    /\ adrift' = stale'.attitude
    /\ stage' = "serving"
    /\ UNCHANGED <<registryVars, angleVars, zoomVars, slack>>
-----------------------------------------------------------------------------
(* mav_fcu_rc_channels *)

\* Where a stick is, once mapped to -100 .. 100: beyond half of it or not.
Deflection(raw, rc) ==
    LET offset == IF rc.reverse THEN rc.mid - raw ELSE raw - rc.mid IN
      IF 4 * offset > rc.max - rc.min THEN 1
      ELSE IF 4 * offset < rc.min - rc.max THEN -1 ELSE 0

\* bound_float
Bound_swapped(val, max, min) ==
    IF val > min THEN min ELSE IF val < max THEN max ELSE val
Bound(val, max, min) ==
    IF val > max THEN max ELSE IF val < min THEN min ELSE val

\* An angle as it is sent: a float's rounding error is less than a tenth, but
\* the conversion to an integer may turn it into a tenth.
Truncated(angle) ==
    {angle} \cup (IF angle > 0 THEN {angle - 1} ELSE {})
            \cup (IF angle < 0 THEN {angle + 1} ELSE {})

\* The button has moved; its first value only initialises.
Clicked(button) == button_a_last # 0 /\ button # button_a_last

Yaw(raw, button) ==
    IF Clicked(button) THEN 0
    ELSE Bound(cam_yaw + Inc * Deflection(raw, Rc["yaw"]), YawMax, -YawMax)
Pitch(raw, button) ==
    IF Clicked(button) THEN 0
    ELSE Bound(cam_pitch + Inc * Deflection(raw, Rc["pitch"]),
               PitchMax, -PitchDown)

\* The scroll wheel: an end arms a step, leaving the end takes it.
AtEnd(scroll) == scroll <= Rc["scroll"].min \/ scroll >= Rc["scroll"].max
Steps(scroll) == ~AtEnd(scroll) /\ zoom_stop
Ratio == Bound(zoom_ratio + zoom_dir * ZoomInc, ZoomMax, ZoomMin)

Scroll(scroll) ==
    /\ zoom_stop' = AtEnd(scroll)
    /\ zoom_dir' = IF scroll <= Rc["scroll"].min THEN 1
                   ELSE IF scroll >= Rc["scroll"].max THEN -1 ELSE zoom_dir
    /\ zoom_ratio' = IF Steps(scroll) THEN Ratio ELSE zoom_ratio

\* The angles go with every message, whether they have changed or not.
SendsAngles_onChange == cam_yaw' # cam_yaw \/ cam_pitch' # cam_pitch
SendsAngles == TRUE

\* The angles reach the camera, or it falls behind by an increment; beyond the
\* bound, or when it missed a centring, it may be anywhere.
Track(arrive, centring) ==
    LET lost == adrift \/ centring \/ slack + Inc > MaxSlack IN
      /\ adrift' = (~arrive /\ lost)
      /\ slack' = IF arrive \/ lost THEN 0 ELSE slack + Inc

\* The datagrams of a message: the zoom if it changed, then the angles.
Sent(scroll) ==
    {kind \in {"zoom", "attitude"} :
       Present /\ (kind = "zoom" => Steps(scroll))}

\* The whole handler, without snapshots and recording (VideoCapture); those of
\* its datagrams that are in lost do not arrive.  The sticks' channels are any.
RcChannels(button, scroll, lost) ==
    /\ stage = "serving"
    /\ button_a_last' = button
    /\ lost \subseteq Sent(scroll)
    /\ cam_yaw' \in {Yaw(raw, button) : raw \in Raw}
    /\ cam_pitch' \in {Pitch(raw, button) : raw \in Raw}
    /\ Scroll(scroll)
    /\ Follows
    /\ LET zooms == "zoom" \in Sent(scroll) \ lost
           turns == SendsAngles /\ "attitude" \notin lost
           c == IF zooms THEN Zoomed(camera, zoom_ratio') ELSE camera
       IN IF Present
          THEN /\ camera' \in
                    IF turns
                    THEN {Rotated(c, y, p) : y \in Truncated(cam_yaw'),
                                             p \in Truncated(cam_pitch')}
                    ELSE {c}
               /\ stale' = [zoom |-> IF Steps(scroll) THEN ~zooms
                                     ELSE stale.zoom,
                            attitude |-> ~turns]
               /\ Track(turns, Clicked(button))
          ELSE UNCHANGED deviceVars
    /\ UNCHANGED <<stage, registryVars>>

Message(lost) ==
    \E button \in Buttons, scroll \in Raw : RcChannels(button, scroll, lost)
-----------------------------------------------------------------------------
(* Failures *)

\* The server ends, for whatever reason.
ServerEnds == stage # "down" /\ ProcessGone

\* The camera comes back with its own idea of zoom and attitude.
CameraRestarts ==
    /\ camera' = [zoom |-> ZoomMin, yaw |-> 0, pitch |-> 0]
    /\ stale' = [zoom |-> TRUE, attitude |-> TRUE]
    /\ slack' = 0 /\ adrift' = TRUE
    /\ UNCHANGED <<stage, registryVars, angleVars, zoomVars, fault>>

StartUp ==
    \/ Start \/ Register
    \/ OpenCamera \/ OpenCameraFails \/ OpenGimbal \/ OpenGimbalFails
    \/ FirstZoom \/ FirstCentre

Next ==
    \/ StartUp
    \/ \E lost \in SUBSET {"zoom", "attitude"} : Message(lost)
    \/ ServerEnds \/ CameraRestarts

Spec == Init /\ [][Next]_vars

\* While messages are handled for a camera, the link does not lose something of
\* each: there is always another from whose handling whatever is sent arrives.
\* What is sent is the handler's affair, and nothing is owed to a server that is
\* down or to a camera without power.
FairSpec == Spec /\ SF_vars(Present /\ Message({}))
-----------------------------------------------------------------------------
(* Properties *)

TypeOK ==
    /\ stage \in Startup \cup {"down", "serving"}
    /\ {registered, cameraPriv, gimbalPriv, zoom_stop, fault} \subseteq BOOLEAN
    /\ cam_yaw \in -YawMax .. YawMax
    /\ cam_pitch \in -PitchDown .. PitchMax
    /\ button_a_last \in Buttons \cup {0}
    /\ zoom_ratio \in ZoomMin .. ZoomMax
    /\ zoom_dir \in {-1, 0, 1}
    /\ camera \in [zoom : ZoomMin .. ZoomMax, yaw : -YawMax .. YawMax,
                   pitch : -PitchDown .. PitchMax]
    /\ stale \in [zoom : BOOLEAN, attitude : BOOLEAN]
    /\ slack \in 0 .. MaxSlack
    /\ adrift \in BOOLEAN

\* The camera has the zoom ratio that the server steps from, unless the last
\* zoom command did not reach it: also after a restart of the server, whose
\* ratio starts anew while the camera keeps its own (siyi_camera_init,
\* mav_fcu_rc_channels).
ZoomAgrees ==
    stage \in {"centre", "serving"} /\ Present /\ ~stale.zoom
        => camera.zoom = zoom_ratio

\* The camera is where the server has turned it, to a tenth of a degree,
\* unless the last command did not reach it; a restart of the server does not
\* make the gimbal jump at the next message (siyi_camera_init,
\* mav_fcu_rc_channels).
AttitudeAgrees ==
    stage = "serving" /\ Present /\ ~stale.attitude
        => /\ camera.yaw \in Truncated(cam_yaw)
           /\ camera.pitch \in Truncated(cam_pitch)

\* The handler takes a button that has moved for a click, which centres.
Centring == button_a_last # 0 /\ button_a_last' # button_a_last

\* The gimbal turns by an increment per message on each axis, and after lost
\* datagrams by what they would have added up to: no command the camera obeys is
\* a jump, neither at a bound nor at a restart of the server, unless the camera
\* was left behind altogether (adrift).  Only a click turns it to the centre at
\* once (mav_fcu_rc_channels, bound_float).
NoJump ==
    [][stage = "serving" /\ ~adrift /\ ~adrift' =>
         LET limit == -(slack + Inc + 1) .. slack + Inc + 1 IN
           \/ Centring /\ camera'.yaw = 0 /\ camera'.pitch = 0
           \/ /\ camera'.yaw - camera.yaw \in limit
              /\ camera'.pitch - camera.pitch \in limit]_vars

\* Why: the camera is at angles the handler has had, so many datagrams ago.
Near(sent, angle) ==
    \E a \in angle - slack .. angle + slack : sent \in Truncated(a)
CameraNear ==
    stage = "serving" /\ ~adrift =>
        Near(camera.yaw, cam_yaw) /\ Near(camera.pitch, cam_pitch)

\* The registry calls the driver only for a device that is open in both halves,
\* although one is enough for it: any failure while the halves are opened, of
\* malloc, socket or connect, ends the process before the first call, and a
\* device that is not enabled has neither half (device_present,
\* siyi_camera_init, siyi_cam_open).
NoHalfDevice == ~fault

\* A camera that lost datagrams, or its power, is brought back to the angles of
\* a server that has it configured, also when no stick is moved any more: the
\* angles are sent again with every message (mav_fcu_rc_channels).
AttitudeRecovers ==
    []<>(stage = "serving" /\ Present) =>
        []<>(stage = "serving" /\ camera.yaw \in Truncated(cam_yaw)
                               /\ camera.pitch \in Truncated(cam_pitch))
=============================================================================
