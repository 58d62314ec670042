------------------------- MODULE GimbalControlProofs -------------------------
(***************************************************************************)
(* Proofs about GimbalControl, for every configuration of the channels,    *)
(* every bound and every increment: the server's idea of the camera's zoom *)
(* and attitude is right unless the last datagram of the kind was lost, no *)
(* command the camera obeys makes it jump, and no call goes to half a      *)
(* device.                                                                 *)
(***************************************************************************)
EXTENDS GimbalControl, TLAPS

\* How far the opening of the device has come, at each stage; until messages
\* are handled the variables of the handler have their initial values, and
\* nothing is known of a camera that was not centred.
Opened ==
    /\ stage # "serving" =>
         cam_yaw = 0 /\ cam_pitch = 0 /\ zoom_ratio = ZoomMin
    /\ stage \in {"down", "register"} => ~cameraPriv /\ ~gimbalPriv
    /\ stage = "camera_open" => registered /\ ~cameraPriv /\ ~gimbalPriv
    /\ stage = "gimbal_open" => registered /\ cameraPriv /\ ~gimbalPriv
    /\ stage \in {"zoom", "centre"} => registered /\ cameraPriv /\ gimbalPriv
    /\ stage = "serving" => cameraPriv = gimbalPriv
    /\ stage # "serving" \/ ~cameraPriv => adrift

GimbalInv ==
    /\ TypeOK /\ Opened
    /\ ZoomAgrees /\ AttitudeAgrees /\ CameraNear /\ NoHalfDevice

Cameras == [zoom : ZoomMin .. ZoomMax, yaw : -YawMax .. YawMax,
            pitch : -PitchDown .. PitchMax]
-----------------------------------------------------------------------------
(* The operators *)

\* Integer part and decimal make up the ratio they were taken from.
LEMMA ZoomedRatio ==
    ASSUME NEW c \in [zoom : Int, yaw : Int, pitch : Int], NEW r \in Nat
    PROVE  Zoomed(c, r) = [c EXCEPT !.zoom = r]
<1>1. 10 * (r \div 10) + (r % 10) = r
  OBVIOUS
<1> QED BY <1>1 DEF Zoomed

\* bound_float stays between its bounds, and never moves away.
LEMMA BoundRange ==
    ASSUME NEW v \in Int, NEW lo \in Int, NEW hi \in Int, lo <= hi
    PROVE  Bound(v, hi, lo) \in lo .. hi
BY DEF Bound

LEMMA BoundStep ==
    ASSUME NEW lo \in Int, NEW hi \in Int, NEW a \in lo .. hi, NEW i \in Nat,
           NEW v \in a - i .. a + i
    PROVE  Bound(v, hi, lo) \in a - i .. a + i
BY DEF Bound

LEMMA DeflectionStep ==
    ASSUME NEW raw, NEW rc, NEW a \in Int
    PROVE  a + Inc * Deflection(raw, rc) \in a - Inc .. a + Inc
<1> USE GimbalAssumption
<1>1. Deflection(raw, rc) \in {-1, 0, 1}
  BY DEF Deflection
<1>2. CASE Deflection(raw, rc) = 1
  BY <1>2
<1>3. CASE Deflection(raw, rc) = 0
  BY <1>3
<1>4. CASE Deflection(raw, rc) = -1
  BY <1>4
<1> QED BY <1>1, <1>2, <1>3, <1>4

\* What was near stays near, with the allowance for the move.
LEMMA NearMoves ==
    ASSUME NEW x \in Int, NEW s \in Nat, NEW i \in Nat,
           NEW a \in x - s .. x + s, NEW y \in x - i .. x + i
    PROVE  a \in y - (s + i) .. y + (s + i)
OBVIOUS

\* An angle that is sent is within the bounds of the angle, and within a tenth.
LEMMA TruncatedRange ==
    ASSUME NEW lo \in Nat, NEW hi \in Nat, NEW a \in -lo .. hi,
           NEW t \in Truncated(a)
    PROVE  t \in -lo .. hi
BY DEF Truncated

LEMMA TruncatedStep ==
    ASSUME NEW a \in Int, NEW i \in Nat, NEW b \in a - i .. a + i,
           NEW s \in Truncated(a), NEW t \in Truncated(b)
    PROVE  t - s \in -(i + 1) .. i + 1
<1>1. a \in Int /\ b \in Int /\ s \in {a - 1, a, a + 1} /\ t \in Int
  BY DEF Truncated
<1>2. CASE a > 0
  BY <1>1, <1>2 DEF Truncated
<1>3. CASE a < 0
  BY <1>1, <1>3 DEF Truncated
<1>4. CASE a = 0
  BY <1>1, <1>4 DEF Truncated
<1> QED BY <1>1, <1>2, <1>3, <1>4

LEMMA TruncatedZero == Truncated(0) = {0}
BY DEF Truncated

LEMMA Sets ==
    /\ Inc \in Nat /\ YawMax \in Nat /\ PitchDown \in Nat /\ PitchMax \in Nat
    /\ ZoomInc \in Nat /\ MaxSlack \in Nat /\ ZoomMin \in Nat /\ ZoomMax \in Nat
    /\ 10 <= ZoomMin /\ ZoomMin <= ZoomMax
BY GimbalAssumption

\* A message changes each angle by at most one increment, or centres it.
LEMMA YawStep ==
    ASSUME TypeOK, NEW raw, NEW button
    PROVE  /\ Yaw(raw, button) \in -YawMax .. YawMax
           /\ IF Clicked(button) THEN Yaw(raw, button) = 0
              ELSE Yaw(raw, button) \in cam_yaw - Inc .. cam_yaw + Inc
<1> USE Sets
<1>1. CASE Clicked(button)
  BY <1>1 DEF Yaw
<1>2. CASE ~Clicked(button)
  <2> DEFINE v == cam_yaw + Inc * Deflection(raw, Rc["yaw"])
  <2>1. cam_yaw \in -YawMax .. YawMax
    BY DEF TypeOK
  <2>2. v \in cam_yaw - Inc .. cam_yaw + Inc
    BY <2>1, DeflectionStep
  <2>3. Yaw(raw, button) = Bound(v, YawMax, -YawMax)
    BY <1>2 DEF Yaw
  <2> HIDE DEF v
  <2>4. v \in Int
    BY <2>1, <2>2
  <2>5. Bound(v, YawMax, -YawMax) \in -YawMax .. YawMax
    BY <2>4, BoundRange
  <2>6. Bound(v, YawMax, -YawMax) \in cam_yaw - Inc .. cam_yaw + Inc
    <3>1. -YawMax \in Int /\ YawMax \in Int
      OBVIOUS
    <3> QED BY <2>1, <2>2, <3>1, BoundStep
  <2> QED BY <1>2, <2>3, <2>5, <2>6
<1> QED BY <1>1, <1>2

LEMMA PitchStep ==
    ASSUME TypeOK, NEW raw, NEW button
    PROVE  /\ Pitch(raw, button) \in -PitchDown .. PitchMax
           /\ IF Clicked(button) THEN Pitch(raw, button) = 0
              ELSE Pitch(raw, button) \in cam_pitch - Inc .. cam_pitch + Inc
<1> USE Sets
<1>1. CASE Clicked(button)
  BY <1>1 DEF Pitch
<1>2. CASE ~Clicked(button)
  <2> DEFINE v == cam_pitch + Inc * Deflection(raw, Rc["pitch"])
  <2>1. cam_pitch \in -PitchDown .. PitchMax
    BY DEF TypeOK
  <2>2. v \in cam_pitch - Inc .. cam_pitch + Inc
    BY <2>1, DeflectionStep
  <2>3. Pitch(raw, button) = Bound(v, PitchMax, -PitchDown)
    BY <1>2 DEF Pitch
  <2> HIDE DEF v
  <2>4. v \in Int
    BY <2>1, <2>2
  <2>5. Bound(v, PitchMax, -PitchDown) \in -PitchDown .. PitchMax
    BY <2>4, BoundRange
  <2>6. Bound(v, PitchMax, -PitchDown) \in cam_pitch - Inc .. cam_pitch + Inc
    <3>1. -PitchDown \in Int /\ PitchMax \in Int
      OBVIOUS
    <3> QED BY <2>1, <2>2, <3>1, BoundStep
  <2> QED BY <1>2, <2>3, <2>5, <2>6
<1> QED BY <1>1, <1>2

LEMMA RatioRange ==
    ASSUME TypeOK
    PROVE  Ratio \in ZoomMin .. ZoomMax
<1> DEFINE v == zoom_ratio + zoom_dir * ZoomInc
<1>1. zoom_dir \in {-1, 0, 1} /\ zoom_ratio \in Int
  BY Sets DEF TypeOK
<1>2. v \in Int
  <2>1. zoom_dir * ZoomInc \in Int
    BY <1>1, Sets
  <2> QED BY <1>1, <2>1
<1>3. Ratio = Bound(v, ZoomMax, ZoomMin)
  BY DEF Ratio
<1> HIDE DEF v
<1> QED BY <1>2, <1>3, BoundRange, Sets
-----------------------------------------------------------------------------
(* The invariant *)

LEMMA InitGimbal == Init => GimbalInv
<1> SUFFICES ASSUME Init PROVE GimbalInv
  OBVIOUS
<1> USE Sets
<1>1. /\ 0 \in -YawMax .. YawMax /\ 0 \in -PitchDown .. PitchMax
      /\ YawMax \in -YawMax .. YawMax /\ 0 \in 0 .. MaxSlack
      /\ ZoomMin \in ZoomMin .. ZoomMax /\ ZoomMax \in ZoomMin .. ZoomMax
  OBVIOUS
<1>2. camera \in Cameras
  <2> HIDE Sets
  <2> QED BY <1>1 DEF Init, Cameras
<1>3. TypeOK
  <2> HIDE Sets
  <2> QED BY <1>1, <1>2 DEF TypeOK, Init, FreshProcess, Cameras
<1> QED BY <1>3 DEF Init, FreshProcess, GimbalInv, Opened, ZoomAgrees,
                    AttitudeAgrees, CameraNear, NoHalfDevice, Present

\* What the camera may be after a datagram.
LEMMA CameraType ==
    ASSUME TypeOK
    PROVE  /\ camera \in Cameras
           /\ \A r \in ZoomMin .. ZoomMax :
                /\ [camera EXCEPT !.zoom = r] \in Cameras
                /\ Zoomed(camera, r) = [camera EXCEPT !.zoom = r]
           /\ \A c \in Cameras, y \in -YawMax .. YawMax,
                p \in -PitchDown .. PitchMax :
                /\ Rotated(c, y, p) \in Cameras
                /\ Rotated(c, y, p).yaw = y /\ Rotated(c, y, p).pitch = p
                /\ Rotated(c, y, p).zoom = c.zoom
<1>1. camera \in [zoom : Int, yaw : Int, pitch : Int]
  BY Sets DEF TypeOK
<1>2. \A r \in ZoomMin .. ZoomMax : r \in Nat
  BY Sets
<1>3. \A r \in ZoomMin .. ZoomMax :
        Zoomed(camera, r) = [camera EXCEPT !.zoom = r]
  BY <1>1, <1>2, ZoomedRatio
<1> QED BY <1>3 DEF TypeOK, Rotated, Cameras

\* A call while the device is open: nothing but a datagram.
LEMMA SendStep ==
    ASSUME NEW kind \in {"zoom", "attitude"}, NEW c, Send(kind, c), TypeOK,
           cameraPriv = gimbalPriv, ~fault
    PROVE  /\ fault' = FALSE
           /\ Present => /\ camera' \in {c, camera}
                         /\ ~stale'[kind] => camera' = c
           /\ ~Present => camera' = camera /\ stale' = stale
           /\ stale' \in [zoom : BOOLEAN, attitude : BOOLEAN]
           /\ \A k \in {"zoom", "attitude"} \ {kind} : stale'[k] = stale[k]
<1>1. fault' = FALSE
  BY DEF Send, Follows, Present
<1>2. CASE Present
  <2>1. PICK arrives \in BOOLEAN :
          /\ camera' = IF arrives THEN c ELSE camera
          /\ stale' = [stale EXCEPT ![kind] = ~arrives]
    BY <1>2 DEF Send
  <2> QED BY <1>1, <1>2, <2>1 DEF TypeOK
<1>3. CASE ~Present
  BY <1>1, <1>3 DEF Send, TypeOK
<1> QED BY <1>2, <1>3

\* A process that ends leaves nothing but the camera.
LEMMA GoneStep ==
    ASSUME GimbalInv, ProcessGone
    PROVE  GimbalInv'
<1> USE Sets
<1>1. /\ 0 \in -YawMax .. YawMax /\ 0 \in -PitchDown .. PitchMax
      /\ ZoomMin \in ZoomMin .. ZoomMax /\ 0 \in 0 .. MaxSlack
  OBVIOUS
<1>2. TypeOK'
  BY <1>1 DEF ProcessGone, GimbalInv, TypeOK
<1> QED BY <1>2 DEF ProcessGone, GimbalInv, Opened, ZoomAgrees,
                    AttitudeAgrees, CameraNear, NoHalfDevice

LEMMA StartUpStep ==
    ASSUME GimbalInv, StartUp
    PROVE  GimbalInv'
<1> USE Sets
<1> USE DEF GimbalInv, Opened, TypeOK, Startup, ZoomAgrees, AttitudeAgrees,
            CameraNear, NoHalfDevice, Present
<1>1. CASE Start
  BY <1>1 DEF Start, registryVars, angleVars, zoomVars, deviceVars
<1>2. CASE Register
  BY <1>2 DEF Register, angleVars, zoomVars, deviceVars
<1>3. CASE OpenCamera
  BY <1>3 DEF OpenCamera, angleVars, zoomVars, deviceVars
<1>4. CASE OpenGimbal
  BY <1>4 DEF OpenGimbal, angleVars, zoomVars, deviceVars
<1>5. CASE OpenCameraFails \/ OpenGimbalFails
  BY <1>5, GoneStep DEF OpenCameraFails, OpenGimbalFails
<1>6. CASE FirstZoom
  <2>1. Zoomed(camera, ZoomMin) = [camera EXCEPT !.zoom = ZoomMin]
    BY ZoomedRatio
  <2>2. /\ fault' = FALSE
        /\ camera' \in {[camera EXCEPT !.zoom = ZoomMin], camera}
        /\ ~stale'.zoom => camera' = [camera EXCEPT !.zoom = ZoomMin]
        /\ stale' \in [zoom : BOOLEAN, attitude : BOOLEAN]
    BY <1>6, <2>1, SendStep DEF FirstZoom
  <2>3. camera' \in Cameras
    BY <2>2, CameraType
  <2>4. TypeOK'
    BY <1>6, <2>2, <2>3
       DEF FirstZoom, registryVars, angleVars, zoomVars, Cameras
  <2>5. ZoomAgrees' /\ AttitudeAgrees' /\ CameraNear'
    BY <1>6, <2>2 DEF FirstZoom, registryVars, angleVars, zoomVars
  <2> QED BY <1>6, <2>2, <2>4, <2>5
          DEF FirstZoom, registryVars, angleVars, zoomVars
<1>7. CASE FirstCentre
  <2>1. /\ fault' = FALSE /\ camera' \in {Rotated(camera, 0, 0), camera}
        /\ ~stale'.attitude => camera' = Rotated(camera, 0, 0)
        /\ stale' \in [zoom : BOOLEAN, attitude : BOOLEAN]
        /\ stale'.zoom = stale.zoom
    <3>1. /\ cameraPriv = gimbalPriv /\ ~fault
          /\ Send("attitude", Rotated(camera, 0, 0))
      BY <1>7 DEF FirstCentre
    <3>2. Present /\ TypeOK
      BY <1>7 DEF FirstCentre
    <3> HIDE DEF Present, TypeOK, Opened, ZoomAgrees, AttitudeAgrees, CameraNear
    <3> QED BY <3>1, <3>2, SendStep
  <2>2. camera' \in Cameras
    <3>1. 0 \in -YawMax .. YawMax /\ 0 \in -PitchDown .. PitchMax
      OBVIOUS
    <3>2. TypeOK
      OBVIOUS
    <3> HIDE DEF TypeOK
    <3> QED BY <2>1, <3>1, <3>2, CameraType
  <2>3. TypeOK'
    BY <1>7, <2>1, <2>2
       DEF FirstCentre, registryVars, angleVars, zoomVars, Cameras
  <2>4. ZoomAgrees'
    BY <1>7, <2>1
       DEF FirstCentre, registryVars, angleVars, zoomVars, Rotated
  <2>5. ~stale'.attitude => camera'.yaw = 0 /\ camera'.pitch = 0
    BY <2>1 DEF Rotated
  <2>6. AttitudeAgrees'
    BY <1>7, <2>5, TruncatedZero
       DEF FirstCentre, registryVars, angleVars, zoomVars
  <2>7. CameraNear'
    <3>1. stage' = "serving" /\ slack' = slack /\ cam_yaw' = 0 /\ cam_pitch' = 0
      BY <1>7 DEF FirstCentre, angleVars
    <3>2. 0 \in 0 - slack .. 0 + slack
      OBVIOUS
    <3>3. adrift' = stale'.attitude
      BY <1>7 DEF FirstCentre
    <3> QED BY <2>5, <3>1, <3>2, <3>3, TruncatedZero DEF Near
  <2>8. Opened'
    BY <1>7 DEF FirstCentre, registryVars, angleVars, zoomVars
  <2> QED BY <2>1, <2>3, <2>4, <2>6, <2>7, <2>8
<1> QED BY <1>1, <1>2, <1>3, <1>4, <1>5, <1>6, <1>7 DEF StartUp

\* What one message does to the camera of an open device: either the camera
\* turns to the new angles, or it stays behind.
LEMMA RcOrders ==
    ASSUME GimbalInv, Present, NEW button \in Buttons, NEW scroll \in Raw,
           NEW lost, RcChannels(button, scroll, lost)
    PROVE  \E turns \in BOOLEAN :
             /\ camera' \in Cameras
             /\ turns => /\ camera'.yaw \in Truncated(cam_yaw')
                         /\ camera'.pitch \in Truncated(cam_pitch')
             /\ ~turns => /\ camera'.yaw = camera.yaw
                          /\ camera'.pitch = camera.pitch
             /\ ~stale'.zoom => camera'.zoom = zoom_ratio'
             /\ stale' \in [zoom : BOOLEAN, attitude : BOOLEAN]
             /\ stale'.attitude = ~turns
             /\ Track(turns, Clicked(button))
<1> USE Sets
<1>1. TypeOK /\ ZoomAgrees /\ stage = "serving"
  BY DEF GimbalInv, RcChannels
<1>2. cam_yaw' \in -YawMax .. YawMax /\ cam_pitch' \in -PitchDown .. PitchMax
  BY <1>1, YawStep, PitchStep DEF RcChannels
<1>3. zoom_ratio' \in ZoomMin .. ZoomMax
      /\ (~Steps(scroll) => zoom_ratio' = zoom_ratio)
  BY <1>1, RatioRange DEF RcChannels, Scroll, TypeOK
<1> DEFINE zooms == "zoom" \in Sent(scroll) \ lost
           turns == SendsAngles /\ "attitude" \notin lost
           c == IF zooms THEN Zoomed(camera, zoom_ratio') ELSE camera
<1>4. /\ camera' \in IF turns
                     THEN {Rotated(c, y, p) : y \in Truncated(cam_yaw'),
                                              p \in Truncated(cam_pitch')}
                     ELSE {c}
      /\ stale' = [zoom |-> IF Steps(scroll) THEN ~zooms ELSE stale.zoom,
                   attitude |-> ~turns]
      /\ Track(turns, Clicked(button))
  BY DEF RcChannels
<1>5. turns \in BOOLEAN /\ zooms \in BOOLEAN
  BY DEF SendsAngles
<1>6. /\ c \in Cameras /\ c.yaw = camera.yaw /\ c.pitch = camera.pitch
      /\ c.zoom = IF zooms THEN zoom_ratio' ELSE camera.zoom
  <2>1. CASE zooms
    <3>1. c = [camera EXCEPT !.zoom = zoom_ratio'] /\ camera \in Cameras
      BY <1>1, <1>3, <2>1, CameraType
    <3>2. [camera EXCEPT !.zoom = zoom_ratio'] \in Cameras
      BY <1>1, <1>3, CameraType
    <3> QED BY <2>1, <3>1, <3>2 DEF Cameras
  <2>2. CASE ~zooms
    BY <1>1, <2>2, CameraType
  <2> QED BY <2>1, <2>2
<1>7. zooms => Steps(scroll)
  BY DEF Sent
<1> HIDE DEF c, zooms, turns
<1>8. /\ camera' \in Cameras /\ camera'.zoom = c.zoom
      /\ turns => /\ camera'.yaw \in Truncated(cam_yaw')
                  /\ camera'.pitch \in Truncated(cam_pitch')
      /\ ~turns => camera' = c
  <2>1. CASE turns
    <3>1. PICK y \in Truncated(cam_yaw'), p \in Truncated(cam_pitch') :
            camera' = Rotated(c, y, p)
      BY <1>4, <2>1
    <3>2. y \in -YawMax .. YawMax /\ p \in -PitchDown .. PitchMax
      BY <1>2, TruncatedRange
    <3> QED BY <1>1, <1>6, <2>1, <3>1, <3>2, CameraType
  <2>2. CASE ~turns
    BY <1>4, <1>6, <2>2
  <2> QED BY <2>1, <2>2
<1>9. /\ stale' \in [zoom : BOOLEAN, attitude : BOOLEAN]
      /\ stale'.attitude = ~turns
      /\ stale'.zoom = IF Steps(scroll) THEN ~zooms ELSE stale.zoom
  <2>1. stale.zoom \in BOOLEAN
    BY <1>1 DEF TypeOK
  <2> QED BY <1>4, <1>5, <2>1
<1>10. ASSUME ~stale'.zoom PROVE camera'.zoom = zoom_ratio'
  <2>1. CASE Steps(scroll)
    BY <1>6, <1>8, <1>9, <1>10, <2>1
  <2>2. CASE ~Steps(scroll)
    BY <1>1, <1>3, <1>6, <1>7, <1>8, <1>9, <1>10, <2>2 DEF ZoomAgrees
  <2> QED BY <2>1, <2>2
<1> QED BY <1>4, <1>5, <1>6, <1>8, <1>9, <1>10

\* The camera stays near: it turns to the new angles, or the allowance grows
\* with what it missed.
LEMMA NearStep ==
    ASSUME GimbalInv, Present, NEW button \in Buttons, NEW scroll \in Raw,
           NEW lost, RcChannels(button, scroll, lost)
    PROVE  CameraNear' /\ slack' \in 0 .. MaxSlack /\ adrift' \in BOOLEAN
<1> USE Sets
<1>1. PICK turns \in BOOLEAN :
        /\ turns => /\ camera'.yaw \in Truncated(cam_yaw')
                    /\ camera'.pitch \in Truncated(cam_pitch')
        /\ ~turns => /\ camera'.yaw = camera.yaw
                     /\ camera'.pitch = camera.pitch
        /\ Track(turns, Clicked(button))
  BY RcOrders
<1>2. /\ TypeOK /\ CameraNear /\ stage = "serving"
      /\ slack \in Nat /\ cam_yaw \in Int /\ cam_pitch \in Int
  BY DEF GimbalInv, RcChannels, TypeOK
<1>3. /\ cam_yaw' \in Int /\ cam_pitch' \in Int
      /\ ~Clicked(button) => /\ cam_yaw' \in cam_yaw - Inc .. cam_yaw + Inc
                             /\ cam_pitch' \in
                                  cam_pitch - Inc .. cam_pitch + Inc
  BY <1>2, YawStep, PitchStep DEF RcChannels
<1>4. slack' \in 0 .. MaxSlack /\ adrift' \in BOOLEAN
  <2>1. slack' \in {0, slack + Inc} /\ (slack' # 0 => slack + Inc <= MaxSlack)
    BY <1>1, <1>2 DEF Track
  <2>2. adrift' \in BOOLEAN
    BY <1>1 DEF Track
  <2> QED BY <1>2, <2>1, <2>2
<1>5. CASE turns
  <2>1. slack' = 0
    BY <1>1, <1>5 DEF Track
  <2>2. cam_yaw' \in cam_yaw' - slack' .. cam_yaw' + slack'
        /\ cam_pitch' \in cam_pitch' - slack' .. cam_pitch' + slack'
    <3>1. \A y \in Int : y \in y - 0 .. y + 0
      OBVIOUS
    <3> QED BY <1>3, <2>1, <3>1
  <2> QED BY <1>1, <1>4, <1>5, <2>2 DEF CameraNear, Near
<1>6. CASE ~turns
  <2> SUFFICES ASSUME ~adrift'
               PROVE  /\ Near(camera.yaw, cam_yaw)'
                      /\ Near(camera.pitch, cam_pitch)'
    BY <1>4 DEF CameraNear
  <2>1. ~adrift /\ ~Clicked(button) /\ slack' = slack + Inc
    BY <1>1, <1>6 DEF Track
  <2>2. PICK a \in cam_yaw - slack .. cam_yaw + slack :
          camera.yaw \in Truncated(a)
    BY <1>2, <2>1 DEF CameraNear, Near
  <2>3. PICK b \in cam_pitch - slack .. cam_pitch + slack :
          camera.pitch \in Truncated(b)
    BY <1>2, <2>1 DEF CameraNear, Near
  <2>4. a \in cam_yaw' - slack' .. cam_yaw' + slack'
        /\ b \in cam_pitch' - slack' .. cam_pitch' + slack'
    <3>1. /\ cam_yaw' \in cam_yaw - Inc .. cam_yaw + Inc
          /\ cam_pitch' \in cam_pitch - Inc .. cam_pitch + Inc
      BY <1>3, <2>1
    <3> QED BY <1>2, <1>3, <2>1, <3>1, NearMoves
  <2> QED BY <1>1, <1>6, <2>2, <2>3, <2>4 DEF Near
<1> QED BY <1>5, <1>6

LEMMA RcStep ==
    ASSUME GimbalInv, NEW button \in Buttons, NEW scroll \in Raw, NEW lost,
           RcChannels(button, scroll, lost)
    PROVE  GimbalInv'
<1> USE Sets
<1>1. TypeOK /\ Opened /\ stage = "serving" /\ fault = FALSE
  BY DEF GimbalInv, RcChannels, NoHalfDevice, TypeOK
<1>2. stage' = stage /\ UNCHANGED registryVars
  BY DEF RcChannels
<1>3. Present' = Present /\ fault' = FALSE
  <2>1. fault' = FALSE
    BY <1>1 DEF RcChannels, Follows, Present, Opened
  <2> QED BY <1>2, <2>1 DEF registryVars, Present
<1>4. cam_yaw' \in -YawMax .. YawMax /\ cam_pitch' \in -PitchDown .. PitchMax
  BY <1>1, YawStep, PitchStep DEF RcChannels
<1>5. /\ zoom_ratio' \in ZoomMin .. ZoomMax
      /\ zoom_dir' \in {-1, 0, 1}
      /\ zoom_stop' \in BOOLEAN
      /\ button_a_last' \in Buttons
  BY <1>1, RatioRange DEF RcChannels, Scroll, TypeOK, AtEnd
<1>6. ASSUME /\ stale' \in [zoom : BOOLEAN, attitude : BOOLEAN]
             /\ camera' \in Cameras
             /\ slack' \in 0 .. MaxSlack
             /\ adrift' \in BOOLEAN
      PROVE  TypeOK'
  BY <1>1, <1>2, <1>3, <1>4, <1>5, <1>6
     DEF TypeOK, RcChannels, registryVars, Cameras
<1>7. CASE Present
  <2>1. /\ camera' \in Cameras
        /\ ~stale'.zoom => camera'.zoom = zoom_ratio'
        /\ ~stale'.attitude => /\ camera'.yaw \in Truncated(cam_yaw')
                               /\ camera'.pitch \in Truncated(cam_pitch')
        /\ stale' \in [zoom : BOOLEAN, attitude : BOOLEAN]
    BY <1>7, RcOrders
  <2>2. CameraNear' /\ slack' \in 0 .. MaxSlack /\ adrift' \in BOOLEAN
    BY <1>7, NearStep
  <2>3. TypeOK'
    BY <1>6, <2>1, <2>2
  <2>4. cameraPriv /\ cameraPriv' /\ Opened'
    BY <1>1, <1>2, <1>7 DEF Opened, Present, registryVars
  <2> QED BY <1>1, <1>3, <2>1, <2>2, <2>3, <2>4
          DEF GimbalInv, ZoomAgrees, AttitudeAgrees, NoHalfDevice
<1>8. CASE ~Present
  <2>1. UNCHANGED deviceVars
    BY <1>8 DEF RcChannels
  <2>2. TypeOK'
    BY <1>1, <1>6, <2>1 DEF deviceVars, TypeOK, Cameras
  <2>3. Opened' /\ adrift'
    BY <1>1, <1>2, <1>8, <2>1 DEF Opened, Present, registryVars, deviceVars
  <2> QED BY <1>3, <1>8, <2>2, <2>3
          DEF GimbalInv, ZoomAgrees, AttitudeAgrees, CameraNear, NoHalfDevice
<1> QED BY <1>7, <1>8

LEMMA StepGimbal == GimbalInv /\ [Next]_vars => GimbalInv'
<1> USE Sets
<1> SUFFICES ASSUME GimbalInv, [Next]_vars PROVE GimbalInv'
  OBVIOUS
<1>1. CASE StartUp
  BY <1>1, StartUpStep
<1>2. ASSUME NEW button \in Buttons, NEW scroll \in Raw, NEW lost,
             RcChannels(button, scroll, lost)
      PROVE  GimbalInv'
  BY <1>2, RcStep
<1>3. CASE ServerEnds
  BY <1>3, GoneStep DEF ServerEnds
<1>4. CASE CameraRestarts
  <2>1. camera' \in Cameras
    BY <1>4 DEF CameraRestarts, Cameras
  <2> QED BY <1>4, <2>1
          DEF CameraRestarts, registryVars, angleVars, zoomVars, GimbalInv,
              TypeOK, Opened, ZoomAgrees, AttitudeAgrees, CameraNear,
              NoHalfDevice, Cameras
<1>5. CASE UNCHANGED vars
  BY <1>5 DEF vars, registryVars, angleVars, zoomVars, deviceVars, GimbalInv,
              TypeOK, Opened, ZoomAgrees, AttitudeAgrees, CameraNear, Near,
              NoHalfDevice, Present
<1> QED BY <1>1, <1>2, <1>3, <1>4, <1>5 DEF Next, Message

\* The server's idea of the camera, at every stage and after every failure.
LEMMA GimbalInvariant == Spec => []GimbalInv
<1> QED BY InitGimbal, StepGimbal, PTL DEF Spec
-----------------------------------------------------------------------------
(* The theorems *)

\* Every variable keeps its type: the angles and the ratio stay between their
\* bounds, and so does the camera (bound_float, mav_fcu_rc_channels).
THEOREM GimbalTyped == Spec => []TypeOK
<1>1. GimbalInv => TypeOK
  BY DEF GimbalInv
<1> QED BY <1>1, GimbalInvariant, PTL

\* The ratio the server steps from is the camera's (siyi_camera_init).
THEOREM ZoomRatioAgrees == Spec => []ZoomAgrees
<1>1. GimbalInv => ZoomAgrees
  BY DEF GimbalInv
<1> QED BY <1>1, GimbalInvariant, PTL

\* The angles the server steps from are the camera's (siyi_camera_init).
THEOREM AnglesAgree == Spec => []AttitudeAgrees
<1>1. GimbalInv => AttitudeAgrees
  BY DEF GimbalInv
<1> QED BY <1>1, GimbalInvariant, PTL

\* The driver is never called for half a device, wherever its opening failed
\* (device_present, siyi_camera_init, siyi_cam_open).
THEOREM NeverHalfOpen == Spec => []NoHalfDevice
<1>1. GimbalInv => NoHalfDevice
  BY DEF GimbalInv
<1> QED BY <1>1, GimbalInvariant, PTL

\* No command the camera obeys turns it, on either axis, by more than an
\* increment and what the datagrams lost before it would have added, whatever
\* restarted before; but a click centres it (mav_fcu_rc_channels).
THEOREM GimbalDoesNotJump == Spec => NoJump
<1> DEFINE limit == -(slack + Inc + 1) .. slack + Inc + 1
           Turn == stage = "serving" /\ ~adrift /\ ~adrift' =>
                     \/ Centring /\ camera'.yaw = 0 /\ camera'.pitch = 0
                     \/ /\ camera'.yaw - camera.yaw \in limit
                        /\ camera'.pitch - camera.pitch \in limit
<1>1. ASSUME GimbalInv, [Next]_vars PROVE [Turn]_vars
  <2> SUFFICES ASSUME stage = "serving", ~adrift, ~adrift'
               PROVE  Turn
    OBVIOUS
  <2> USE Sets
  <2>1. /\ TypeOK /\ CameraNear /\ Opened
        /\ camera.yaw \in Int /\ camera.pitch \in Int /\ slack \in Nat
        /\ cam_yaw \in Int /\ cam_pitch \in Int
    BY <1>1 DEF GimbalInv, TypeOK
  <2>2. ASSUME camera'.yaw = camera.yaw, camera'.pitch = camera.pitch
        PROVE  Turn
    BY <2>1, <2>2
  <2>3. ASSUME NEW button \in Buttons, NEW scroll \in Raw, NEW lost,
               RcChannels(button, scroll, lost)
        PROVE  Turn
    <3>1. Present
      BY <2>1 DEF Opened, Present
    <3>2. PICK turns \in BOOLEAN :
            /\ turns => /\ camera'.yaw \in Truncated(cam_yaw')
                        /\ camera'.pitch \in Truncated(cam_pitch')
            /\ ~turns => /\ camera'.yaw = camera.yaw
                         /\ camera'.pitch = camera.pitch
      BY <1>1, <2>3, <3>1, RcOrders
    <3>3. CASE ~turns
      BY <2>2, <3>2, <3>3
    <3>4. CASE turns /\ Clicked(button)
      <4>1. cam_yaw' = 0 /\ cam_pitch' = 0
        BY <2>1, <2>3, <3>4, YawStep, PitchStep DEF RcChannels
      <4>2. camera'.yaw = 0 /\ camera'.pitch = 0
        BY <3>2, <3>4, <4>1, TruncatedZero
      <4>3. Centring
        BY <2>3, <3>4 DEF RcChannels, Clicked, Centring
      <4> QED BY <4>2, <4>3
    <3>5. CASE turns /\ ~Clicked(button)
      <4>1. PICK a \in cam_yaw - slack .. cam_yaw + slack :
              camera.yaw \in Truncated(a)
        BY <2>1 DEF CameraNear, Near
      <4>2. PICK b \in cam_pitch - slack .. cam_pitch + slack :
              camera.pitch \in Truncated(b)
        BY <2>1 DEF CameraNear, Near
      <4>3. /\ cam_yaw' \in cam_yaw - Inc .. cam_yaw + Inc
            /\ cam_pitch' \in cam_pitch - Inc .. cam_pitch + Inc
        BY <2>1, <2>3, <3>5, YawStep, PitchStep DEF RcChannels
      <4>4. /\ a \in Int /\ b \in Int /\ slack + Inc \in Nat
            /\ cam_yaw' \in a - (slack + Inc) .. a + (slack + Inc)
            /\ cam_pitch' \in b - (slack + Inc) .. b + (slack + Inc)
        BY <2>1, <4>3
      <4>5. camera'.yaw - camera.yaw \in limit
        BY <3>2, <3>5, <4>1, <4>4, TruncatedStep
      <4>6. camera'.pitch - camera.pitch \in limit
        BY <3>2, <3>5, <4>2, <4>4, TruncatedStep
      <4> QED BY <4>5, <4>6
    <3> QED BY <3>3, <3>4, <3>5
  <2>4. CASE StartUp
    BY <2>4 DEF StartUp, Start, Register, OpenCamera, OpenCameraFails,
                OpenGimbal, OpenGimbalFails, FirstZoom, FirstCentre
  <2>5. CASE ServerEnds
    BY <2>5 DEF ServerEnds, ProcessGone
  <2>6. CASE CameraRestarts
    BY <2>6 DEF CameraRestarts
  <2>7. CASE UNCHANGED vars
    BY <2>2, <2>7 DEF vars, deviceVars
  <2> QED BY <1>1, <2>3, <2>4, <2>5, <2>6, <2>7 DEF Next, Message
<1> QED BY <1>1, GimbalInvariant, PTL DEF Spec, NoJump
=============================================================================
