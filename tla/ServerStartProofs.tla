-------------------------- MODULE ServerStartProofs --------------------------
(***************************************************************************)
(* Proofs about ServerStart, for every number of devices and whatever the  *)
(* files say: the line has the settings of the file, but for stop bits     *)
(* that make no sense, every camera has the stream of its own file, and    *)
(* exactly the enabled ones have been started.                             *)
(***************************************************************************)
EXTENDS ServerStart, TLAPS

\* What the settings are when the checks have been passed one after another.
Before(places) == at \in {"serial"} \cup places

SettingsInv ==
    /\ ~Before({"parity"}) =>
         /\ text.parity \in DOMAIN ParityWords
         /\ serial_cfg.parity = ParityWords[text.parity]
    /\ ~Before({"parity", "data_bits"}) =>
         serial_cfg.data_bits = text.data_bits
    /\ Before({"parity", "data_bits", "stop_bits"}) => serial_cfg.stop_bits = 0
    /\ ~Before({"parity", "data_bits", "stop_bits"}) =>
         serial_cfg.stop_bits = IF text.stop_bits \in DOMAIN StopWords
                                THEN StopWords[text.stop_bits] ELSE 0
    /\ at = "serving" =>
         /\ Supported
         /\ tio = [port |-> text.port, speed |-> Speed(text.baudrate),
                   flags |-> ParityFlags \cup StopFlags,
                   size |-> serial_cfg.data_bits]

\* The loop over the devices: those before id are dealt with, and the variable
\* holds what the file of id has said so far.
LoopInv ==
    /\ at \in {"rc", "open", "serving"} => id >= CameraNumMax
    /\ at = "device" =>
         /\ id \in Ids /\ devs[id].enabled /\ devs[id].type = "siyi"
         /\ given[id] # Null => rtsp_config = given[id]
    /\ at \notin {"dispatch", "device", "rc", "open", "serving"} => id = 0
    /\ \A i \in Ids : i < id =>
         (saver[i] # Null <=> devs[i].enabled /\ devs[i].type = "siyi")
    /\ \A i \in Ids : i >= id => saver[i] = Null
    /\ \A i \in Ids : i >= id /\ given[i] # Null => at = "device" /\ i = id

StartInv == TypeOK /\ SettingsInv /\ LoopInv /\ OwnStream

LEMMA InitStart == Init => StartInv
<1> SUFFICES ASSUME Init PROVE StartInv
  OBVIOUS
<1>1. TypeOK
  BY DEF Init, TypeOK, Places, Files, NoDevice, Closed
<1>2. SettingsInv
  BY DEF Init, SettingsInv, Before
<1>3. LoopInv /\ OwnStream
  BY DEF Init, LoopInv, OwnStream, Ids
<1> QED BY <1>1, <1>2, <1>3 DEF StartInv

\* A process that has ended stays as it was.
LEMMA ExitStep ==
    ASSUME StartInv, NEW c \in {0, 1, 139}, Exit(c)
    PROVE  StartInv'
BY DEF Exit, deviceVars, lineVars, StartInv, TypeOK, SettingsInv, Before,
       Supported, Speed, ParityFlags, StopFlags, LoopInv, OwnStream

\* The settings of the line, through a step that leaves them alone.
LEMMA LineKept ==
    ASSUME StartInv, UNCHANGED lineVars,
           at' = at \/ (at \notin {"serial", "parity", "data_bits", "stop_bits"}
                        /\ at' \in {"dispatch", "device", "rc", "open"})
    PROVE  SettingsInv'
BY DEF lineVars, StartInv, SettingsInv, Before, Supported, Speed, ParityFlags,
       StopFlags

\* The devices, through a step that leaves them alone.
LEMMA DevicesKept ==
    ASSUME StartInv, UNCHANGED deviceVars,
           \/ at' \notin {"device", "rc", "open", "serving"}
              /\ at \notin {"dispatch", "device", "rc", "open", "serving"}
           \/ at \in {"rc", "open"} /\ at' \in {"rc", "open", "serving"}
    PROVE  LoopInv' /\ OwnStream'
BY DEF deviceVars, StartInv, LoopInv, OwnStream

LEMMA ReadSerialStep ==
    ASSUME StartInv, SerialEntry
    PROVE  StartInv'
<1>1. at = "serial" /\ at' = at /\ UNCHANGED <<deviceVars, serial_cfg, tio, code>>
  BY DEF SerialEntry, ReadSerial
<1>2. text' \in [port : Ports \cup {Null}, baudrate : Numbers \cup {0},
                 parity : Words \cup {Unset}, data_bits : Numbers \cup {0},
                 stop_bits : Words \cup {Unset}]
  BY DEF StartInv, TypeOK, SerialEntry, ReadSerial
<1>3. TypeOK'
  BY <1>1, <1>2 DEF StartInv, TypeOK, deviceVars
<1>4. SettingsInv'
  BY <1>1 DEF StartInv, SettingsInv, Before
<1>5. LoopInv' /\ OwnStream'
  BY <1>1, DevicesKept
<1> QED BY <1>3, <1>4, <1>5 DEF StartInv

LEMMA CheckStep ==
    ASSUME StartInv, SerialEnd \/ CheckParity \/ CheckDataBits \/ CheckStopBits
    PROVE  StartInv'
<1>1. CASE SerialEnd
  <2>1. TypeOK' /\ SettingsInv'
    BY <1>1 DEF SerialEnd, GoTo, deviceVars, lineVars, StartInv, TypeOK,
                Places, SettingsInv, Before
  <2>2. LoopInv' /\ OwnStream'
    BY <1>1, DevicesKept DEF SerialEnd, GoTo
  <2> QED BY <2>1, <2>2 DEF StartInv
<1>2. CASE CheckParity /\ text.parity \in DOMAIN ParityWords
  <2>1. /\ at = "parity" /\ at' = "data_bits" /\ UNCHANGED code
        /\ UNCHANGED <<deviceVars, text, tio>>
        /\ serial_cfg' = [serial_cfg EXCEPT
                            !.parity = ParityWords[text.parity]]
    BY <1>2 DEF CheckParity, GoTo
  <2>2. ParityWords[text.parity] \in 0 .. 4
    BY <1>2 DEF ParityWords
  <2>3. TypeOK'
    BY <2>1, <2>2 DEF StartInv, TypeOK, Places, deviceVars
  <2>4. SettingsInv'
    BY <1>2, <2>1 DEF StartInv, TypeOK, SettingsInv, Before
  <2>5. LoopInv' /\ OwnStream'
    BY <2>1, DevicesKept
  <2> QED BY <2>3, <2>4, <2>5 DEF StartInv
<1>3. CASE CheckDataBits /\ DataBitsValid(text.data_bits)
  <2>1. /\ at = "data_bits" /\ at' = "stop_bits" /\ UNCHANGED code
        /\ UNCHANGED <<deviceVars, text, tio>>
        /\ serial_cfg' = [serial_cfg EXCEPT !.data_bits = text.data_bits]
    BY <1>3 DEF CheckDataBits, GoTo
  <2>2. text.data_bits \in 0 .. 8
    <3>1. text.data_bits \in Numbers \cup {0}
      BY DEF StartInv, TypeOK
    <3>2. \A n \in Numbers \cup {0} : n \in Nat
      BY StartAssumption
    <3>3. text.data_bits \in Nat
      BY <3>1, <3>2, Zenon
    <3> QED BY <1>3, <3>3 DEF DataBitsValid
  <2>3. TypeOK'
    BY <2>1, <2>2 DEF StartInv, TypeOK, Places, deviceVars
  <2>4. SettingsInv'
    BY <2>1 DEF StartInv, TypeOK, SettingsInv, Before
  <2>5. LoopInv' /\ OwnStream'
    BY <2>1, DevicesKept
  <2> QED BY <2>3, <2>4, <2>5 DEF StartInv
<1>4. CASE CheckStopBits
  <2> DEFINE stop == IF text.stop_bits \in DOMAIN StopWords
                     THEN StopWords[text.stop_bits] ELSE 0
  <2>1. /\ at = "stop_bits" /\ at' = "devices" /\ UNCHANGED code
        /\ UNCHANGED <<deviceVars, text, tio>>
        /\ serial_cfg' = [serial_cfg EXCEPT !.stop_bits = stop]
    BY <1>4 DEF CheckStopBits, GoTo, StartInv, SettingsInv, Before, TypeOK
  <2>2. stop \in 0 .. 2
    BY DEF StopWords
  <2> HIDE DEF stop
  <2>3. TypeOK'
    <3>1. serial_cfg' \in [parity : 0 .. 4, data_bits : 0 .. 8,
                           stop_bits : 0 .. 2]
      BY <2>1, <2>2 DEF StartInv, TypeOK
    <3> QED BY <2>1, <3>1 DEF StartInv, TypeOK, Places, Files, deviceVars
  <2>4. serial_cfg'.stop_bits = stop
    BY <2>1 DEF StartInv, TypeOK
  <2>5. SettingsInv'
    BY <2>1, <2>4 DEF StartInv, TypeOK, SettingsInv, Before, stop
  <2>6. LoopInv' /\ OwnStream'
    BY <2>1, DevicesKept
  <2> QED BY <2>3, <2>5, <2>6 DEF StartInv
<1>5. CASE Exit(1)
  BY <1>5, ExitStep
<1> QED BY <1>1, <1>2, <1>3, <1>4, <1>5 DEF CheckParity, CheckDataBits

LEMMA DispatchStep ==
    ASSUME StartInv, Dispatch
    PROVE  StartInv'
<1> USE StartAssumption
<1>1. at = "dispatch"
  BY DEF Dispatch
<1>2. CASE GoTo("rc") /\ id >= CameraNumMax /\ UNCHANGED <<deviceVars, lineVars>>
  <2>1. TypeOK'
    BY <1>2 DEF GoTo, StartInv, TypeOK, Places, Files, deviceVars, lineVars
  <2>2. LoopInv' /\ OwnStream'
    BY <1>1, <1>2 DEF GoTo, StartInv, LoopInv, OwnStream, deviceVars
  <2> QED BY <1>1, <1>2, <2>1, <2>2, LineKept DEF GoTo, StartInv
<1>3. CASE /\ id < CameraNumMax /\ Skipped /\ id' = id + 1
           /\ UNCHANGED <<at, devs, rtsp_config, given, saver, lineVars, code>>
  <2>1. TypeOK'
    BY <1>3 DEF StartInv, TypeOK, lineVars
  <2>2. id \in Ids /\ id \in Nat
    BY <1>3 DEF Ids, StartInv, TypeOK
  <2>3. \A i \in Ids : i < id + 1 => i < id \/ i = id
    BY <2>2 DEF Ids
  <2>4. saver[id] = Null
    BY <2>2 DEF StartInv, LoopInv
  <2>5. LoopInv' /\ OwnStream'
    BY <1>1, <1>3, <2>2, <2>3, <2>4
       DEF Skipped, Ids, StartInv, LoopInv, OwnStream
  <2> QED BY <1>3, <2>1, <2>5, LineKept DEF StartInv
<1>4. CASE /\ id < CameraNumMax /\ ~Skipped /\ devs[id].type = "siyi"
           /\ GoTo("device") /\ UNCHANGED <<deviceVars, lineVars>>
  <2>1. TypeOK'
    BY <1>4 DEF GoTo, StartInv, TypeOK, Places, Files, deviceVars, lineVars
  <2>2. id \in Ids
    BY <1>4 DEF Ids, StartInv, TypeOK
  <2>3. LoopInv'
    BY <1>1, <1>4, <2>2
       DEF GoTo, StartInv, TypeOK, LoopInv, deviceVars, Skipped
  <2>4. SettingsInv' /\ OwnStream'
    BY <1>1, <1>4, LineKept DEF GoTo, StartInv, OwnStream, deviceVars
  <2> QED BY <2>1, <2>3, <2>4 DEF StartInv
<1>5. CASE Exit(0) \/ Exit(139)
  BY <1>5, ExitStep
<1>6. id \in Nat
  BY DEF StartInv, TypeOK
<1> QED BY <1>2, <1>3, <1>4, <1>5, <1>6 DEF Dispatch

LEMMA DeviceStep ==
    ASSUME StartInv
    PROVE  /\ \A i \in Ids : ReadDevice(i) => StartInv'
           /\ DevicesEnd => StartInv'
           /\ \A url \in Urls : ReadDeviceFile(url) => StartInv'
           /\ DeviceEnd => StartInv'
           /\ RcEnd => StartInv'
<1> USE StartAssumption
<1>1. ASSUME NEW i \in Ids, ReadDevice(i) PROVE StartInv'
  <2>1. /\ at = "devices" /\ devs' \in [Ids -> [type : Types \cup {Null},
                                              enabled : BOOLEAN]]
        /\ UNCHANGED <<at, id, rtsp_config, given, saver, lineVars, code>>
    BY SMTT(60), <1>1 DEF ReadDevice, StartInv, TypeOK
  <2>2. TypeOK'
    BY <2>1 DEF StartInv, TypeOK, lineVars
  <2>3. LoopInv' /\ OwnStream'
    BY <2>1 DEF StartInv, LoopInv, OwnStream, Ids
  <2> QED BY <2>1, <2>2, <2>3, LineKept DEF StartInv
<1>2. ASSUME DevicesEnd PROVE StartInv'
  <2>1. TypeOK'
    BY <1>2 DEF DevicesEnd, GoTo, StartInv, TypeOK, Places, deviceVars, lineVars
  <2>2. LoopInv' /\ OwnStream'
    BY <1>2 DEF DevicesEnd, GoTo, StartInv, LoopInv, OwnStream, deviceVars
  <2>3. SettingsInv'
    BY <1>2, LineKept DEF DevicesEnd, GoTo
  <2> QED BY <2>1, <2>2, <2>3 DEF StartInv
<1>3. ASSUME NEW url \in Urls, ReadDeviceFile(url) PROVE StartInv'
  <2>1. /\ at = "device" /\ rtsp_config' = url
        /\ given' = [given EXCEPT ![id] = url]
        /\ UNCHANGED <<at, devs, id, saver, lineVars, code>>
    BY <1>3 DEF ReadDeviceFile
  <2>2. id \in Ids /\ saver[id] = Null
    BY <2>1 DEF StartInv, LoopInv, TypeOK, Ids
  <2>3. TypeOK'
    BY <2>1, <2>2 DEF StartInv, TypeOK, lineVars
  <2>4. LoopInv' /\ OwnStream'
    BY <2>1, <2>2 DEF StartInv, LoopInv, OwnStream, TypeOK
  <2> QED BY <2>1, <2>3, <2>4, LineKept DEF StartInv
<1>4. ASSUME DeviceEnd PROVE StartInv'
  <2>1. /\ at = "device" /\ at' = "dispatch" /\ rtsp_config' \in Urls
        /\ saver' = [saver EXCEPT ![id] = rtsp_config]
        /\ id' = id + 1
        /\ UNCHANGED <<devs, given, lineVars, code>>
    BY <1>4 DEF DeviceEnd, Copied, GoTo
  <2>2. /\ id \in Ids /\ id \in Nat
        /\ devs[id].enabled /\ devs[id].type = "siyi"
        /\ given[id] # Null => rtsp_config = given[id]
        /\ rtsp_config \in Urls /\ rtsp_config # Null
    BY <2>1 DEF StartInv, LoopInv, TypeOK, Null
  <2>3. TypeOK'
    BY <2>1, <2>2 DEF StartInv, TypeOK, Places, lineVars
  <2>4. \A i \in Ids : i < id + 1 => i < id \/ i = id
    BY <2>2 DEF Ids
  <2>5. saver \in [Ids -> Urls \cup {Null}]
    BY DEF StartInv, TypeOK
  <2>6. \A i \in Ids : i # id => saver'[i] = saver[i]
    BY <2>1, <2>5
  <2>7. saver'[id] = rtsp_config
    BY <2>1, <2>2, <2>5
  <2>8. OwnStream'
    BY <2>1, <2>2, <2>6, <2>7 DEF StartInv, OwnStream
  <2>9. LoopInv'
    <3>1. \A i \in Ids : i < id' =>
            (saver'[i] # Null <=> devs'[i].enabled /\ devs'[i].type = "siyi")
      BY <2>1, <2>2, <2>4, <2>6, <2>7 DEF StartInv, LoopInv
    <3>2. \A i \in Ids : i >= id' => i >= id /\ i # id
      BY <2>1, <2>2 DEF Ids
    <3> QED BY <2>1, <2>6, <3>1, <3>2 DEF StartInv, LoopInv
  <2>10. SettingsInv'
    BY <2>1, LineKept
  <2> QED BY <2>3, <2>8, <2>9, <2>10 DEF StartInv
<1>5. ASSUME RcEnd PROVE StartInv'
  <2>1. TypeOK'
    BY <1>5 DEF RcEnd, GoTo, StartInv, TypeOK, Places, deviceVars, lineVars
  <2>2. LoopInv' /\ OwnStream'
    BY <1>5, DevicesKept DEF RcEnd, GoTo
  <2>3. SettingsInv'
    BY <1>5, LineKept DEF RcEnd, GoTo
  <2> QED BY <2>1, <2>2, <2>3 DEF StartInv
<1> QED BY <1>1, <1>2, <1>3, <1>4, <1>5

LEMMA OpenStep ==
    ASSUME StartInv, SerialOpen
    PROVE  StartInv'
<1>1. CASE Exit(1)
  BY <1>1, ExitStep
<1>2. CASE ~Exit(1)
  <2>1. /\ at = "open" /\ at' = "serving" /\ Supported
        /\ tio' = [port |-> text.port, speed |-> Speed(text.baudrate),
                   flags |-> ParityFlags \cup StopFlags,
                   size |-> serial_cfg.data_bits]
        /\ UNCHANGED <<deviceVars, text, serial_cfg, code>>
    BY <1>2 DEF SerialOpen, GoTo
  <2>2. tio' \in [port : Ports \cup {Null}, speed : Rates \cup {0},
                  size : 0 .. 8, flags : SUBSET {"PARENB", "PARODD", "CSTOPB"}]
    <3>1. Speed(text.baudrate) \in Rates \cup {0}
      BY DEF Speed
    <3>2. ParityFlags \cup StopFlags \in SUBSET {"PARENB", "PARODD", "CSTOPB"}
      BY <2>1 DEF Supported, ParityFlags, StopFlags, ParityWords
    <3>3. serial_cfg.data_bits \in 0 .. 8 /\ text.port \in Ports \cup {Null}
      BY DEF StartInv, TypeOK
    <3> QED BY <2>1, <3>1, <3>2, <3>3
  <2>3. TypeOK'
    BY <2>1, <2>2 DEF StartInv, TypeOK, Places, deviceVars
  <2>4. SettingsInv'
    BY <2>1 DEF StartInv, SettingsInv, Before, Supported, ParityFlags, StopFlags
  <2>5. LoopInv' /\ OwnStream'
    BY <2>1, DevicesKept
  <2> QED BY <2>3, <2>4, <2>5 DEF StartInv
<1> QED BY <1>1, <1>2

LEMMA StepStart == StartInv /\ [Next]_vars => StartInv'
<1> SUFFICES ASSUME StartInv, [Next]_vars PROVE StartInv'
  OBVIOUS
<1>1. CASE ReadFails
  BY <1>1, ExitStep DEF ReadFails
<1>2. CASE SerialEntry
  BY <1>2, ReadSerialStep
<1>3. CASE SerialEnd \/ CheckParity \/ CheckDataBits \/ CheckStopBits
  BY <1>3, CheckStep
<1>4. CASE Dispatch
  BY <1>4, DispatchStep
<1>5. CASE \/ \E i \in Ids : ReadDevice(i)
           \/ DevicesEnd
           \/ \E url \in Urls : ReadDeviceFile(url)
           \/ DeviceEnd \/ RcEnd
  BY <1>5, DeviceStep
<1>6. CASE SerialOpen
  BY <1>6, OpenStep
<1>7. CASE UNCHANGED vars
  BY <1>7 DEF vars, deviceVars, lineVars, StartInv, TypeOK, SettingsInv, Before,
              Supported, Speed, ParityFlags, StopFlags, LoopInv, OwnStream
<1> QED BY <1>1, <1>2, <1>3, <1>4, <1>5, <1>6, <1>7 DEF Next, Done

LEMMA StartInvariant == Spec => []StartInv
<1> QED BY InitStart, StepStart, PTL DEF Spec
-----------------------------------------------------------------------------
(* The theorems *)

\* Every variable keeps its type through all conversions (config.c, serial.c).
THEOREM StartTyped == Spec => []TypeOK
<1>1. StartInv => TypeOK
  BY DEF StartInv
<1> QED BY <1>1, StartInvariant, PTL

\* A line that is served is the port of the file with the settings the file asks
\* for, as long as its stop bits are one of the words, or left out
\* (load_serial_configs, serial_open).
THEOREM ServedAsWritten == Spec => []LineAsWritten
<1>1. ASSUME StartInv, at = "serving"
      PROVE  /\ tio.port = text.port
             /\ tio.speed = text.baudrate /\ tio.size = text.data_bits
             /\ text.parity = IF "PARENB" \notin tio.flags THEN "N"
                              ELSE IF "PARODD" \in tio.flags THEN "O" ELSE "E"
             /\ text.stop_bits \in DOMAIN StopWords \cup {Unset} =>
                  text.stop_bits \in IF "CSTOPB" \in tio.flags THEN {"two"}
                                     ELSE {"one", Unset}
  <2>1. /\ Supported
        /\ tio = [port |-> text.port, speed |-> Speed(text.baudrate),
                  flags |-> ParityFlags \cup StopFlags,
                  size |-> serial_cfg.data_bits]
        /\ serial_cfg.data_bits = text.data_bits
        /\ text.parity \in DOMAIN ParityWords
        /\ serial_cfg.parity = ParityWords[text.parity]
        /\ serial_cfg.stop_bits = IF text.stop_bits \in DOMAIN StopWords
                                  THEN StopWords[text.stop_bits] ELSE 0
    BY <1>1 DEF StartInv, SettingsInv, Before
  <2>2. /\ tio.port = text.port
        /\ tio.speed = text.baudrate /\ tio.size = text.data_bits
    BY <2>1 DEF Supported, Speed
  <2>3. text.parity \in {"N", "O", "E"}
    BY <2>1 DEF Supported, ParityWords
  <2>4. text.parity = IF "PARENB" \notin tio.flags THEN "N"
                      ELSE IF "PARODD" \in tio.flags THEN "O" ELSE "E"
    <3>1. "PARODD" \notin StopFlags /\ "PARENB" \notin StopFlags
      BY DEF StopFlags
    <3>2. CASE text.parity = "N"
      <4>1. ParityFlags = {}
        BY <2>1, <3>2 DEF ParityFlags, ParityWords
      <4> QED BY <2>1, <3>1, <3>2, <4>1
    <3>3. CASE text.parity = "O"
      <4>1. ParityFlags = {"PARENB", "PARODD"}
        BY <2>1, <3>3 DEF ParityFlags, ParityWords
      <4>2. "PARODD" \in tio.flags /\ "PARENB" \in tio.flags
        BY <2>1, <4>1
      <4> QED BY <3>3, <4>2
    <3>4. CASE text.parity = "E"
      <4>1. ParityFlags = {"PARENB"}
        BY <2>1, <3>4 DEF ParityFlags, ParityWords
      <4>2. "PARODD" \notin tio.flags /\ "PARENB" \in tio.flags
        BY <2>1, <3>1, <4>1
      <4> QED BY <3>4, <4>2
    <3> QED BY <2>3, <3>2, <3>3, <3>4
  <2>5. "CSTOPB" \in tio.flags <=> serial_cfg.stop_bits = StopWords.two
    BY <2>1, <2>3 DEF ParityWords, ParityFlags, StopFlags
  <2>6. text.stop_bits \in DOMAIN StopWords \cup {Unset} =>
          text.stop_bits \in IF "CSTOPB" \in tio.flags THEN {"two"}
                             ELSE {"one", Unset}
    <3>1. DOMAIN StopWords = {"one", "one_half", "two"} /\ Unset = "unset"
      BY DEF StopWords, Unset
    <3>2. /\ StopWords["one"] = 0 /\ StopWords["one_half"] = 1
          /\ StopWords["two"] = 2 /\ StopWords.one = 0 /\ StopWords.two = 2
      BY DEF StopWords
    <3> DEFINE word == text.stop_bits
               stop == serial_cfg.stop_bits
    <3>3. stop = IF word \in {"one", "one_half", "two"}
                 THEN StopWords[word] ELSE 0
      BY <2>1, <3>1
    <3>4. ("CSTOPB" \in tio.flags <=> stop = 2) /\ stop \in {0, 2}
      BY <2>1, <2>5, <3>2 DEF Supported
    <3> HIDE DEF word, stop
    <3>5. word \in {"one", "one_half", "two", "unset"} =>
            word \in IF stop = 2 THEN {"two"} ELSE {"one", "unset"}
      <4>1. word = "one" => stop = 0
        BY <3>2, <3>3
      <4>2. word = "one_half" => stop = 1
        BY <3>2, <3>3
      <4>3. word = "two" => stop = 2
        BY <3>2, <3>3
      <4>4. word = "unset" => stop = 0
        BY <3>3
      <4>5. CASE stop = 2
        BY <4>1, <4>2, <4>4, <4>5
      <4>6. CASE stop = 0
        BY <4>2, <4>3, <4>6
      <4> QED BY <3>4, <4>5, <4>6
    <3> QED BY <3>1, <3>4, <3>5 DEF word
  <2> QED BY <2>2, <2>4, <2>5, <2>6
<1>2. StartInv => LineAsWritten
  BY <1>1 DEF LineAsWritten
<1> QED BY <1>2, StartInvariant, PTL

\* A camera's thread keeps the stream of its own file (rtsp_open).
THEOREM StreamsOwn == Spec => []OwnStream
<1>1. StartInv => OwnStream
  BY DEF StartInv
<1> QED BY <1>1, StartInvariant, PTL

\* Exactly the enabled devices have been started (load_devices_configs).
THEOREM AllStarted == Spec => []CamerasStarted
<1>1. StartInv => CamerasStarted
  BY StartAssumption DEF StartInv, TypeOK, LoopInv, CamerasStarted, Ids
<1> QED BY <1>1, StartInvariant, PTL
=============================================================================
