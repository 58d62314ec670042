----------------------------- MODULE ServerStart -----------------------------
(***************************************************************************)
(* The start of a server, from the YAML files to the line: main (main.c)   *)
(* loads serial.yaml, devices.yaml with one file per enabled device, and   *)
(* rc.yaml (config.c); an enabled device gets a thread of its own          *)
(* (rtsp_stream.c); then the UART thread opens the serial port (serial.c). *)
(*                                                                         *)
(* A file is a stream of scalars, a key and its value in turns; the reader *)
(* keeps no table of what it has seen, so that keys may be missing or come *)
(* twice.  What is not a key of the file, or not a scalar, ends the        *)
(* process, and so do a file that is missing and one that does not parse.  *)
(***************************************************************************)
EXTENDS Integers

CONSTANTS
    CameraNumMax,       \* 6: the devices that devices.yaml may configure
    Ports,              \* the names of serial ports that exist
    Numbers,            \* the numbers written in the files
    Words,              \* the words written for parity and stop bits
    Types,              \* the words written for the type of a device
    Urls                \* the streams that device files name

ASSUME StartAssumption ==
    /\ CameraNumMax \in Nat
    /\ Numbers \subseteq Nat
    /\ "null" \notin Ports \cup Types \cup Urls

Ids == 0 .. CameraNumMax - 1

\* A key that was not in the file: a null pointer, an empty word or a zero.
Null == "null"
Unset == "unset"

VARIABLES
    at,                 \* the file, the check or the call main has come to
    text,               \* what was last read from serial.yaml
    serial_cfg,         \* parity, data bits and stop bits as enumerated
    devs,               \* the devices, as configured
    id,                 \* the device the loop is at
    rtsp_config,        \* the local variable of siyi_camera_init
    given,              \* history: the stream named in the device's own file
    saver,              \* the copy that a device's thread has
    tio,                \* the port and the settings of the open line
    code                \* the exit code, or -1

deviceVars == <<devs, id, rtsp_config, given, saver>>
lineVars == <<text, serial_cfg, tio>>
vars == <<at, deviceVars, lineVars, code>>

Running == code = -1

NoDevice == [type |-> Null, enabled |-> FALSE]
Closed == [port |-> Null, speed |-> 0, flags |-> {}, size |-> 0]

Init ==
    /\ at = "serial"
    /\ text = [port |-> Null, baudrate |-> 0, parity |-> Unset,
               data_bits |-> 0, stop_bits |-> Unset]
    /\ serial_cfg = [parity |-> 0, data_bits |-> 0, stop_bits |-> 0]
    /\ devs = [i \in Ids |-> NoDevice]
    /\ id = 0
    /\ rtsp_config \in Urls
    /\ given = [i \in Ids |-> Null]
    /\ saver = [i \in Ids |-> Null]
    /\ tio = Closed
    /\ code = -1

Exit(c) ==
    /\ code' = c
    /\ UNCHANGED <<at, deviceVars, lineVars>>

\* The next file or call; deviceVars and lineVars are left to the action.
GoTo(a) == at' = a /\ UNCHANGED code
-----------------------------------------------------------------------------
(* READ_PARAM: what every file has in common *)

Files == {"serial", "devices", "device", "rc"}

\* A missing file, an error of the parser, a key that is not known, a value
\* that is not a scalar or not a boolean.
ReadFails ==
    /\ Running /\ at \in Files
    /\ Exit(1)

\* The last value of a key counts.
ReadSerial(key, value) ==
    /\ Running /\ at = "serial"
    /\ text' = [text EXCEPT ![key] = value]
    /\ UNCHANGED <<at, deviceVars, serial_cfg, tio, code>>

SerialEntry ==
    \/ \E p \in Ports : ReadSerial("port", p)
    \/ \E n \in Numbers :
         ReadSerial("baudrate", n) \/ ReadSerial("data_bits", n)
    \/ \E w \in Words :
         ReadSerial("parity", w) \/ ReadSerial("stop_bits", w)

SerialEnd ==
    /\ Running /\ at = "serial"
    /\ GoTo("parity")
    /\ UNCHANGED <<deviceVars, lineVars>>
-----------------------------------------------------------------------------
(* load_serial_configs: the checks, in their order *)

\* enum SerialParity and enum SerialStopBits, as the words stand for them
ParityWords == [N |-> 0, O |-> 1, E |-> 2, M |-> 3, S |-> 4]
StopWords == [one |-> 0, one_half |-> 1, two |-> 2]

CheckParity ==
    /\ Running /\ at = "parity"
    /\ IF text.parity \in DOMAIN ParityWords
       THEN /\ serial_cfg' = [serial_cfg EXCEPT
                                !.parity = ParityWords[text.parity]]
            /\ GoTo("data_bits")
            /\ UNCHANGED <<deviceVars, text, tio>>
       ELSE Exit(1)

\* data_bits was stored when it was read.
DataBitsValid(n) == n >= 5 /\ n <= 8
CheckDataBits ==
    /\ Running /\ at = "data_bits"
    /\ IF DataBitsValid(text.data_bits)
       THEN /\ serial_cfg' = [serial_cfg EXCEPT !.data_bits = text.data_bits]
            /\ GoTo("stop_bits")
            /\ UNCHANGED <<deviceVars, text, tio>>
       ELSE Exit(1)

\* What is no number of stop bits is only complained about: the field keeps
\* its zero, which is the value of one stop bit.
CheckStopBits ==
    /\ Running /\ at = "stop_bits"
    /\ serial_cfg' = [serial_cfg EXCEPT !.stop_bits =
                        IF text.stop_bits \in DOMAIN StopWords
                        THEN StopWords[text.stop_bits] ELSE @]
    /\ GoTo("devices")
    /\ UNCHANGED <<deviceVars, text, tio>>
-----------------------------------------------------------------------------
(* load_devices_configs, siyi_camera_init, rtsp_open *)

ReadDevice(i) ==
    /\ Running /\ at = "devices"
    /\ \/ \E t \in Types : devs' = [devs EXCEPT ![i].type = t]
       \/ \E b \in BOOLEAN : devs' = [devs EXCEPT ![i].enabled = b]
    /\ UNCHANGED <<at, id, rtsp_config, given, saver, lineVars, code>>

DevicesEnd ==
    /\ Running /\ at = "devices"
    /\ GoTo("dispatch")
    /\ UNCHANGED <<deviceVars, lineVars>>

Skipped_none == devs[id].type = "none"
Skipped == ~devs[id].enabled \/ devs[id].type = "none"

\* One round of the loop.  A null type is a null pointer to strcmp, which ends
\* the process by a signal.
Dispatch ==
    /\ Running /\ at = "dispatch"
    /\ IF id >= CameraNumMax THEN
         GoTo("rc") /\ UNCHANGED <<deviceVars, lineVars>>
       ELSE IF Skipped THEN
         /\ id' = id + 1
         /\ UNCHANGED <<at, devs, rtsp_config, given, saver, lineVars, code>>
       ELSE IF devs[id].type = "siyi" THEN
         GoTo("device") /\ UNCHANGED <<deviceVars, lineVars>>
       ELSE IF devs[id].type = Null THEN Exit(139)
       ELSE Exit(0)

\* load_siyi_configs fills in a variable that nobody initialised.
ReadDeviceFile(url) ==
    /\ Running /\ at = "device"
    /\ rtsp_config' = url
    /\ given' = [given EXCEPT ![id] = url]
    /\ UNCHANGED <<at, devs, id, saver, lineVars, code>>

\* camera_open starts a thread, with a copy of the configuration; the variable
\* itself is gone when siyi_camera_init returns, and what the next call finds
\* in its place is anything.
Copied_pointer == [i \in Ids |-> IF saver[i] # Null \/ i = id
                                 THEN rtsp_config' ELSE Null]
Copied == [saver EXCEPT ![id] = rtsp_config]
DeviceEnd ==
    /\ Running /\ at = "device"
    /\ rtsp_config' \in Urls
    /\ saver' = Copied
    /\ id' = id + 1
    /\ GoTo("dispatch")
    /\ UNCHANGED <<devs, given, lineVars>>

\* load_rc_configs: its values are the subject of GimbalControl.
RcEnd ==
    /\ Running /\ at = "rc"
    /\ GoTo("open")
    /\ UNCHANGED <<deviceVars, lineVars>>
-----------------------------------------------------------------------------
(* run_uart_server: serial_open *)

\* convert_baudrate, where every rate is defined; 0 stands for B0.
Rates == {50, 75, 110, 134, 150, 200, 300, 600, 1200, 1800, 2400, 4800, 9600,
          19200, 38400, 57600, 115200, 230400, 460800, 500000, 576000, 921600,
          1000000, 1152000, 1500000, 2000000, 2500000, 3000000, 3500000,
          4000000}
Speed(baudrate) == IF baudrate \in Rates THEN baudrate ELSE 0

\* One and a half stop bits, mark and space are refused: termios lacks them.
Supported ==
    /\ Speed(text.baudrate) # 0
    /\ text.port # Null
    /\ serial_cfg.stop_bits \in {StopWords.one, StopWords.two}
    /\ serial_cfg.parity \in {ParityWords.N, ParityWords.O, ParityWords.E}
    /\ serial_cfg.data_bits \in 5 .. 8

\* The flags of c_cflag.
ParityFlags_oddForEven ==
    IF serial_cfg.parity = ParityWords.N THEN {} ELSE {"PARENB", "PARODD"}
ParityFlags ==
    CASE serial_cfg.parity = ParityWords.N -> {}
      [] serial_cfg.parity = ParityWords.O -> {"PARENB", "PARODD"}
      [] serial_cfg.parity = ParityWords.E -> {"PARENB"}
StopFlags == IF serial_cfg.stop_bits = StopWords.two THEN {"CSTOPB"} ELSE {}

\* The device may be missing, or refuse the settings.
SerialOpen ==
    /\ Running /\ at = "open"
    /\ \/ /\ Supported
          /\ tio' = [port |-> text.port, speed |-> Speed(text.baudrate),
                     flags |-> ParityFlags \cup StopFlags,
                     size |-> serial_cfg.data_bits]
          /\ GoTo("serving")
          /\ UNCHANGED <<deviceVars, text, serial_cfg>>
       \/ Exit(1)

\* The process has ended, or serves.
Done == (~Running \/ at = "serving") /\ UNCHANGED vars

Next ==
    \/ ReadFails \/ SerialEntry \/ SerialEnd
    \/ CheckParity \/ CheckDataBits \/ CheckStopBits
    \/ \E i \in Ids : ReadDevice(i)
    \/ DevicesEnd \/ Dispatch
    \/ \E url \in Urls : ReadDeviceFile(url)
    \/ DeviceEnd \/ RcEnd \/ SerialOpen \/ Done

Spec == Init /\ [][Next]_vars
-----------------------------------------------------------------------------
(* Properties *)

Places == Files \cup {"parity", "data_bits", "stop_bits", "dispatch", "open",
                      "serving"}

TypeOK ==
    /\ at \in Places
    /\ text \in [port : Ports \cup {Null}, baudrate : Numbers \cup {0},
                 parity : Words \cup {Unset}, data_bits : Numbers \cup {0},
                 stop_bits : Words \cup {Unset}]
    /\ serial_cfg \in [parity : 0 .. 4, data_bits : 0 .. 8, stop_bits : 0 .. 2]
    /\ devs \in [Ids -> [type : Types \cup {Null}, enabled : BOOLEAN]]
    /\ id \in Nat
    /\ rtsp_config \in Urls
    /\ given \in [Ids -> Urls \cup {Null}]
    /\ saver \in [Ids -> Urls \cup {Null}]
    /\ tio \in [port : Ports \cup {Null}, speed : Rates \cup {0},
                size : 0 .. 8, flags : SUBSET {"PARENB", "PARODD", "CSTOPB"}]
    /\ code \in {-1, 0, 1, 139}

\* A line that is served is the port the file names, with the settings the file
\* asks for, after three conversions (words to enumerations, a copy,
\* enumerations to flags), and a file that asks for what termios cannot have is
\* not served with something else.  Of the stop bits this is so for the three
\* words and for none, which stands for one: any other word is complained about
\* and served as one (load_serial_configs, serial_open).
LineAsWritten ==
    at = "serving" =>
        /\ tio.port = text.port
        /\ tio.speed = text.baudrate /\ tio.size = text.data_bits
        /\ text.parity = IF "PARENB" \notin tio.flags THEN "N"
                         ELSE IF "PARODD" \in tio.flags THEN "O" ELSE "E"
        /\ text.stop_bits \in DOMAIN StopWords \cup {Unset} =>
             text.stop_bits \in IF "CSTOPB" \in tio.flags THEN {"two"}
                                ELSE {"one", Unset}

\* Every camera's thread goes on using the stream of its own file, although
\* all devices are read into the same variable, which is gone by the time the
\* thread looks (siyi_camera_init, rtsp_open).
OwnStream ==
    \A i \in Ids : saver[i] # Null /\ given[i] # Null => saver[i] = given[i]

\* When the server serves, every device that is enabled and of a known type
\* has its thread, and no other device has one (load_devices_configs).
CamerasStarted ==
    at = "serving" =>
        \A i \in Ids : saver[i] # Null
                       <=> devs[i].enabled /\ devs[i].type = "siyi"
=============================================================================
