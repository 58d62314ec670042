# Verification of the UAV mission server

The UAV mission server connects a flight controller on a serial port with TCP
clients, with a camera and gimbal, and with a command line tool. This directory
holds TLA+ models of it, the TLC configurations that check them on small instances,
and proofs checked by TLAPS. Source paths below are relative to the repository.

## 1. Inventory

### Components

| Component | Code | State | Operations |
|---|---|---|---|
| UART server | `src/uart_server.c` | client list `g_clients`, `g_last_id`, `g_commanding_client`, `g_waiters`, statics `last_commander`, `tryout` | poll loop; accept and terminate a client; fan-out of serial data; command of the port; user commands; signals; shut-down |
| Serial port | `src/serial.c` | the descriptor and its termios settings | open, read, write until done or refused |
| MAVLink receiver | `src/mavlink_receiver.c` | `serial_is_ready`, `fcu_sysid`, statics of the RC handler | ping, GPS, RC channels, COMMAND_LONG, AUTOPILOT_VERSION |
| MAVLink publisher | `src/mavlink_publisher.c` | `video_status` | pack and send a message under `serial_tx_mtx`; heartbeat thread |
| RTSP camera | `src/rtsp_stream.c` | `gst_data_t`: `camera_ready`, `recording`, `busy`, `snapshot_request`, file name, pipeline | start, change the record state, snapshot, end-of-stream probe, new-sample callback |
| SIYI gimbal | `src/siyi_camera.c`, `src/crc16.c` | a UDP socket; the camera's own zoom and attitude | zoom, rotate, centre: pack and send, no reply |
| Device registry | `src/device.c` | `camera_devs[6]` | register; dispatch to the driver's functions |
| Configuration | `src/config.c` | serial, device and RC settings | read three YAML files before any thread starts |
| Main, commander | `src/main.c` | the command FIFO | start the threads; or write one command to the FIFO |
| Pid file | `src/system.c` | a file | create, read, delete |

### How they interact

Four kinds of threads run. The **UART thread** owns the client list and runs
everything that is caused by a descriptor: clients, serial input, the FIFO. A chunk
read from the serial port is first parsed by the MAVLink receiver, whose handlers
call the publisher (answers on the same port), the camera and the gimbal, and is
then sent to every client. The **transmit thread** sends a heartbeat once a second,
on the same serial port; the two share `serial_tx_mtx`. **`rtsp_saver`**, one per
camera, starts the pipeline and waits for an error, and GStreamer's **streaming
threads** run the two callbacks of the camera; they share the camera's flags with
the UART thread, mostly without a lock. A signal handler may run on any of them.

### What is hard

* Between `poll` and a handler peers go on acting, and earlier handlers of the same
  round change the list, the waiter and, through a reused descriptor, what the
  waiter stands for.
* The fan-out walks the list while removing from it.
* Who is in command follows from the order of connections, hang-ups and failed sends
  and reads; the count of failed reads outlives clients.
* Sockets block, the serial port does not: the first can stop the thread, the second
  refuses the rest of a frame.
* `busy`, `recording`, the selector's pad and the snapshot flag are changed by
  different threads; `video_status` is a second copy of `recording`.
* A toggle is used for commands that have a direction.
* The handshake at the start is all that keeps the transmit thread from a mutex and
  a port that do not exist yet.
* The camera is commanded by datagrams without an answer; it and the server can
  restart independently of each other, and the server's idea of zoom and attitude
  lives in static variables.
* The pid file and the command FIFO outlive the process that made them; a second
  server shares both, and commands come in bytes, counted across calls.
* Configurations are converted three times and checked in two places; all devices
  are read into one local variable, which threads outlive.

`PROJECT.json` lists each hazard at its line, with the properties that cover it.

### What makes each component correct

* UART server: the list is the open connections in order of arrival; the cursor
  never rests on freed memory; every client gets every chunk once; commands come
  from the oldest client only, and somebody is in command while there are clients; a
  read for a command never blocks.
* Serial port and publisher: frames are not mixed; only a refused write cuts one; a
  send returns; the handshake ends.
* Camera and its commands: the file gets the frames between start and end of a
  recording; a video that is being saved is left alone; saving ends; an accepted
  snapshot is taken; the reported status is the camera's.
* Gimbal and registry: the camera has the zoom and attitude that the server counts
  on unless the last datagram of the kind was lost; on each axis it turns by an
  increment per message and makes up for no more than was lost; its angles are
  brought back in the end; no call reaches a device that is open by half; the camera
  understands the datagrams.
* Configuration and port number: the line, the cameras and the port that are served
  are those that were written, or the server does not serve; the code keeps this but
  for stop bits that make no sense (see the observations below).
* Commander, FIFO, pid file: a command is read whole or not at all, nothing stays in
  the FIFO, only tunes of the table are played, the pid file names the server.

## 2. Modules

| Module | Models | Kind |
|---|---|---|
| `CommandLease` | who may write to the port: a lease, first-come, first-served | abstract specification |
| `SerialMux` | the UART thread's loop with every handler, the signal handler, and TCP as the loop sees it | implements `CommandLease` |
| `FrameLine` | a line that takes one frame at a time | abstract specification |
| `SerialLine` | start-up, handshake, and the two writers of the serial port | implements `FrameLine` |
| `Recorder` | one video at a time, under one name, saved before the next | abstract specification |
| `VideoCapture` | recording and snapshots, across four threads | implements `Recorder` |
| `GimbalControl` | zoom and attitude: RC handler, registry, driver, camera, start of the device | component |
| `MCGimbal` | channels for the model checking of `GimbalControl` | constants |
| `SiyiFrame` | the datagrams of the SIYI driver and their CRC | algorithm, stepwise |
| `CommandFifo` | servers, commanders, the FIFO, the pid file | component |
| `ServerStart` | from the YAML files to the open line and the cameras' threads | component |
| `PortNumber` | the parsing of the port number, with overflow | algorithm, stepwise |
| `Startup` | the whole start of a server | composes `ServerStart` and `PortNumber` |
| `SerialMuxProofs`, `SerialLineProofs`, `VideoCaptureProofs`, `GimbalControlProofs`, `SiyiFrameProofs`, `CommandFifoProofs`, `ServerStartProofs`, `StartupProofs` | the theorems about each; those about `PortNumber` are in `StartupProofs` | proofs |

### SerialMux

One action per handler of the loop; `pc` is the place in the loop body, so that the
environment acts between any two handlers. `terminate_client` is called from five
places and is one operator, `TerminateClient(n, p)`, over the linked list: `next` is
the `next` field, and a `struct ClientNode **` is the node whose field it points to
(`NULL` for `&g_clients`). A node is named by its client's id, which the code never
reuses; descriptors are reused by `accept`, and `poll` reports by descriptor, as in
the code. The fan-out is a step per client, since it blocks in `send`. `rev` is what
`poll` filled in; a handler clears its part where the code does, and `ClientHangup`
does not, as in the code. `poll` may also fail (`PollFails`), which leaves the loop
like a request to shut down; the loop is under no obligation to fail, so this is no
part of the fair `Server`.

External, from how the code uses it: `poll`, `recv` and `send` on a connection that
is established, closed by the peer, or reset (the comment at the head of the module
lists the states). Data is counted in chunks. A failed `serial_write` is not noticed
by the caller, so writing is the one step `CommandData` here and the subject of
`SerialLine`.

`CommandLease` is the promise of the repository's README, that the first client
connected may send data. Under the refinement mapping the holder of the lease is
`commanding` while the waiter is armed.

### SerialLine

Both threads use the same three steps: lock, write some bytes (again and again),
unlock; a write may fail at any point, since the port is opened `O_NONBLOCK`.
`outbox` is what the handler in progress still has to send: `Answers` gives the
frames of each command, in order. On the line only the frame last begun is kept (who
writes it, how many of its bytes are missing), so no bound is needed. `stage`
follows `run_uart_server` from the start through the handshake; the transmit thread
runs from the beginning. A data race on `serial_is_ready` is a plain read at an
arbitrary time.

`FrameLine` is what `serial_tx_mtx` and `serial_write` promise together: one frame
at a time, the frames of a sender in their order and each once, and a frame that was
begun ends only when it is complete or was refused. Under the refinement mapping a
sender has the line from its first byte, not from its lock, and is done with a frame
when `serial_write` returns, not when it unlocks.

Not in the module: the contents of messages, with the sequence number MAVLink puts
in them; and the failure to open the port, which exits the process before anything
is sent.

### VideoCapture

`uart` is the place of the UART thread in `rtsp_change_record_state`, which waits
for the pipeline twice. `probe` is between the two writes of `eos_handler`, and
`sampler` between pulling a sample and testing the request. Accesses of shared flags
are separate steps unless no order of the other threads' steps could tell them from
one: the entry of `rtsp_change_record_state`, for example, reads three flags, but
only the UART thread writes `recording` and sets `busy`.

External: GStreamer. An EOS event travels from the encoder to the muxer and drops on
a branch that has seen one; a change to NULL waits for running callbacks. The module
relies on that wait (`Stopped`): without it `FileGetsTheRecording` fails, because
`eos_handler` clears `busy` before it moves the selector.

Building the pipeline is one step of `rtsp_saver`, which makes it (`StartPipeline`)
or ends the process (`PipelineFails`: an unknown codec, an element that is missing
or cannot be linked).

One camera is modelled: the handlers only ever address camera 0. The gimbal half of
the RC handler is in `GimbalControl`, acknowledgements in `SerialLine`.

`Recorder` is what the camera layer promises of recording. Under the refinement
mapping the recorder is recording from the moment the file has its name (`Restart`),
saving from the moment `busy` is set, and idle again when `eos_handler` has moved
the selector, not when it has cleared `busy`: the two writes of the probe are one
step of the promise, and the shut-down of the pipeline is what keeps a new recording
from coming between them.

### GimbalControl

`stage` follows `siyi_camera_init`, then the server handles messages; at each start
the device may be enabled in `devices.yaml` or not, and without it the messages go
to a registry that is empty. Opening fails at `OpenCameraFails` and
`OpenGimbalFails`, and each failure ends the process: the failed `socket` and
`connect` by `exit`, the failed `malloc` by the `memset` through its null result,
which the code does before it looks at the result. `fault` is set when a call goes
through the half of a device that is not open.

`Rc` is what `rc.yaml` gives for each channel: minimum, middle, maximum, and whether
it is reversed. The module has it as a constant without assumptions but that the
minimum is below the maximum; `MCGimbal` gives it for the run.

`camera` is the camera's own state. `RcChannels(button, scroll, lost)` is the whole
handler: `Sent(scroll)` are the datagrams it sends, and those of them in `lost` do
not arrive. `stale` remembers, for zoom and attitude, whether the last one was lost;
`slack` how far the camera is behind since, in tenths of a degree, up to `MaxSlack`;
`adrift` that it is further behind, or missed a centring, or lost its power.
`ServerEnds` gives the process fresh variables and leaves the camera alone,
`CameraRestarts` the other way round, so that the two datagrams at the end of
`siyi_camera_init` are what makes them agree again. Angles are in tenths of a
degree; that a float of 0.1 degrees may be truncated to the tenth below is a choice
(`Truncated`).

`NoJump` bounds every turn of the camera, on both axes, by the increment of the
message and the `slack` before it. `AttitudeRecovers` supposes of the link only
that, of the messages handled again and again, some lose nothing that was sent; a
handler that sent the angles only when they change would satisfy that and not the
property.

### SiyiFrame

A call is packed and its CRC calculated a byte per step, as in the loop of
`crc16_calculate`, with the table of the code, entry by entry. Bytes that are packed
are numbers; for the CRC a word is the set of its bits that are 1, which is a
polynomial over the integers modulo 2, an exclusive or a symmetric difference
(`Plus`) and a shift a product (`Times`). `Divides(p, q, r)` says that r is the
remainder of p divided by the generator, and q the quotient; `quotient` is a history
variable that goes with `crc`. What is stated of the loop is that `crc` is the
remainder of the bytes read so far, followed by 16 zeros (`CrcIsRemainder`). That
every entry of the table is the remainder of its byte is a fact about the constants
of the code (`TableIsRemainders`): it has no parameter, and TLC evaluates it before
the run. The frame is compared with what the camera, which is external, takes apart
from it (`Understood`).

### CommandFifo

Servers and commanders are processes that start and end at any point. The FIFO is a
sequence of bytes, each the i-th of some commander's command, so that a command in
pieces is visible. `received` is the static of `read_user_cmd`. The buffer is a
local variable that nobody initialises (`Buffers`): a read fills the part behind the
bytes received so far, and before it there is whatever the stack holds, which may be
bytes of an earlier command; when the count is negative, the first bytes go to the
stack before the buffer (`uart_server.c:448`) and are lost to the command. A buffer
that is not one whole command has any argument. A FIFO keeps its contents as long as
somebody has it open. Nothing in the code keeps a second server from being started
while one runs (all it needs is a TCP port of its own); `overlap` remembers that
this has happened. `ReadComplete` and `PidfileNamesServer` are stated for servers
that ran one at a time, and so is `PlayedAsAsked`, but for the range of the tunes;
`FifoDrained` is stated for all. `completed` and `played` are history: the buffers
that were acted on, and the tunes.

### ServerStart

`at` is the file, check or call that `main` has come to. A file is a stream of keys
with values, in any order, missing or repeated. `serial_cfg` is the enumerated form,
`tio` what `serial_open` opens and sets, so that `LineAsWritten` compares the two
ends of the conversion, port, rate, data bits, parity and stop bits. It leaves out
what the code does not keep: a word for the stop bits that is not 1, 1.5 or 2 is
served as 1. Reading `rc.yaml` is one step (`RcEnd`), since what it reads goes to
`GimbalControl`. `rtsp_config` is the local variable of `siyi_camera_init`: it has
any value before the file is read and again after the function has returned, so that
only the copy in `rtsp_open` lets a camera keep its stream (`OwnStream`).

### PortNumber

A character per step of the loop of `get_unsigned`, with arithmetic modulo
`Modulus`. `value` is the number that was written. The check of the loop misses some
overflows, and what the server does is right all the same (`ServesOnPortGiven`),
because the first product that wraps around comes from a number far above the ports.
The definitions carry the prefix `Port`, so that the module can be composed.

### Startup

`main` keeps the argument of the port and hands it to the UART thread, which parses
it only when the files have been read, the pid file written and the threads of the
cameras started. `Startup` runs `PortNumber` at that place of `ServerStart`
(`at = "open"`); the line is opened once the port is known, or the process ends with the
usage text and a failure (`PortBeforeLine`). The properties of `ServerStart` are
checked here, of the whole start.

## 3. Runs

Runs that pass:

| Run | Question | Distinct states |
|---|---|---|
| `mux_list` | three clients over two descriptors, two chunks | 1.9 million |
| `mux_loop` | the whole loop with commands, signals, SIGPIPE: the invariant of the proof | 3.1 million |
| `mux_live` | command is taken, a dead commander replaced, a fan-out ends | 300 thousand |
| `line` | two writers, partial and failing writes: one frame at a time; sends return, the handshake ends | 40 thousand |
| `video` | four threads and the camera; the recorder is implemented; saving ends, snapshots are taken | 46 thousand |
| `gimbal` | server and camera agree, across lost datagrams, failures and restarts, with the device or without; the camera does not jump and is brought back | 72 thousand |
| `startup` | the line, the cameras and the port are those that were written, or the server does not serve | 14.8 million |
| `fifo` | commands are read whole, the tune asked for is played, the pid file names the server, nothing stays in the FIFO | 214 thousand |
| `siyi_frame` | frames are understood, the CRC is the remainder | 4 thousand |

Runs that show a disagreement between the code and its own words:

| Run | Words | Code |
|---|---|---|
| `mux_graceful` | "graceful shut down" (`uart_server.c:532`, `:619`) | the handler exits the process before the loop gets to it |
| `mux_sigpipe` | "to multiple clients" (`uart_server.c:2`) | a client that closes and resets ends the server, unless GLib has set SIGPIPE to be ignored |
| `video_stop` | "Stop recording" (`mavlink_receiver.c:227`) | after a refused change, the toggle starts a recording |

### Observations without a run

What the models take from the code, where a reader of its comments and messages
might expect something else:

* A client that stops reading without hanging up holds the only thread in `send`
  (`uart_server.c:374`). `FanOutEnds` needs peers that drain.
* A new recording in the second of the last one has the same name
  (`rtsp_stream.c:183`) and overwrites it.
* A pulled sample is released only when a snapshot is taken (`rtsp_stream.c:142`).
* When the source has ended its stream, the event of a stop is dropped and `busy`
  stays set (`rtsp_stream.c:164`). `SavingEnds` and `SnapshotServed` are therefore
  stated for a source that sends.
* `read_user_cmd` counts a failed read as minus one byte (`uart_server.c:450`). Only
  a second server on the same FIFO makes a read fail; after that, the next read
  writes before its buffer, and pieces of two commands, or of one and of what the
  stack holds (perhaps the command before), are acted on as one.
* `siyi_cam_open` clears what `malloc` gave it before it looks whether it gave
  anything (`siyi_camera.c:143`), so that the message at `:145` is never printed;
  `rtsp_open` does not look at all (`rtsp_stream.c:418`), and a device without a
  type is compared through a null pointer (`config.c:314`). Each ends the process,
  which is how the models have it.
* "Server is not running." (`main.c:29`) is printed only if no server ever ran,
  since nobody removes the FIFO.
* The overflow check (`uart_server.c:121`) accepts a number that wraps around to a
  larger one, with no effect on the ports that are served.
* "Stop bits must be either empty or one of 1, 1.5, or 2" (`config.c:257`; so does
  `README.md:77`): other stop bits are complained about, the server goes on and
  serves the line with one, where the checks of parity and data bits end the
  process; an empty parity, which the message at `config.c:238` allows, ends the
  server; mark, space and 1.5 (`README.md:75`, `:77`) cannot be opened.
* "Unknown device" (`config.c:319`) is followed by the type of device 0.
* `MAV_CMD_SET_CAMERA_MODE` is answered with an acknowledgement of command 530 and
  one of command 527, which nobody sent.

The runs check the properties a reader would ask for; types, and the strengthened
invariants behind the proofs, are left to the proofs, but for `IInv`, which has the
most parts.

### Bounds

All bounds restrict the environment: how many clients connect (`MaxId`), wait
(`Backlog`) and send (`MaxRx`), how many chunks and commands there are (`MaxChunk`,
`MaxCmd`), how much a peer leaves unread (`SndBuf`), the clock and the positions of
a switch. They are enough for the cases that matter: with three ids over two
descriptors a client is removed from the front, the middle and the end of a fan-out,
a descriptor is reused while the waiter still has to be moved, and `accept` fails;
two chunks show a client missing or repeating one; `tryout` passes its limit of
three with one unread byte. `mux_loop` trades the third client for user commands,
signals and SIGPIPE. In `video` the position 0 is included because the code takes it
for "none", two seconds make names differ or not, and the source may end its stream
at any time. `SerialLine` has no bound but the lengths of frames. The proofs remove
the bounds from all safety properties.

In `gimbal` the range of the yaw is four increments wide and that of the pitch
three, with its middle elsewhere, so that a turn of an increment is told from one to
a bound; a datagram may be lost before the camera counts as left behind
(`MaxSlack`); zoom has two ratios; a channel takes three values, at and beyond the
ends of the wheel. `fifo` has two servers, one after the other or at once, and room
for the two-byte commands of two commanders, so that commands queue, and are cut
once the servers overlap. `startup` has two ports, two numbers, each valid where the
other is not (a rate, a count of data bits), and the words for three parities and
for all stop bits, of which one cannot be opened; each word makes no sense in the
place of the other kind; two devices of known, unknown and no type; and integers of
five bits with ports up to 2, the largest for which ten ports and a digit still fit,
as they do in the code: two digits wrap around three times. `siyi_frame` takes
angles at the borders of a byte and at both ends of their ranges, and all ratios
that the handler reaches. `mux_live` needs the second chunk: the first fits into the
buffer.

### Fairness

* `SerialMux`: the thread is scheduled (`WF(Server)`), and what a peer has not read
  is read or the connection is reset (`WF(Drain(c))`). The code needs the second:
  its sockets block and have no timeout. No peer is obliged to send, connect or
  close, and no signal to arrive.
* `SerialLine`: both threads are scheduled; each gets the mutex in the end (the
  other one sleeps or polls between two calls); one read brings finitely many
  messages; not every request is refused by the output buffer; of the requests sent,
  some are answered in time.
* `VideoCapture`: the UART thread finishes a call, an EOS event travels on, a pulled
  sample is handled; frames arrive in some of infinitely many periods of playing
  (strong, because a recording may be shorter than a frame), as long as the source
  has not ended its stream.
* `GimbalControl`: of the messages handled again and again for a device that is
  there, some lose none of the datagrams that are sent, whatever these are
  (`SF(Present /\ Message({}))`): the link is not down for ever. Nothing obliges a
  server or a camera to stay up, and the property asks only about a server that is
  up again and again.
* `CommandFifo`: the UART thread of a server is scheduled (`WF(Read)`). No process
  is obliged to start, write or end.

## 4. Proofs

**The server loop** (`SerialMuxProofs`), for every number of clients, every set of
descriptors and every value of the bounds, from `MuxAssumption` only:

* `InductiveInvariant`: `Spec => []IInv`, and from it `TypeCorrect`, `ListCorrect`,
  `CursorCorrect`, `CommanderCorrect`, `RecvCorrect`, `TryoutCorrect`,
  `FanOutCorrect`;
* `Refinement`: `Spec => LeaseImplemented`, a step simulation under the invariant;
* `CommandMovesOn`: `Spec => CommandNeverReturns`.

The safety properties are not inductive one by one: that the fan-out is complete
needs the cursor to be right, that needs the list to be sorted; that `recv` does not
block needs the waiter to be the head's, that needs descriptors to be distinct.
`IInv` is their conjunction with `Bookkeeping`: ids are issued in order, what `poll`
reported is still so when its handler runs, and the waiter is armed as long as the
commanding client is there. The proof has a lemma for the effect of
`TerminateClient` on the list, one for all steps that leave the list alone, and one
per action.

**The serial port** (`SerialLineProofs`), for frames of any lengths, from
`LineAssumption`: `LineInvariant`, and from it `LineTypeCorrect`, `NeverMixed`,
`InitialisedBeforeUse` and `CutOnlyWhenRefused`. `LineInv` adds to the properties
who holds the mutex (`LockDiscipline`), the order of start-up (`StartOrder`) and why
bytes may be missing from a frame (`MissingExplained`). `LineRefinement` shows that
`SerialLine` implements `FrameLine`: locking and unlocking are no steps of the line,
a write begins a frame, goes on with it or completes it, and a write that fails
refuses it. That a write goes on with the frame it began is `FramesContiguous`.

**The camera** (`VideoCaptureProofs`), from `VideoAssumption`: `VideoInvariant`, and
from it `VideoTyped`, `FileGetsIt`, `StatusTells`, `CommandsDo`,
`SavingIsUndisturbed` and `ImplementsRecorder`, a step simulation. `VideoInv` adds
to the properties what the code never says: a start finds nothing being saved and,
once the pipeline is down, the probe at rest (`StartsAtRest`); a video is saved only
once its recording has ended, and the probe moves the selector only for that video
(`SavesEnded`); only a ready camera records (`RecordsReady`); the message in
progress is known (`MessageKnown`); and the status is what the handler will make it
when it returns (`StatusFollows`).

**The gimbal** (`GimbalControlProofs`), for every configuration of the channels and
every range, from `GimbalAssumption` (a channel's minimum is below its maximum,
which `load_rc_configs` does not check): `GimbalTyped`, `ZoomRatioAgrees`,
`AnglesAgree`, `NeverHalfOpen`, `GimbalDoesNotJump`. The agreement of zoom and
attitude is inductive with the order of start-up, in which both are sent before the
first message. Why the gimbal does not jump is `CameraNear`: the camera is at angles
the handler has had, no further back than `slack`. Why no call reaches half a device
is which halves are open at each stage.

**The start** (`ServerStartProofs`), for any files and any number of devices:
`StartTyped`, `ServedAsWritten`, `StreamsOwn`, `AllStarted`. The invariant says, for
each place of `main`, which checks the settings have passed and which devices have
been dealt with. `ServedAsWritten` says nothing of stop bits that make no sense.

**Commands and the pid file** (`CommandFifoProofs`), for any number of servers and
commanders, commands of any size and any room in the FIFO: `FifoInvariant`,
`ReadsAreComplete`, `PlaysAsAsked`, `PidfileCorrect`. Of servers, `OneServer` says
that, unless two have run at once, a live one is alone and, from the moment it has
written it, named in the pid file. A command is read whole because the FIFO holds
whole commands, one behind the other (`WholeCommands`), and because nothing is left
over from an earlier read (`ReadsAtOnce`): the count in the static variable is 0,
and a server that `poll` has told of the FIFO finds something in it. Such a read
fills the whole buffer, so that nothing of the stack is acted on
(`ReadsOneCommand`).

**The datagrams** (`SiyiFrameProofs`), for any angles of 15 bits and ratios below
256, from `FrameAssumption` and `TableIsRemainders`: `FrameInvariant`, `CrcCorrect`,
`CrcUnique`, `CallsUnderstood`. A round of the loop is a step of the long division
(`RoundDivides`): what is shifted out of the word, and the next byte, are taken for
their remainder by the table, and sums and shifts commute with the product.
`CrcUnique` says that the remainder is the only one, so that `CrcIsRemainder`
determines the CRC; it is why the quotient is bounded in `TypeOK` (a series without
an end would divide anything). For `CallsUnderstood` a number is stored in two bytes
and read back whatever its sign (`StoredNumber`), and so is the CRC as a set of bits
(`StoredWord`).

**The port number** (`StartupProofs`), for integers of every width in which ten
ports and a digit fit: `PortInvariant`, `ServesOnPort`, `NoPortRefused`. The reason
is `NoWrapInRange`: as soon as either the result or the number is in the range of
ports, they are equal, because a result that has wrapped around once is at least as
large as the one before, which was beyond the ports.

**The whole start** (`StartupProofs`): `PortComesFirst`, from `StartupInv` (the line
is closed until the port is known) and `ServesOnPort`, which holds of the whole
start because it parses the port as `PortNumber` says (`PortPart`).

Only model-checked: liveness (`CommanderElected`, `DeadCommanderReplaced`,
`FanOutEnds`, `EverySendReturns`, `Connects`, `SavingEnds`, `SnapshotServed`,
`AttitudeRecovers`, `FifoDrained`), which is beyond the prover. Only evaluated by
TLC: `TableIsRemainders`, 256 divisions without a parameter. Every safety property
of a passing run is proved.

## 5. Not modelled

* Building the GStreamer pipeline (one step here): a fixed graph of elements.
* The YAML and MAVLink parsers, which are libraries; the values of the fields of the
  messages sent, the tunes, logging and formatting.
* The parsing of options: the options are inputs of the models.
* `rtsp_close`, `siyi_cam_close`, `camera_close`, `gimbal_close`,
  `siyi_cam_gimbal_rotate_speed`, `read_pidfile`, `send_signal`: never called.
* MAVLink's sequence numbers, which both threads take outside the mutex: the counter
  is in the generated headers, which are not in the repository.
* A channel without configuration, which the RC handler divides by, and a snapshot
  whose file cannot be opened: the code has no path for either.

## 6. Plan

1. Done: all modules above and their proofs.
2. `Mission`: `SerialLine` and `VideoCapture` composed, for what is acknowledged
   against what is done.
3. Several devices: `VideoCapture` for the other cameras, whose pipelines are
   started but which no handler addresses.
