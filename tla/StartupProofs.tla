---------------------------- MODULE StartupProofs ----------------------------
(***************************************************************************)
(* Proofs about the start.  PortNumber: for every width of the integers in *)
(* which ten ports and a digit do not wrap around, the server serves on    *)
(* the port it was given and refuses no port, although get_unsigned itself *)
(* misses some overflows.  Startup: the line is touched only when the port *)
(* is known, and the whole start serves on that port.                      *)
(***************************************************************************)
EXTENDS Startup, ServerStartProofs
-----------------------------------------------------------------------------
(* The port number *)

\* Extending a result that is in the range of ports does not wrap around.
LEMMA NoWrap ==
    ASSUME PortTypeOK, NEW d \in 0 .. 9, result <= MaxPort
    PROVE  Extended(d) = 10 * result + d
<1>1. 10 * result + d \in 0 .. Modulus - 1
  BY PortAssumption DEF PortTypeOK
<1>2. \A m \in Nat \ {0} : \A x \in 0 .. m - 1 : x % m = x
  OBVIOUS
<1> QED BY <1>1, <1>2, PortAssumption DEF Extended

\* A result is an unsigned integer.
LEMMA ExtendedType ==
    ASSUME PortTypeOK, NEW d \in 0 .. 9
    PROVE  Extended(d) \in 0 .. Modulus - 1
<1>1. 10 * result + d \in Nat
  BY PortAssumption DEF PortTypeOK
<1>2. \A m \in Nat \ {0} : \A x \in Nat : x % m \in 0 .. m - 1
  OBVIOUS
<1> QED BY <1>1, <1>2, PortAssumption DEF Extended

LEMMA InitPort == PortInit => PortInv
  BY PortAssumption
     DEF PortInit, PortInv, PortTypeOK, NoWrapInRange, EmptyIsZero,
         ServesOnPortGiven, PortAccepted

\* One more digit: if the new result, or the new number, is in the range of
\* ports, so was the old one, and then they agree.
LEMMA DigitStep ==
    ASSUME PortInv, NEW d \in 0 .. 9, ReadDigit(d)
    PROVE  PortInv'
<1> USE PortAssumption
<1>1. /\ PortTypeOK /\ outcome = "reading" /\ clean /\ helper = result
      /\ result <= MaxPort \/ value <= MaxPort => result = value
  BY DEF PortInv, NoWrapInRange, ReadDigit
<1>2. Extended(d) \in 0 .. Modulus - 1
  BY <1>1, ExtendedType
<1>3. result <= MaxPort => Extended(d) = 10 * result + d
  BY <1>1, NoWrap
<1>4. PortTypeOK'
  BY <1>1, <1>2 DEF PortTypeOK, ReadDigit
<1>5. ASSUME value' <= MaxPort
      PROVE  result' = value' /\ Plausible(d)
  <2>1. value <= MaxPort /\ result = value
    BY <1>1, <1>5 DEF ReadDigit, PortTypeOK
  <2> QED BY <1>1, <1>3, <2>1 DEF ReadDigit, PortTypeOK, Plausible
<1>6. ASSUME Plausible(d), result' <= MaxPort
      PROVE  result' = value'
  <2>1. result <= MaxPort /\ result = value
    BY <1>1, <1>2, <1>6 DEF ReadDigit, PortTypeOK, Plausible
  <2> QED BY <1>3, <2>1 DEF ReadDigit
<1>7. NoWrapInRange'
  <2>1. length' # 0
    BY <1>1 DEF ReadDigit, PortTypeOK
  <2>2. outcome' = "rejected" \/ (outcome' = "reading" /\ Plausible(d)
                                 /\ helper' = result')
    BY <1>1 DEF ReadDigit
  <2>3. clean'
    BY <1>1 DEF ReadDigit
  <2> QED BY <1>5, <1>6, <2>1, <2>2, <2>3 DEF NoWrapInRange
<1>8. EmptyIsZero'
  BY <1>1 DEF EmptyIsZero, ReadDigit, PortTypeOK
<1>9. ServesOnPortGiven' /\ PortAccepted'
  <2>1. outcome' = "rejected" => value' > MaxPort
    BY <1>1, <1>4, <1>5 DEF ReadDigit, PortTypeOK
  <2> QED BY <1>1, <2>1 DEF ServesOnPortGiven, PortAccepted, ReadDigit
<1> QED BY <1>4, <1>7, <1>8, <1>9 DEF PortInv

LEMMA StepPort == PortInv /\ [PortNext]_portVars => PortInv'
<1> USE PortAssumption
<1> SUFFICES ASSUME PortInv, [PortNext]_portVars PROVE PortInv'
  OBVIOUS
<1>1. ASSUME NEW d \in 0 .. 9, ReadDigit(d) PROVE PortInv'
  BY <1>1, DigitStep
<1>2. CASE ReadOther
  <2>1. clean' = FALSE /\ outcome' = "rejected" /\ length' = length + 1
    BY <1>2 DEF ReadOther
  <2>2. result' = result /\ helper' = helper /\ value' = value
    BY <1>2 DEF ReadOther
  <2>3. PortTypeOK'
    <3>1. clean' \in BOOLEAN
      BY <2>1
    <3>2. length' \in Nat
      BY <2>1 DEF PortInv, PortTypeOK
    <3>3. outcome' \in {"reading", "number", "rejected", "port", "help"}
      BY <2>1
    <3> QED BY <2>2, <3>1, <3>2, <3>3 DEF PortInv, PortTypeOK
  <2>4. length' # 0
    BY <2>1 DEF PortInv, PortTypeOK
  <2> QED BY <2>1, <2>3, <2>4 DEF PortInv, NoWrapInRange, EmptyIsZero,
                      ServesOnPortGiven, PortAccepted, NamesPort
<1>3. CASE EndOfArgument
  <2>1. length = 0 => value \notin 1 .. MaxPort
    BY <1>3 DEF EndOfArgument, PortInv, NoWrapInRange
  <2> QED BY <1>3, <2>1
             DEF EndOfArgument, PortInv, PortTypeOK, NoWrapInRange,
                 EmptyIsZero, ServesOnPortGiven, PortAccepted, NamesPort
<1>4. CASE Decide
  BY <1>4 DEF Decide, PortInv, PortTypeOK, NoWrapInRange, EmptyIsZero,
              ServesOnPortGiven, PortAccepted, NamesPort, InRange
<1>5. CASE UNCHANGED portVars
  BY <1>5 DEF portVars, PortInv, PortTypeOK, NoWrapInRange, EmptyIsZero,
              ServesOnPortGiven, PortAccepted, NamesPort
<1> QED BY <1>1, <1>2, <1>3, <1>4, <1>5 DEF PortNext, Decided

\* The result and the number it stands for agree in the range of ports, for
\* integers of any width (get_unsigned).
THEOREM PortInvariant == PortSpec => []PortInv
<1>1. PortInit => PortInv
  BY InitPort
<1>2. PortInv /\ [PortNext]_portVars => PortInv'
  BY StepPort
<1> QED BY <1>1, <1>2, PTL DEF PortSpec

\* The server serves on the port it was given (run_uart_server).
THEOREM ServesOnPort == PortSpec => []ServesOnPortGiven
<1>1. PortInv => ServesOnPortGiven
  BY DEF PortInv
<1> QED BY <1>1, PortInvariant, PTL

\* No argument that names a port is refused (run_uart_server).
THEOREM NoPortRefused == PortSpec => []PortAccepted
<1>1. PortInv => PortAccepted
  BY DEF PortInv
<1> QED BY <1>1, PortInvariant, PTL
-----------------------------------------------------------------------------
(* The whole start *)

\* What a step of ServerStart does to the place and to the line.
LEMMA PlaceStep ==
    ASSUME Next
    PROVE  \/ ~Running /\ UNCHANGED vars
           \/ at = "serving" /\ UNCHANGED vars
           \/ Running /\ at = "open" /\ SerialOpen
           \/ /\ Running /\ at \notin {"open", "serving"}
              /\ at' # "serving" /\ tio' = tio
<1>1. CASE ReadFails
  BY <1>1 DEF ReadFails, Exit, Files, lineVars
<1>2. CASE SerialEntry
  BY <1>2 DEF SerialEntry, ReadSerial
<1>3. CASE SerialEnd
  BY <1>3 DEF SerialEnd, GoTo, lineVars
<1>4. CASE CheckParity \/ CheckDataBits \/ CheckStopBits
  BY <1>4 DEF CheckParity, CheckDataBits, CheckStopBits, GoTo, Exit, lineVars
<1>5. CASE \E i \in Ids : ReadDevice(i)
  BY <1>5 DEF ReadDevice, lineVars
<1>6. CASE DevicesEnd \/ Dispatch
  BY <1>6 DEF DevicesEnd, Dispatch, GoTo, Exit, lineVars
<1>7. CASE \/ \E url \in Urls : ReadDeviceFile(url)
           \/ DeviceEnd \/ RcEnd
  BY <1>7 DEF ReadDeviceFile, DeviceEnd, RcEnd, GoTo, lineVars
<1>8. CASE SerialOpen
  BY <1>8 DEF SerialOpen
<1>9. CASE Done
  BY <1>9 DEF Done
<1> QED BY <1>1, <1>2, <1>3, <1>4, <1>5, <1>6, <1>7, <1>8, <1>9 DEF Next

LEMMA InitStartup == StartupInit => StartupInv
  BY DEF StartupInit, Init, PortInit, StartupInv

LEMMA StepStartup == StartupInv /\ [StartupNext]_startupVars => StartupInv'
<1> SUFFICES ASSUME StartupInv, [StartupNext]_startupVars
             PROVE  StartupInv'
  OBVIOUS
<1>1. CASE ServerStep
  <2>1. outcome' = outcome /\ net_port' = net_port /\ Next
    BY <1>1 DEF ServerStep, portVars
  <2>2. CASE UNCHANGED vars
    BY <2>1, <2>2 DEF StartupInv, PortKnown, vars, lineVars
  <2>3. CASE Running /\ at = "open" /\ SerialOpen
    <3>1. PortKnown /\ outcome # "help"
      BY <1>1, <2>3 DEF ServerStep, PortKnown, StartupInv
    <3>2. CASE Exit(1)
      BY <2>1, <2>3, <3>2 DEF StartupInv, Exit, lineVars, PortKnown
    <3>3. CASE at' = "serving"
      BY <2>1, <2>3, <3>1, <3>3 DEF StartupInv, PortKnown
    <3> QED BY <2>3, <3>2, <3>3 DEF SerialOpen, GoTo
  <2>4. CASE /\ Running /\ at \notin {"open", "serving"}
             /\ at' # "serving" /\ tio' = tio
    BY <2>1, <2>4 DEF StartupInv
  <2> QED BY <2>1, <2>2, <2>3, <2>4, PlaceStep
<1>2. CASE PortStep
  BY <1>2 DEF PortStep, StartupInv, vars, lineVars, Running
<1>3. CASE RefusePort
  BY <1>3 DEF RefusePort, Exit, StartupInv, portVars, lineVars
<1>4. CASE UNCHANGED startupVars
  BY <1>4 DEF startupVars, vars, lineVars, portVars, StartupInv, PortKnown
<1> QED BY <1>1, <1>2, <1>3, <1>4 DEF StartupNext

LEMMA StartupInvariant == StartupSpec => []StartupInv
<1> QED BY InitStartup, StepStartup, PTL DEF StartupSpec

\* The part of the start that parses the port is PortNumber's.
LEMMA PortPart == StartupSpec => PortSpec
<1>1. StartupInit => PortInit
  BY DEF StartupInit
<1>2. [StartupNext]_startupVars => [PortNext]_portVars
  BY DEF StartupNext, ServerStep, PortStep, RefusePort, startupVars
<1> QED BY <1>1, <1>2, PTL DEF StartupSpec, PortSpec
-----------------------------------------------------------------------------
(* The theorems *)

\* A server serves on the port it was given, and touches the line only once
\* that port is known (run_uart_server).
THEOREM PortComesFirst == StartupSpec => []PortBeforeLine
<1>1. StartupInv /\ ServesOnPortGiven => PortBeforeLine
  BY DEF StartupInv, ServesOnPortGiven, PortBeforeLine, PortKnown
<1> QED BY <1>1, StartupInvariant, PortPart, ServesOnPort, PTL
=============================================================================
