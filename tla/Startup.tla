------------------------------- MODULE Startup -------------------------------
(***************************************************************************)
(* The whole start of a server: the configuration and the serial port      *)
(* (ServerStart) with the TCP port from the command line (PortNumber),     *)
(* which main only keeps.  The UART thread parses it when the files have   *)
(* been read and the threads of the cameras run already, so that a wrong   *)
(* argument ends a server that has begun to work.                          *)
(***************************************************************************)
EXTENDS ServerStart, PortNumber

VARIABLE
    net_port            \* whether there is an argument at all

startupVars == <<vars, portVars, net_port>>

StartupInit == Init /\ PortInit /\ net_port \in {"given", "omitted"}

\* run_uart_server has a port: of the argument, or DEFAULT_PORT.
PortKnown_orRefused == net_port = "omitted" \/ outcome \in {"port", "help"}
PortKnown == net_port = "omitted" \/ outcome = "port"

\* A step of main, or of run_uart_server after the port.
ServerStep ==
    /\ at = "open" /\ Running => PortKnown
    /\ Next
    /\ UNCHANGED <<portVars, net_port>>

\* get_unsigned, and the check of the range
PortStep ==
    /\ Running /\ at = "open" /\ net_port = "given"
    /\ outcome \notin {"port", "help"} /\ PortNext
    /\ UNCHANGED <<vars, net_port>>

\* help, and the end of the process
RefusePort ==
    /\ Running /\ outcome = "help"
    /\ Exit(1)
    /\ UNCHANGED <<portVars, net_port>>

StartupNext == ServerStep \/ PortStep \/ RefusePort

StartupSpec == StartupInit /\ [][StartupNext]_startupVars
-----------------------------------------------------------------------------
(* Properties *)

\* A server that serves, does so on the port of the argument, if there was one;
\* and an argument that names no port ends it with a failure before the serial
\* port is touched, although all that main starts is running by then (main,
\* run_uart_server).
PortBeforeLine ==
    /\ at = "serving" /\ net_port = "given" => NamesPort /\ result = value
    /\ outcome = "help" => tio = Closed /\ code \in {-1, 1}

\* Why: the port is parsed when main has come to the line, and the line is
\* closed until the port is known.
StartupInv ==
    /\ outcome # "reading" => net_port = "given" /\ at \in {"open", "serving"}
    /\ outcome = "help" => at = "open" /\ code \in {-1, 1}
    /\ at = "serving" => PortKnown
    /\ at # "serving" => tio = Closed
=============================================================================
