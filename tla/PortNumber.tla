----------------------------- MODULE PortNumber -----------------------------
(***************************************************************************)
(* The TCP port on the command line: get_unsigned (uart_server.c) turns    *)
(* the argument into an unsigned integer of the machine's width, one       *)
(* character per turn of its loop, and run_uart_server accepts it if it is *)
(* in the range of a port.  Arithmetic wraps around at Modulus, which is   *)
(* 2^32 in the code; the loop notices only a result that got smaller.      *)
(***************************************************************************)
EXTENDS Integers

CONSTANTS
    Modulus,        \* 2^32: unsigned integers are smaller
    MaxPort,        \* 0xffff: the largest port
    MaxLength       \* bound: characters of the argument, at most

\* A port followed by one more digit does not wrap around.
ASSUME PortAssumption ==
    /\ Modulus \in Nat \ {0} /\ MaxPort \in Nat /\ MaxLength \in Nat
    /\ 10 * MaxPort + 9 < Modulus

VARIABLES
    result,         \* *o_result
    helper,         \* helper
    outcome,        \* where the call is, and what came of it
    length,         \* characters read
    value,          \* history: the number that the digits read denote
    clean           \* history: every character was a digit

portVars == <<result, helper, outcome, length, value, clean>>

PortInit ==
    /\ result = 0
    /\ helper = 0
    /\ outcome = "reading"
    /\ length = 0
    /\ value = 0
    /\ clean = TRUE

\* The result after one more digit, in unsigned arithmetic.
Extended(d) == (10 * result + d) % Modulus

\* Whether the loop goes on with that result.
Plausible_strict(d) == Extended(d) > helper
Plausible(d) == Extended(d) >= helper

ReadDigit(d) ==
    /\ outcome = "reading" /\ length < MaxLength
    /\ result' = Extended(d)
    /\ IF Plausible(d)
       THEN helper' = Extended(d) /\ UNCHANGED outcome
       ELSE outcome' = "rejected" /\ UNCHANGED helper
    /\ length' = length + 1
    /\ value' = 10 * value + d
    /\ UNCHANGED clean

ReadOther ==
    /\ outcome = "reading" /\ length < MaxLength
    /\ outcome' = "rejected"
    /\ length' = length + 1
    /\ clean' = FALSE
    /\ UNCHANGED <<result, helper, value>>

\* An empty argument is refused before the loop, others end it.
EndOfArgument ==
    /\ outcome = "reading"
    /\ outcome' = IF length = 0 THEN "rejected" ELSE "number"
    /\ UNCHANGED <<result, helper, length, value, clean>>

\* run_uart_server serves on the port, or prints its help and exits.
InRange == result # 0 /\ result <= MaxPort

Decide ==
    /\ outcome \in {"number", "rejected"}
    /\ outcome' = IF outcome = "number" /\ InRange THEN "port" ELSE "help"
    /\ UNCHANGED <<result, helper, length, value, clean>>

Decided == outcome \in {"port", "help"} /\ UNCHANGED portVars

PortNext ==
    \/ \E d \in 0 .. 9 : ReadDigit(d)
    \/ ReadOther
    \/ EndOfArgument
    \/ Decide
    \/ Decided

PortSpec == PortInit /\ [][PortNext]_portVars
-----------------------------------------------------------------------------
(* Properties *)

PortTypeOK ==
    /\ result \in 0 .. Modulus - 1
    /\ helper \in 0 .. Modulus - 1
    /\ outcome \in {"reading", "number", "rejected", "port", "help"}
    /\ length \in Nat
    /\ value \in Nat
    /\ clean \in BOOLEAN

\* What the argument says, if it names a port at all.
NamesPort == clean /\ value \in 1 .. MaxPort

\* The server serves on a port only if the argument names that port, although
\* the check in get_unsigned lets some numbers through that have wrapped around
\* (get_unsigned, run_uart_server).
ServesOnPortGiven == outcome = "port" => NamesPort /\ result = value

\* No argument is refused that names a port, and none is refused before its end
\* that could still have named one: leading zeros are no reason to
\* (get_unsigned, run_uart_server).
PortAccepted ==
    /\ outcome = "help" => ~NamesPort
    /\ outcome = "rejected" /\ length > 0 => ~clean \/ value > MaxPort

\* Why: as long as either the result or the number it stands for is in the
\* range of ports, nothing has wrapped around; and nothing was read of what is
\* rejected for being empty.
NoWrapInRange ==
    outcome \in {"reading", "number"} =>
        /\ clean
        /\ result <= MaxPort \/ value <= MaxPort => result = value
        /\ outcome = "reading" => helper = result
        /\ length = 0 => value = 0
EmptyIsZero ==
    outcome = "rejected" /\ length = 0 => value = 0

\* The inductive invariant.
PortInv ==
    /\ PortTypeOK
    /\ NoWrapInRange
    /\ EmptyIsZero
    /\ ServesOnPortGiven
    /\ PortAccepted
=============================================================================
