---------------------------- MODULE CommandLease ----------------------------
(***************************************************************************)
(* What the serial multiplexer promises about who may write to the serial  *)
(* port: a lease held by one client at a time, granted first-come,         *)
(* first-served.  Clients are named by tickets, issued in the order in     *)
(* which they join.  Only the holder may speak, and the lease is granted   *)
(* again only after its holder has left.                                   *)
(***************************************************************************)
EXTENDS Integers

CONSTANT MaxTicket    \* the largest ticket ever issued, a natural number

VARIABLES
    last,       \* the ticket issued last, -1 before the first one
    members,    \* the clients that have joined and not left
    holder,     \* the member that holds the lease, or Nobody
    author      \* the client that spoke last, or Nobody

leaseVars == <<last, members, holder, author>>

Tickets == 0 .. MaxTicket
Nobody == -1

Init ==
    /\ last = -1
    /\ members = {}
    /\ holder = Nobody
    /\ author = Nobody

Join ==
    /\ last < MaxTicket
    /\ last' = last + 1
    /\ members' = members \cup {last + 1}
    /\ UNCHANGED <<holder, author>>

Leave(m) ==
    /\ m \in members
    /\ members' = members \ {m}
    /\ holder' = IF holder = m THEN Nobody ELSE holder
    /\ UNCHANGED <<last, author>>

Grant(m) ==
    /\ holder = Nobody
    /\ m \in members
    /\ \A other \in members : m <= other
    /\ holder' = m
    /\ UNCHANGED <<last, members, author>>

Speak ==
    /\ holder # Nobody
    /\ author' = holder
    /\ UNCHANGED <<last, members, holder>>

Next ==
    \/ Join
    \/ Speak
    \/ \E m \in Tickets : Leave(m) \/ Grant(m)

Spec == Init /\ [][Next]_leaseVars
=============================================================================
