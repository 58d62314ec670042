------------------------------ MODULE MCGimbal ------------------------------
(***************************************************************************)
(* The channels of GimbalControl for model checking: a stick that is not   *)
(* reversed, one that is and has its middle elsewhere, and a wheel whose   *)
(* ends lie within the values it takes.                                    *)
(***************************************************************************)
EXTENDS GimbalControl

Channels ==
    [yaw    |-> [min |-> 1102, mid |-> 1515, max |-> 1927, reverse |-> FALSE],
     pitch  |-> [min |-> 1102, mid |-> 1500, max |-> 1900, reverse |-> TRUE],
     scroll |-> [min |-> 1200, mid |-> 1515, max |-> 1800, reverse |-> FALSE]]
=============================================================================
