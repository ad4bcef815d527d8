-------------------------------- MODULE MCUDP --------------------------------
(***************************************************************************)
(* Values for the constants of UDPStore: two names, the first of a file    *)
(* that is too long for a datagram; what is sent of it reads like exit, as *)
(* the whole does.  The users have another copy and a file without words.  *)
(***************************************************************************)
EXTENDS UDPStore

CONSTANTS a, b, bye, long, empty

MCWordsOf == [x \in Contents |-> IF x = empty THEN Blank ELSE Line("exit", NoWord)]
MCCut == [x \in Contents |-> IF x = long THEN bye ELSE x]
MCStored == [n \in Names |-> IF n = a THEN long ELSE Absent]
=============================================================================
