-------------------------------- MODULE MCWeb --------------------------------
(***************************************************************************)
(* Values for the constants of Webserver: a start page that fits one buffer *)
(* with its header, a picture of two buffers and a byte that becomes one    *)
(* full buffer, and an address without a period.  The picture's last chunk  *)
(* reads like a request for the picture.  The first bytes of a request may  *)
(* be completed by what is in buf to nothing, to "/p", to the address that  *)
(* was there, or to an odd one, "/p.png" with the rest of a line behind it. *)
(***************************************************************************)
EXTENDS Webserver

CONSTANTS root, picture, bare, odd, page, png, number

MCUris == {root, picture, bare, odd, number}
MCPathOf == [u \in MCUris |-> IF u = picture THEN png ELSE Absent]
MCSuffix == [u \in MCUris |-> CASE u = picture -> <<"p", "n", "g">>
                                [] u = odd -> <<"1">>
                                [] OTHER -> NoPeriod]
MCSizeOf == [p \in {page, png} |-> IF p = page THEN <<3>> ELSE <<9, 4>>]
MCWordOf == [p \in {page, png} |-> IF p = page THEN Absent ELSE picture]
MCJoined == [u \in MCUris |-> [w \in MCUris \cup {Absent} |->
               IF w = Absent THEN {Absent, bare} ELSE {w, odd}]]
=============================================================================
