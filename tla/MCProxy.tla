------------------------------- MODULE MCProxy -------------------------------
(***************************************************************************)
(* Values for the constants of ProxyCache: two resources on two hosts, the *)
(* second of which has a blacklisted address and a file that cannot be     *)
(* created; another server's address begins with the first host's.         *)
(***************************************************************************)
EXTENDS ProxyCache, TLC

CONSTANTS page, ad, site, banner, ipsite, ipbanner, ipother

MCHostOf == [u \in Urls |-> IF u = page THEN site ELSE banner]
MCFileOf == [u \in Urls |-> u]
MCAddressOf == [n \in Names \cup {NoName} |->
                  CASE n = site -> ipsite [] n = banner -> ipbanner
                    [] OTHER -> n]
MCBlacklist == <<ipbanner>>
\* Which strings begin which: an address that is not blacklisted; one that is;
\* the name of the other file.
Harmless == {<<ipsite, ipother>>}
Forbidden == {<<ipsite, ipbanner>>}
OtherFile == {<<page, ad>>}
\* The first version is two chunks long, the second one.
MCLength == [v \in Versions |-> IF v = 1 THEN 2 ELSE 1]
=============================================================================
