------------------------------- MODULE MCEarlier -------------------------------
(***************************************************************************)
(* Values for the constants of ProxyEarlier: two resources of one host, one *)
(* of another host at the same address whose file cannot be written, one of *)
(* a host at another address, and a host that does not exist.              *)
(***************************************************************************)
EXTENDS ProxyEarlier, TLC

CONSTANTS a1, a2, b1, c1, x1, ha, hb, hc, hx, one, two, f1, f2, f3, f4, fx

MCUrls == {a1, a2, b1, c1, x1}
MCHosts == {ha, hb, hc, hx}
MCFiles == {f1, f2, f3, f4, fx}
MCHostOf == [u \in MCUrls |->
  CASE u \in {a1, a2} -> ha [] u = b1 -> hb [] u = c1 -> hc [] u = x1 -> hx]
OwnFiles == [u \in MCUrls |->
  CASE u = a1 -> f1 [] u = a2 -> f2 [] u = b1 -> f3 [] u = c1 -> f4 [] u = x1 -> fx]
\* "a.b" and "a_b" become one name.
OneFile == [OwnFiles EXCEPT ![a2] = f1]
MCAddressOf == [h \in MCHosts |->
  CASE h \in {ha, hb} -> one [] h = hc -> two [] h = hx -> None]
\* One address begins another, and a host's name that of a file.
Harmless == {<<one, two>>, <<ha, f1>>}
\* One host's name begins another's.
OtherHost == {<<ha, hb>>}
Same == Permutations(Threads)
=============================================================================
