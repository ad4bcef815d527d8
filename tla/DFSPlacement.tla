---------------------------- MODULE DFSPlacement ----------------------------
(***************************************************************************)
(* How a file of the distributed file system is cut into parts and which   *)
(* pair of parts each server is sent: the pure part of DFS_client.c's put. *)
(***************************************************************************)
EXTENDS Integers

\* The four lines of the client's configuration file (DFS_client.c:24, 85-96).
MAXSERVERS == 4

Parts == 1..4   \* part numbers as they appear in headers and file names
Pairs == 0..3   \* values of pair_to_send once wrapped

\* Size of part p of a file of len bytes: three quarters rounded down, the
\* rest in the last part.
part_size(len, p) == IF p < 4 THEN len \div 4 ELSE len - 3 * (len \div 4)

\* The character code that "%02x" prints for one hexadecimal digit.
HexDigit(d) == IF d < 10 THEN 48 + d ELSE 87 + d

(***************************************************************************)
(* get_md5_mod reads eight characters of the hexadecimal text as one       *)
(* little-endian number: modulo 4 only the first of them counts, the one   *)
(* printed for the high half of byte 8 of the digest.  A digest is         *)
(* therefore abstracted to that digit, 0..15.                              *)
(***************************************************************************)
Digests == 0..15
\* Mutant: a remainder of the wrong number.
get_md5_mod_Three(digit) == HexDigit(digit) % 3
get_md5_mod(digit) == HexDigit(digit) % 4

\* pair_to_send as the loop tests it just before the parts are sent.
\* Mutant: the test is one late.
WrapPair_Late(pair) == IF pair > 4 THEN 0 ELSE pair
WrapPair(pair) == IF pair > 3 THEN 0 ELSE pair

\* Part number sent in round j (0 or 1) to a server whose turn is pair.
\* Mutant: the last part is clamped instead of wrapped.
IndexOf_Clamped(pair, j) == IF pair + j > 3 THEN 3 ELSE pair + j
IndexOf(pair, j) == IF pair + j > 3 THEN 0 ELSE pair + j
PartSent(pair, j) == IndexOf(pair, j) + 1

\* The parts a server is sent: 1,2 or 2,3 or 3,4 or 4,1.
PairParts(pair) == {PartSent(pair, j) : j \in 0..1}

\* The pairs of the four servers when a put reaches all of them.
Layout(first) ==
  LET p1 == WrapPair(first)
      p2 == WrapPair(p1 + 1)
      p3 == WrapPair(p2 + 1)
      p4 == WrapPair(p3 + 1)
  IN  <<p1, p2, p3, p4>>
=============================================================================
