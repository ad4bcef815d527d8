------------------------------ MODULE PartStream ------------------------------
(***************************************************************************)
(* The bytes of one connection while two parts of a file cross it.  A put  *)
(* sends them to the receiving loop of the server (DFS_server.c:253-288), a *)
(* get to that of the client (DFS_client.c:408-449).  DFSServer and DFS let *)
(* one read take what one write sent; TCP does not: a read returns as many *)
(* bytes as have come, of however many writes, at most those asked for.     *)
(*                                                                         *)
(* Byte number i of part j is <<j, i>>.  The stream is fixed by the sizes   *)
(* of the parts, so a connection is two counters: bytes sent and taken.     *)
(***************************************************************************)
EXTENDS Integers

CONSTANTS
  Sizes,      \* sizes a part may have
  MAXBUF,     \* bytes of the buffer of either side
  HEADER,     \* bytes of a header: 100
  TEXT        \* the leading bytes of it that hold "<size> <part>"

ASSUME SizesAssumption == Sizes \subseteq Nat
ASSUME LengthsAssumption ==
  /\ MAXBUF \in Nat \ {0}
  /\ HEADER \in Nat /\ TEXT \in 1..HEADER

Slots == 1..2                    \* j + 1 of the loops over two parts

VARIABLES
  receiver,  \* "put": the server stores; "get": the client stores
  sizes,     \* sizes[j]: bytes of the part sent as the j-th
  sent,      \* bytes the sender has written, headers included
  closed,    \* the sender has closed its end, perhaps early
  taken,     \* bytes the receiver has read
  where,     \* what the receiver does next
  slot,      \* which part it is at
  left,      \* bytes_left
  offset,    \* put: position in the file; get: bytes_read
  length,    \* length[j]: of the file, or of the buffer malloc returned
  bytes,     \* bytes[j]: what is in it, from 0
  short      \* history: kinds of reads that returned less than asked for

streamVars == <<receiver, sizes, sent, closed>>
storeVars == <<left, offset, length, bytes>>
vars == <<streamVars, taken, where, slot, storeVars, short>>

\* Bytes that are of no part: one that bzero has cleared, one of fresh memory.
Zero == <<0, 0>>
Unset == <<0, 1>>
Bytes == (Slots \X Nat) \cup {Zero, Unset}
Fresh(k) == [i \in 0..(k - 1) |-> Unset]
States == {"header", "data", "done", "spin", "lost"}

\* Position of the header of part j, and the end of its bytes.
HeaderAt(j) == IF j = 1 THEN 0 ELSE HEADER + sizes[1]
EndOf(j) == HeaderAt(j) + HEADER + sizes[j]
\* The byte of part j that is at this position of the stream; what lies before
\* it is the header's.
ByteAt(j, p) == IF p >= HeaderAt(j) + HEADER THEN <<j, p - HeaderAt(j) - HEADER>>
                                             ELSE Zero

Init ==
  /\ receiver \in {"put", "get"}
  /\ sizes \in [Slots -> Sizes]
  /\ sent = 0 /\ closed = FALSE
  /\ taken = 0 /\ where = "header" /\ slot = 1
  /\ left = 0 /\ offset = 0
  /\ length = [j \in Slots |-> 0]
  /\ bytes = [j \in Slots |-> Fresh(0)]
  /\ short = {}

-----------------------------------------------------------------------------
Smaller(a, b) == IF a < b THEN a ELSE b
Larger(a, b) == IF a < b THEN b ELSE a

\* One write: a header, or the next bytes of the part, at most MAXBUF.
WrittenUpTo ==
  LET j == IF sent < EndOf(1) THEN 1 ELSE 2
      data == HeaderAt(j) + HEADER
  IN  IF sent < data THEN data ELSE Smaller(sent + MAXBUF, EndOf(j))
Write ==
  /\ ~closed /\ sent < EndOf(2)
  /\ sent' = WrittenUpTo
  /\ UNCHANGED <<receiver, sizes, closed, taken, where, slot, storeVars, short>>
\* The sender's socket is closed: it has ended, at whatever point.
HangUp ==
  /\ ~closed /\ closed' = TRUE
  /\ UNCHANGED <<receiver, sizes, sent, taken, where, slot, storeVars, short>>

\* read(fd, buf, k) returns n: some of the bytes that have come, none only at
\* the end of the stream.
Reads(k, n) == /\ n <= k /\ n <= sent - taken
               /\ n > 0 \/ (closed /\ sent = taken)
Noting(kind, k, n) == IF n < k THEN short \cup {kind} ELSE short

\* The receiver goes on to the next header, after the second part to the end.
NextSlot == IF slot = 1 THEN slot' = 2 /\ where' = "header"
                        ELSE slot' = 2 /\ where' = "done"

\* k bytes of the buffer, n of them read, are put into the store at offset.
\* The rest of the buffer has been cleared before.
Stored(n, k) ==
  [i \in 0..(Larger(length[slot], offset + k) - 1) |->
     CASE i \in offset..(offset + n - 1) -> ByteAt(slot, taken + i - offset)
       [] i \in (offset + n)..(offset + k - 1) -> Zero
       [] OTHER -> bytes[slot][i]]
Store(n, k) ==
  /\ length' = [length EXCEPT ![slot] = Larger(@, offset + k)]
  /\ bytes' = [bytes EXCEPT ![slot] = Stored(n, k)]

\* Lines 254-270 and 409-432.  A read that returns the text of the header and
\* begins where the header does is understood; its bytes that are not read
\* stay in the stream.  Any other header is the numbers sscanf makes of what
\* it finds, or those of before: the model does not follow it ("lost").
\* Mutant: one byte too many.
Announced_OneMore == sizes[slot] + 1
Announced == sizes[slot]
ReadHeader(n) ==
  /\ where = "header" /\ Reads(HEADER, n)
  /\ taken' = taken + n
  /\ short' = Noting("header", HEADER, n)
  /\ IF taken = HeaderAt(slot) /\ n >= TEXT
       THEN /\ left' = Announced /\ offset' = 0
            /\ IF receiver = "put"
                 THEN UNCHANGED <<length, bytes>>
                 ELSE /\ length' = [length EXCEPT ![slot] = sizes[slot]]
                      /\ bytes' = [bytes EXCEPT ![slot] = Fresh(sizes[slot])]
            /\ where' = "data" /\ UNCHANGED slot
       ELSE where' = "lost" /\ UNCHANGED <<slot, storeVars>>
  /\ UNCHANGED streamVars

\* Where the bytes after a block go: fwrite has moved the file's position by
\* the whole buffer, the client counts what it has read.
\* Mutant: the client moves by the whole buffer too.
Advanced_ByBuffer(n) == offset + MAXBUF
Advanced(n) == offset + IF receiver = "put" THEN MAXBUF ELSE n
\* Lines 272-276 and 434-439: more than a buffer is missing.
\* Mutant: bytes_left is reduced by the buffer, not by what was read.
Remaining_ByBuffer(n) == left - MAXBUF
Remaining(n) == left - n
ReadBlock(n) ==
  /\ where = "data" /\ left > MAXBUF /\ Reads(MAXBUF, n) /\ n > 0
  /\ taken' = taken + n
  /\ left' = Remaining(n)
  /\ Store(n, MAXBUF)
  /\ offset' = Advanced(n)
  /\ short' = Noting("block", MAXBUF, n)
  /\ UNCHANGED <<streamVars, where, slot>>
\* At the end of the stream bytes_left stays as it is: the loop does not end.
Spin ==
  /\ where = "data" /\ left > MAXBUF /\ Reads(MAXBUF, 0)
  /\ where' = "spin"
  /\ UNCHANGED <<streamVars, taken, slot, storeVars, short>>

\* Lines 277-282 and 440-446: the rest is read at once, and bytes_left is 0.
ReadRest(n) ==
  /\ where = "data" /\ left \in 1..MAXBUF /\ Reads(left, n)
  /\ taken' = taken + n
  /\ left' = 0
  /\ Store(n, left)
  /\ offset' = offset + left
  /\ short' = Noting("rest", left, n)
  /\ UNCHANGED <<streamVars, where, slot>>

\* fclose, or the end of the loop's body.
EndPart ==
  /\ where = "data" /\ left = 0
  /\ NextSlot
  /\ UNCHANGED <<streamVars, taken, storeVars, short>>

Receive == \/ \E n \in 0..HEADER : ReadHeader(n)
           \/ \E n \in 1..MAXBUF : ReadBlock(n)
           \/ \E n \in 0..MAXBUF : ReadRest(n)
           \/ Spin
           \/ EndPart

Next == Write \/ HangUp \/ Receive
Spec == Init /\ [][Next]_vars
\* Both processes run; hanging up is nobody's duty.
FairSpec == Spec /\ WF_vars(Write) /\ WF_vars(Receive)

-----------------------------------------------------------------------------
TypeOK ==
  /\ receiver \in {"put", "get"} /\ sizes \in [Slots -> Sizes]
  /\ sent \in Nat /\ closed \in BOOLEAN /\ taken \in 0..sent
  /\ where \in States /\ slot \in Slots
  /\ left \in Nat /\ offset \in Nat
  /\ length \in [Slots -> Nat]
  /\ DOMAIN bytes = Slots
  /\ \A j \in Slots : /\ DOMAIN bytes[j] = 0..(length[j] - 1)
                      /\ \A i \in DOMAIN bytes[j] : bytes[j][i] \in Bytes
  /\ short \subseteq {"header", "block", "rest"}

\* The receiver has finished part j.
Received(j) == slot > j \/ where = "done"
\* The store of part j holds the part, byte by byte.
Intact(j) == /\ length[j] = sizes[j]
             /\ \A i \in 0..(sizes[j] - 1) : bytes[j][i] = <<j, i>>

(***************************************************************************)
(* However the bytes of the writes are merged, a receiver all of whose     *)
(* reads return what they ask for stores each part as it was sent.  This is *)
(* what allows DFSServer and DFS to take a write for a read.                *)
(***************************************************************************)
FullReadsStoreParts ==
  short = {} => \A j \in Slots : Received(j) => Intact(j)

(***************************************************************************)
(* The client may also be given less than a buffer while more than a       *)
(* buffer is missing: it counts what it has read and overwrites the zeros.  *)
(***************************************************************************)
ClientMendsShortBlocks ==
  receiver = "get" /\ short \subseteq {"block"} =>
    \A j \in Slots : Received(j) => Intact(j)

(***************************************************************************)
(* The server may not: it stores a whole buffer for each read.  Its files  *)
(* are never too small and never lose a byte that was read: they keep the   *)
(* order of the part, with zeros in between.                               *)
(***************************************************************************)
ServerOnlyPads ==
  receiver = "put" /\ short \subseteq {"block"} =>
    \A j \in Slots : Received(j) =>
      /\ length[j] >= sizes[j]
      /\ \A a, b \in 0..(length[j] - 1) :
           a < b /\ bytes[j][a] # Zero /\ bytes[j][b] # Zero =>
             bytes[j][a][2] < bytes[j][b][2]
      /\ \A i \in 0..(sizes[j] - 1) : \E a \in 0..(length[j] - 1) : bytes[j][a] = <<j, i>>

(***************************************************************************)
(* A receiver never reads beyond the part it is at, so it may be late in   *)
(* the stream but never early: it takes no header for the bytes of a part.  *)
(***************************************************************************)
NeverAhead == where # "lost" => taken <= EndOf(slot)

\* memcpy stays inside the buffer that malloc(file_size) returned.
InsideBuffer == receiver = "get" => \A j \in Slots : length[j] <= sizes[j]

(***************************************************************************)
(* What the code takes for granted: the file the server stores is the part *)
(* that was sent, if the sender was there to the end.                       *)
(***************************************************************************)
StoredAsSent ==
  receiver = "put" /\ sent = EndOf(2) /\ where = "done" => \A j \in Slots : Intact(j)

(***************************************************************************)
(* A header is misread only after the header or the last read of a part    *)
(* was short: short blocks alone leave the receiver in step.               *)
(***************************************************************************)
LostOnlyAfterShortRead ==
  where = "lost" => "rest" \in short \/ "header" \in short

(***************************************************************************)
(* Neither side waits for the other for ever: the loops over the parts end, *)
(* or lose their place in the stream, or read for ever because the sender   *)
(* has hung up before the end of a part.                                   *)
(***************************************************************************)
TransferEnds ==
  <>(where \in {"done", "lost"} \/ (where = "spin" /\ closed /\ sent < EndOf(slot)))
=============================================================================
