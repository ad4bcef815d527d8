--------------------------- MODULE DFSServerProofs ---------------------------
(***************************************************************************)
(* What holds of a server whatever its clients are, which every            *)
(* specification built from it needs: the placement of parts, the types,   *)
(* the streams as the other end reads them, what a handler makes of a      *)
(* command that reaches it whole, and what becomes of the files.           *)
(***************************************************************************)
EXTENDS DFSCommand, SequenceTheorems, FiniteSetTheorems, TLAPS

(***************************************************************************)
(* The four parts of put (DFS_client.c:248-251) are sizes that add up to   *)
(* the length of the file, for every length: no byte is lost or sent       *)
(* twice by the cut, the files shorter than four bytes included.           *)
(***************************************************************************)
THEOREM SplitIsExact ==
  ASSUME NEW len \in Nat
  PROVE  /\ \A p \in Parts : part_size(len, p) \in Nat
         /\ part_size(len, 1) = part_size(len, 2)
         /\ part_size(len, 2) = part_size(len, 3)
         /\ part_size(len, 3) <= part_size(len, 4)
         /\ part_size(len, 1) + part_size(len, 2) + part_size(len, 3)
              + part_size(len, 4) = len
<1> DEFINE q == len \div 4
<1>1. q \in Nat /\ 4 * q <= len
  BY Z3
<1> HIDE DEF q
<1>2. \A p \in Parts : part_size(len, p) = IF p < 4 THEN q ELSE len - 3 * q
  BY DEF part_size, q
<1>3. QED
  BY <1>1, <1>2 DEF Parts

(***************************************************************************)
(* The first pair is one of the four, whatever the digest                  *)
(* (DFS_client.c:559 prints "Something is very wrong" otherwise).          *)
(***************************************************************************)
THEOREM DigestGivesPair ==
  \A digit \in Digests : get_md5_mod(digit) \in Pairs
<1>1. \A digit \in Digests : HexDigit(digit) \in Nat
  BY DEF Digests, HexDigit
<1>2. QED
  BY <1>1 DEF get_md5_mod, Pairs

(***************************************************************************)
(* A put that reaches all four servers stores every part on two of them:   *)
(* whichever server is lost, the other three still hold the whole file.    *)
(***************************************************************************)
THEOREM AnyThreeServersHoldTheFile ==
  ASSUME NEW first \in Pairs, NEW lost \in 1..MAXSERVERS
  PROVE  \A p \in Parts : \E i \in (1..MAXSERVERS) \ {lost} :
            p \in PairParts(Layout(first)[i])
<1>1. \A pair \in Pairs : PairParts(pair) =
         {pair + 1, IF pair = 3 THEN 1 ELSE pair + 2}
  <2> SUFFICES ASSUME NEW pair \in Pairs
               PROVE PairParts(pair) = {pair + 1, IF pair = 3 THEN 1 ELSE pair + 2}
    OBVIOUS
  <2>1. PairParts(pair) = {PartSent(pair, 0), PartSent(pair, 1)}
    BY DEF PairParts
  <2>2. QED
    BY <2>1 DEF PartSent, IndexOf, Pairs
<1>2. /\ Layout(0) = <<0, 1, 2, 3>>
      /\ Layout(1) = <<1, 2, 3, 0>>
      /\ Layout(2) = <<2, 3, 0, 1>>
      /\ Layout(3) = <<3, 0, 1, 2>>
  BY DEF Layout, WrapPair
<1>3. CASE first = 0
  BY <1>1, <1>2, <1>3 DEF Pairs, Parts, MAXSERVERS
<1>4. CASE first = 1
  BY <1>1, <1>2, <1>4 DEF Pairs, Parts, MAXSERVERS
<1>5. CASE first = 2
  BY <1>1, <1>2, <1>5 DEF Pairs, Parts, MAXSERVERS
<1>6. CASE first = 3
  BY <1>1, <1>2, <1>6 DEF Pairs, Parts, MAXSERVERS
<1>7. QED
  BY <1>3, <1>4, <1>5, <1>6 DEF Pairs

-----------------------------------------------------------------------------

\* The bytes cut from a content are a piece of it.
LEMMA CutType ==
  ASSUME NEW c \in Contents, NEW p \in Parts
  PROVE  Cut(c, p) \in Pieces
<1>1. part_size(Length[c], p) \in Nat
  BY SplitIsExact, ConstantsAssumption
<1>2. QED
  BY <1>1 DEF Cut, Piece, Pieces, Zeros, Parts

\* What a file holds after a write, and what a read of it delivers.
LEMMA PieceTypes ==
  /\ Absent \in Pieces
  /\ \A n \in Nat : Zeros(n) \in Pieces /\ Mixed(n) \in Pieces
  /\ \A a \in Pieces, n \in Nat : ReadBack(a, n) \in Pieces
  BY DEF Pieces, Absent, Zeros, Mixed, Torn, Piece, ReadBack
LEMMA WriteTypes ==
  /\ \A a \in Pieces, k \in Nat : Front(a, k) \in Pieces
  /\ \A a \in Pieces, k, n \in Nat : Torn(a, k, n) \in Pieces
  /\ \A a, b \in Pieces, from, to \in Nat : Overwritten(a, b, from, to) \in Pieces
<1>1. ASSUME NEW a \in Pieces, NEW k \in Nat PROVE Front(a, k) \in Pieces
  <2>1. CASE k = a.size \/ k = 0
    BY <2>1, PieceTypes DEF Front
  <2>2. CASE ~(k = a.size \/ k = 0)
    <3> DEFINE kind == IF a.kind = "whole" THEN "front" ELSE a.kind
    <3>1. kind \in {"absent", "whole", "front", "zeros", "mixed"}
      BY DEF Pieces
    <3>2. Front(a, k) = [a EXCEPT !.kind = kind, !.size = k, !.good = k]
      BY <2>2 DEF Front
    <3> HIDE DEF kind
    <3>3. QED
      BY <3>1, <3>2 DEF Pieces
  <2>3. QED
    BY <2>1, <2>2
<1>2. ASSUME NEW a \in Pieces, NEW k \in Nat, NEW n \in Nat PROVE Torn(a, k, n) \in Pieces
  BY DEF Pieces, Torn
<1>3. ASSUME NEW a \in Pieces, NEW b \in Pieces, NEW from \in Nat, NEW to \in Nat
      PROVE  Overwritten(a, b, from, to) \in Pieces
  <2>1. a.size \in Nat /\ a.good \in Nat
    BY DEF Pieces
  <2>2. QED
    BY <1>1, <1>2, <2>1 DEF Overwritten
<1>4. QED
  BY <1>1, <1>2, <1>3

\* Only the write that leaves exactly the part makes a file whole.
LEMMA WholeWritten ==
  ASSUME NEW old, NEW new \in Pieces, NEW from, NEW to,
         Overwritten(old, new, from, to).kind = "whole"
  PROVE  Overwritten(old, new, from, to) = new /\ new.kind = "whole"
<1>1. \A a, k, n : Torn(a, k, n).kind = "mixed"
  BY DEF Torn
<1>2. PICK n : Overwritten(old, new, from, to) = Front(new, n)
  BY <1>1 DEF Overwritten
<1>3. n # 0 /\ n # new.size => Front(new, n).kind # "whole"
  <2> DEFINE kind == IF new.kind = "whole" THEN "front" ELSE new.kind
  <2>1. kind # "whole"
    OBVIOUS
  <2>2. n # 0 /\ n # new.size =>
          Front(new, n) = [new EXCEPT !.kind = kind, !.size = n, !.good = n]
    BY DEF Front
  <2> HIDE DEF kind
  <2>3. QED
    BY <2>1, <2>2 DEF Pieces
<1>4. Zeros(0).kind # "whole"
  BY DEF Zeros, Piece
<1>5. QED
  BY <1>2, <1>3, <1>4 DEF Front

\* A thread that writes a file alone always leaves the front of its part in it.
LEMMA OneAfterAnother ==
  ASSUME NEW new \in Pieces, new.good = new.size,
         NEW from \in Nat, NEW to \in 1..new.size, from < to
  PROVE  Overwritten(Front(new, from), new, from, to) = Front(new, to)
<1> DEFINE old == Front(new, from)
<1>1. new.size \in Nat /\ from # new.size
  BY DEF Pieces
<1>2. CASE from = 0
  <2>1. old = Zeros(0)
    BY <1>1, <1>2 DEF Front
  <2>2. old.size = 0 /\ old.good = 0
    BY <2>1 DEF Zeros, Piece
  <2> HIDE DEF old
  <2>3. Overwritten(old, new, from, to) = Front(new, to)
    <3>1. ~(old.good > to) /\ ~(old.size > to)
      BY <2>2
    <3>2. QED
      BY <1>2, <3>1 DEF Overwritten
  <2>4. QED
    BY <2>3 DEF old
<1>3. CASE from # 0
  <2>1. old = [new EXCEPT !.kind = IF @ = "whole" THEN "front" ELSE @,
                          !.size = from, !.good = from]
    BY <1>1, <1>3 DEF Front
  <2>2. /\ old.size = from /\ old.good = from
        /\ old.content = new.content /\ old.part = new.part
    BY <2>1 DEF Pieces
  <2> HIDE DEF old
  <2>3. Overwritten(old, new, from, to) = Front(new, to)
    <3>1. Begins(old, new, from) /\ ~(old.good > to) /\ ~(old.size > to)
      BY <2>2 DEF Begins
    <3>2. QED
      BY <3>1 DEF Overwritten
  <2>4. QED
    BY <2>3 DEF old
<1>4. QED
  BY <1>2, <1>3
\* The end of a write of a whole part, and the front of a file of no bytes.
LEMMA FrontEnds ==
  \A new : /\ Front(new, new.size) = new
           /\ new.size # 0 => Front(new, 0) = Zeros(0)
  BY DEF Front

LEMMA FrontsExist ==
  ASSUME NEW new \in Pieces, new.kind # "absent", NEW k PROVE Front(new, k).kind # "absent"
<1> DEFINE kind == IF new.kind = "whole" THEN "front" ELSE new.kind
<1>1. kind # "absent"
  OBVIOUS
<1>2. k # 0 /\ k # new.size =>
        Front(new, k) = [new EXCEPT !.kind = kind, !.size = k, !.good = k]
  BY DEF Front
<1>3. Zeros(0).kind # "absent"
  BY DEF Zeros, Piece
<1>4. QED
  BY <1>1, <1>2, <1>3 DEF Front, Pieces

\* How far a block takes the thread.
LEMMA WrittenType ==
  ASSUME TypeOK, NEW h \in Handlers
  PROVE  /\ Written(h) \in Nat /\ frame[h].out \in Nat /\ frame[h].hdr.size \in Nat
         /\ Written(h) <= frame[h].hdr.size
         /\ frame[h].out < frame[h].hdr.size => frame[h].out < Written(h)
         /\ frame[h].hdr.size <= Block => Written(h) = frame[h].hdr.size
  BY ConstantsAssumption DEF TypeOK, Frames, Headers, Written

\* The variables every connection starts with.
LEMMA ClearedType == Cleared \in Frames
  BY PieceTypes DEF Cleared, Frames, Logins, Headers, Parts

\* sscanf yields values of the variables it assigns, from any buffer.
LEMMA ParseTypes ==
  ASSUME NEW m \in Messages
  PROVE  /\ AsLogin(m) \in Logins
         /\ AsHeader(m) \in Headers
         /\ AsRequest(m) \in SUBSET Parts
         /\ \A n \in Nat : AsData(m, n) \in Pieces
         /\ \A c \in Commands : AsCommand(m, c) \subseteq Commands
<1>1. AsLogin(m) \in Logins
  BY DEF Messages, AsLogin, Logins
<1>2. AsHeader(m) \in Headers
  BY DEF Messages, AsHeader, Headers
<1>3. AsRequest(m) \in SUBSET Parts
  BY DEF Messages, AsRequest
<1>4. \A n \in Nat : AsData(m, n) \in Pieces
  BY PieceTypes DEF Messages, AsData
<1>5. ASSUME NEW c \in Commands PROVE AsCommand(m, c) \subseteq Commands
  <2>1. Stale(c) \in Commands
    BY DEF Stale, Commands, Dirs
  <2>2. NoCommand(c.name) \in Commands
    BY DEF NoCommand, Commands, Ops, Dirs
  <2>3. m.tag = "command" => m.body \in Commands
    BY DEF Messages
  <2>4. QED
    BY <2>1, <2>2, <2>3 DEF AsCommand
<1>6. QED
  BY <1>1, <1>2, <1>3, <1>4, <1>5

\* What a handler writes are messages.
LEMMA MessageTypes ==
  /\ EOF \in Messages
  /\ Message("nothing", None) \in Messages
  /\ \A b \in BOOLEAN : Message("verdict", b) \in Messages
  /\ \A b \in SUBSET (Names \X (0..4)) : Message("listing", b) \in Messages
  /\ \A b \in Headers : Message("header", b) \in Messages
  /\ \A b \in Pieces : Message("data", b) \in Messages
  /\ \A b \in Logins : Message("login", b) \in Messages
  /\ \A b \in Commands : Message("command", b) \in Messages
  /\ \A b \in SUBSET Parts : Message("request", b) \in Messages
  BY DEF Messages, Message, EOF

\* Reading takes a message off the stream and leaves a stream.
LEMMA ReadTypes ==
  ASSUME TypeOK, NEW h \in Handlers
  PROVE  /\ Incoming(h) \in Messages
         /\ Consume(h) => inbox' \in [Handlers -> Seq(Messages)]
         /\ \A m \in Messages :
              Send(h, m) => reply' \in [Handlers -> Seq(Messages)]
<1>1. inbox[h] \in Seq(Messages) /\ reply[h] \in Seq(Messages)
  BY DEF TypeOK
<1>2. Incoming(h) \in Messages
  BY <1>1, MessageTypes DEF Incoming
<1>3. ASSUME Consume(h) PROVE inbox' \in [Handlers -> Seq(Messages)]
  <2>1. (IF inbox[h] # <<>> THEN Tail(inbox[h]) ELSE inbox[h]) \in Seq(Messages)
    BY <1>1
  <2>2. QED
    BY <1>3, <2>1 DEF Consume, TypeOK
<1>4. ASSUME NEW m \in Messages, Send(h, m)
      PROVE  reply' \in [Handlers -> Seq(Messages)]
  <2>1. Append(reply[h], m) \in Seq(Messages)
    BY <1>1
  <2>2. QED
    BY <1>4, <2>1 DEF Send, TypeOK
<1>5. QED
  BY <1>2, <1>3, <1>4

\* Moving a handler keeps pc and frame well typed.
LEMMA MoveTypes ==
  ASSUME TypeOK, NEW h \in Handlers, NEW where \in States, NEW locals \in Frames
  PROVE  /\ Goto(h, where, locals) =>
              pc' \in [Handlers -> States] /\ frame' \in [Handlers -> Frames]
         /\ Close(h) =>
              pc' \in [Handlers -> States] /\ frame' \in [Handlers -> Frames]
         /\ NextRound(h, where, locals) =>
              pc' \in [Handlers -> States] /\ frame' \in [Handlers -> Frames]
<1>1. Cleared \in Frames
  BY ClearedType
<1>2. [locals EXCEPT !.round = 2] \in Frames
  BY DEF Frames
<1>3. ASSUME NEW w \in States, NEW x \in Frames, Goto(h, w, x)
      PROVE  pc' \in [Handlers -> States] /\ frame' \in [Handlers -> Frames]
  BY <1>3 DEF Goto, TypeOK
<1>4. "free" \in States
  BY DEF States
<1>5. Close(h) =>
        pc' \in [Handlers -> States] /\ frame' \in [Handlers -> Frames]
  BY <1>1, <1>3, <1>4 DEF Close
<1>6. QED
  BY <1>2, <1>3, <1>5 DEF NextRound

\* Writing a file of the tree of an accepted user keeps the disk well typed.
LEMMA DiskType ==
  ASSUME TypeOK, NEW h \in Handlers, User(h) \in Users,
         NEW part \in 0..4, NEW piece \in Pieces
  PROVE  /\ PathOf(h, part) \in Slots
         /\ FileAt(h, part) \in Pieces
         /\ SetDisk(h, part, piece) =>
              disk' \in [Servers -> [Slots -> Pieces]]
<1>1. PathOf(h, part) \in Slots
  BY DEF PathOf, Slots, TypeOK, Commands
<1>2. ServerOf(h) \in Servers
  BY DEF ServerOf, Handlers
<1>3. disk[ServerOf(h)] \in [Slots -> Pieces]
  BY <1>2 DEF TypeOK
<1>4. ASSUME SetDisk(h, part, piece)
      PROVE  disk' \in [Servers -> [Slots -> Pieces]]
  <2> DEFINE tree == [disk[ServerOf(h)] EXCEPT ![PathOf(h, part)] = piece]
  <2>1. tree \in [Slots -> Pieces]
    BY <1>3
  <2>2. disk' = [disk EXCEPT ![ServerOf(h)] = tree]
    BY <1>4 DEF SetDisk
  <2>3. QED
    BY <2>1, <2>2 DEF TypeOK
<1>5. QED
  BY <1>1, <1>3, <1>4 DEF FileAt

-----------------------------------------------------------------------------
(***************************************************************************)
(* TypeOK is not inductive alone: the file names of a handler are those of *)
(* an existing path only because its user is one of the accounts.          *)
(***************************************************************************)
OnlyAccounts ==
  \A h \in Handlers : pc[h] \notin {"free", "auth"} => frame[h].cred \in Accounts
Inv == TypeOK /\ OnlyAccounts

\* Past the login the user is one of Users.
LEMMA UserType ==
  ASSUME Inv, NEW h \in Handlers, pc[h] \notin {"free", "auth"}
  PROVE  User(h) \in Users
  BY ConstantsAssumption DEF Inv, OnlyAccounts, User

\* A handler that stays past the login keeps its user.
LEMMA MoveAccounts ==
  ASSUME Inv, NEW h \in Handlers, NEW where \in States, NEW locals \in Frames,
         where \in {"free", "auth"} \/ locals.cred \in Accounts
  PROVE  /\ Goto(h, where, locals) => OnlyAccounts'
         /\ Close(h) => OnlyAccounts'
         /\ NextRound(h, where, locals) => OnlyAccounts'
<1>1. [locals EXCEPT !.round = 2].cred = locals.cred
  BY DEF Frames
<1>2. QED
  BY <1>1 DEF Inv, TypeOK, OnlyAccounts, Goto, Close, NextRound

\* The end of a process keeps the invariant.
LEMMA HaltInv ==
  ASSUME Inv, NEW s \in Servers, NEW how \in {"down", "exited"}, Halt(s, how)
  PROVE  Inv'
<1>1. Cleared \in Frames
  BY ClearedType
<1>2. \A h \in Handlers : NoCommand(cmd[h].name) \in Commands
  BY DEF NoCommand, Commands, Ops, Dirs, TypeOK, Inv
<1>3. /\ status' \in [Servers -> {"up", "down", "exited"}]
      /\ pc' \in [Handlers -> States]
      /\ frame' \in [Handlers -> Frames]
      /\ cmd' \in [Handlers -> Commands]
  BY <1>1, <1>2 DEF Halt, Inv, TypeOK, States
<1>4. TypeOK'
  BY <1>3 DEF Halt, Inv, TypeOK
<1>5. OnlyAccounts'
  BY DEF Halt, Inv, OnlyAccounts
<1>6. QED
  BY <1>4, <1>5 DEF Inv

\* Where a handler is decides what it does.
LEMMA StepAt ==
  ASSUME NEW h \in Handlers, HandlerStep(h)
  PROVE  /\ pc[h] = "scan" => ScanForDirectory(h)
         /\ pc[h] = "command" => ReadCommand(h)
         /\ pc[h] = "header" => OpenPart(h)
         /\ pc[h] = "data" => WritePart(h) \/ Spin(h)
         /\ pc[h] = "request" => ReadRequest(h)
         /\ pc[h] = "send" => SendPart(h)
  BY DEF HandlerStep, Authenticate, ScanForDirectory, MakeUserDirectory,
     UserDirectoryExists, ReadCommand, List, ListUnopened, OpenPart, WritePart,
     Spin, ReadRequest, ServeHeader, SendPart, ServeNothing, ServeUnopened

\* Every step of handle_request keeps it.
LEMMA HandlerInv ==
  ASSUME Inv, NEW h \in Handlers, HandlerStep(h)
  PROVE  Inv'
<1> USE DEF Inv
<1>h. /\ ServerOf(h) \in Servers
      /\ frame[h] \in Frames /\ cmd[h] \in Commands
      /\ frame[h].hdr \in Headers /\ frame[h].cred \in Logins
      /\ Incoming(h) \in Messages
      /\ pc[h] \notin {"free", "auth"} =>
           User(h) \in Users /\ frame[h].cred \in Accounts
  BY UserType, ReadTypes DEF TypeOK, Handlers, ServerOf, Frames, OnlyAccounts
<1>1. CASE Authenticate(h)
  <2> DEFINE login == AsLogin(Incoming(h))
  <2>1. login \in Logins
    BY <1>h, ParseTypes
  <2>2. [frame[h] EXCEPT !.cred = login] \in Frames
    BY <1>h, <2>1 DEF Frames
  <2>3. [frame[h] EXCEPT !.cred = login].cred = login
    BY <1>h DEF Frames
  <2>4. Valid(login) \in BOOLEAN
    BY DEF Valid
  <2>5. inbox' \in [Handlers -> Seq(Messages)]
    BY <1>1, ReadTypes DEF Authenticate
  <2>6. reply' \in [Handlers -> Seq(Messages)]
    BY <1>1, <2>4, ReadTypes, MessageTypes DEF Authenticate
  <2>7. pc' \in [Handlers -> States] /\ frame' \in [Handlers -> Frames]
    <3>1. CASE Valid(login)
      BY <1>1, <2>2, <3>1, MoveTypes DEF Authenticate, States
    <3>2. CASE ~Valid(login)
      BY <1>1, <1>h, <3>2, MoveTypes DEF Authenticate, States
    <3>3. QED
      BY <3>1, <3>2
  <2>8. OnlyAccounts'
    <3>1. CASE Valid(login)
      BY <1>1, <2>2, <2>3, <3>1, MoveAccounts DEF Authenticate, States, Valid
    <3>2. CASE ~Valid(login)
      <4>1. "free" \in States
        BY DEF States
      <4>2. QED
        BY <1>1, <1>h, <3>2, <4>1, MoveAccounts DEF Authenticate
    <3>3. QED
      BY <3>1, <3>2
  <2>9. QED
    BY <1>1, <2>5, <2>6, <2>7, <2>8 DEF Authenticate, TypeOK, storeVars
<1>2. CASE ScanForDirectory(h)
  <2>1. frame[h].cred \in Accounts
    BY <1>2, <1>h DEF ScanForDirectory
  <2>2. /\ pc' \in [Handlers -> States] /\ frame' \in [Handlers -> Frames]
        /\ OnlyAccounts'
    BY <1>2, <1>h, <2>1, MoveTypes, MoveAccounts DEF ScanForDirectory, States
  <2>3. QED
    BY <1>2, <2>2 DEF ScanForDirectory, TypeOK, storeVars
<1>3. CASE MakeUserDirectory(h)
  <2>1. frame[h].cred \in Accounts /\ User(h) \in Users
    BY <1>3, <1>h DEF MakeUserDirectory
  <2>2. /\ pc' \in [Handlers -> States] /\ frame' \in [Handlers -> Frames]
        /\ OnlyAccounts'
    BY <1>3, <1>h, <2>1, MoveTypes, MoveAccounts DEF MakeUserDirectory, States
  <2>3. dirs' \in [Servers -> SUBSET (Users \X Dirs)]
    BY <1>3, <1>h, <2>1 DEF MakeUserDirectory, TypeOK, Dirs
  <2>4. QED
    BY <1>3, <2>2, <2>3 DEF MakeUserDirectory, TypeOK
<1>4. CASE UserDirectoryExists(h)
  BY <1>4, <1>h, HaltInv DEF UserDirectoryExists
<1>5. CASE ReadCommand(h)
  <2>1. frame[h].cred \in Accounts /\ User(h) \in Users
    BY <1>5, <1>h DEF ReadCommand
  <2>2. PICK c \in AsCommand(Incoming(h), cmd[h]) :
          /\ cmd' = [cmd EXCEPT ![h] = c]
          /\ dirs' = [dirs EXCEPT ![ServerOf(h)] =
                        WithSubdirectory(ServerOf(h), User(h), c.dir)]
          /\ IF FirstState(c.op) = "free"
               THEN Close(h) ELSE Goto(h, FirstState(c.op), frame[h])
    BY <1>5 DEF ReadCommand
  <2>3. c \in Commands
    BY <1>h, <2>2, ParseTypes
  <2>4. FirstState(c.op) \in States
    BY <2>3 DEF FirstState, States, Commands, Ops
  <2>5. WithSubdirectory(ServerOf(h), User(h), c.dir) \in SUBSET (Users \X Dirs)
    <3>1. dirs[ServerOf(h)] \in SUBSET (Users \X Dirs)
      BY <1>h DEF TypeOK
    <3>2. <<User(h), c.dir>> \in Users \X Dirs
      BY <2>1, <2>3 DEF Commands
    <3>3. QED
      BY <3>1, <3>2 DEF WithSubdirectory
  <2>6. /\ pc' \in [Handlers -> States] /\ frame' \in [Handlers -> Frames]
        /\ OnlyAccounts'
    BY <1>h, <2>1, <2>2, <2>4, MoveTypes, MoveAccounts
  <2>7. inbox' \in [Handlers -> Seq(Messages)]
    BY <1>5, ReadTypes DEF ReadCommand
  <2>8. cmd' \in [Handlers -> Commands]
    BY <2>2, <2>3 DEF TypeOK
  <2>9. dirs' \in [Servers -> SUBSET (Users \X Dirs)]
    BY <2>2, <2>5 DEF TypeOK
  <2>10. QED
    BY <1>5, <2>6, <2>7, <2>8, <2>9 DEF ReadCommand, TypeOK
<1>6. CASE List(h)
  <2>1. Listing(h) \in SUBSET (Names \X (0..4))
    BY DEF Listing
  <2>2. reply' \in [Handlers -> Seq(Messages)]
    BY <1>6, <2>1, ReadTypes, MessageTypes DEF List
  <2>3. "free" \in States
    BY DEF States
  <2>4. /\ pc' \in [Handlers -> States] /\ frame' \in [Handlers -> Frames]
        /\ OnlyAccounts'
    BY <1>6, <1>h, <2>3, MoveTypes, MoveAccounts DEF List
  <2>5. QED
    BY <1>6, <2>2, <2>4 DEF List, TypeOK, storeVars
<1>7. CASE ListUnopened(h)
  BY <1>7, <1>h, HaltInv DEF ListUnopened
<1>8. CASE OpenPart(h)
  <2> DEFINE head == AsHeader(Incoming(h))
             locals == [frame[h] EXCEPT !.hdr = head, !.out = 0]
  <2>1. head \in Headers /\ head.part \in 0..4
    BY <1>h, ParseTypes DEF Headers
  <2>2. frame[h].cred \in Accounts /\ User(h) \in Users
    BY <1>8, <1>h DEF OpenPart
  <2>3. locals \in Frames /\ locals.cred = frame[h].cred
    BY <1>h, <2>1 DEF Frames
  <2>4. disk' \in [Servers -> [Slots -> Pieces]]
    <3>1. Zeros(0) \in Pieces
      BY PieceTypes
    <3>2. SetDisk(h, head.part, Zeros(0)) => disk' \in [Servers -> [Slots -> Pieces]]
      BY <2>1, <2>2, <3>1, DiskType
    <3>3. SetDisk(h, head.part, Zeros(0)) \/ UNCHANGED disk
      BY <1>8 DEF OpenPart
    <3>4. QED
      BY <3>2, <3>3 DEF TypeOK
  <2>5. /\ pc' \in [Handlers -> States] /\ frame' \in [Handlers -> Frames]
        /\ OnlyAccounts'
    <3>1. Goto(h, "data", locals) \/ NextRound(h, "header", locals)
      BY <1>8 DEF OpenPart
    <3>2. "data" \in States /\ "header" \in States
      BY DEF States
    <3> HIDE DEF locals
    <3>3. QED
      BY <2>2, <2>3, <3>1, <3>2, MoveTypes, MoveAccounts
  <2>6. inbox' \in [Handlers -> Seq(Messages)]
    BY <1>8, ReadTypes DEF OpenPart
  <2>7. QED
    BY <1>8, <2>4, <2>5, <2>6 DEF OpenPart, TypeOK
<1>9. CASE WritePart(h)
  <2> DEFINE hdr == frame[h].hdr
  <2>1. hdr.part \in 0..4 /\ hdr.size \in Nat
    BY <1>h DEF Headers
  <2>2. frame[h].cred \in Accounts /\ User(h) \in Users
    BY <1>9, <1>h DEF WritePart
  <2> DEFINE locals == [frame[h] EXCEPT !.out = Written(h)]
  <2>l. locals \in Frames /\ locals.cred = frame[h].cred
    BY <1>h, WrittenType DEF Frames
  <2>3. Overwritten(FileAt(h, hdr.part), AsData(Incoming(h), hdr.size),
                    frame[h].out, Written(h)) \in Pieces
    <3>1. AsData(Incoming(h), hdr.size) \in Pieces
      BY <1>h, <2>1, ParseTypes
    <3>2. FileAt(h, hdr.part) \in Pieces
      BY <2>1, <2>2, PieceTypes, DiskType
    <3>3. QED
      BY <3>1, <3>2, WrittenType, WriteTypes
  <2>4. disk' \in [Servers -> [Slots -> Pieces]]
    BY <1>9, <2>1, <2>2, <2>3, DiskType DEF WritePart
  <2>5. /\ pc' \in [Handlers -> States] /\ frame' \in [Handlers -> Frames]
        /\ OnlyAccounts'
    <3>1. NextRound(h, "header", locals) \/ Goto(h, "data", locals)
      BY <1>9 DEF WritePart
    <3> HIDE DEF locals
    <3>2. QED
      BY <2>l, <2>2, <3>1, MoveTypes, MoveAccounts DEF States
  <2>6. inbox' \in [Handlers -> Seq(Messages)]
    BY <1>9, ReadTypes DEF WritePart, TypeOK
  <2>7. QED
    BY <1>9, <2>4, <2>5, <2>6 DEF WritePart, TypeOK
<1>10. CASE Spin(h)
  <2>1. frame[h].cred \in Accounts
    BY <1>10, <1>h DEF Spin
  <2>2. /\ pc' \in [Handlers -> States] /\ frame' \in [Handlers -> Frames]
        /\ OnlyAccounts'
    BY <1>10, <1>h, <2>1, MoveTypes, MoveAccounts DEF Spin, States
  <2>3. QED
    BY <1>10, <2>2 DEF Spin, TypeOK, storeVars
<1>11. CASE ReadRequest(h)
  <2> DEFINE locals == [frame[h] EXCEPT !.ask = AsRequest(Incoming(h))]
  <2>1. locals \in Frames /\ locals.cred = frame[h].cred
    BY <1>h, ParseTypes DEF Frames
  <2>2. frame[h].cred \in Accounts
    BY <1>11, <1>h DEF ReadRequest
  <2>3. /\ pc' \in [Handlers -> States] /\ frame' \in [Handlers -> Frames]
        /\ OnlyAccounts'
    <3>1. Goto(h, "serve", locals) /\ "serve" \in States
      BY <1>11 DEF ReadRequest, States
    <3> HIDE DEF locals
    <3>2. QED
      BY <2>1, <2>2, <3>1, MoveTypes, MoveAccounts
  <2>4. inbox' \in [Handlers -> Seq(Messages)]
    BY <1>11, ReadTypes DEF ReadRequest
  <2>5. QED
    BY <1>11, <2>3, <2>4 DEF ReadRequest, TypeOK, storeVars
<1>12. CASE ServeHeader(h)
  <2>1. frame[h].cred \in Accounts /\ User(h) \in Users
    BY <1>12, <1>h DEF ServeHeader
  <2>2. PICK p \in Found(h) :
          LET head == [size |-> FileAt(h, p).size, part |-> p]
              locals == [frame[h] EXCEPT !.hdr = head, !.ask = @ \ {p},
                                         !.copy = FileAt(h, p)]
          IN  /\ Send(h, Message("header", head))
              /\ IF head.size # 0 THEN Goto(h, "send", locals)
                                  ELSE NextRound(h, "serve", locals)
    BY <1>12 DEF ServeHeader
  <2> DEFINE head == [size |-> FileAt(h, p).size, part |-> p]
             locals == [frame[h] EXCEPT !.hdr = head, !.ask = @ \ {p},
                                        !.copy = FileAt(h, p)]
  <2>3. p \in 0..4
    BY <1>h, <2>2 DEF Found, Frames, Parts
  <2>4. FileAt(h, p) \in Pieces /\ FileAt(h, p).size \in Nat
    <3>1. FileAt(h, p) \in Pieces
      BY <2>1, <2>3, PieceTypes, DiskType
    <3>2. QED
      BY <3>1 DEF Pieces
  <2>5. head \in Headers
    BY <2>3, <2>4 DEF Headers
  <2>6. locals \in Frames /\ locals.cred = frame[h].cred
    BY <1>h, <2>4, <2>5 DEF Frames
  <2>7. reply' \in [Handlers -> Seq(Messages)]
    BY <2>2, <2>5, ReadTypes, MessageTypes
  <2>8. /\ pc' \in [Handlers -> States] /\ frame' \in [Handlers -> Frames]
        /\ OnlyAccounts'
    <3>1. Goto(h, "send", locals) \/ NextRound(h, "serve", locals)
      BY <2>2
    <3>2. "send" \in States /\ "serve" \in States
      BY DEF States
    <3> HIDE DEF locals
    <3>3. QED
      BY <2>1, <2>6, <3>1, <3>2, MoveTypes, MoveAccounts
  <2>9. QED
    BY <1>12, <2>7, <2>8 DEF ServeHeader, TypeOK, storeVars
<1>13. CASE SendPart(h)
  <2> DEFINE hdr == frame[h].hdr
  <2>1. hdr.part \in 0..4 /\ hdr.size \in Nat
    BY <1>h DEF Headers
  <2>2. frame[h].cred \in Accounts /\ User(h) \in Users
    BY <1>13, <1>h DEF SendPart
  <2>3. PICK now \in {FileAt(h, hdr.part), frame[h].copy} :
          Send(h, Message("data", ReadBack(now, hdr.size)))
    BY <1>13 DEF SendPart
  <2>4. reply' \in [Handlers -> Seq(Messages)]
    <3>1. frame[h].copy \in Pieces
      BY <1>h DEF Frames
    <3>2. ReadBack(now, hdr.size) \in Pieces
      BY <2>1, <2>2, <2>3, <3>1, PieceTypes, DiskType
    <3>3. QED
      BY <2>3, <3>2, ReadTypes, MessageTypes
  <2> DEFINE locals == [frame[h] EXCEPT !.copy = Absent]
  <2>5. /\ pc' \in [Handlers -> States] /\ frame' \in [Handlers -> Frames]
        /\ OnlyAccounts'
    <3>1. locals \in Frames /\ locals.cred = frame[h].cred
      BY <1>h, PieceTypes DEF Frames
    <3>2. NextRound(h, "serve", locals) /\ "serve" \in States
      BY <1>13 DEF SendPart, States
    <3> HIDE DEF locals
    <3>3. QED
      BY <1>13, <2>2, <3>1, <3>2, MoveTypes, MoveAccounts
  <2>6. QED
    BY <1>13, <2>4, <2>5 DEF SendPart, TypeOK, storeVars
<1>14. CASE ServeNothing(h)
  <2>1. reply' \in [Handlers -> Seq(Messages)]
    BY <1>14, ReadTypes, MessageTypes DEF ServeNothing
  <2>2. "free" \in States
    BY DEF States
  <2>3. /\ pc' \in [Handlers -> States] /\ frame' \in [Handlers -> Frames]
        /\ OnlyAccounts'
    BY <1>14, <1>h, <2>2, MoveTypes, MoveAccounts DEF ServeNothing
  <2>4. QED
    BY <1>14, <2>1, <2>3 DEF ServeNothing, TypeOK, storeVars
<1>15. CASE ServeUnopened(h)
  <2>1. frame[h].cred \in Accounts
    BY <1>15, <1>h DEF ServeUnopened
  <2>2. /\ pc' \in [Handlers -> States] /\ frame' \in [Handlers -> Frames]
        /\ OnlyAccounts'
    BY <1>15, <1>h, <2>1, MoveTypes, MoveAccounts DEF ServeUnopened, States
  <2>3. QED
    BY <1>15, <2>2 DEF ServeUnopened, TypeOK, storeVars
<1>16. QED
  BY <1>1, <1>2, <1>3, <1>4, <1>5, <1>6, <1>7, <1>8, <1>9, <1>10, <1>11,
     <1>12, <1>13, <1>14, <1>15 DEF HandlerStep

\* So do the deaths and restarts of a server.
LEMMA FaultInv ==
  ASSUME Inv
  PROVE  /\ \A h \in Handlers : BrokenPipe(h) => Inv'
         /\ \A s \in Servers : Crash(s) \/ Restart(s) => Inv'
<1>1. ASSUME NEW h \in Handlers, BrokenPipe(h) PROVE Inv'
  <2>1. ServerOf(h) \in Servers
    BY DEF Handlers, ServerOf
  <2>2. QED
    BY <1>1, <2>1, HaltInv DEF BrokenPipe
<1>2. ASSUME NEW s \in Servers, Crash(s) PROVE Inv'
  BY <1>2, HaltInv DEF Crash
<1>3. ASSUME NEW s \in Servers, Restart(s) PROVE Inv'
  <2>1. status' \in [Servers -> {"up", "down", "exited"}]
    BY <1>3 DEF Restart, Inv, TypeOK
  <2>2. TypeOK'
    BY <1>3, <2>1 DEF Restart, Inv, TypeOK
  <2>3. OnlyAccounts'
    BY <1>3 DEF Restart, Inv, OnlyAccounts
  <2>4. QED
    BY <2>2, <2>3 DEF Inv
<1>4. QED
  BY <1>1, <1>2, <1>3

\* So does a new connection, whatever the client has written.
LEMMA AcceptInv ==
  ASSUME Inv, NEW h \in Handlers, NEW msgs \in Seq(Messages),
         NEW closed \in BOOLEAN, Accept(h, msgs, closed)
  PROVE  Inv'
<1>1. Cleared \in Frames /\ "auth" \in States
  BY ClearedType DEF States
<1>2. /\ pc' \in [Handlers -> States] /\ frame' \in [Handlers -> Frames]
      /\ OnlyAccounts'
  BY <1>1, MoveTypes, MoveAccounts DEF Accept, Inv
<1>3. /\ inbox' \in [Handlers -> Seq(Messages)]
      /\ gone' \in [Handlers -> BOOLEAN]
  BY DEF Accept, Inv, TypeOK
<1>4. reply' \in [Handlers -> Seq(Messages)]
  <2>1. << >> \in Seq(Messages)
    OBVIOUS
  <2>2. QED
    BY <2>1 DEF Accept, Inv, TypeOK
<1>5. QED
  BY <1>2, <1>3, <1>4 DEF Accept, Inv, TypeOK, storeVars

-----------------------------------------------------------------------------
\* Handlers that are at work inside their directory.
InDirectory == {"list", "header", "data", "request", "serve", "send"}
NoUserDirectory == {"free", "auth", "scan", "mkdir"}

\* A step moves its own handler; the others stay or die with the process.
LEMMA OthersStay ==
  ASSUME Inv, NEW h \in Handlers, HandlerStep(h)
  PROVE  \A k \in Handlers \ {h} :
           \/ pc'[k] = "free" /\ (UserDirectoryExists(h) \/ ListUnopened(h))
           \/ pc'[k] = pc[k] /\ frame'[k] = frame[k] /\ cmd'[k] = cmd[k]
<1> USE DEF Inv, TypeOK, Goto, Close, NextRound, Halt, storeVars
<1>1. CASE Authenticate(h) \/ ScanForDirectory(h) \/ MakeUserDirectory(h)
  BY <1>1 DEF Authenticate, ScanForDirectory, MakeUserDirectory
<1>2. CASE UserDirectoryExists(h) \/ ListUnopened(h)
  BY <1>2 DEF UserDirectoryExists, ListUnopened
<1>3. CASE ReadCommand(h)
  BY <1>3 DEF ReadCommand
<1>4. CASE List(h) \/ Spin(h) \/ ReadRequest(h)
  BY <1>4 DEF List, Spin, ReadRequest
<1>5. CASE OpenPart(h)
  BY <1>5 DEF OpenPart
<1>6. CASE WritePart(h)
  BY <1>6 DEF WritePart
<1>7. CASE ServeHeader(h)
  BY <1>7 DEF ServeHeader
<1>8. CASE SendPart(h) \/ ServeNothing(h) \/ ServeUnopened(h)
  BY <1>8 DEF SendPart, ServeNothing, ServeUnopened
<1>9. QED
  BY <1>1, <1>2, <1>3, <1>4, <1>5, <1>6, <1>7, <1>8 DEF HandlerStep

\* No step removes a directory.
LEMMA DirectoriesStay ==
  ASSUME Inv, NEW h \in Handlers, HandlerStep(h)
  PROVE  \A s \in Servers : dirs[s] \subseteq dirs'[s]
<1> USE DEF Inv, TypeOK, storeVars
<1>1. CASE MakeUserDirectory(h)
  BY <1>1 DEF MakeUserDirectory
<1>2. CASE ReadCommand(h)
  BY <1>2 DEF ReadCommand, WithSubdirectory
<1>3. CASE UNCHANGED dirs
  BY <1>3
<1>4. QED
  BY <1>1, <1>2, <1>3 DEF HandlerStep, Authenticate, ScanForDirectory,
     UserDirectoryExists, List, ListUnopened, OpenPart, WritePart, Spin,
     ReadRequest, ServeHeader, SendPart, ServeNothing, ServeUnopened, Halt

(***************************************************************************)
(* Every step keeps the directories in place, provided an entry that       *)
(* begins with the user's name is the user's directory.                    *)
(***************************************************************************)
LEMMA HandlerDirectory ==
  ASSUME Inv, DirectoryReady, NEW h \in Handlers, HandlerStep(h),
         UserDirSeen(ServerOf(h), User(h)) =>
           <<User(h), Base>> \in dirs[ServerOf(h)]
  PROVE  DirectoryReady'
<1>h. ServerOf(h) \in Servers
  BY DEF ServerOf, Handlers
<1> DEFINE Ready(k) ==
      /\ pc[k] \notin NoUserDirectory => <<User(k), Base>> \in dirs[ServerOf(k)]
      /\ pc[k] \in InDirectory => Opens(k)
<1>r. \A k \in Handlers : Ready(k)
  BY DEF DirectoryReady, NoUserDirectory, InDirectory
<1>1. ASSUME NEW k \in Handlers \ {h} PROVE Ready(k)'
  <2>1. ServerOf(k) \in Servers
    BY DEF ServerOf, Handlers
  <2>2. CASE pc'[k] = "free"
    BY <2>2 DEF NoUserDirectory, InDirectory
  <2>3. CASE pc'[k] = pc[k] /\ frame'[k] = frame[k] /\ cmd'[k] = cmd[k]
    BY <1>r, <2>1, <2>3, DirectoriesStay DEF User, Opens, Tree, ServerOf
  <2>4. QED
    BY <2>2, <2>3, OthersStay
<1>2. Ready(h)'
  <2> USE DEF NoUserDirectory, InDirectory, Goto, Close, NextRound, storeVars,
              Inv, TypeOK
  <2>f. frame[h] \in Frames /\ Cleared \in Frames
    BY ClearedType
  <2>1. CASE Authenticate(h)
    BY <2>1 DEF Authenticate
  <2>2. CASE ScanForDirectory(h)
    BY <2>2, <1>h DEF ScanForDirectory, User, ServerOf
  <2>3. CASE MakeUserDirectory(h)
    BY <2>3, <1>h DEF MakeUserDirectory, User, ServerOf
  <2>4. CASE UserDirectoryExists(h) \/ ListUnopened(h)
    BY <2>4 DEF UserDirectoryExists, ListUnopened, Halt
  <2>5. CASE ReadCommand(h)
    <3>1. <<User(h), Base>> \in dirs[ServerOf(h)]
      BY <1>r, <2>5 DEF ReadCommand
    <3>2. PICK c \in AsCommand(Incoming(h), cmd[h]) :
            /\ cmd' = [cmd EXCEPT ![h] = c]
            /\ dirs' = [dirs EXCEPT ![ServerOf(h)] =
                          WithSubdirectory(ServerOf(h), User(h), c.dir)]
            /\ IF FirstState(c.op) = "free"
                 THEN Close(h) ELSE Goto(h, FirstState(c.op), frame[h])
      BY <2>5 DEF ReadCommand
    <3>3. <<User(h), c.dir>> \in dirs'[ServerOf(h)]
      BY <3>1, <3>2, <1>h DEF WithSubdirectory
    <3>4. <<User(h), Base>> \in dirs'[ServerOf(h)]
      BY <3>1, <1>h, DirectoriesStay
    <3>5. pc'[h] = "free" \/ (frame'[h] = frame[h] /\ cmd'[h] = c)
      BY <3>2
    <3>6. QED
      BY <3>3, <3>4, <3>5 DEF User, Opens, Tree, ServerOf
  <2>6. CASE List(h) \/ ServeNothing(h)
    BY <2>6 DEF List, ServeNothing
  <2>7. ASSUME pc[h] \in InDirectory, dirs' = dirs, cmd' = cmd,
               pc'[h] = "free" \/ frame'[h].cred = frame[h].cred
        PROVE  Ready(h)'
    <3>1. pc[h] \notin NoUserDirectory
      BY <2>7
    <3>2. QED
      BY <1>r, <2>7, <3>1 DEF User, Opens, Tree, ServerOf
  <2>8. CASE OpenPart(h)
    <3> DEFINE locals == [frame[h] EXCEPT !.hdr = AsHeader(Incoming(h)), !.out = 0]
    <3>1. locals.cred = frame[h].cred
      BY <2>f DEF Frames
    <3>2. [locals EXCEPT !.round = 2].cred = frame[h].cred
      BY <2>f, <3>1 DEF Frames
    <3>3. Goto(h, "data", locals) \/ NextRound(h, "header", locals)
      BY <2>8 DEF OpenPart
    <3> HIDE DEF locals
    <3>4. pc'[h] = "free" \/ frame'[h].cred = frame[h].cred
      BY <3>1, <3>2, <3>3
    <3>5. QED
      BY <2>7, <2>8, <3>4 DEF OpenPart
  <2>9. [frame[h] EXCEPT !.round = 2].cred = frame[h].cred
    BY <2>f DEF Frames
  <2>10. CASE WritePart(h)
    <3> DEFINE locals == [frame[h] EXCEPT !.out = Written(h)]
    <3>1. NextRound(h, "header", locals) \/ Goto(h, "data", locals)
      BY <2>10 DEF WritePart
    <3>c. locals \in Frames /\ locals.cred = frame[h].cred
      BY <2>f, WrittenType DEF Frames
    <3> HIDE DEF locals
    <3>2. pc'[h] = "free" \/ frame'[h].cred = frame[h].cred
      BY <3>1, <3>c DEF NextRound, Goto, Close, Frames
    <3>3. QED
      BY <2>7, <2>10, <3>2 DEF WritePart
  <2>11. CASE Spin(h)
    BY <2>7, <2>11 DEF Spin
  <2>12. CASE ReadRequest(h)
    <3>1. [frame[h] EXCEPT !.ask = AsRequest(Incoming(h))].cred = frame[h].cred
      BY <2>f DEF Frames
    <3>2. QED
      BY <2>7, <2>12, <3>1 DEF ReadRequest
  <2>13. CASE ServeHeader(h)
    <3>1. PICK p \in Found(h) :
            LET head == [size |-> FileAt(h, p).size, part |-> p]
                locals == [frame[h] EXCEPT !.hdr = head, !.ask = @ \ {p},
                                           !.copy = FileAt(h, p)]
            IN  IF head.size # 0 THEN Goto(h, "send", locals)
                                 ELSE NextRound(h, "serve", locals)
      BY <2>13 DEF ServeHeader
    <3> DEFINE head == [size |-> FileAt(h, p).size, part |-> p]
               locals == [frame[h] EXCEPT !.hdr = head, !.ask = @ \ {p},
                                          !.copy = FileAt(h, p)]
    <3>2. locals.cred = frame[h].cred
      BY <2>f DEF Frames
    <3>3. [locals EXCEPT !.round = 2].cred = frame[h].cred
      BY <2>f, <3>2 DEF Frames
    <3>4. Goto(h, "send", locals) \/ NextRound(h, "serve", locals)
      BY <3>1
    <3> HIDE DEF locals
    <3>5. pc'[h] = "free" \/ frame'[h].cred = frame[h].cred
      BY <3>2, <3>3, <3>4
    <3>6. QED
      BY <2>7, <2>13, <3>5 DEF ServeHeader
  <2>14. CASE SendPart(h) \/ ServeUnopened(h)
    <3> DEFINE sent == [frame[h] EXCEPT !.copy = Absent]
    <3>1. NextRound(h, "serve", frame[h]) \/ NextRound(h, "serve", sent)
      BY <2>14 DEF SendPart, ServeUnopened
    <3>2. /\ sent.cred = frame[h].cred
          /\ [sent EXCEPT !.round = 2].cred = frame[h].cred
      BY <2>f DEF Frames
    <3> HIDE DEF sent
    <3>3. pc'[h] = "free" \/ frame'[h].cred = frame[h].cred
      BY <2>9, <3>1, <3>2
    <3>4. QED
      BY <2>7, <2>14, <3>3 DEF SendPart, ServeUnopened
  <2>15. QED
    BY <2>1, <2>2, <2>3, <2>4, <2>5, <2>6, <2>8, <2>10, <2>11, <2>12, <2>13,
       <2>14 DEF HandlerStep
<1>3. QED
  BY <1>1, <1>2 DEF DirectoryReady, NoUserDirectory, InDirectory

\* Nor does the death of a process or a new connection disturb them.
LEMMA OtherStepsDirectory ==
  ASSUME Inv, DirectoryReady
  PROVE  /\ \A s \in Servers, how \in {"down", "exited"} :
              Halt(s, how) => DirectoryReady'
         /\ \A s \in Servers : Restart(s) => DirectoryReady'
         /\ \A h \in Handlers, msgs \in Seq(Messages), closed \in BOOLEAN :
              Accept(h, msgs, closed) => DirectoryReady'
<1> USE DEF Inv, TypeOK, DirectoryReady, User, Opens, Tree, ServerOf
<1>1. ASSUME NEW s \in Servers, NEW how \in {"down", "exited"}, Halt(s, how)
      PROVE  DirectoryReady'
  BY <1>1 DEF Halt
<1>2. ASSUME NEW s \in Servers, Restart(s) PROVE DirectoryReady'
  BY <1>2 DEF Restart
<1>3. ASSUME NEW h \in Handlers, NEW msgs \in Seq(Messages),
             NEW closed \in BOOLEAN, Accept(h, msgs, closed)
      PROVE  DirectoryReady'
  BY <1>3 DEF Accept, Goto, storeVars
<1>4. QED
  BY <1>1, <1>2, <1>3

-----------------------------------------------------------------------------
\* Streams.

\* What put writes for a part is a sequence of messages.
LEMMA PartsType ==
  ASSUME NEW c \in Contents, NEW p \in Parts
  PROVE  PartMessages(c, p) \in Seq(Messages)
<1>1. Cut(c, p) \in Pieces
  BY CutType
<1>2. part_size(Length[c], p) \in Nat
  BY SplitIsExact, ConstantsAssumption
<1>3. [size |-> part_size(Length[c], p), part |-> p] \in Headers
  BY <1>2 DEF Headers, Parts
<1>4. QED
  BY <1>1, <1>3, MessageTypes DEF PartMessages

\* The two messages of a part, or the one of a part of no bytes.
LEMMA PartShape ==
  ASSUME NEW c \in Contents, NEW p \in Parts
  PROVE  LET q == PartMessages(c, p)
             n == part_size(Length[c], p)
             head == Message("header", [size |-> n, part |-> p])
         IN  /\ n \in Nat
             /\ n = 0 => q = <<head>>
             /\ n # 0 => /\ q = <<head, Message("data", Cut(c, p))>>
                         /\ Cut(c, p) = Piece("whole", c, p, n)
<1>1. part_size(Length[c], p) \in Nat
  BY SplitIsExact, ConstantsAssumption
<1>2. QED
  BY <1>1 DEF PartMessages, Cut

\* Taking the first message off a stream that begins with it.
LEMMA TakeFirst ==
  ASSUME NEW m \in Messages, NEW rest \in Seq(Messages)
  PROVE  LET q == <<m>> \o rest
         IN  q # <<>> /\ Head(q) = m /\ Tail(q) = rest
  OBVIOUS
LEMMA TakeOfTwo ==
  ASSUME NEW m \in Messages, NEW n \in Messages, NEW rest \in Seq(Messages)
  PROVE  LET q == <<m, n>> \o rest
         IN  q # <<>> /\ Head(q) = m /\ Tail(q) = <<n>> \o rest
<1> DEFINE q == <<m, n>> \o rest
           other == <<n>> \o rest
<1>1. /\ q \in Seq(Messages) /\ Len(q) = Len(rest) + 2
      /\ q[1] = m /\ q[2] = n /\ \A i \in 1..Len(rest) : q[i + 2] = rest[i]
  OBVIOUS
<1>2. /\ other \in Seq(Messages) /\ Len(other) = Len(rest) + 1
      /\ other[1] = n /\ \A i \in 1..Len(rest) : other[i + 1] = rest[i]
  OBVIOUS
<1> HIDE DEF q, other
<1>3. /\ Tail(q) \in Seq(Messages) /\ Len(Tail(q)) = Len(rest) + 1
      /\ \A i \in 1..(Len(rest) + 1) : Tail(q)[i] = q[i + 1]
  BY <1>1
<1>4. ASSUME NEW i \in 1..(Len(rest) + 1) PROVE Tail(q)[i] = other[i]
  <2>1. CASE i = 1
    BY <1>1, <1>2, <1>3, <2>1
  <2>2. CASE i # 1
    <3>1. i - 1 \in 1..Len(rest) /\ i = (i - 1) + 1 /\ i + 1 = (i - 1) + 2
      BY <2>2
    <3>2. QED
      BY <1>1, <1>2, <1>3, <3>1
  <2>3. QED
    BY <2>1, <2>2
<1>5. Tail(q) = other
  BY <1>2, <1>3, <1>4
<1>6. QED
  BY <1>1, <1>5 DEF q, other

\* A step reads and writes its own connection only.
LEMMA OwnStreams ==
  ASSUME Inv, NEW h \in Handlers, HandlerStep(h)
  PROVE  /\ \A k \in Handlers \ {h} : inbox'[k] = inbox[k] /\ reply'[k] = reply[k]
         /\ inbox'[h] = inbox[h] \/ Consume(h)
<1> USE DEF Inv, TypeOK
<1>1. \A m : Send(h, m) => \A k \in Handlers \ {h} : reply'[k] = reply[k]
  BY DEF Send
<1>2. Consume(h) => \A k \in Handlers \ {h} : inbox'[k] = inbox[k]
  BY DEF Consume
<1>3. inbox' = inbox \/ Consume(h)
  BY DEF HandlerStep, Authenticate, ScanForDirectory, MakeUserDirectory,
     UserDirectoryExists, ReadCommand, List, ListUnopened, OpenPart, WritePart,
     Spin, ReadRequest, ServeHeader, SendPart, ServeNothing, ServeUnopened, Halt
<1>4. reply' = reply \/ \E m : Send(h, m)
  BY DEF HandlerStep, Authenticate, ScanForDirectory, MakeUserDirectory,
     UserDirectoryExists, ReadCommand, List, ListUnopened, OpenPart, WritePart,
     Spin, ReadRequest, ServeHeader, SendPart, ServeNothing, ServeUnopened, Halt
<1>5. QED
  BY <1>1, <1>2, <1>3, <1>4

\* Past the login a step keeps the handler's user or ends its connection, and
\* only the header of a part that has bytes leads to the state that reads them
\* and, block by block, writes them.
LEMMA OwnMove ==
  ASSUME Inv, NEW h \in Handlers, HandlerStep(h), ~Authenticate(h)
  PROVE  /\ pc[h] \notin {"free", "auth"}
         /\ pc'[h] # "auth"
         /\ pc'[h] = "free" \/ frame'[h].cred = frame[h].cred
         /\ pc'[h] = "data" =>
              \/ /\ Consume(h) /\ pc[h] = "header"
                 /\ frame'[h].hdr = AsHeader(Incoming(h)) /\ frame'[h].hdr.size # 0
              \/ /\ pc[h] = "data" /\ inbox'[h] = inbox[h]
                 /\ frame'[h].hdr = frame[h].hdr /\ frame'[h].round = frame[h].round
<1> USE DEF Goto, Close, NextRound, storeVars, Inv, TypeOK
<1>f. frame[h] \in Frames /\ [frame[h] EXCEPT !.round = 2].cred = frame[h].cred
  BY DEF Frames
<1> DEFINE Moves == /\ pc[h] \notin {"free", "auth"}
                    /\ pc'[h] \notin {"auth", "data"}
                    /\ pc'[h] = "free" \/ frame'[h].cred = frame[h].cred
<1>1. ASSUME NEW locals \in Frames, NEW w \in States \ {"auth", "data"},
             locals.cred = frame[h].cred, pc[h] \notin {"free", "auth"},
             Goto(h, w, locals) \/ NextRound(h, w, locals) \/ Close(h)
      PROVE  Moves
  <2>1. [locals EXCEPT !.round = 2].cred = frame[h].cred
    BY <1>1 DEF Frames
  <2>2. QED
    BY <1>1, <2>1
<1>2. CASE \/ ScanForDirectory(h) \/ MakeUserDirectory(h) \/ List(h) \/ Spin(h)
           \/ ServeNothing(h) \/ ServeUnopened(h)
  <2>1. PICK w \in {"mkdir", "command", "free", "spin", "header", "serve"} :
          Goto(h, w, frame[h]) \/ NextRound(h, w, frame[h]) \/ Close(h)
    BY <1>2 DEF ScanForDirectory, MakeUserDirectory, List, Spin, ServeNothing,
       ServeUnopened
  <2>2. pc[h] \notin {"free", "auth"}
    BY <1>2 DEF ScanForDirectory, MakeUserDirectory, List, Spin, ServeNothing,
       ServeUnopened
  <2>3. w \in States \ {"auth", "data"}
    BY DEF States
  <2>4. QED
    BY <1>f, <1>1, <2>1, <2>2, <2>3
<1>3. CASE UserDirectoryExists(h) \/ ListUnopened(h)
  BY <1>3 DEF UserDirectoryExists, ListUnopened, Halt
<1>4. CASE ReadCommand(h)
  <2>1. PICK c \in AsCommand(Incoming(h), cmd[h]) :
          IF FirstState(c.op) = "free"
            THEN Close(h) ELSE Goto(h, FirstState(c.op), frame[h])
    BY <1>4 DEF ReadCommand
  <2>2. c.op \in Ops
    BY <2>1, ReadTypes, ParseTypes DEF Commands
  <2>3. FirstState(c.op) \in States \ {"auth", "data"}
    BY <2>2 DEF FirstState, Ops, States
  <2>4. QED
    BY <1>f, <1>1, <1>4, <2>1, <2>3 DEF ReadCommand
<1>5. CASE OpenPart(h)
  <2> DEFINE head == AsHeader(Incoming(h))
             locals == [frame[h] EXCEPT !.hdr = head, !.out = 0]
  <2>1. head \in Headers
    BY ReadTypes, ParseTypes
  <2>2. locals \in Frames /\ locals.cred = frame[h].cred /\ locals.hdr = head
    BY <1>f, <2>1 DEF Frames
  <2>3. "header" \in States \ {"auth", "data"}
    BY DEF States
  <2>4. pc[h] = "header" /\ Consume(h)
    BY <1>5 DEF OpenPart
  <2>5. \/ head.size # 0 /\ Goto(h, "data", locals)
        \/ NextRound(h, "header", locals)
    BY <1>5 DEF OpenPart
  <2> HIDE DEF locals, head
  <2>6. CASE head.size # 0 /\ Goto(h, "data", locals)
    BY <2>2, <2>4, <2>6 DEF head
  <2>7. CASE NextRound(h, "header", locals)
    BY <1>1, <2>2, <2>3, <2>4, <2>7
  <2>8. QED
    BY <2>5, <2>6, <2>7
<1>6. CASE ReadRequest(h)
  <2> DEFINE locals == [frame[h] EXCEPT !.ask = AsRequest(Incoming(h))]
  <2>1. locals \in Frames /\ locals.cred = frame[h].cred
    BY <1>f, ReadTypes, ParseTypes DEF Frames
  <2>2. "serve" \in States \ {"auth", "data"} /\ Goto(h, "serve", locals)
    BY <1>6 DEF States, ReadRequest
  <2> HIDE DEF locals
  <2>3. QED
    BY <1>1, <1>6, <2>1, <2>2 DEF ReadRequest
<1>7. CASE ServeHeader(h)
  <2>1. PICK p \in Found(h) :
          LET head == [size |-> FileAt(h, p).size, part |-> p]
              locals == [frame[h] EXCEPT !.hdr = head, !.ask = @ \ {p},
                                         !.copy = FileAt(h, p)]
          IN  IF head.size # 0 THEN Goto(h, "send", locals)
                               ELSE NextRound(h, "serve", locals)
    BY <1>7 DEF ServeHeader
  <2> DEFINE head == [size |-> FileAt(h, p).size, part |-> p]
             locals == [frame[h] EXCEPT !.hdr = head, !.ask = @ \ {p},
                                        !.copy = FileAt(h, p)]
  <2>2. locals.cred = frame[h].cred /\ [locals EXCEPT !.round = 2].cred = frame[h].cred
    BY <1>f DEF Frames
  <2>3. Goto(h, "send", locals) \/ NextRound(h, "serve", locals)
    BY <2>1
  <2> HIDE DEF locals
  <2>4. QED
    BY <1>7, <2>2, <2>3 DEF ServeHeader
<1>8. CASE SendPart(h)
  <2> DEFINE locals == [frame[h] EXCEPT !.copy = Absent]
  <2>1. locals \in Frames /\ locals.cred = frame[h].cred
    BY <1>f, PieceTypes DEF Frames
  <2>2. "serve" \in States \ {"auth", "data"} /\ NextRound(h, "serve", locals)
    BY <1>8 DEF States, SendPart
  <2> HIDE DEF locals
  <2>3. QED
    BY <1>1, <1>8, <2>1, <2>2 DEF SendPart
<1>9. CASE WritePart(h)
  <2> DEFINE locals == [frame[h] EXCEPT !.out = Written(h)]
  <2>1. /\ locals \in Frames /\ locals.cred = frame[h].cred
        /\ locals.hdr = frame[h].hdr /\ locals.round = frame[h].round
    BY <1>f, WrittenType DEF Frames
  <2>2. /\ pc[h] = "data" /\ "header" \in States \ {"auth", "data"}
        /\ NextRound(h, "header", locals) \/ (Goto(h, "data", locals) /\ UNCHANGED inbox)
    BY <1>9 DEF States, WritePart
  <2> HIDE DEF locals
  <2>3. CASE NextRound(h, "header", locals)
    BY <1>1, <2>1, <2>2, <2>3
  <2>4. CASE Goto(h, "data", locals) /\ UNCHANGED inbox
    BY <2>1, <2>2, <2>4
  <2>5. QED
    BY <2>2, <2>3, <2>4
<1>10. QED
  BY <1>2, <1>3, <1>4, <1>5, <1>6, <1>7, <1>8, <1>9 DEF HandlerStep

-----------------------------------------------------------------------------
(***************************************************************************)
(* Where every user has a directory, a handler's step ends no process,     *)
(* closes no other connection and needs no directory made.                 *)
(***************************************************************************)
LEMMA SettledStep ==
  ASSUME Inv, DirectoryReady, \A s \in Servers : Users \X {Base} \subseteq dirs[s],
         NEW h \in Handlers, pc[h] # "mkdir", HandlerStep(h)
  PROVE  /\ UNCHANGED <<status, gone>> /\ DirectoryReady' /\ pc'[h] # "mkdir"
         /\ \A s \in Servers : Users \X {Base} \subseteq dirs'[s]
         /\ \A k \in Handlers \ {h} :
              pc'[k] = pc[k] /\ frame'[k] = frame[k] /\ cmd'[k] = cmd[k]
<1>1. DirectoryReady'
  <2>1. ServerOf(h) \in Servers
    BY DEF ServerOf, Handlers
  <2>2. CASE pc[h] \in {"free", "auth"}
    <3>1. HandlerStep(h) => Authenticate(h)
      BY <2>2 DEF HandlerStep, Authenticate, ScanForDirectory,
         MakeUserDirectory, UserDirectoryExists, ReadCommand, List,
         ListUnopened, OpenPart, WritePart, Spin, ReadRequest,
         ServeHeader, SendPart, ServeNothing, ServeUnopened
    <3>2. dirs' = dirs /\ cmd' = cmd
      BY <3>1 DEF Authenticate, storeVars
    <3>3. \A k \in Handlers \ {h} :
            \/ pc'[k] = "free"
            \/ pc'[k] = pc[k] /\ frame'[k] = frame[k] /\ cmd'[k] = cmd[k]
      BY OthersStay
    <3>4. pc'[h] \in {"free", "scan"}
      BY <3>1 DEF Authenticate, Goto, Close, Inv, TypeOK
    <3>5. QED
      BY <3>2, <3>3, <3>4 DEF DirectoryReady, User, Opens, Tree, ServerOf
  <2>3. CASE pc[h] \notin {"free", "auth"}
    <3>1. User(h) \in Users
      BY <2>3, UserType
    <3>2. <<User(h), Base>> \in dirs[ServerOf(h)]
      BY <2>1, <3>1
    <3>3. QED
      BY <3>2, HandlerDirectory
  <2>4. QED
    BY <2>2, <2>3
<1>2. ~UserDirectoryExists(h) /\ ~ListUnopened(h)
  BY DEF UserDirectoryExists, ListUnopened, DirectoryReady
<1>3. status' = status /\ gone' = gone
  BY <1>2 DEF HandlerStep, Authenticate, ScanForDirectory,
     MakeUserDirectory, ReadCommand, List, OpenPart, WritePart, Spin,
     ReadRequest, ServeHeader, SendPart, ServeNothing, ServeUnopened,
     storeVars
<1>4. pc'[h] # "mkdir"
  <2>1. CASE ScanForDirectory(h)
    <3>1. User(h) \in Users
      BY <2>1, UserType DEF ScanForDirectory
    <3>2. UserDirSeen(ServerOf(h), User(h))
      BY <3>1 DEF UserDirSeen, ServerOf, Handlers
    <3>3. QED
      BY <2>1, <3>2 DEF ScanForDirectory, Goto, Inv, TypeOK
  <2>2. CASE ReadCommand(h)
    <3>1. cmd[h] \in Commands /\ Incoming(h) \in Messages
      BY ReadTypes DEF Inv, TypeOK
    <3>2. PICK c \in AsCommand(Incoming(h), cmd[h]) :
            IF FirstState(c.op) = "free"
              THEN Close(h) ELSE Goto(h, FirstState(c.op), frame[h])
      BY <2>2 DEF ReadCommand
    <3>3. c.op \in Ops
      BY <3>1, <3>2, ParseTypes DEF Commands
    <3>4. FirstState(c.op) # "mkdir"
      BY <3>3 DEF FirstState, Ops
    <3>5. QED
      BY <3>2, <3>4 DEF Goto, Close, Inv, TypeOK
  <2>3. CASE ServeHeader(h)
    BY <2>3 DEF ServeHeader, Goto, NextRound, Close, Inv, TypeOK
  <2>4. CASE OpenPart(h)
    BY <2>4 DEF OpenPart, Goto, NextRound, Close, Inv, TypeOK
  <2>5. CASE WritePart(h) \/ SendPart(h) \/ ServeUnopened(h)
    BY <2>5 DEF WritePart, SendPart, ServeUnopened, Goto, NextRound,
       Close, Inv, TypeOK
  <2>6. CASE Authenticate(h) \/ MakeUserDirectory(h) \/ List(h) \/ Spin(h)
               \/ ReadRequest(h) \/ ServeNothing(h)
    BY <2>6 DEF Authenticate, MakeUserDirectory, List, Spin,
       ReadRequest, ServeNothing, Goto, Close, Inv, TypeOK
  <2>7. QED
    BY <1>2, <2>1, <2>2, <2>3, <2>4, <2>5, <2>6 DEF HandlerStep
<1>5. \A k \in Handlers \ {h} :
        pc'[k] = pc[k] /\ frame'[k] = frame[k] /\ cmd'[k] = cmd[k]
  BY <1>2, OthersStay
<1>6. \A s \in Servers : Users \X {Base} \subseteq dirs'[s]
  BY DirectoriesStay
<1>7. QED
  BY <1>1, <1>2, <1>3, <1>4, <1>5, <1>6

-----------------------------------------------------------------------------
\* Sequences: what taking from one and adding to one leave of the other items.
LEMMA TailItems ==
  ASSUME NEW S, NEW q \in Seq(S), q # <<>>
  PROVE  /\ Tail(q) \in Seq(S) /\ Head(q) \in S /\ Head(q) = q[1]
         /\ Len(q) > 0 /\ Len(Tail(q)) = Len(q) - 1
         /\ Tail(q) = <<>> => Len(q) = 1
         /\ \A i \in 1..Len(Tail(q)) : i + 1 \in 1..Len(q) /\ Tail(q)[i] = q[i + 1]
<1>1. /\ Tail(q) \in Seq(S) /\ Head(q) \in S /\ Head(q) = q[1]
      /\ Len(q) > 0 /\ Len(Tail(q)) = Len(q) - 1
      /\ \A i \in 1..Len(Tail(q)) : i + 1 \in 1..Len(q) /\ Tail(q)[i] = q[i + 1]
  OBVIOUS
<1>2. Tail(q) = <<>> => Len(Tail(q)) = 0
  <2>1. Len(<<>>) = 0
    OBVIOUS
  <2>2. QED
    BY <2>1
<1>3. Len(q) \in Nat
  OBVIOUS
<1>4. QED
  BY <1>1, <1>2, <1>3
LEMMA HeadAndTail ==
  ASSUME NEW S, NEW q \in Seq(S), q # <<>>
  PROVE  q = <<Head(q)>> \o Tail(q)
<1>1. Head(q) \in S /\ Tail(q) \in Seq(S)
  BY TailItems
<1>2. QED
  BY <1>1, HeadTailProperties, TailItems, SeqEqual
LEMMA OnlyItem ==
  ASSUME NEW S, NEW q \in Seq(S), Len(q) = 1
  PROVE  q # <<>> /\ Tail(q) = <<>>
<1>1. q # <<>>
  BY EmptySeq
<1>2. Tail(q) \in Seq(S) /\ Len(Tail(q)) = 0
  BY <1>1, TailItems
<1>3. QED
  BY <1>1, <1>2, EmptySeq
LEMMA AppendItems ==
  ASSUME NEW S, NEW q \in Seq(S), NEW m \in S
  PROVE  /\ Append(q, m) \in Seq(S) /\ Append(q, m) # <<>>
         /\ Len(Append(q, m)) = Len(q) + 1
         /\ Append(q, m)[Len(q) + 1] = m
         /\ \A i \in 1..Len(q) : Append(q, m)[i] = q[i]
  OBVIOUS

\* The headers of a stream name parts.
Announces(q) ==
  \A i \in 1..Len(q) : q[i].tag = "header" => q[i].body.part \in Parts
LEMMA AnnouncesTail ==
  ASSUME NEW q \in Seq(Messages), Announces(q), q # <<>>
  PROVE  Announces(Tail(q))
  BY TailItems DEF Announces
LEMMA AnnouncesMore ==
  ASSUME NEW q \in Seq(Messages), Announces(q), NEW m \in Messages,
         m.tag = "header" => m.body.part \in Parts
  PROVE  Announces(Append(q, m))
<1> SUFFICES ASSUME NEW i \in 1..Len(Append(q, m)), Append(q, m)[i].tag = "header"
             PROVE  Append(q, m)[i].body.part \in Parts
  BY DEF Announces
<1>1. CASE i = Len(q) + 1
  BY <1>1, AppendItems
<1>2. CASE i # Len(q) + 1
  <2>1. i \in 1..Len(q)
    BY <1>2, AppendItems
  <2>2. QED
    BY <2>1, AppendItems DEF Announces
<1>3. QED
  BY <1>1, <1>2

\* A step of a client keeps what it leaves of the servers well typed.
LEMMA ClientKeepsInv ==
  ASSUME Inv, UNCHANGED <<storeVars, pc, frame, cmd>>,
         inbox' \in [Handlers -> Seq(Messages)],
         reply' \in [Handlers -> Seq(Messages)], gone' \in [Handlers -> BOOLEAN]
  PROVE  Inv'
  BY DEF Inv, TypeOK, OnlyAccounts, storeVars

\* What is written in a session.
LEMMA ScriptType ==
  ASSUME NEW j \in Jobs, j.task.op = "put" => j.task.content # None
  PROVE  /\ Script(j) \in Seq(Messages) /\ Script(j) # <<>>
         /\ WrapPair(j.pair) \in Pairs
<1> DEFINE command == Message("command", [op |-> j.task.op, name |-> j.task.name,
                                          dir |-> j.task.dir])
           pair == WrapPair(j.pair)
<1>1. pair \in Pairs
  BY DEF WrapPair, Jobs, Pairs
<1>2. PartSent(pair, 0) \in Parts /\ PartSent(pair, 1) \in Parts
  BY <1>1 DEF PartSent, IndexOf, Pairs, Parts
<1>3. <<command>> \in Seq(Messages)
  <2>1. [op |-> j.task.op, name |-> j.task.name, dir |-> j.task.dir] \in Commands
    BY DEF Jobs, TaskTypes, Commands
  <2>2. QED
    BY <2>1, MessageTypes
<1>4. CASE j.task.op = "put"
  <2>1. j.task.content \in Contents
    BY <1>4 DEF Jobs, TaskTypes
  <2>2. /\ PartMessages(j.task.content, PartSent(pair, 0)) \in Seq(Messages)
        /\ PartMessages(j.task.content, PartSent(pair, 1)) \in Seq(Messages)
    BY <1>2, <2>1, PartsType
  <2>3. Script(j) = <<command>> \o (PartMessages(j.task.content, PartSent(pair, 0))
                                 \o PartMessages(j.task.content, PartSent(pair, 1)))
    BY <1>4 DEF Script
  <2> HIDE DEF command, pair
  <2>4. QED
    BY <1>1, <1>3, <2>2, <2>3 DEF pair
<1>5. CASE j.task.op = "get"
  <2>1. j.want \in SUBSET Parts
    BY DEF Jobs
  <2>2. <<Message("request", j.want)>> \in Seq(Messages)
    BY <2>1, MessageTypes
  <2>3. Script(j) = <<command>> \o <<Message("request", j.want)>>
    BY <1>5 DEF Script
  <2> HIDE DEF command, pair
  <2>4. QED
    BY <1>1, <1>3, <2>2, <2>3 DEF pair
<1>6. CASE j.task.op \notin {"put", "get"}
  <2>1. Script(j) = <<command>> \o <<>>
    BY <1>6 DEF Script
  <2> HIDE DEF command, pair
  <2>2. QED
    BY <1>1, <1>3, <2>1 DEF pair
<1>7. QED
  BY <1>4, <1>5, <1>6

\* Every server gets parts of the file.
LEMMA LayoutParts ==
  ASSUME NEW first \in Pairs, NEW s \in 1..MAXSERVERS
  PROVE  Layout(first)[s] \in Pairs /\ PairParts(Layout(first)[s]) \subseteq Parts
<1>1. Layout(first)[s] \in Pairs
  BY DEF Layout, WrapPair, Pairs, MAXSERVERS
<1>2. \A pair \in Pairs : PairParts(pair) \subseteq Parts
  BY DEF PairParts, PartSent, IndexOf, Pairs, Parts
<1>3. QED
  BY <1>1, <1>2

\* What a handler sends names a part only if it was asked for it.
LEMMA HandlerAnnounces ==
  ASSUME Inv, NEW h \in Handlers, HandlerStep(h),
         \A k \in Handlers : Announces(reply[k])
  PROVE  \A k \in Handlers : Announces(reply'[k])
<1>i. /\ reply \in [Handlers -> Seq(Messages)] /\ reply[h] \in Seq(Messages)
      /\ \A k \in Handlers : Announces(reply[k])
  BY DEF Inv, TypeOK
<1>1. ASSUME NEW m, Send(h, m), m.tag # "header" \/ m.body.part \in Parts,
             reply' \in [Handlers -> Seq(Messages)]
      PROVE  \A k \in Handlers : Announces(reply'[k])
  <2>1. reply'[h] = Append(reply[h], m) /\ \A k \in Handlers \ {h} : reply'[k] = reply[k]
    BY <1>1, <1>i DEF Send
  <2>2. m \in Messages
    <3>1. reply'[h] \in Seq(Messages) /\ Len(reply'[h]) = Len(reply[h]) + 1
          /\ reply'[h][Len(reply[h]) + 1] = m
      BY <1>1, <1>i, <2>1
    <3>2. QED
      BY <3>1, <1>i
  <2>3. Announces(reply'[h])
    BY <1>1, <1>i, <2>1, <2>2, AnnouncesMore
  <2>4. QED
    BY <1>i, <2>1, <2>3
<1>r. reply' \in [Handlers -> Seq(Messages)]
  BY HandlerInv DEF Inv, TypeOK
<1>2. CASE ServeHeader(h)
  <2>1. PICK p \in Found(h) :
          Send(h, Message("header", [size |-> FileAt(h, p).size, part |-> p]))
    BY <1>2 DEF ServeHeader
  <2>2. p \in Parts
    BY <2>1 DEF Found, Inv, TypeOK, Frames
  <2>3. QED
    BY <1>1, <1>r, <2>1, <2>2 DEF Message
<1>3. CASE Authenticate(h)
  BY <1>1, <1>r, <1>3 DEF Authenticate, Message
<1>4. CASE List(h)
  BY <1>1, <1>r, <1>4 DEF List, Message
<1>5. CASE SendPart(h)
  BY <1>1, <1>r, <1>5 DEF SendPart, Message
<1>6. CASE ServeNothing(h)
  BY <1>1, <1>r, <1>6 DEF ServeNothing, Message
<1>7. CASE reply' = reply
  BY <1>i, <1>7
<1>8. QED
  BY <1>2, <1>3, <1>4, <1>5, <1>6, <1>7 DEF HandlerStep, ScanForDirectory,
     MakeUserDirectory, UserDirectoryExists, ReadCommand, ListUnopened, OpenPart,
     WritePart, Spin, ReadRequest, ServeUnopened, Halt

\* A process that ends sends nothing more.
LEMMA FaultsSilent ==
  ASSUME Inv,
         \/ \E h \in Handlers : BrokenPipe(h)
         \/ \E s \in Servers : Crash(s) \/ Restart(s)
  PROVE  Inv' /\ UNCHANGED <<inbox, reply, gone, dirs, disk>>
  BY FaultInv DEF BrokenPipe, Crash, Restart, Halt

-----------------------------------------------------------------------------
(***************************************************************************)
(* The answer to a get, as the client cuts it: a header and, unless it     *)
(* announces no bytes, as many as it announces.                            *)
(***************************************************************************)
StartsWithUnit(q) ==
  /\ q # <<>> /\ Head(q).tag = "header" /\ Head(q).body \in Headers
  /\ Head(q).body.size # 0 =>
       /\ Tail(q) # <<>> /\ Head(Tail(q)).tag = "data"
       /\ Head(Tail(q)).body.size = Head(q).body.size
AfterUnit(q) == IF Head(q).body.size = 0 THEN Tail(q) ELSE Tail(Tail(q))
\* The stream is n of them and then end.
Units(q, n, end) ==
  \/ n = 0 /\ q = end
  \/ n = 1 /\ StartsWithUnit(q) /\ AfterUnit(q) = end
  \/ n = 2 /\ StartsWithUnit(q) /\ StartsWithUnit(AfterUnit(q))
           /\ AfterUnit(AfterUnit(q)) = end
Announced(hd) == <<Message("header", hd)>>
NothingMore   == <<Message("nothing", None)>>

\* How many whole answers the stream of a handler in this state can hold, and
\* whether half a one.
BeforeCommand == {"scan", "mkdir", "command"}
CanBeCut(where, locals, q) ==
  /\ where \in BeforeCommand \cup {"request", "serve", "send", "free"}
  /\ where \in BeforeCommand \cup {"request"} => q = <<>> /\ locals.round = 1
  /\ where = "serve" => \E n \in 0..(locals.round - 1) : Units(q, n, <<>>)
  /\ where = "send" =>
       /\ locals.hdr.size # 0
       /\ \E n \in 0..(locals.round - 1) : Units(q, n, Announced(locals.hdr))
  /\ where = "free" =>
       \E n \in 0..2 : \/ Units(q, n, <<>>) \/ Units(q, n, NothingMore)
                       \/ \E hd \in Headers : hd.size # 0 /\ Units(q, n, Announced(hd))
IsGet(m) == m.tag = "command" /\ m.body.op = "get"

AwaitsVerdict(h) ==
  /\ pc[h] \in BeforeCommand \cup {"auth", "free"}
  /\ pc[h] # "free" => frame[h].round = 1
  /\ pc[h] = "auth" => reply[h] = <<>> /\ Len(inbox[h]) = 1
  /\ pc[h] \in BeforeCommand => inbox[h] = <<>>
  /\ Len(reply[h]) <= 1
\* A message put before a stream, and one put after it.
LEMMA Prepended ==
  ASSUME NEW S, NEW m \in S, NEW q \in Seq(S)
  PROVE  /\ <<m>> \o q \in Seq(S) /\ <<m>> \o q # <<>>
         /\ Head(<<m>> \o q) = m /\ Tail(<<m>> \o q) = q
<1>1. <<m>> \o q \in Seq(S) /\ <<m>> \o q # <<>> /\ Head(<<m>> \o q) = m
  OBVIOUS
<1>2. Tail(<<m>> \o q) = q
  OBVIOUS
<1>3. QED
  BY <1>1, <1>2
LEMMA AppendedToOne ==
  ASSUME NEW S, NEW m \in S, NEW x \in S
  PROVE  Append(<<m>>, x) = <<m>> \o <<x>>
<1>1. <<m>> \in Seq(S)
  OBVIOUS
<1>2. QED
  BY <1>1, AppendIsConcat
LEMMA AppendedToMany ==
  ASSUME NEW S, NEW m \in S, NEW q \in Seq(S), NEW x \in S
  PROVE  Append(<<m>> \o q, x) = <<m>> \o Append(q, x)
<1>1. <<m>> \in Seq(S) /\ <<x>> \in Seq(S) /\ <<m>> \o q \in Seq(S)
  OBVIOUS
<1>2. Append(<<m>> \o q, x) = (<<m>> \o q) \o <<x>>
  BY <1>1, AppendIsConcat
<1>3. Append(q, x) = q \o <<x>>
  BY AppendIsConcat
<1>4. (<<m>> \o q) \o <<x>> = <<m>> \o (q \o <<x>>)
  BY <1>1, ConcatAssociative
<1>5. QED
  BY <1>2, <1>3, <1>4

\* Adding to the end leaves the first unit what it is.
LEMMA UnitMore ==
  ASSUME NEW q \in Seq(Messages), StartsWithUnit(q), NEW m \in Messages
  PROVE  /\ AfterUnit(q) \in Seq(Messages)
         /\ StartsWithUnit(Append(q, m))
         /\ AfterUnit(Append(q, m)) = Append(AfterUnit(q), m)
<1>1. q # <<>> /\ Tail(q) \in Seq(Messages) /\ Append(q, m) # <<>>
  BY TailItems, AppendItems DEF StartsWithUnit
<1>2. Head(Append(q, m)) = Head(q) /\ Tail(Append(q, m)) = Append(Tail(q), m)
  BY <1>1, HeadTailAppend
<1>3. CASE Head(q).body.size = 0
  BY <1>1, <1>2, <1>3 DEF StartsWithUnit, AfterUnit
<1>4. CASE Head(q).body.size # 0
  <2>1. Tail(q) # <<>> /\ Tail(Tail(q)) \in Seq(Messages) /\ Append(Tail(q), m) # <<>>
    BY <1>1, <1>4, TailItems, AppendItems DEF StartsWithUnit
  <2>2. /\ Head(Append(Tail(q), m)) = Head(Tail(q))
        /\ Tail(Append(Tail(q), m)) = Append(Tail(Tail(q)), m)
    BY <1>1, <2>1, HeadTailAppend
  <2>3. QED
    BY <1>1, <1>2, <1>4, <2>1, <2>2 DEF StartsWithUnit, AfterUnit
<1>5. QED
  BY <1>3, <1>4
LEMMA UnitsMore ==
  ASSUME NEW q \in Seq(Messages), NEW n, NEW end, Units(q, n, end),
         NEW m \in Messages
  PROVE  Units(Append(q, m), n, Append(end, m))
<1>1. CASE n = 0 /\ q = end
  BY <1>1 DEF Units
<1>2. CASE n = 1 /\ StartsWithUnit(q) /\ AfterUnit(q) = end
  BY <1>2, UnitMore DEF Units
<1>3. CASE /\ n = 2 /\ StartsWithUnit(q) /\ StartsWithUnit(AfterUnit(q))
           /\ AfterUnit(AfterUnit(q)) = end
  <2>1. AfterUnit(q) \in Seq(Messages)
    BY <1>3, UnitMore
  <2>2. QED
    BY <1>3, <2>1, UnitMore DEF Units
<1>4. QED
  BY <1>1, <1>2, <1>3 DEF Units
\* When the end has become a unit there is one unit more.
LEMMA UnitDone ==
  ASSUME NEW q, NEW n \in 0..1, NEW end, Units(q, n, end),
         StartsWithUnit(end), AfterUnit(end) = <<>>
  PROVE  Units(q, n + 1, <<>>)
<1>1. CASE n = 0
  BY <1>1 DEF Units
<1>2. CASE n = 1
  BY <1>2 DEF Units
<1>3. QED
  BY <1>1, <1>2
LEMMA EmptyPart ==
  ASSUME NEW q \in Seq(Messages), NEW n \in 0..1, Units(q, n, <<>>),
         NEW hd \in Headers, hd.size = 0
  PROVE  Units(Append(q, Message("header", hd)), n + 1, <<>>)
<1> DEFINE m == Message("header", hd)
<1>1. m \in Messages
  BY MessageTypes
<1>2. Units(Append(q, m), n, <<m>>)
  <2>1. Append(<<>>, m) = <<m>>
    OBVIOUS
  <2>2. QED
    BY <1>1, <2>1, UnitsMore
<1>3. StartsWithUnit(<<m>>) /\ AfterUnit(<<m>>) = <<>>
  BY DEF StartsWithUnit, AfterUnit, Message
<1> HIDE DEF m
<1>4. QED
  BY <1>2, <1>3, UnitDone DEF m
LEMMA PartStarts ==
  ASSUME NEW q \in Seq(Messages), NEW n, Units(q, n, <<>>),
         NEW m \in Messages
  PROVE  Units(Append(q, m), n, <<m>>)
<1>1. Append(<<>>, m) = <<m>>
  OBVIOUS
<1>2. QED
  BY <1>1, UnitsMore
LEMMA PartDone ==
  ASSUME NEW q \in Seq(Messages), NEW n \in 0..1, NEW hd \in Headers, hd.size # 0,
         Units(q, n, Announced(hd)), NEW piece \in Pieces, piece.size = hd.size
  PROVE  Units(Append(q, Message("data", piece)), n + 1, <<>>)
<1> DEFINE m == Message("data", piece)
           head == Message("header", hd)
<1>1. m \in Messages /\ head \in Messages
  BY MessageTypes
<1> DEFINE both == <<head>> \o <<m>>
<1>2. /\ head.tag = "header" /\ head.body = hd /\ Announced(hd) = <<head>>
      /\ m.tag = "data" /\ m.body = piece
  BY DEF Message, Announced
<1> HIDE DEF head, m
<1>3. <<m>> \in Seq(Messages) /\ <<m>> # <<>> /\ Head(<<m>>) = m /\ Tail(<<m>>) = <<>>
  BY <1>1
<1>4. both # <<>> /\ Head(both) = head /\ Tail(both) = <<m>>
  BY <1>1, <1>3, Prepended
<1>5. Append(<<head>>, m) = both
  BY <1>1, AppendedToOne
<1> HIDE DEF both
<1>6. Units(Append(q, m), n, both)
  BY <1>1, <1>2, <1>5, UnitsMore
<1>7. StartsWithUnit(both) /\ AfterUnit(both) = <<>>
  BY <1>2, <1>3, <1>4 DEF StartsWithUnit, AfterUnit
<1>8. Units(Append(q, m), n + 1, <<>>)
  BY <1>6, <1>7, UnitDone
<1>9. QED
  BY <1>8 DEF m

\* What the client can find at the head of such a stream.
LEMMA NextOfStream ==
  ASSUME NEW where, NEW locals \in Frames, NEW q \in Seq(Messages), q # <<>>,
         CanBeCut(where, locals, q)
  PROVE  \/ StartsWithUnit(q) /\ CanBeCut(where, locals, AfterUnit(q))
         \/ where = "free" /\ q = NothingMore
         \/ \E hd \in Headers : hd.size # 0 /\ q = Announced(hd)
<1>1. ASSUME NEW n \in 0..2, NEW end, Units(q, n, end)
      PROVE  \/ q = end
             \/ StartsWithUnit(q) /\ n - 1 \in 0..2 /\ Units(AfterUnit(q), n - 1, end)
  BY <1>1 DEF Units
<1>2. locals.hdr \in Headers /\ locals.round \in 1..2
  BY DEF Frames
<1>3. CASE where \in BeforeCommand \cup {"request"}
  BY <1>3 DEF CanBeCut
<1>4. CASE where = "serve"
  <2>1. PICK n \in 0..(locals.round - 1) : Units(q, n, <<>>)
    BY <1>4 DEF CanBeCut
  <2>2. StartsWithUnit(q) /\ n - 1 \in 0..2 /\ Units(AfterUnit(q), n - 1, <<>>)
    BY <1>1, <1>2, <2>1
  <2>3. n - 1 \in 0..(locals.round - 1)
    BY <1>2, <2>1, <2>2
  <2>4. QED
    BY <1>4, <2>2, <2>3 DEF CanBeCut, BeforeCommand
<1>5. CASE where = "send"
  <2>1. PICK n \in 0..(locals.round - 1) : Units(q, n, Announced(locals.hdr))
    BY <1>5 DEF CanBeCut
  <2>2. CASE q = Announced(locals.hdr)
    BY <1>2, <1>5, <2>2 DEF CanBeCut
  <2>3. CASE q # Announced(locals.hdr)
    <3>1. StartsWithUnit(q) /\ n - 1 \in 0..2 /\ Units(AfterUnit(q), n - 1, Announced(locals.hdr))
      BY <1>1, <1>2, <2>1, <2>3
    <3>2. n - 1 \in 0..(locals.round - 1)
      BY <1>2, <2>1, <3>1
    <3>3. QED
      BY <1>5, <3>1, <3>2 DEF CanBeCut, BeforeCommand
  <2>4. QED
    BY <2>2, <2>3
<1>6. CASE where = "free"
  <2>1. PICK n \in 0..2, end \in {<<>>, NothingMore} \cup {Announced(hd) : hd \in {k \in Headers : k.size # 0}} :
          Units(q, n, end)
    BY <1>6 DEF CanBeCut
  <2>2. CASE q = end
    BY <1>6, <2>1, <2>2
  <2>3. CASE q # end
    <3>1. StartsWithUnit(q) /\ n - 1 \in 0..2 /\ Units(AfterUnit(q), n - 1, end)
      BY <1>1, <2>1, <2>3
    <3>2. \/ Units(AfterUnit(q), n - 1, <<>>) \/ Units(AfterUnit(q), n - 1, NothingMore)
          \/ \E hd \in Headers : hd.size # 0 /\ Units(AfterUnit(q), n - 1, Announced(hd))
      BY <2>1, <3>1
    <3>3. QED
      BY <1>6, <3>1, <3>2 DEF CanBeCut, BeforeCommand
  <2>4. QED
    BY <2>2, <2>3
<1>7. QED
  BY <1>3, <1>4, <1>5, <1>6 DEF CanBeCut

\* A handler that dies leaves a stream that can be cut.
LEMMA CutShort ==
  ASSUME NEW where, NEW locals \in Frames, NEW q, CanBeCut(where, locals, q)
  PROVE  CanBeCut("free", Cleared, q)
<1>1. locals.hdr \in Headers /\ locals.round - 1 \in 0..2
  BY DEF Frames
<1>2. ASSUME NEW n \in 0..2,
             \/ Units(q, n, <<>>) \/ Units(q, n, NothingMore)
             \/ \E hd \in Headers : hd.size # 0 /\ Units(q, n, Announced(hd))
      PROVE  CanBeCut("free", Cleared, q)
  BY <1>2 DEF CanBeCut, BeforeCommand
<1>3. \A n \in 0..(locals.round - 1) : n \in 0..2
  BY <1>1
<1>4. CASE where \in BeforeCommand \cup {"request"}
  BY <1>2, <1>4 DEF CanBeCut, Units
<1>5. CASE where \in {"serve", "send", "free"}
  BY <1>1, <1>2, <1>3, <1>5 DEF CanBeCut
<1>6. QED
  BY <1>4, <1>5 DEF CanBeCut

-----------------------------------------------------------------------------
(***************************************************************************)
(* A handler that carries a command out: what it has still to read is what *)
(* is still to come of the command, and what it has answered is what its   *)
(* state says.                                                             *)
(***************************************************************************)
Typed(j) == [op |-> j.task.op, name |-> j.task.name, dir |-> j.task.dir]
\* What put sends in a round, and behind it.
PartOf(j, r)     == PartSent(WrapPair(j.pair), r - 1)
HeaderSent(j, r) == [size |-> part_size(Length[j.task.content], PartOf(j, r)),
                     part |-> PartOf(j, r)]
BytesSent(j, r)  == Message("data", Cut(j.task.content, PartOf(j, r)))
Sent(j, r)       == PartMessages(j.task.content, PartOf(j, r))
Rest(j, r)       == IF r = 1 THEN Sent(j, 2) ELSE <<>>
\* What a handler in this state and round has still to read.
Left(where, r, j) ==
  CASE where \in {"scan", "command"} -> Script(j)
    [] where = "header"  -> Sent(j, r) \o Rest(j, r)
    [] where = "data"    -> <<BytesSent(j, r)>> \o Rest(j, r)
    [] where = "request" -> <<Message("request", j.want)>>
    [] OTHER             -> <<>>
Places(op) ==
  CASE op = "list" -> {"scan", "command", "list", "free"}
    [] op = "put"  -> {"scan", "command", "header", "data", "free"}
    [] op = "get"  -> {"scan", "command", "request", "serve", "send", "free"}
    [] OTHER       -> {"scan", "command", "free"}
CarriesOut(where, locals, command, login, j, s) ==
  /\ where \in Places(j.task.op)
  /\ s = Left(where, locals.round, j)
  /\ where \in {"scan", "command", "request", "list"} => locals.round = 1
  /\ where # "free" => locals.cred = login
  /\ where \notin {"scan", "command", "free"} => command = Typed(j)
  /\ where = "data" => /\ locals.hdr = HeaderSent(j, locals.round)
                       /\ locals.hdr.size # 0

LEMMA SentType ==
  ASSUME NEW j \in Jobs, j.task.op = "put", j.task.content # None, NEW r \in 1..2
  PROVE  /\ j.task.content \in Contents /\ PartOf(j, r) \in Parts
         /\ Sent(j, r) \in Seq(Messages) /\ Rest(j, r) \in Seq(Messages)
         /\ BytesSent(j, r) \in Messages /\ HeaderSent(j, r) \in Headers
<1>1. j.task.content \in Contents
  BY DEF Jobs, TaskTypes
<1>2. WrapPair(j.pair) \in Pairs
  BY DEF WrapPair, Jobs, Pairs
<1>3. PartOf(j, 1) \in Parts /\ PartOf(j, 2) \in Parts /\ PartOf(j, r) \in Parts
  BY <1>2 DEF PartOf, PartSent, IndexOf, Pairs, Parts
<1>4. Sent(j, r) \in Seq(Messages) /\ Sent(j, 2) \in Seq(Messages)
  BY <1>1, <1>3, PartsType DEF Sent
<1>5. part_size(Length[j.task.content], PartOf(j, r)) \in Nat
  BY <1>1, <1>3, PartShape
<1>6. HeaderSent(j, r) \in Headers
  BY <1>3, <1>5 DEF HeaderSent, Headers, Parts
<1>7. BytesSent(j, r) \in Messages
  BY <1>1, <1>3, CutType, MessageTypes DEF BytesSent
<1>8. QED
  BY <1>1, <1>3, <1>4, <1>6, <1>7 DEF Rest

\* Reading the messages of one part.
LEMMA SentRead ==
  ASSUME NEW j \in Jobs, j.task.op = "put", j.task.content # None, NEW r \in 1..2,
         NEW rest \in Seq(Messages)
  PROVE  LET q == Sent(j, r) \o rest
         IN  /\ q # <<>> /\ Head(q) = Message("header", HeaderSent(j, r))
             /\ HeaderSent(j, r).size = 0 => Tail(q) = rest
             /\ HeaderSent(j, r).size # 0 => Tail(q) = <<BytesSent(j, r)>> \o rest
<1> DEFINE head == Message("header", HeaderSent(j, r))
           bytes == BytesSent(j, r)
<1>1. head \in Messages /\ bytes \in Messages
  BY SentType, MessageTypes
<1>2. /\ HeaderSent(j, r).size = 0 => Sent(j, r) = <<head>>
      /\ HeaderSent(j, r).size # 0 => Sent(j, r) = <<head, bytes>>
  BY SentType, PartShape DEF HeaderSent, Sent, BytesSent
<1> HIDE DEF head, bytes
<1> DEFINE q == Sent(j, r) \o rest
<1>3. HeaderSent(j, r).size = 0 => q # <<>> /\ Head(q) = head /\ Tail(q) = rest
  BY <1>1, <1>2, TakeFirst
<1>4. HeaderSent(j, r).size # 0 =>
        q # <<>> /\ Head(q) = head /\ Tail(q) = <<bytes>> \o rest
  <2>1. LET two == <<head, bytes>> \o rest
        IN  two # <<>> /\ Head(two) = head /\ Tail(two) = <<bytes>> \o rest
    BY <1>1, TakeOfTwo
  <2>2. QED
    BY <1>2, <2>1
<1> HIDE DEF q
<1>5. /\ q # <<>> /\ Head(q) = head
      /\ HeaderSent(j, r).size = 0 => Tail(q) = rest
      /\ HeaderSent(j, r).size # 0 => Tail(q) = <<bytes>> \o rest
  BY <1>3, <1>4
<1>6. QED
  BY <1>5 DEF q, head, bytes

\* The first message of what is left, and what is left behind it.
LEMMA ScriptRead ==
  ASSUME NEW j \in Jobs, j.task.op = "put" => j.task.content # None
  PROVE  /\ Script(j) # <<>> /\ Head(Script(j)) = Message("command", Typed(j))
         /\ Tail(Script(j)) = Left(FirstState(j.task.op), 1, j)
         /\ Typed(j) \in Commands
<1> DEFINE command == Message("command", Typed(j))
           rest == CASE j.task.op = "put" -> Sent(j, 1) \o Rest(j, 1)
                     [] j.task.op = "get" -> <<Message("request", j.want)>>
                     [] OTHER -> <<>>
<1>1. j.task.op \in Ops \ {"none"} /\ j.want \in SUBSET Parts /\ Typed(j) \in Commands
  BY DEF Jobs, TaskTypes, Typed, Commands
<1>2. command \in Messages /\ <<Message("request", j.want)>> \in Seq(Messages)
  BY <1>1, MessageTypes
<1>3. j.task.op = "put" => Sent(j, 1) \o Rest(j, 1) \in Seq(Messages)
  BY SentType
<1>4. rest \in Seq(Messages)
  BY <1>2, <1>3
<1>5. Script(j) = <<command>> \o rest
  BY DEF Script, Typed, Sent, Rest, PartOf
<1>6. rest = Left(FirstState(j.task.op), 1, j)
  BY <1>1 DEF FirstState, Left, Ops
<1> HIDE DEF rest, command
<1>7. Script(j) # <<>> /\ Head(Script(j)) = command /\ Tail(Script(j)) = rest
  BY <1>2, <1>4, <1>5, TakeFirst
<1>8. QED
  BY <1>1, <1>6, <1>7 DEF command

\* Reading the messages of put, state by state.
LEMMA LeftRead ==
  ASSUME NEW j \in Jobs, j.task.op = "put", j.task.content # None, NEW r \in 1..2
  PROVE  /\ Left("header", r, j) # <<>>
         /\ Head(Left("header", r, j)) = Message("header", HeaderSent(j, r))
         /\ HeaderSent(j, r).size = 0 => Tail(Left("header", r, j)) = Rest(j, r)
         /\ HeaderSent(j, r).size # 0 => Tail(Left("header", r, j)) = Left("data", r, j)
         /\ Left("data", r, j) # <<>> /\ Head(Left("data", r, j)) = BytesSent(j, r)
         /\ Tail(Left("data", r, j)) = Rest(j, r)
         /\ r = 1 => Rest(j, r) = Left("header", 2, j)
         /\ r = 2 => Rest(j, r) = <<>>
<1>1. Left("header", r, j) = Sent(j, r) \o Rest(j, r)
      /\ Left("data", r, j) = <<BytesSent(j, r)>> \o Rest(j, r)
  BY DEF Left
<1>2. r = 1 => Rest(j, r) = Left("header", 2, j)
  <2>1. Left("header", 2, j) = Sent(j, 2) \o <<>> /\ Rest(j, 1) = Sent(j, 2)
    BY DEF Left, Rest
  <2>2. Sent(j, 2) \in Seq(Messages)
    BY SentType
  <2>3. QED
    BY <2>1, <2>2
<1>3. r = 2 => Rest(j, r) = <<>>
  BY DEF Rest
<1>4. BytesSent(j, r) \in Messages /\ Rest(j, r) \in Seq(Messages)
  BY SentType
<1>5. LET q == Left("header", r, j)
      IN  /\ q # <<>> /\ Head(q) = Message("header", HeaderSent(j, r))
          /\ HeaderSent(j, r).size = 0 => Tail(q) = Rest(j, r)
          /\ HeaderSent(j, r).size # 0 => Tail(q) = Left("data", r, j)
  BY <1>1, <1>4, SentRead
<1>6. LET q == Left("data", r, j)
      IN  q # <<>> /\ Head(q) = BytesSent(j, r) /\ Tail(q) = Rest(j, r)
  BY <1>1, <1>4, TakeFirst
<1>7. QED
  BY <1>2, <1>3, <1>5, <1>6

\* Where the handler of a command can be, by what it is about to do.
LEMMA PlaceOfCommand ==
  ASSUME NEW j \in Jobs, NEW where \in Places(j.task.op)
  PROVE  /\ where \in {"scan", "command", "free", "list", "header", "data",
                       "request", "serve", "send"}
         /\ where = "list" => j.task.op = "list"
         /\ where \in {"header", "data"} => j.task.op = "put"
         /\ where \in {"request", "serve", "send"} => j.task.op = "get"
         /\ {"scan", "command", "free"} \subseteq Places(j.task.op)
         /\ j.task.op = "get" => {"request", "serve", "send"} \subseteq Places(j.task.op)
         /\ j.task.op = "put" => {"header", "data"} \subseteq Places(j.task.op)
         /\ FirstState(j.task.op) \in Places(j.task.op)
<1>1. j.task.op \in {"list", "put", "get", "MKDIR"}
  BY DEF Jobs, TaskTypes, Ops
<1>2. QED
  BY <1>1 DEF Places, FirstState

(***************************************************************************)
(* A handler of an account, with the user's directory in place and its     *)
(* client connected, carries the command out as it was sent.               *)
(***************************************************************************)
LEMMA CarriesOn ==
  ASSUME Inv, DirectoryReady, NEW h \in Handlers, HandlerStep(h),
         ~gone[h], pc'[h] # "mkdir",
         NEW login, NEW j \in Jobs, j.task.op = "put" => j.task.content # None,
         NEW o \in Seq(Messages),
         CarriesOut(pc[h], frame[h], cmd[h], login, j, inbox[h] \o o)
  PROVE  /\ CarriesOut(pc'[h], frame'[h], cmd'[h], login, j, inbox'[h] \o o)
         /\ ReadCommand(h) => pc'[h] = FirstState(j.task.op)
<1> DEFINE s == inbox[h] \o o
           t == inbox'[h] \o o
           r == frame[h].round
<1>f. /\ frame[h] \in Frames /\ r \in 1..2 /\ frame[h].hdr \in Headers
      /\ inbox[h] \in Seq(Messages) /\ cmd[h] \in Commands
      /\ pc \in [Handlers -> States] /\ frame \in [Handlers -> Frames]
      /\ inbox \in [Handlers -> Seq(Messages)] /\ cmd \in [Handlers -> Commands]
  BY DEF Inv, TypeOK, Frames
<1>p. /\ pc[h] \in Places(j.task.op) /\ s = Left(pc[h], r, j)
      /\ pc[h] \in {"scan", "command", "request", "list"} => r = 1
      /\ pc[h] # "free" => frame[h].cred = login
      /\ pc[h] \notin {"scan", "command", "free"} => cmd[h] = Typed(j)
      /\ pc[h] = "data" => frame[h].hdr = HeaderSent(j, r) /\ frame[h].hdr.size # 0
  BY DEF CarriesOut
<1>w. /\ pc[h] \in {"scan", "command", "free", "list", "header", "data",
                    "request", "serve", "send"}
      /\ pc[h] = "list" => j.task.op = "list"
      /\ pc[h] \in {"header", "data"} => j.task.op = "put"
      /\ pc[h] \in {"request", "serve", "send"} => j.task.op = "get"
  BY <1>p, PlaceOfCommand
<1>e. /\ {"scan", "command", "free"} \subseteq Places(j.task.op)
      /\ j.task.op = "get" => {"request", "serve", "send"} \subseteq Places(j.task.op)
      /\ j.task.op = "put" => {"header", "data"} \subseteq Places(j.task.op)
      /\ FirstState(j.task.op) \in Places(j.task.op)
  BY <1>p, PlaceOfCommand
<1>c. Consume(h) /\ Readable(h) =>
        /\ inbox[h] # <<>> /\ Incoming(h) = Head(s) /\ t = Tail(s) /\ s # <<>>
  <2> SUFFICES ASSUME Consume(h), Readable(h)
               PROVE  inbox[h] # <<>> /\ Incoming(h) = Head(s) /\ t = Tail(s) /\ s # <<>>
    OBVIOUS
  <2> DEFINE m == Head(inbox[h])
             rest == Tail(inbox[h])
  <2>1. inbox[h] # <<>> /\ Incoming(h) = m /\ inbox'[h] = rest
    BY <1>f DEF Readable, Incoming, Consume
  <2>2. m \in Messages /\ rest \in Seq(Messages) /\ inbox[h] = <<m>> \o rest
    BY <1>f, <2>1, TailItems, HeadAndTail
  <2> HIDE DEF m, rest
  <2>3. s = <<m>> \o (rest \o o)
    <3>1. <<m>> \in Seq(Messages)
      BY <2>2
    <3>2. (<<m>> \o rest) \o o = <<m>> \o (rest \o o)
      BY <2>2, <3>1, ConcatAssociative
    <3>3. QED
      BY <2>2, <3>2
  <2>4. rest \o o \in Seq(Messages)
    BY <2>2
  <2> HIDE DEF s
  <2>5. s # <<>> /\ Head(s) = m /\ Tail(s) = rest \o o
    BY <2>2, <2>3, <2>4, TakeFirst
  <2>6. QED
    BY <2>1, <2>5
<1>m. /\ ~Authenticate(h) /\ ~UserDirectoryExists(h) /\ ~ListUnopened(h) /\ ~MakeUserDirectory(h)
      /\ pc[h] # "free" /\ (pc'[h] # "free" => frame'[h].cred = login)
      /\ pc'[h] = "data" => OpenPart(h) \/ WritePart(h)
  <2>1. ~Authenticate(h) /\ ~UserDirectoryExists(h) /\ ~ListUnopened(h) /\ ~MakeUserDirectory(h)
    BY <1>w DEF Authenticate, UserDirectoryExists, ListUnopened, MakeUserDirectory, DirectoryReady
  <2>2. /\ pc[h] # "free" /\ (pc'[h] = "free" \/ frame'[h].cred = frame[h].cred)
        /\ pc'[h] = "data" => pc[h] = "header" \/ (pc[h] = "data" /\ pc'[h] # "spin")
    BY <2>1, OwnMove
  <2>3. pc[h] = "header" \/ (pc[h] = "data" /\ pc'[h] # "spin") => OpenPart(h) \/ WritePart(h)
    BY <2>1, <1>f DEF HandlerStep, ScanForDirectory, ReadCommand, List, Spin, Goto,
       ReadRequest, ServeHeader, SendPart, ServeNothing, ServeUnopened
  <2>4. QED
    BY <1>p, <2>1, <2>2, <2>3
<1>d. ~ReadCommand(h) => cmd'[h] = cmd[h]
  BY <1>m DEF HandlerStep, ScanForDirectory, List, OpenPart, WritePart, Spin,
     ReadRequest, ServeHeader, SendPart, ServeNothing, ServeUnopened
<1> DEFINE Goal == CarriesOut(pc'[h], frame'[h], cmd'[h], login, j, t)
<1> SUFFICES Goal /\ (ReadCommand(h) => pc'[h] = FirstState(j.task.op))
  OBVIOUS
<1> HIDE DEF s, t
\* Where nothing is left to be read and the command is known.
<1>z. ASSUME pc'[h] \in {"serve", "send", "free"}, j.task.op = "get" \/ pc'[h] = "free",
             t = <<>>, cmd'[h] = Typed(j) \/ pc'[h] = "free"
      PROVE  CarriesOut(pc'[h], frame'[h], cmd'[h], login, j, t)
  BY <1>e, <1>m, <1>z DEF CarriesOut, Left
<1>n. ASSUME NEW locals \in Frames, locals.round = r, NextRound(h, "header", locals),
             pc[h] \in {"header", "data"}, t = Rest(j, r), cmd'[h] = cmd[h]
      PROVE  CarriesOut(pc'[h], frame'[h], cmd'[h], login, j, t)
  <2>1. j.task.op = "put" /\ cmd'[h] = Typed(j) /\ j.task.content # None
    BY <1>n, <1>p, <1>w
  <2>2. CASE r = 1
    <3>1. pc'[h] = "header" /\ frame'[h] = [locals EXCEPT !.round = 2]
      BY <1>f, <1>n, <2>2 DEF NextRound, Goto
    <3>2. frame'[h].round = 2
      BY <1>n, <3>1 DEF Frames
    <3>3. t = Left("header", 2, j)
      BY <1>f, <1>n, <2>1, <2>2, LeftRead
    <3>4. QED
      BY <1>e, <1>m, <2>1, <3>1, <3>2, <3>3 DEF CarriesOut
  <2>3. CASE r = 2
    <3>1. pc'[h] = "free"
      BY <1>f, <1>n, <2>3 DEF NextRound, Close, Goto
    <3>2. t = <<>>
      BY <1>f, <1>n, <2>1, <2>3, LeftRead
    <3>3. QED
      BY <1>z, <3>1, <3>2
  <2>4. QED
    BY <1>f, <2>2, <2>3
<1>1. ASSUME ScanForDirectory(h) PROVE Goal
  <2>1. pc[h] = "scan" /\ pc'[h] = "command" /\ frame'[h] = frame[h] /\ inbox'[h] = inbox[h]
    BY <1>1, <1>f DEF ScanForDirectory, Goto
  <2>2. t = Left("command", r, j) /\ r = 1
    BY <1>p, <2>1 DEF Left, s, t
  <2>3. QED
    BY <1>e, <1>m, <2>1, <2>2 DEF CarriesOut
<1>2. ASSUME ReadCommand(h)
      PROVE  Goal /\ pc'[h] = FirstState(j.task.op)
  <2>1. pc[h] = "command" /\ Consume(h) /\ Readable(h) /\ r = 1 /\ s = Script(j)
    BY <1>2, <1>p DEF ReadCommand, Left
  <2>2. /\ Incoming(h) = Message("command", Typed(j))
        /\ t = Left(FirstState(j.task.op), 1, j)
    BY <1>c, <2>1, ScriptRead
  <2>3. AsCommand(Incoming(h), cmd[h]) = {Typed(j)} /\ Typed(j).op = j.task.op
    BY <2>2 DEF AsCommand, Message, Typed
  <2>4. /\ cmd'[h] = Typed(j)
        /\ IF FirstState(j.task.op) = "free"
             THEN Close(h) ELSE Goto(h, FirstState(j.task.op), frame[h])
    BY <1>2, <1>f, <2>3 DEF ReadCommand
  <2>5. CASE FirstState(j.task.op) = "free"
    <3>1. pc'[h] = "free"
      BY <1>f, <2>4, <2>5 DEF Close, Goto
    <3>2. t = <<>>
      BY <2>2, <2>5 DEF Left
    <3>3. QED
      BY <1>z, <2>5, <3>1, <3>2
  <2>6. CASE FirstState(j.task.op) # "free"
    <3>1. pc'[h] = FirstState(j.task.op) /\ frame'[h] = frame[h]
      BY <1>f, <2>4, <2>6 DEF Goto
    <3>2. FirstState(j.task.op) # "data"
      BY <1>m, <2>1, <3>1 DEF OpenPart, WritePart
    <3>3. QED
      BY <1>e, <1>m, <2>1, <2>2, <2>4, <3>1, <3>2 DEF CarriesOut
  <2>7. QED
    BY <2>5, <2>6
<1>3. ASSUME List(h) PROVE Goal
  <2>1. pc[h] = "list" /\ pc'[h] = "free" /\ inbox'[h] = inbox[h]
    BY <1>3, <1>f DEF List, Close, Goto
  <2>2. t = <<>>
    BY <1>p, <2>1 DEF Left, s, t
  <2>3. QED
    BY <1>z, <2>1, <2>2
<1>4. ASSUME OpenPart(h) PROVE Goal
  <2> DEFINE head == HeaderSent(j, r)
             locals == [frame[h] EXCEPT !.hdr = head, !.out = 0]
  <2>1. /\ pc[h] = "header" /\ Consume(h) /\ Readable(h) /\ Opens(h)
        /\ j.task.op = "put" /\ j.task.content # None /\ cmd'[h] = cmd[h] /\ cmd[h] = Typed(j)
    BY <1>4, <1>w, <1>p DEF OpenPart, DirectoryReady
  <2>2. /\ Incoming(h) = Message("header", head)
        /\ head.size = 0 => t = Rest(j, r)
        /\ head.size # 0 => t = Left("data", r, j)
    BY <1>c, <1>f, <1>p, <2>1, LeftRead
  <2>3. AsHeader(Incoming(h)) = head
    BY <2>2 DEF AsHeader, Message
  <2>4. head \in Headers
    BY <1>f, <2>1, SentType
  <2>5. locals \in Frames /\ locals.round = r /\ locals.hdr = head
    BY <1>f, <2>4 DEF Frames
  <2>6. IF head.size # 0 THEN Goto(h, "data", locals) ELSE NextRound(h, "header", locals)
    BY <1>4, <2>1, <2>3 DEF OpenPart
  <2> HIDE DEF locals, head
  <2>7. CASE head.size = 0
    BY <1>n, <2>1, <2>2, <2>5, <2>6, <2>7
  <2>8. CASE head.size # 0
    <3>1. pc'[h] = "data" /\ frame'[h] = locals
      BY <1>f, <2>6, <2>8 DEF Goto
    <3>2. QED
      BY <1>e, <1>m, <2>1, <2>2, <2>5, <2>8, <3>1 DEF CarriesOut, head
  <2>9. QED
    BY <2>7, <2>8
<1>5. ASSUME WritePart(h) \/ Spin(h) PROVE Goal
  <2>1. /\ pc[h] = "data" /\ Readable(h) /\ inbox[h] # <<>>
        /\ j.task.op = "put" /\ j.task.content # None
    BY <1>5, <1>w DEF WritePart, Spin, Readable
  <2>2. Incoming(h).tag = "data"
    <3>1. Head(s) = BytesSent(j, r)
      BY <1>f, <1>p, <2>1, LeftRead
    <3>2. Head(s) = Head(inbox[h])
      BY <1>f, <2>1, HeadTailProperties, ConcatProperties DEF s
    <3>3. QED
      BY <2>1, <3>1, <3>2 DEF Incoming, BytesSent, Message
  <2>3. WritePart(h)
    BY <1>5, <2>2 DEF Spin, NeverEnds
  <2> DEFINE locals == [frame[h] EXCEPT !.out = Written(h)]
  <2>l. locals \in Frames /\ locals.round = r /\ locals.hdr = frame[h].hdr
    BY <1>f, WrittenType DEF Frames, Inv
  <2>4. /\ cmd'[h] = cmd[h]
        /\ \/ NextRound(h, "header", locals) /\ Consume(h)
           \/ Goto(h, "data", locals) /\ UNCHANGED inbox
    BY <2>3 DEF WritePart
  <2> HIDE DEF locals
  <2>5. CASE NextRound(h, "header", locals) /\ Consume(h)
    <3>1. t = Rest(j, r)
      BY <1>c, <1>f, <1>p, <2>1, <2>5, LeftRead
    <3>2. QED
      BY <1>n, <2>1, <2>l, <2>4, <2>5, <3>1
  <2>6. CASE Goto(h, "data", locals) /\ UNCHANGED inbox
    <3>1. pc'[h] = "data" /\ frame'[h] = locals /\ t = s
      BY <1>f, <2>6 DEF Goto, s, t
    <3>2. cmd'[h] = Typed(j) /\ t = Left("data", r, j)
      BY <1>p, <2>1, <2>4, <3>1
    <3>3. QED
      BY <1>e, <1>m, <1>p, <2>1, <2>l, <3>1, <3>2 DEF CarriesOut
  <2>7. QED
    BY <2>4, <2>5, <2>6
<1>6. ASSUME ReadRequest(h) PROVE Goal
  <2>1. pc[h] = "request" /\ pc'[h] = "serve" /\ Consume(h) /\ Readable(h) /\ cmd'[h] = cmd[h]
    BY <1>6, <1>f DEF ReadRequest, Goto
  <2>2. s = <<Message("request", j.want)>>
    BY <1>p, <2>1 DEF Left
  <2>3. Tail(s) = <<>>
    BY <2>2
  <2>4. t = <<>>
    BY <1>c, <2>1, <2>3
  <2>5. QED
    BY <1>p, <1>w, <1>z, <2>1, <2>4
<1>7. ASSUME ServeHeader(h) \/ SendPart(h) \/ ServeNothing(h) \/ ServeUnopened(h) PROVE Goal
  <2>1. /\ pc[h] \in {"serve", "send"} /\ inbox'[h] = inbox[h] /\ cmd'[h] = cmd[h]
        /\ pc'[h] \in {"serve", "send", "free"}
    BY <1>7, <1>f DEF ServeHeader, SendPart, ServeNothing, ServeUnopened, NextRound,
       Close, Goto
  <2>2. t = <<>>
    BY <1>p, <2>1 DEF Left, s, t
  <2>3. QED
    BY <1>p, <1>w, <1>z, <2>1, <2>2
<1>8. QED
  BY <1>m, <1>1, <1>2, <1>3, <1>4, <1>5, <1>6, <1>7 DEF HandlerStep

\* States in which nothing has been answered but the login.
Silent == {"scan", "command", "list", "header", "data", "request"}
\* What a handler has answered to a get whose client expects its k-th part.
Owed(where, locals, k, q) ==
  /\ where = "serve" => Units(q, locals.round - k, <<>>)
  /\ where = "send"  => /\ locals.hdr.size # 0
                        /\ Units(q, locals.round - k, Announced(locals.hdr))
  /\ where = "free"  => \/ Units(q, 3 - k, <<>>)
                        \/ \E n \in 0..(2 - k) : Units(q, n, NothingMore)

LEMMA StaysSilent ==
  ASSUME Inv, NEW h \in Handlers, HandlerStep(h), ~Authenticate(h),
         pc[h] # "mkdir", pc'[h] \in Silent
  PROVE  pc[h] \in Silent /\ reply'[h] = reply[h]
<1> USE DEF Inv, TypeOK, Silent
<1>1. CASE ScanForDirectory(h) \/ ReadCommand(h) \/ OpenPart(h) \/ WritePart(h)
           \/ ReadRequest(h)
  BY <1>1 DEF ScanForDirectory, ReadCommand, OpenPart, WritePart, ReadRequest
<1>2. CASE List(h) \/ Spin(h) \/ ServeNothing(h) \/ UserDirectoryExists(h) \/ ListUnopened(h)
  BY <1>2 DEF List, Spin, ServeNothing, UserDirectoryExists, ListUnopened, Goto, Close, Halt
<1>3. CASE ServeHeader(h) \/ SendPart(h) \/ ServeUnopened(h)
  BY <1>3 DEF ServeHeader, SendPart, ServeUnopened, NextRound, Goto, Close
<1>4. QED
  BY <1>1, <1>2, <1>3 DEF HandlerStep, MakeUserDirectory

\* The handler of a get, p being what was q before the step.
LEMMA HandlerOwes ==
  ASSUME Inv, DirectoryReady, NEW h \in Handlers, HandlerStep(h),
         pc[h] \in Places("get"), ReadCommand(h) => pc'[h] = "request",
         NEW k \in 1..2, NEW q \in Seq(Messages), NEW p \in Seq(Messages),
         reply'[h] = reply[h] => p = q,
         \A m \in Messages : Send(h, m) => p = Append(q, m),
         pc[h] \in Silent => q = <<>> /\ k = 1,
         pc[h] = "request" => frame[h].round = 1,
         Owed(pc[h], frame[h], k, q)
  PROVE  Owed(pc'[h], frame'[h], k, p)
<1> DEFINE r == frame[h].round
<1>f. /\ frame[h] \in Frames /\ r \in 1..2 /\ frame[h].hdr \in Headers
      /\ pc \in [Handlers -> States] /\ frame \in [Handlers -> Frames]
      /\ reply \in [Handlers -> Seq(Messages)]
  BY DEF Inv, TypeOK, Frames
<1>p. pc[h] \in {"scan", "command", "request", "serve", "send", "free"}
  BY DEF Places
\* The end of a round.
<1>n. ASSUME NEW locals \in Frames, locals.round = r, NextRound(h, "serve", locals),
             Units(p, r + 1 - k, <<>>)
      PROVE  Owed(pc'[h], frame'[h], k, p)
  <2>1. CASE r = 1
    <3>1. pc'[h] = "serve" /\ frame'[h] = [locals EXCEPT !.round = 2]
      BY <1>f, <1>n, <2>1 DEF NextRound, Goto
    <3>2. frame'[h].round = 2
      BY <3>1, <1>n DEF Frames
    <3>3. frame'[h].round - k = r + 1 - k
      BY <2>1, <3>2
    <3>4. QED
      BY <1>n, <3>1, <3>3 DEF Owed
  <2>2. CASE r = 2
    <3>1. pc'[h] = "free"
      BY <1>f, <1>n, <2>2 DEF NextRound, Close, Goto
    <3>2. 3 - k = r + 1 - k
      BY <2>2
    <3>3. QED
      BY <1>n, <3>1, <3>2 DEF Owed
  <2>3. QED
    BY <1>f, <2>1, <2>2
<1>1. CASE ScanForDirectory(h) \/ ReadCommand(h)
  <2>1. pc'[h] \in {"command", "mkdir", "request"}
    BY <1>1, <1>f DEF ScanForDirectory, Goto
  <2>2. QED
    BY <2>1 DEF Owed
<1>2. CASE ReadRequest(h)
  <2> DEFINE locals == [frame[h] EXCEPT !.ask = AsRequest(Incoming(h))]
  <2>1. locals.round = r
    BY <1>f DEF Frames
  <2>2. Goto(h, "serve", locals) /\ reply' = reply /\ pc[h] = "request"
    BY <1>2 DEF ReadRequest
  <2> HIDE DEF locals
  <2>3. pc'[h] = "serve" /\ frame'[h] = locals
    BY <1>f, <2>2 DEF Goto
  <2>4. p = <<>> /\ frame'[h].round - k = 0
    BY <2>1, <2>2, <2>3 DEF Silent
  <2>5. QED
    BY <2>3, <2>4 DEF Owed, Units
<1>3. CASE ServeHeader(h)
  <2>1. PICK x \in Found(h) :
          LET head == [size |-> FileAt(h, x).size, part |-> x]
              locals == [frame[h] EXCEPT !.hdr = head, !.ask = @ \ {x},
                                         !.copy = FileAt(h, x)]
          IN  /\ Send(h, Message("header", head))
              /\ IF head.size # 0 THEN Goto(h, "send", locals)
                                  ELSE NextRound(h, "serve", locals)
    BY <1>3 DEF ServeHeader
  <2> DEFINE head == [size |-> FileAt(h, x).size, part |-> x]
             locals == [frame[h] EXCEPT !.hdr = head, !.ask = @ \ {x},
                                        !.copy = FileAt(h, x)]
             m == Message("header", head)
  <2>2. pc[h] = "serve" /\ x \in 0..4 /\ FileAt(h, x) \in Pieces
    <3>1. pc[h] = "serve"
      BY <1>3 DEF ServeHeader
    <3>2. User(h) \in Users
      BY <3>1, UserType
    <3>3. x \in 0..4
      BY <1>f, <2>1 DEF Found, Frames, Parts
    <3>4. QED
      BY <3>1, <3>2, <3>3, PieceTypes, DiskType DEF Inv
  <2>3. head \in Headers
    BY <2>2 DEF Headers, Pieces
  <2>4. locals \in Frames /\ locals.round = r /\ locals.hdr = head
    BY <1>f, <2>2, <2>3 DEF Frames
  <2>5. m \in Messages
    BY <2>3, MessageTypes
  <2>6. Units(q, r - k, <<>>)
    BY <2>2 DEF Owed
  <2>7. p = Append(q, m)
    BY <2>1, <2>5
  <2>8. CASE head.size # 0
    <3>1. Goto(h, "send", locals)
      BY <2>1, <2>8
    <3> HIDE DEF locals
    <3>2. pc'[h] = "send" /\ frame'[h] = locals
      BY <1>f, <3>1 DEF Goto
    <3>3. Units(p, r - k, Announced(head))
      BY <2>5, <2>6, <2>7, PartStarts DEF Announced
    <3> HIDE DEF m, head
    <3>4. QED
      BY <2>4, <2>8, <3>2, <3>3 DEF Owed
  <2>9. CASE head.size = 0
    <3>1. NextRound(h, "serve", locals)
      BY <2>1, <2>9
    <3>2. r - k \in 0..1 /\ (r - k) + 1 = r + 1 - k
      BY <1>f, <2>6 DEF Units
    <3>3. Units(Append(q, m), (r - k) + 1, <<>>)
      BY <2>3, <2>6, <2>9, <3>2, EmptyPart
    <3> HIDE DEF m, head, locals
    <3>4. QED
      BY <1>n, <2>4, <2>7, <3>1, <3>2, <3>3
  <2>10. QED
    BY <2>8, <2>9
<1>4. CASE SendPart(h)
  <2> DEFINE hd == frame[h].hdr
             locals == [frame[h] EXCEPT !.copy = Absent]
  <2>1. PICK now \in {FileAt(h, hd.part), frame[h].copy} :
          Send(h, Message("data", ReadBack(now, hd.size)))
    BY <1>4 DEF SendPart
  <2> DEFINE piece == ReadBack(now, hd.size)
             m == Message("data", piece)
  <2>2. pc[h] = "send" /\ NextRound(h, "serve", locals)
    BY <1>4 DEF SendPart
  <2>3. piece \in Pieces /\ piece.size = hd.size
    <3>1. User(h) \in Users /\ hd.part \in 0..4 /\ hd.size \in Nat
      BY <1>f, <2>2, UserType DEF Headers
    <3>2. FileAt(h, hd.part) \in Pieces
      BY <3>1, PieceTypes, DiskType DEF Inv
    <3>3. now \in Pieces
      BY <1>f, <2>1, <3>2 DEF Frames
    <3>4. QED
      BY <3>1, <3>3, PieceTypes DEF ReadBack, Zeros, Mixed, Torn, Piece
  <2>4. locals \in Frames /\ locals.round = r
    BY <1>f, PieceTypes DEF Frames
  <2>5. hd.size # 0 /\ Units(q, r - k, Announced(hd))
    BY <2>2 DEF Owed
  <2> HIDE DEF piece, locals
  <2>6. m \in Messages
    BY <2>3, MessageTypes
  <2>7. p = Append(q, m)
    BY <2>1, <2>6 DEF piece
  <2>8. r - k \in 0..1 /\ (r - k) + 1 = r + 1 - k
    BY <1>f, <2>5 DEF Units
  <2>9. Units(Append(q, m), (r - k) + 1, <<>>)
    BY <1>f, <2>3, <2>5, <2>8, PartDone
  <2> HIDE DEF m
  <2>10. QED
    BY <1>n, <2>2, <2>4, <2>7, <2>8, <2>9
<1>5. CASE ServeNothing(h)
  <2> DEFINE m == Message("nothing", None)
  <2>1. pc[h] = "serve" /\ Send(h, m) /\ Close(h)
    BY <1>5 DEF ServeNothing
  <2>2. m \in Messages
    BY MessageTypes
  <2>3. Units(q, r - k, <<>>)
    BY <2>1 DEF Owed
  <2>4. Units(Append(q, m), r - k, NothingMore)
    BY <2>2, <2>3, PartStarts DEF NothingMore
  <2>5. p = Append(q, m)
    BY <2>1, <2>2
  <2>6. pc'[h] = "free"
    BY <1>f, <2>1 DEF Close, Goto
  <2>7. r - k \in 0..(2 - k)
    BY <1>f, <2>3 DEF Units
  <2> HIDE DEF m
  <2>8. QED
    BY <2>4, <2>5, <2>6, <2>7 DEF Owed
<1>6. QED
  BY <1>p, <1>1, <1>2, <1>3, <1>4, <1>5
  DEF HandlerStep, Authenticate, MakeUserDirectory, UserDirectoryExists, List,
      ListUnopened, OpenPart, WritePart, Spin, ServeUnopened, DirectoryReady

\* What a client that expects its k-th part can find on its stream.
LEMMA OwedNext ==
  ASSUME NEW where \in {"serve", "send", "free"}, NEW locals \in Frames, NEW k \in 1..2,
         NEW q, q # <<>>, Owed(where, locals, k, q)
  PROVE  \/ StartsWithUnit(q) /\ Owed(where, locals, k + 1, AfterUnit(q))
         \/ where = "free" /\ q = NothingMore
         \/ \E hd \in Headers : hd.size # 0 /\ q = Announced(hd)
<1>r. locals.round \in 1..2 /\ locals.hdr \in Headers
  BY DEF Frames
<1>1. ASSUME NEW n \in Int, NEW end, Units(q, n, end)
      PROVE  \/ q = end
             \/ n \in 1..2 /\ StartsWithUnit(q) /\ Units(AfterUnit(q), n - 1, end)
  BY <1>1 DEF Units
<1>2. CASE where = "serve"
  <2>1. Units(q, locals.round - k, <<>>)
    BY <1>2 DEF Owed
  <2>2. StartsWithUnit(q) /\ Units(AfterUnit(q), (locals.round - k) - 1, <<>>)
    BY <1>1, <1>r, <2>1
  <2>3. (locals.round - k) - 1 = locals.round - (k + 1)
    BY <1>r
  <2>4. QED
    BY <1>2, <2>2, <2>3 DEF Owed
<1>3. CASE where = "send"
  <2> DEFINE end == Announced(locals.hdr)
  <2>1. Units(q, locals.round - k, end) /\ locals.hdr.size # 0
    BY <1>3 DEF Owed
  <2>2. CASE q = end
    BY <1>r, <2>1, <2>2
  <2>3. CASE q # end
    <3> HIDE DEF end
    <3> DEFINE n == locals.round - k
    <3>0. n \in Int /\ Units(q, n, end)
      BY <1>r, <2>1
    <3> HIDE DEF n
    <3>1. StartsWithUnit(q) /\ Units(AfterUnit(q), n - 1, end)
      BY <1>1, <2>3, <3>0
    <3>2. (locals.round - k) - 1 = locals.round - (k + 1)
      BY <1>r
    <3>3. QED
      BY <1>3, <2>1, <3>1, <3>2 DEF Owed, end, n
  <2>4. QED
    BY <2>2, <2>3
<1>4. CASE where = "free"
  <2>1. CASE Units(q, 3 - k, <<>>)
    <3>1. StartsWithUnit(q) /\ Units(AfterUnit(q), (3 - k) - 1, <<>>)
      BY <1>1, <2>1
    <3>2. (3 - k) - 1 = 3 - (k + 1)
      OBVIOUS
    <3>3. QED
      BY <1>4, <3>1, <3>2 DEF Owed
  <2>2. ASSUME NEW n \in 0..(2 - k), Units(q, n, NothingMore)
        PROVE  \/ StartsWithUnit(q) /\ Owed(where, locals, k + 1, AfterUnit(q))
               \/ q = NothingMore
    <3>1. CASE q # NothingMore
      <4>1. n \in 1..2 /\ StartsWithUnit(q) /\ Units(AfterUnit(q), n - 1, NothingMore)
        BY <1>1, <2>2, <3>1
      <4>2. n - 1 \in 0..(2 - (k + 1))
        BY <4>1
      <4>3. QED
        BY <1>4, <4>1, <4>2 DEF Owed
    <3>2. QED
      BY <3>1
  <2>3. QED
    BY <1>4, <2>1, <2>2 DEF Owed
<1>5. QED
  BY <1>2, <1>3, <1>4

\* It never finds the end of the stream where it expects a part, or its bytes.
LEMMA OwedSomething ==
  ASSUME NEW locals, NEW k \in 1..2, NEW q, Owed("free", locals, k, q)
  PROVE  /\ q # <<>>
         /\ \A hd : hd.size # 0 => q # Announced(hd)
<1> DEFINE Short(x) == ~StartsWithUnit(x) /\ x # <<>> /\ x # NothingMore
<1>1. ASSUME NEW n \in Int, NEW end, Units(q, n, end)
      PROVE  q = end \/ StartsWithUnit(q)
  BY <1>1 DEF Units
<1>2. ASSUME Units(q, 3 - k, <<>>) PROVE StartsWithUnit(q)
  BY <1>2 DEF Units
<1>3. q = NothingMore \/ StartsWithUnit(q)
  <2>1. ASSUME NEW n \in 0..(2 - k), Units(q, n, NothingMore)
        PROVE  q = NothingMore \/ StartsWithUnit(q)
    BY <1>1, <2>1
  <2>2. QED
    BY <1>2, <2>1 DEF Owed
<1>4. ASSUME NEW hd, hd.size # 0 PROVE ~StartsWithUnit(Announced(hd))
  <2> DEFINE m == Message("header", hd)
  <2>1. m.body = hd
    BY DEF Message
  <2> HIDE DEF m
  <2>2. Head(<<m>>) = m /\ Tail(<<m>>) = <<>>
    OBVIOUS
  <2>3. QED
    BY <1>4, <2>1, <2>2 DEF StartsWithUnit, Announced, m
<1>5. ~StartsWithUnit(<<>>) /\ NothingMore # <<>>
  <2>1. Len(NothingMore) = 1 /\ Len(<<>>) = 0
    BY DEF NothingMore
  <2>2. QED
    BY <2>1 DEF StartsWithUnit
<1>6. \A hd : NothingMore # Announced(hd)
  BY DEF NothingMore, Announced, Message
<1>7. QED
  BY <1>3, <1>4, <1>5, <1>6

\* The pair that server s is sent by a put that skips the servers in out.
Passed(r, s, out) == IF r < s /\ r \notin out THEN 1 ELSE 0
PairAt(first, out, s) ==
  LET n == first + Passed(1, s, out) + Passed(2, s, out) + Passed(3, s, out)
  IN  IF n > 3 THEN n - 4 ELSE n
\* Files: the part p of the path k on server s.
At(s, k, p) == disk[s][<<k[1], k[2], k[3], p>>]
There(s, k, p) == At(s, k, p).kind # "absent"
\* The parts announced in a stream.
Coming(q) == {q[i].body.part : i \in {n \in 1..Len(q) : q[n].tag = "header"}}
\* A stream that tells the files of the path k on server s as they are.
Tells(q, s, k) ==
  \A i \in 1..Len(q) :
    /\ q[i].tag = "header" => /\ q[i].body.part \in Parts /\ There(s, k, q[i].body.part)
                              /\ At(s, k, q[i].body.part).size = q[i].body.size
    /\ q[i].tag = "data" /\ i > 1 => /\ q[i - 1].tag = "header"
                                      /\ q[i].body = At(s, k, q[i - 1].body.part)
\* The pair of a server, as put gets to it.
LEMMA PairSteps ==
  ASSUME NEW first \in Pairs, NEW out, NEW s \in 1..MAXSERVERS
  PROVE  /\ PairAt(first, out, s) \in Pairs
         /\ PairAt(first, out, 1) = first
         /\ s < MAXSERVERS /\ s \notin out =>
              WrapPair(PairAt(first, out, s) + 1) = PairAt(first, out, s + 1)
         /\ s < MAXSERVERS /\ s \in out => PairAt(first, out, s) = PairAt(first, out, s + 1)
         /\ \A r \in 1..s : PairAt(first, out \cup {s}, r) = PairAt(first, out, r)
<1>1. s = 1 \/ s = 2 \/ s = 3 \/ s = 4
  BY DEF MAXSERVERS
<1>2. first \in 0..3
  BY DEF Pairs
<1>3. \A r \in 1..s, t \in 1..3 : Passed(t, r, out \cup {s}) = Passed(t, r, out)
  BY <1>1 DEF Passed
<1>4. ASSUME NEW r \in 1..s
      PROVE  PairAt(first, out \cup {s}, r) = PairAt(first, out, r)
  <2>1. /\ Passed(1, r, out \cup {s}) = Passed(1, r, out)
        /\ Passed(2, r, out \cup {s}) = Passed(2, r, out)
        /\ Passed(3, r, out \cup {s}) = Passed(3, r, out)
    BY <1>3
  <2>2. QED
    BY <2>1 DEF PairAt
<1>5. PairAt(first, out, s) \in Pairs
  BY <1>1, <1>2 DEF PairAt, Passed, Pairs
<1>6. PairAt(first, out, 1) = first
  BY <1>2 DEF PairAt, Passed
<1>7. ASSUME s < MAXSERVERS, s \notin out
      PROVE  WrapPair(PairAt(first, out, s) + 1) = PairAt(first, out, s + 1)
  BY <1>1, <1>2, <1>7 DEF PairAt, Passed, WrapPair, MAXSERVERS
<1>8. ASSUME s < MAXSERVERS, s \in out
      PROVE  PairAt(first, out, s) = PairAt(first, out, s + 1)
  BY <1>1, <1>2, <1>8 DEF PairAt, Passed, MAXSERVERS
<1>9. QED
  BY <1>4, <1>5, <1>6, <1>7, <1>8

\* Only the task, the parts wanted and the pair matter to what is carried out.
LEMMA SameLeft ==
  ASSUME NEW j, NEW i, j.task = i.task, j.want = i.want,
         j.task.op = "put" => WrapPair(j.pair) = WrapPair(i.pair)
  PROVE  \A where, locals, command, login, s :
           CarriesOut(where, locals, command, login, j, s)
             <=> CarriesOut(where, locals, command, login, i, s)
<1>1. Script(j) = Script(i)
  BY DEF Script
<1>2. Typed(j) = Typed(i)
  BY DEF Typed
<1>3. ASSUME j.task.op = "put"
      PROVE  \A r : /\ HeaderSent(j, r) = HeaderSent(i, r) /\ BytesSent(j, r) = BytesSent(i, r)
                    /\ Sent(j, r) = Sent(i, r) /\ Rest(j, r) = Rest(i, r)
  BY <1>3 DEF HeaderSent, BytesSent, Sent, Rest, PartOf
<1>4. j.task.op # "put" => {"header", "data"} \cap Places(j.task.op) = {}
  BY DEF Places
<1>5. ASSUME NEW where \in Places(j.task.op), NEW r PROVE Left(where, r, j) = Left(where, r, i)
  BY <1>1, <1>3, <1>4, <1>5 DEF Left
<1>6. ASSUME NEW where, NEW locals, NEW command, NEW login, NEW s
      PROVE  CarriesOut(where, locals, command, login, j, s)
               <=> CarriesOut(where, locals, command, login, i, s)
  BY <1>2, <1>3, <1>4, <1>5 DEF CarriesOut
<1>7. QED
  BY <1>6

-----------------------------------------------------------------------------
(***************************************************************************)
(* What the handler of a command does to the files: only that of put       *)
(* changes any, one at a time, and each is in the end the part of the      *)
(* content put that it was announced to be.                                *)
(***************************************************************************)
AtNext(s, k, p) == disk'[s][<<k[1], k[2], k[3], p>>]
\* Reading a message: what it is, and where a round leads to.
LEMMA FirstLeft ==
  ASSUME NEW h, NEW o \in Seq(Messages), NEW m, inbox[h] \in Seq(Messages),
         inbox[h] # <<>>, Head(inbox[h] \o o) = m
  PROVE  Incoming(h) = m
<1>1. Head(inbox[h] \o o) = Head(inbox[h])
  BY HeadTailProperties, ConcatProperties
<1>2. QED
  BY <1>1 DEF Incoming

\* Where the end of a round leads.
LEMMA RoundLeads ==
  ASSUME TypeOK, NEW h \in Handlers, NEW locals \in Frames,
         locals.round = frame[h].round, NextRound(h, "header", locals)
  PROVE  IF frame[h].round = 1 THEN pc'[h] = "header" /\ frame'[h].round = 2
                               ELSE pc'[h] = "free"
<1>1. pc \in [Handlers -> States] /\ frame \in [Handlers -> Frames]
  BY DEF TypeOK
<1>2. [locals EXCEPT !.round = 2].round = 2
  BY DEF Frames
<1>3. QED
  BY <1>1, <1>2 DEF NextRound, Close, Goto

\* What is announced in a stream to which a message is added or from which the
\* first is taken, and that it still tells the files as they are.
LEMMA ComingMore ==
  ASSUME NEW q \in Seq(Messages), NEW m \in Messages
  PROVE  Coming(Append(q, m)) =
           IF m.tag = "header" THEN Coming(q) \cup {m.body.part} ELSE Coming(q)
<1> DEFINE p == Append(q, m)
           n == Len(q)
<1>1. /\ Len(p) = n + 1 /\ p[n + 1] = m /\ n \in Nat
      /\ \A i \in 1..n : p[i] = q[i]
  BY AppendItems
<1> HIDE DEF p, n
<1>2. ASSUME NEW x PROVE x \in Coming(p) <=> x \in Coming(q) \/ (m.tag = "header" /\ x = m.body.part)
  <2>1. x \in Coming(p) <=> \E i \in 1..(n + 1) : p[i].tag = "header" /\ x = p[i].body.part
    BY <1>1 DEF Coming
  <2>2. x \in Coming(q) <=> \E i \in 1..n : q[i].tag = "header" /\ x = q[i].body.part
    BY DEF Coming, n
  <2>3. ASSUME NEW i \in 1..(n + 1) PROVE i \in 1..n \/ i = n + 1
    BY <1>1
  <2>4. n + 1 \in 1..(n + 1) /\ \A i \in 1..n : i \in 1..(n + 1)
    BY <1>1
  <2>5. QED
    BY <1>1, <2>1, <2>2, <2>3, <2>4
<1>3. QED
  BY <1>2 DEF p

LEMMA ComingLess ==
  ASSUME NEW q \in Seq(Messages), q # <<>>
  PROVE  Coming(q) = Coming(Tail(q)) \cup
                     (IF Head(q).tag = "header" THEN {Head(q).body.part} ELSE {})
<1> DEFINE p == Tail(q)
           n == Len(p)
<1>1. /\ Len(q) = n + 1 /\ n \in Nat /\ Head(q) = q[1]
      /\ \A i \in 1..n : p[i] = q[i + 1]
  BY TailItems
<1> HIDE DEF p, n
<1>2. ASSUME NEW x
      PROVE x \in Coming(q) <=> x \in Coming(p) \/ (q[1].tag = "header" /\ x = q[1].body.part)
  <2>1. x \in Coming(q) <=> \E i \in 1..(n + 1) : q[i].tag = "header" /\ x = q[i].body.part
    BY <1>1 DEF Coming
  <2>2. x \in Coming(p) <=> \E i \in 1..n : p[i].tag = "header" /\ x = p[i].body.part
    BY DEF Coming, n
  <2>3. ASSUME NEW i \in 1..(n + 1) PROVE i = 1 \/ (i - 1 \in 1..n /\ (i - 1) + 1 = i)
    BY <1>1
  <2>4. 1 \in 1..(n + 1) /\ \A i \in 1..n : i + 1 \in 1..(n + 1)
    BY <1>1
  <2>5. QED
    BY <1>1, <2>1, <2>2, <2>3, <2>4
<1>3. QED
  BY <1>1, <1>2 DEF p

LEMMA TellsMore ==
  ASSUME NEW q \in Seq(Messages), NEW m \in Messages, NEW s, NEW k, Tells(q, s, k),
         m.tag = "header" => /\ m.body.part \in Parts /\ There(s, k, m.body.part)
                             /\ At(s, k, m.body.part).size = m.body.size,
         m.tag = "data" => /\ q # <<>> /\ q[Len(q)].tag = "header"
                           /\ m.body = At(s, k, q[Len(q)].body.part)
  PROVE  Tells(Append(q, m), s, k)
<1> DEFINE p == Append(q, m)
           n == Len(q)
<1>1. /\ Len(p) = n + 1 /\ p[n + 1] = m /\ n \in Nat
      /\ \A i \in 1..n : p[i] = q[i]
  BY AppendItems
<1>n. q # <<>> => n \in 1..n
  BY <1>1
<1> SUFFICES ASSUME NEW i \in 1..(n + 1)
             PROVE
    /\ p[i].tag = "header" => /\ p[i].body.part \in Parts /\ There(s, k, p[i].body.part)
                              /\ At(s, k, p[i].body.part).size = p[i].body.size
    /\ p[i].tag = "data" /\ i > 1 => /\ p[i - 1].tag = "header"
                                      /\ p[i].body = At(s, k, p[i - 1].body.part)
  BY <1>1 DEF Tells
<1> HIDE DEF p
<1>2. CASE i = n + 1
  <2>1. m.tag = "data" => p[i - 1] = q[n]
    <3>1. i - 1 = n
      BY <1>1, <1>2
    <3>2. QED
      BY <1>1, <1>n, <3>1
  <2> HIDE DEF n
  <2>2. p[i] = m
    BY <1>1, <1>2
  <2>3. QED
    BY <2>1, <2>2 DEF n
<1>3. CASE i # n + 1
  <2>1. i \in 1..n /\ p[i] = q[i]
    BY <1>1, <1>3
  <2>2. i > 1 => i - 1 \in 1..n /\ p[i - 1] = q[i - 1]
    BY <1>1, <2>1
  <2>3. /\ q[i].tag = "header" => /\ q[i].body.part \in Parts /\ There(s, k, q[i].body.part)
                                  /\ At(s, k, q[i].body.part).size = q[i].body.size
        /\ q[i].tag = "data" /\ i > 1 => /\ q[i - 1].tag = "header"
                                         /\ q[i].body = At(s, k, q[i - 1].body.part)
    BY <2>1 DEF Tells
  <2>4. QED
    BY <2>1, <2>2, <2>3
<1>4. QED
  BY <1>2, <1>3

LEMMA TellsLess ==
  ASSUME NEW q \in Seq(Messages), q # <<>>, NEW s, NEW k, Tells(q, s, k)
  PROVE  /\ Tells(Tail(q), s, k)
         /\ Head(q).tag = "header" =>
              /\ Head(q).body.part \in Parts /\ There(s, k, Head(q).body.part)
              /\ At(s, k, Head(q).body.part).size = Head(q).body.size
         /\ Tail(q) # <<>> /\ Head(Tail(q)).tag = "data" =>
              /\ Head(q).tag = "header"
              /\ Head(Tail(q)).body = At(s, k, Head(q).body.part)
<1> DEFINE p == Tail(q)
           n == Len(p)
<1>1. /\ Len(q) = n + 1 /\ n \in Nat /\ Head(q) = q[1] /\ p \in Seq(Messages)
      /\ \A i \in 1..n : p[i] = q[i + 1]
  BY TailItems
<1>2. p # <<>> => Head(p) = p[1] /\ n > 0
  BY <1>1, TailItems
<1> HIDE DEF p, n
<1>3. \A i \in 1..(n + 1) :
        /\ q[i].tag = "header" => /\ q[i].body.part \in Parts /\ There(s, k, q[i].body.part)
                                  /\ At(s, k, q[i].body.part).size = q[i].body.size
        /\ q[i].tag = "data" /\ i > 1 => /\ q[i - 1].tag = "header"
                                         /\ q[i].body = At(s, k, q[i - 1].body.part)
  BY <1>1 DEF Tells
<1>4. ASSUME NEW i \in 1..n
      PROVE  /\ p[i].tag = "header" => /\ p[i].body.part \in Parts /\ There(s, k, p[i].body.part)
                                       /\ At(s, k, p[i].body.part).size = p[i].body.size
             /\ p[i].tag = "data" => /\ q[i].tag = "header"
                                     /\ p[i].body = At(s, k, q[i].body.part)
             /\ i > 1 => q[i] = p[i - 1]
  <2> DEFINE l == i + 1
  <2>1. l \in 1..(n + 1) /\ l > 1 /\ l - 1 = i /\ p[i] = q[l]
    BY <1>1
  <2>2. i > 1 => i - 1 \in 1..n /\ (i - 1) + 1 = i
    BY <1>1
  <2> HIDE DEF l
  <2>3. QED
    BY <1>1, <1>3, <2>1, <2>2
<1>5. Tells(p, s, k)
  BY <1>4 DEF Tells, n
<1>6. 1 \in 1..(n + 1) /\ (n > 0 => 1 \in 1..n)
  BY <1>1
<1>7. QED
  BY <1>1, <1>2, <1>3, <1>4, <1>5, <1>6 DEF p

\* A stream of whole answers that ends with one message.
LEMMA LastOf ==
  ASSUME NEW S, NEW q \in Seq(S), q # <<>>, Tail(q) # <<>>
  PROVE  q[Len(q)] = Tail(q)[Len(Tail(q))]
<1>1. Len(Tail(q)) = Len(q) - 1 /\ Tail(q) \in Seq(S) /\ Len(Tail(q)) \in Nat
      /\ \A i \in 1..Len(Tail(q)) : Tail(q)[i] = q[i + 1]
  BY TailItems
<1>2. Len(Tail(q)) > 0
  BY <1>1, TailItems
<1>3. Len(Tail(q)) \in 1..Len(Tail(q)) /\ Len(Tail(q)) + 1 = Len(q)
  BY <1>1, <1>2
<1>4. QED
  BY <1>1, <1>3

\* So a stream of two answers ends with the second.
LEMMA UnitsLast ==
  ASSUME NEW q \in Seq(Messages), NEW n, NEW m \in Messages, Units(q, n, <<m>>)
  PROVE  q # <<>> /\ q[Len(q)] = m
<1>1. ASSUME NEW t \in Seq(Messages), t # <<>>, t[Len(t)] = m,
             NEW u \in Seq(Messages), StartsWithUnit(u), AfterUnit(u) = t
      PROVE  u # <<>> /\ u[Len(u)] = m
  <2>1. u # <<>> /\ (Head(u).body.size # 0 => Tail(u) # <<>>)
    BY <1>1 DEF StartsWithUnit
  <2>2. CASE Head(u).body.size = 0
    BY <1>1, <2>1, <2>2, LastOf DEF AfterUnit
  <2>3. CASE Head(u).body.size # 0
    <3>1. Tail(u) \in Seq(Messages) /\ Tail(Tail(u)) = t
      BY <1>1, <2>1, <2>3, TailItems DEF AfterUnit
    <3>2. Tail(u)[Len(Tail(u))] = m
      BY <1>1, <2>1, <2>3, <3>1, LastOf
    <3>3. QED
      BY <2>1, <2>3, <3>1, <3>2, LastOf
  <2>4. QED
    BY <2>2, <2>3
<1>2. <<m>> \in Seq(Messages) /\ <<m>> # <<>> /\ <<m>>[Len(<<m>>)] = m
  OBVIOUS
<1>3. ASSUME NEW u \in Seq(Messages), StartsWithUnit(u) PROVE AfterUnit(u) \in Seq(Messages)
  <2>1. u # <<>> /\ (Head(u).body.size # 0 => Tail(u) # <<>>)
    BY <1>3 DEF StartsWithUnit
  <2>2. QED
    BY <1>3, <2>1, TailItems DEF AfterUnit
<1>4. CASE n = 0 /\ q = <<m>>
  BY <1>2, <1>4
<1>5. CASE StartsWithUnit(q) /\ AfterUnit(q) = <<m>>
  BY <1>1, <1>2, <1>5
<1>6. CASE /\ StartsWithUnit(q) /\ StartsWithUnit(AfterUnit(q))
           /\ AfterUnit(AfterUnit(q)) = <<m>>
  <2>1. AfterUnit(q) \in Seq(Messages)
    BY <1>3, <1>6
  <2>2. AfterUnit(q) # <<>> /\ AfterUnit(q)[Len(AfterUnit(q))] = m
    BY <1>1, <1>2, <1>6, <2>1
  <2>3. QED
    BY <1>1, <1>6, <2>1, <2>2
<1>7. QED
  BY <1>4, <1>5, <1>6 DEF Units

\* Behind the second part there is nothing: the handler is done.
LEMMA SecondIsLast ==
  ASSUME NEW where, NEW locals \in Frames, NEW q, where \in {"serve", "send", "free"},
         Owed(where, locals, 3, q)
  PROVE  where = "free"
<1>1. locals.round \in 1..2
  BY DEF Frames
<1>2. ASSUME NEW n \in Int, n < 0, NEW x, NEW end PROVE ~Units(x, n, end)
  BY <1>2 DEF Units
<1>3. locals.round - 3 \in Int /\ locals.round - 3 < 0
  BY <1>1
<1>4. \A end : ~Units(q, locals.round - 3, end)
  BY <1>2, <1>3
<1>5. QED
  BY <1>4 DEF Owed

\* A stream of answers begins with a part or is the last message.
LEMMA UnitsOnly ==
  ASSUME NEW q, StartsWithUnit(q)
  PROVE  q # NothingMore /\ \A x : x.size # 0 => q # Announced(x)
<1>1. Head(NothingMore).tag = "nothing"
  BY DEF NothingMore, Message
<1>2. ASSUME NEW x, x.size # 0 PROVE ~StartsWithUnit(Announced(x))
  <2> DEFINE m == Message("header", x)
  <2>1. m.body = x
    BY DEF Message
  <2> HIDE DEF m
  <2>2. Head(<<m>>) = m /\ Tail(<<m>>) = <<>>
    OBVIOUS
  <2>3. QED
    BY <1>2, <2>1, <2>2 DEF StartsWithUnit, Announced, m
<1>3. QED
  BY <1>1, <1>2 DEF StartsWithUnit

\* The headers of a stream are of different parts, all of them in w.
Fresh(q, w) ==
  \A i, j \in 1..Len(q) : q[i].tag = "header" =>
    /\ q[i].body.part \in w
    /\ q[j].tag = "header" /\ q[j].body.part = q[i].body.part => i = j
\* A header of another part is sent.
LEMMA FreshMore ==
  ASSUME NEW q \in Seq(Messages), NEW m \in Messages, NEW w, Fresh(q, w),
         m.tag = "header" => m.body.part \in w \ Coming(q)
  PROVE  Fresh(Append(q, m), w)
<1> DEFINE a == Append(q, m)
<1>1. /\ Len(a) = Len(q) + 1 /\ a[Len(q) + 1] = m /\ Len(q) \in Nat
      /\ \A i \in 1..Len(q) : a[i] = q[i]
  BY AppendItems
<1>2. \A i \in 1..Len(a) : i = Len(q) + 1 \/ i \in 1..Len(q)
  BY <1>1
<1>3. \A i \in 1..Len(q) : q[i].tag = "header" => q[i].body.part \in Coming(q)
  BY DEF Coming
<1> HIDE DEF a
<1>4. ASSUME NEW i \in 1..Len(a), NEW j \in 1..Len(a), a[i].tag = "header"
      PROVE  /\ a[i].body.part \in w
             /\ a[j].tag = "header" /\ a[j].body.part = a[i].body.part => i = j
  <2>1. CASE i \in 1..Len(q) /\ j \in 1..Len(q)
    BY <1>1, <1>4, <2>1 DEF Fresh
  <2>2. CASE i = Len(q) + 1 /\ j \in 1..Len(q)
    BY <1>1, <1>3, <1>4, <2>2
  <2>3. CASE i \in 1..Len(q) /\ j = Len(q) + 1
    <3>1. a[i] = q[i] /\ a[j] = m /\ q[i].body.part \in w
      BY <1>1, <1>4, <2>3 DEF Fresh
    <3>2. QED
      BY <1>3, <1>4, <2>3, <3>1
  <2>4. CASE i = Len(q) + 1 /\ j = Len(q) + 1
    BY <1>1, <1>4, <2>4
  <2>5. QED
    BY <1>2, <2>1, <2>2, <2>3, <2>4
<1>5. Fresh(a, w)
  BY <1>4 DEF Fresh
<1>6. QED
  BY <1>5 DEF a

\* What is read of a stream leaves the rest as it was.
LEMMA FreshLess ==
  ASSUME NEW q \in Seq(Messages), q # <<>>, NEW w, Fresh(q, w)
  PROVE  /\ Fresh(Tail(q), w)
         /\ Head(q).tag = "header" => /\ Head(q).body.part \in w
                                      /\ Fresh(Tail(q), w \ {Head(q).body.part})
<1> DEFINE t == Tail(q)
<1>1. /\ Head(q) = q[1] /\ 1 \in 1..Len(q)
      /\ \A i \in 1..Len(t) : i + 1 \in 1..Len(q) /\ t[i] = q[i + 1] /\ i \in Nat
  BY TailItems
<1> HIDE DEF t
<1>2. ASSUME NEW i \in 1..Len(t), NEW j \in 1..Len(t), t[i].tag = "header"
      PROVE  /\ t[i].body.part \in w
             /\ t[j].tag = "header" /\ t[j].body.part = t[i].body.part => i = j
             /\ q[1].tag = "header" => t[i].body.part # q[1].body.part
  <2>1. /\ i + 1 \in 1..Len(q) /\ t[i] = q[i + 1] /\ i \in Nat /\ i >= 1
        /\ j + 1 \in 1..Len(q) /\ t[j] = q[j + 1] /\ j \in Nat
    BY <1>1
  <2>2. i + 1 = j + 1 => i = j
    BY <2>1
  <2>3. i + 1 # 1
    BY <2>1
  <2>4. QED
    BY <1>1, <1>2, <2>1, <2>2, <2>3 DEF Fresh
<1>3. Fresh(t, w)
  BY <1>2 DEF Fresh
<1>4. ASSUME q[1].tag = "header"
      PROVE  q[1].body.part \in w /\ Fresh(t, w \ {q[1].body.part})
  <2>1. q[1].body.part \in w
    BY <1>1, <1>4 DEF Fresh
  <2>2. QED
    BY <1>2, <1>4, <2>1 DEF Fresh
<1>5. QED
  BY <1>1, <1>3, <1>4 DEF t

-----------------------------------------------------------------------------
(***************************************************************************)
(* Why every part is stored twice: the servers that one outage leaves have *)
(* all four, the outage being of the put, of a later command or of both.   *)
(***************************************************************************)
LEMMA AtMostOne ==
  ASSUME Servers = 1..MAXSERVERS, NEW a \in SUBSET Servers, Cardinality(a) <= 1
  PROVE  \E r \in Servers : a \subseteq {r}
<1>1. Servers = 1..4 /\ IsFiniteSet(a)
  <2>1. Servers = 1..4
    BY DEF MAXSERVERS
  <2>2. \A m, n \in Int : IsFiniteSet(m..n)
    BY FS_Interval
  <2>3. 1 \in Int /\ 4 \in Int
    OBVIOUS
  <2>4. IsFiniteSet(Servers)
    BY <2>1, <2>2, <2>3, Zenon
  <2>5. QED
    BY <2>1, <2>4, FS_Subset
<1>2. ASSUME NEW x \in a, NEW y \in a, x # y PROVE FALSE
  <2>1. IsFiniteSet({x}) /\ Cardinality({x}) = 1
    BY FS_Singleton
  <2>2. Cardinality({x} \cup {y}) = 2
    BY <1>2, <2>1, FS_AddElement
  <2>3. Cardinality({x} \cup {y}) <= Cardinality(a)
    BY <1>1, FS_Subset
  <2>4. Cardinality(a) \in Nat
    BY <1>1, FS_CardinalityType
  <2>5. QED
    <3>1. 2 <= Cardinality(a)
      BY <2>2, <2>3
    <3>2. QED
      BY <2>4, <3>1
<1>3. CASE a = {}
  BY <1>1, <1>3
<1>4. CASE a # {}
  BY <1>2, <1>4
<1>5. QED
  BY <1>3, <1>4

\* A part is on one of the servers that are left.
LEMMA TheOthersHaveAll ==
  ASSUME Servers = 1..MAXSERVERS, NEW first \in Pairs, NEW p \in Parts,
         NEW a \in SUBSET Servers, NEW b \in SUBSET Servers, Cardinality(a \cup b) <= 1
  PROVE  \E s \in Servers : s \notin a \cup b /\ p \in PairParts(PairAt(first, a, s))
<1>1. PICK r \in Servers : a \cup b \subseteq {r}
  BY AtMostOne
<1>2. Servers = 1..4
  BY DEF MAXSERVERS
<1> DEFINE W(n) == IF n > 3 THEN n - 4 ELSE n
<1>3. ASSUME NEW s \in Servers
      PROVE  /\ a = {} => PairAt(first, a, s) = W(first + s - 1)
             /\ a = {r} /\ s < r => PairAt(first, a, s) = W(first + s - 1)
             /\ a = {r} /\ s > r => PairAt(first, a, s) = W(first + s - 2)
  <2>1. s = 1 \/ s = 2 \/ s = 3 \/ s = 4
    BY <1>2
  <2>2. r = 1 \/ r = 2 \/ r = 3 \/ r = 4
    BY <1>2
  <2>3. first \in 0..3
    BY DEF Pairs
  <2>4. ASSUME a = {}
        PROVE  PairAt(first, a, s) = W(first + s - 1)
    <3>1. \A i \in 1..3 : Passed(i, s, a) = IF i < s THEN 1 ELSE 0
      BY <2>4 DEF Passed
    <3>2. QED
      BY <2>1, <2>3, <3>1 DEF PairAt
  <2>5. ASSUME a = {r}
        PROVE  /\ s < r => PairAt(first, a, s) = W(first + s - 1)
               /\ s > r => PairAt(first, a, s) = W(first + s - 2)
    <3>1. \A i \in 1..3 : Passed(i, s, a) = IF i < s /\ i # r THEN 1 ELSE 0
      BY <2>5 DEF Passed
    <3>2. QED
      BY <2>1, <2>2, <2>3, <3>1 DEF PairAt
  <2>6. QED
    BY <2>4, <2>5
<1>4. \A pair \in Pairs : p \in PairParts(pair) <=>
                            p = pair + 1 \/ p = IF pair = 3 THEN 1 ELSE pair + 2
  BY DEF PairParts, PartSent, IndexOf, Pairs
<1>5. \A n \in 0..7 : W(n) \in Pairs
  BY DEF Pairs
\* The servers that hold the part, were none missing.
<1>6. first \in 0..3 /\ p \in 1..4 /\ (r = 1 \/ r = 2 \/ r = 3 \/ r = 4)
  BY <1>2 DEF Pairs, Parts
<1>7. CASE a = {}
  <2>1. \E s \in 1..4 : s # r /\ p \in PairParts(W(first + s - 1))
    BY <1>4, <1>5, <1>6
  <2> HIDE DEF W
  <2>2. PICK s \in 1..4 : s # r /\ p \in PairParts(W(first + s - 1))
    BY <2>1
  <2>3. s \in Servers /\ s \notin a \cup b
    BY <1>1, <1>2, <2>2
  <2>4. p \in PairParts(PairAt(first, a, s))
    BY <1>3, <1>7, <2>2, <2>3
  <2>5. QED
    BY <2>3, <2>4
<1>8. CASE a = {r}
  <2>1. \E s \in 1..4 : \/ s < r /\ p \in PairParts(W(first + s - 1))
                        \/ s > r /\ p \in PairParts(W(first + s - 2))
    BY <1>4, <1>5, <1>6
  <2> HIDE DEF W
  <2>2. PICK s \in 1..4 : \/ s < r /\ p \in PairParts(W(first + s - 1))
                          \/ s > r /\ p \in PairParts(W(first + s - 2))
    BY <2>1
  <2>3. s \in Servers /\ s # r
    BY <1>2, <2>2
  <2>4. p \in PairParts(PairAt(first, a, s))
    BY <1>3, <1>8, <2>2, <2>3
  <2>5. s \notin a \cup b
    BY <1>1, <2>3
  <2>6. QED
    BY <2>3, <2>4, <2>5
<1>9. QED
  BY <1>1, <1>7, <1>8

\* The pairs of a put that skips nobody.
LEMMA PairsInOrder ==
  ASSUME NEW first \in Pairs, NEW s \in 1..MAXSERVERS
  PROVE  PairAt(first, {}, s) = Layout(first)[s]
<1>1. s = 1 \/ s = 2 \/ s = 3 \/ s = 4
  BY DEF MAXSERVERS
<1>2. first = 0 \/ first = 1 \/ first = 2 \/ first = 3
  BY DEF Pairs
<1>3. \A i \in 1..3 : Passed(i, s, {}) = IF i < s THEN 1 ELSE 0
  BY DEF Passed
<1>4. PairAt(first, {}, s) = IF first + s - 1 > 3 THEN first + s - 5 ELSE first + s - 1
  BY <1>1, <1>2, <1>3 DEF PairAt
<1>5. Layout(first)[s] = IF first + s - 1 > 3 THEN first + s - 5 ELSE first + s - 1
  BY <1>1, <1>2 DEF Layout, WrapPair
<1>6. QED
  BY <1>4, <1>5

=============================================================================
