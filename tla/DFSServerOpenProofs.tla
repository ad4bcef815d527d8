------------------------- MODULE DFSServerOpenProofs -------------------------
(***************************************************************************)
(* What holds of the servers for any sets of users, threads, names,        *)
(* contents and sessions.                                                  *)
(***************************************************************************)
EXTENDS DFSServerOpen, DFSServerProofs

\* What a client writes is a sequence of messages.
LEMMA SessionType ==
  ASSUME NEW x \in Sessions
  PROVE  /\ SessionMessages(x) \in Seq(Messages)
         /\ \A k \in 0..Len(SessionMessages(x)) : SubSeq(SessionMessages(x), 1, k) \in Seq(Messages)
<1> x.login \in Logins /\ x.command \in Commands /\ x.content \in Contents
    /\ x.pair \in Pairs /\ x.asked \in SUBSET Parts
  BY SessionsAssumption DEF Logins
<1>1. ASSUME NEW p \in Parts PROVE PartMessages(x.content, p) \in Seq(Messages)
  BY PartsType
<1>2. PartSent(x.pair, 0) \in Parts /\ PartSent(x.pair, 1) \in Parts
  BY DEF PartSent, IndexOf, Pairs, Parts
<1>3. <<Message("login", x.login), Message("command", x.command)>> \in Seq(Messages)
  BY MessageTypes
<1>4. <<Message("request", x.asked)>> \in Seq(Messages)
  BY MessageTypes
<1>5. SessionMessages(x) \in Seq(Messages)
  <2>1. CASE x.command.op = "put"
    BY <1>1, <1>2, <1>3, <2>1 DEF SessionMessages
  <2>2. CASE x.command.op = "get"
    BY <1>3, <1>4, <2>2 DEF SessionMessages
  <2>3. CASE x.command.op \notin {"put", "get"}
    BY <1>3, <2>3 DEF SessionMessages
  <2>4. QED
    BY <2>1, <2>2, <2>3
<1>6. QED
  BY <1>5

\* The invariant holds at the start.
LEMMA InitInv == OpenInit => Inv
<1> SUFFICES ASSUME OpenInit PROVE Inv
  OBVIOUS
<1>1. Cleared \in Frames
  BY ClearedType
<1>2. NoCommand(CHOOSE n \in Names : TRUE) \in Commands
  BY ConstantsAssumption DEF NoCommand, Commands, Ops, Dirs
<1>3. KnownUsers \X {Base} \in SUBSET (Users \X Dirs)
  BY ConstantsAssumption DEF Dirs
<1>4. TypeOK
  BY <1>1, <1>2, <1>3, PieceTypes DEF OpenInit, ServerInit, EmptyDisk, TypeOK, States
<1>5. OnlyAccounts
  BY DEF OpenInit, ServerInit, OnlyAccounts
<1>6. QED
  BY <1>4, <1>5 DEF Inv

\* Every step keeps it.
LEMMA NextInv == Inv /\ [OpenNext]_openVars => Inv'
<1> SUFFICES ASSUME Inv, [OpenNext]_openVars PROVE Inv'
  OBVIOUS
<1>1. ASSUME NEW h \in Handlers, HandlerStep(h) PROVE Inv'
  BY <1>1, HandlerInv
<1>2. ASSUME NEW h \in Handlers, BrokenPipe(h) PROVE Inv'
  BY <1>2, FaultInv
<1>3. ASSUME NEW h \in Handlers, Dial(h) PROVE Inv'
  BY <1>3, SessionType, AcceptInv DEF Dial
<1>4. ASSUME NEW h \in Handlers, HangUp(h) PROVE Inv'
  BY <1>4, SessionType, AcceptInv DEF HangUp
<1>5. ASSUME NEW s \in Servers, Fail(s) PROVE Inv'
  BY <1>5, FaultInv DEF Fail
<1>6. CASE UNCHANGED openVars
  BY <1>6 DEF openVars, serverVars, Inv, TypeOK, OnlyAccounts
<1>7. QED
  BY <1>1, <1>2, <1>3, <1>4, <1>5, <1>6 DEF OpenNext, Step

(***************************************************************************)
(* The variables of the servers keep their types, under any sessions,      *)
(* hang-ups and crashes.                                                   *)
(***************************************************************************)
THEOREM TypeCorrect == OpenSpec => []TypeOK
<1>1. OpenSpec => []Inv
  BY InitInv, NextInv, PTL DEF OpenSpec
<1>2. Inv => TypeOK
  BY DEF Inv
<1>3. QED
  BY <1>1, <1>2, PTL

-----------------------------------------------------------------------------
\* The start has no handler at work.
LEMMA InitDirectory == OpenInit => DirectoryReady
  BY DEF OpenInit, ServerInit, DirectoryReady

(***************************************************************************)
(* When no name is a prefix of another, every accepted user has a          *)
(* directory by the time the command is read, and the directory a command  *)
(* names is there while it is carried out (DFS_server.c:174-218), under    *)
(* any concurrency, hang-ups and crashes.  DirectoryReady is inductive     *)
(* relative to Inv: directories are never removed, and the scan of "."     *)
(* finds the user's name only where the user's directory is.               *)
(***************************************************************************)
THEOREM DirectoriesReady ==
  ASSUME Prefixes = {}
  PROVE  OpenSpec => []DirectoryReady
<1>1. \A s \in Servers, u \in Users : UserDirSeen(s, u) => <<u, Base>> \in dirs[s]
  BY DEF UserDirSeen
<1>2. Inv /\ DirectoryReady /\ [OpenNext]_openVars => DirectoryReady'
  <2> SUFFICES ASSUME Inv, DirectoryReady, [OpenNext]_openVars
               PROVE  DirectoryReady'
    OBVIOUS
  <2>1. ASSUME NEW h \in Handlers, HandlerStep(h) PROVE DirectoryReady'
    <3>1. UserDirSeen(ServerOf(h), User(h)) =>
             <<User(h), Base>> \in dirs[ServerOf(h)]
      BY DEF UserDirSeen
    <3>2. QED
      BY <2>1, <3>1, HandlerDirectory
  <2>2. ASSUME NEW h \in Handlers, BrokenPipe(h) PROVE DirectoryReady'
    BY <2>2, OtherStepsDirectory DEF BrokenPipe, ServerOf, Handlers
  <2>3. ASSUME NEW h \in Handlers, Dial(h) \/ HangUp(h) PROVE DirectoryReady'
    BY <2>3, SessionType, OtherStepsDirectory DEF Dial, HangUp
  <2>4. ASSUME NEW s \in Servers, Fail(s) PROVE DirectoryReady'
    BY <2>4, OtherStepsDirectory DEF Fail, Crash
  <2>5. CASE UNCHANGED openVars
    BY <2>5 DEF openVars, serverVars, DirectoryReady, User, Opens, Tree
  <2>6. QED
    BY <2>1, <2>2, <2>3, <2>4, <2>5 DEF OpenNext, Step
<1>3. OpenSpec => []Inv
  BY InitInv, NextInv, PTL DEF OpenSpec
<1>4. QED
  BY InitDirectory, <1>2, <1>3, PTL DEF OpenSpec

(***************************************************************************)
(* The strengthening for NeverExits: nobody needs a directory made, so no  *)
(* handler is between the scan and the mkdir where the race is.            *)
(***************************************************************************)
Settled ==
  /\ \A s \in Servers : Users \X {Base} \subseteq dirs[s]
  /\ \A h \in Handlers : pc[h] # "mkdir" /\ ~gone[h]
SafeInv == Inv /\ DirectoryReady /\ Settled /\ NeverExits

\* SafeInv is inductive when every user has a directory and nobody hangs up.
LEMMA SafeAlways ==
  ASSUME KnownUsers = Users, ~MayHangUp
  PROVE  OpenSpec => []SafeInv
<1>1. OpenInit => SafeInv
  BY InitInv, InitDirectory DEF OpenInit, ServerInit, SafeInv, Settled, NeverExits
<1>2. SafeInv /\ [OpenNext]_openVars => SafeInv'
  <2> SUFFICES ASSUME SafeInv, [OpenNext]_openVars PROVE SafeInv'
    OBVIOUS
  <2>i. Inv /\ DirectoryReady /\ Settled /\ NeverExits /\ Inv'
    BY NextInv DEF SafeInv
  <2>1. ASSUME NEW h \in Handlers, HandlerStep(h) PROVE SafeInv'
    <3>1. /\ DirectoryReady' /\ status' = status /\ gone' = gone /\ pc'[h] # "mkdir"
          /\ \A s \in Servers : Users \X {Base} \subseteq dirs'[s]
          /\ \A k \in Handlers \ {h} : pc'[k] = pc[k]
      BY <2>1, <2>i, SettledStep DEF Settled
    <3>2. Settled'
      BY <2>i, <3>1 DEF Settled
    <3>3. QED
      BY <2>i, <3>1, <3>2 DEF SafeInv, NeverExits
  <2>2. ASSUME NEW h \in Handlers, BrokenPipe(h) PROVE SafeInv'
    BY <2>2, <2>i DEF BrokenPipe, Settled
  <2>3. ASSUME NEW h \in Handlers, Dial(h) \/ HangUp(h) PROVE SafeInv'
    <3>1. PICK x \in Sessions : Accept(h, SessionMessages(x), FALSE)
      BY <2>3 DEF Dial, HangUp
    <3>2. DirectoryReady'
      BY <2>i, <3>1, SessionType, OtherStepsDirectory
    <3>3. Settled' /\ NeverExits'
      BY <2>i, <3>1 DEF Accept, Goto, Settled, NeverExits, Inv, TypeOK, storeVars
    <3>4. QED
      BY <2>i, <3>2, <3>3 DEF SafeInv
  <2>4. ASSUME NEW s \in Servers, Fail(s) PROVE SafeInv'
    <3>1. DirectoryReady'
      BY <2>4, <2>i, OtherStepsDirectory DEF Fail, Crash
    <3>2. Settled' /\ NeverExits'
      BY <2>4, <2>i DEF Fail, Crash, Restart, Halt, Settled, NeverExits, Inv, TypeOK
    <3>3. QED
      BY <2>i, <3>1, <3>2 DEF SafeInv
  <2>5. CASE UNCHANGED openVars
    BY <2>5, <2>i DEF openVars, serverVars, SafeInv, DirectoryReady, User, Opens, Tree,
       Settled, NeverExits
  <2>6. QED
    BY <2>1, <2>2, <2>3, <2>4, <2>5 DEF OpenNext, Step
<1>3. QED
  BY <1>1, <1>2, PTL DEF OpenSpec

(***************************************************************************)
(* Once every user has a directory, and as long as no client goes away     *)
(* before its answer, no session ends a server, for any number of threads: *)
(* the part of "can service multiple clients and requests at the same      *)
(* time" (readme.txt:48) that does hold.                                   *)
(***************************************************************************)
THEOREM KnownUsersAreSafe ==
  ASSUME KnownUsers = Users, ~MayHangUp
  PROVE  OpenSpec => []NeverExits
<1>1. SafeInv => NeverExits
  BY DEF SafeInv
<1>2. QED
  BY <1>1, SafeAlways, PTL

-----------------------------------------------------------------------------
(***************************************************************************)
(* The streams.  The bytes of a part come right behind a header with its   *)
(* number, and all bytes on a connection are of one session's content.     *)
(***************************************************************************)
Follows(q) ==
  \A i \in 2..Len(q) : q[i].tag = "data" =>
     q[i-1].tag = "header" /\ q[i].body.part = q[i-1].body.part
CarriedBy(q, x) ==
  \A i \in 1..Len(q) : q[i].tag = "data" =>
     q[i].body.content = x.content /\ x.command.op = "put"

\* What handler h has still to read is the rest of session x, for which it has
\* logged in; when it waits for the bytes of a part, it knows their number.
Serves(h, x) ==
  /\ Follows(inbox[h]) /\ CarriedBy(inbox[h], x)
  /\ pc[h] = "auth" =>
       inbox[h] = <<>> \/ Head(inbox[h]) = Message("login", x.login)
  /\ pc[h] # "auth" => frame[h].cred = x.login
  /\ (pc[h] = "data" /\ inbox[h] # <<>> /\ Head(inbox[h]).tag = "data") =>
       Head(inbox[h]).body.part = frame[h].hdr.part
StreamsOK == \A h \in Handlers : pc[h] # "free" => \E x \in Sessions : Serves(h, x)
Custody == Inv /\ StreamsOK /\ OwnNumber /\ OwnFiles

\* Where an element of two short sequences, one after the other, comes from.
LEMMA Halves ==
  ASSUME NEW S, NEW a \in Seq(S), NEW b \in Seq(S),
         Len(a) = 1 \/ Len(a) = 2, Len(b) = 1 \/ Len(b) = 2,
         NEW i \in 1..Len(a \o b)
  PROVE  \/ i = 1 /\ (a \o b)[i] = a[1]
         \/ i = 2 /\ Len(a) = 2 /\ (a \o b)[i] = a[2] /\ (a \o b)[i-1] = a[1]
         \/ (a \o b)[i] = b[1]
         \/ i > 1 /\ Len(b) = 2 /\ (a \o b)[i] = b[2] /\ (a \o b)[i-1] = b[1]
<1>1. /\ Len(a \o b) = Len(a) + Len(b)
      /\ \A j \in 1..Len(a) : (a \o b)[j] = a[j]
      /\ \A j \in 1..Len(b) : (a \o b)[Len(a) + j] = b[j]
  OBVIOUS
<1>2. CASE i \in 1..Len(a)
  BY <1>1, <1>2
<1>3. CASE i \notin 1..Len(a)
  <2> DEFINE j == i - Len(a)
  <2>1. j \in 1..Len(b) /\ i = Len(a) + j
    BY <1>1, <1>3
  <2>2. (a \o b)[i] = b[j]
    BY <1>1, <2>1
  <2>3. CASE j = 1
    BY <2>2, <2>3
  <2>4. CASE j = 2
    <3>1. i - 1 = Len(a) + 1 /\ i > 1 /\ Len(b) = 2
      <4>1. i = Len(a) + 2
        BY <2>1, <2>4
      <4>2. Len(b) = 2
        BY <2>1, <2>4
      <4>3. i - 1 = Len(a) + 1 /\ i > 1
        BY <4>1
      <4>4. QED
        BY <4>2, <4>3
    <3>2. (a \o b)[i-1] = b[1]
      BY <1>1, <3>1
    <3>3. QED
      BY <2>2, <2>4, <3>1, <3>2
  <2>5. QED
    BY <2>1, <2>3, <2>4
<1>4. QED
  BY <1>2, <1>3

\* What a client writes has that shape, and so has any prefix of it.
LEMMA SessionShape ==
  ASSUME NEW x \in Sessions, NEW k \in 0..Len(SessionMessages(x)),
         NEW q, q = SubSeq(SessionMessages(x), 1, k) \/ q = SessionMessages(x)
  PROVE  /\ Follows(q) /\ CarriedBy(q, x)
         /\ q = <<>> \/ Head(q) = Message("login", x.login)
<1> DEFINE full == SessionMessages(x)
<1>t. /\ x.content \in Contents /\ x.pair \in Pairs
      /\ full \in Seq(Messages)
  BY SessionType, SessionsAssumption
<1>1. /\ full # <<>> /\ Head(full) = Message("login", x.login)
      /\ Follows(full) /\ CarriedBy(full, x)
  <2> DEFINE start == <<Message("login", x.login), Message("command", x.command)>>
  <2>1. CASE x.command.op = "put"
    <3> DEFINE a == PartMessages(x.content, PartSent(x.pair, 0))
               b == PartMessages(x.content, PartSent(x.pair, 1))
    <3>1. PartSent(x.pair, 0) \in Parts /\ PartSent(x.pair, 1) \in Parts
      BY <1>t DEF PartSent, IndexOf, Pairs, Parts
    <3> DEFINE Shape(s) ==
          /\ Len(s) = 1 \/ Len(s) = 2
          /\ s[1].tag = "header"
          /\ Len(s) = 2 => /\ s[2].tag = "data" /\ s[2].body.content = x.content
                           /\ s[2].body.part = s[1].body.part
    <3>2. Shape(a) /\ Shape(b)
      <4>1. ASSUME NEW p \in Parts PROVE Shape(PartMessages(x.content, p))
        BY <1>t, PartShape DEF Message, Piece
      <4>2. QED
        BY <3>1, <4>1
    <3>3. a \in Seq(Messages) /\ b \in Seq(Messages)
      BY <1>t, <3>1, PartsType
    <3>4. full = start \o (a \o b)
      BY <2>1 DEF SessionMessages
    <3> HIDE DEF a, b
    <3> DEFINE ab == a \o b
    <3>5. /\ ab \in Seq(Messages) /\ Len(ab) = Len(a) + Len(b)
          /\ \A i \in 1..Len(a) : ab[i] = a[i]
          /\ \A i \in 1..Len(b) : ab[Len(a) + i] = b[i]
      BY <3>3
    <3>6. /\ ab[1].tag = "header"
          /\ \A i \in 1..Len(ab) : ab[i].tag = "data" =>
                /\ i > 1 /\ ab[i-1].tag = "header"
                /\ ab[i].body.part = ab[i-1].body.part
                /\ ab[i].body.content = x.content
      <4> HIDE DEF start, ab
      <4>1. /\ Len(a) = 1 \/ Len(a) = 2
            /\ Len(b) = 1 \/ Len(b) = 2
            /\ ab[1] = a[1]
        BY <3>2, <3>5
      <4>2. a[1].tag = "header" /\ b[1].tag = "header"
        BY <3>2
      <4>3. ASSUME NEW i \in 1..Len(ab), ab[i].tag = "data"
            PROVE  /\ i > 1 /\ ab[i-1].tag = "header"
                   /\ ab[i].body.part = ab[i-1].body.part
                   /\ ab[i].body.content = x.content
        <5>1. \/ i = 1 /\ ab[i] = a[1]
              \/ i = 2 /\ Len(a) = 2 /\ ab[i] = a[2] /\ ab[i-1] = a[1]
              \/ ab[i] = b[1]
              \/ i > 1 /\ Len(b) = 2 /\ ab[i] = b[2] /\ ab[i-1] = b[1]
          BY <3>3, <4>1, <4>3, Halves DEF ab
        <5>2. ab[i] # a[1] /\ ab[i] # b[1]
          BY <4>2, <4>3
        <5>3. \/ i > 1 /\ Len(a) = 2 /\ ab[i] = a[2] /\ ab[i-1] = a[1]
              \/ i > 1 /\ Len(b) = 2 /\ ab[i] = b[2] /\ ab[i-1] = b[1]
          BY <5>1, <5>2
        <5>4. QED
          BY <3>2, <5>3
      <4>4. QED
        BY <4>1, <4>2, <4>3
    <3>7. /\ Len(full) = Len(ab) + 2
          /\ full[1] = start[1] /\ full[2] = start[2]
          /\ \A i \in 1..Len(ab) : full[i + 2] = ab[i]
      BY <3>4, <3>5
    <3>8. /\ full[1] = Message("login", x.login)
          /\ full[1].tag = "login" /\ full[2].tag = "command"
      BY <3>7 DEF Message
    <3> HIDE DEF start, ab, full
    <3>9. ASSUME NEW i \in 1..Len(full), full[i].tag = "data"
          PROVE  /\ i > 1 /\ full[i-1].tag = "header"
                 /\ full[i].body.part = full[i-1].body.part
                 /\ full[i].body.content = x.content
      <4> DEFINE j == i - 2
      <4>1. j \in 1..Len(ab)
        BY <3>5, <3>7, <3>8, <3>9
      <4>2. full[i] = ab[j] /\ ab[j].tag = "data"
        BY <3>7, <3>9, <4>1
      <4>3. j - 1 \in 1..Len(ab) /\ full[i-1] = ab[j-1]
        BY <3>5, <3>6, <3>7, <4>1, <4>2
      <4>4. QED
        BY <3>6, <4>1, <4>2, <4>3
    <3>10. QED
      BY <1>t, <2>1, <3>5, <3>7, <3>8, <3>9 DEF Follows, CarriedBy
  <2>2. CASE x.command.op # "put"
    <3> DEFINE rest == IF x.command.op = "get"
                         THEN <<Message("request", x.asked)>> ELSE << >>
    <3>1. full = start \o rest
      BY <2>2 DEF SessionMessages
    <3>2. full[1] = Message("login", x.login) /\ Len(full) \in 2..3
      BY <3>1
    <3>3. \A i \in 1..Len(full) : full[i].tag # "data"
      BY <3>1 DEF Message
    <3>4. QED
      BY <1>t, <3>2, <3>3 DEF Follows, CarriedBy
  <2>3. QED
    BY <2>1, <2>2
<1>2. CASE q = SubSeq(full, 1, k)
  <2>1. /\ Len(q) = k /\ k <= Len(full)
        /\ \A i \in 1..k : q[i] = full[i]
    BY <1>2, <1>t
  <2>2. QED
    BY <1>1, <2>1 DEF Follows, CarriedBy
<1>3. QED
  BY <1>1, <1>2

\* Reading leaves what it has not read as it was.
LEMMA RestShape ==
  ASSUME NEW q \in Seq(Messages), NEW x, Follows(q), CarriedBy(q, x)
  PROVE  LET rest == IF q # <<>> THEN Tail(q) ELSE q
         IN  /\ Follows(rest) /\ CarriedBy(rest, x)
             /\ (rest # <<>> /\ Head(rest).tag = "data") =>
                  /\ Head(q).tag = "header"
                  /\ Head(rest).body.part = Head(q).body.part
<1>1. CASE q = <<>>
  BY <1>1
<1>2. CASE q # <<>>
  <2> DEFINE rest == Tail(q)
  <2>1. /\ rest \in Seq(Messages) /\ Len(rest) = Len(q) - 1
        /\ \A i \in 1..Len(rest) : rest[i] = q[i+1]
    BY <1>2
  <2>2. Len(q) \in Nat /\ Head(q) = q[1] /\ (rest # <<>> => Head(rest) = rest[1])
    BY <1>2, <2>1
  <2> HIDE DEF rest
  <2>3. CarriedBy(rest, x)
    BY <2>1, <2>2 DEF CarriedBy
  <2>4. Follows(rest)
    <3>1. ASSUME NEW i \in 2..Len(rest), rest[i].tag = "data"
          PROVE  rest[i-1].tag = "header" /\ rest[i].body.part = rest[i-1].body.part
      <4>1. i + 1 \in 2..Len(q) /\ rest[i] = q[i+1] /\ rest[i-1] = q[(i+1)-1]
        BY <2>1, <2>2
      <4>2. QED
        BY <3>1, <4>1 DEF Follows
    <3>2. QED
      BY <3>1 DEF Follows
  <2>5. (rest # <<>> /\ Head(rest).tag = "data") =>
          Head(q).tag = "header" /\ Head(rest).body.part = Head(q).body.part
    <3>1. ASSUME rest # <<>> PROVE 2 \in 2..Len(q) /\ rest[1] = q[2]
      BY <2>1, <2>2, <3>1
    <3>2. QED
      BY <2>2, <3>1 DEF Follows
  <2>6. QED
    BY <1>2, <2>3, <2>4, <2>5 DEF rest
<1>3. QED
  BY <1>1, <1>2

\* Every step of a handler keeps the streams in order.
LEMMA HandlerStreams ==
  ASSUME Inv, StreamsOK, NEW h \in Handlers, HandlerStep(h)
  PROVE  StreamsOK'
<1>1. ASSUME NEW k \in Handlers \ {h}, pc'[k] # "free"
      PROVE  \E x \in Sessions : Serves(k, x)'
  <2>1. /\ pc'[k] = pc[k] /\ frame'[k] = frame[k]
        /\ inbox'[k] = inbox[k]
    BY <1>1, OthersStay, OwnStreams
  <2>2. PICK x \in Sessions : Serves(k, x)
    BY <1>1, <2>1 DEF StreamsOK
  <2>3. QED
    BY <2>1, <2>2 DEF Serves
<1>2. ASSUME pc'[h] # "free" PROVE \E x \in Sessions : Serves(h, x)'
  <2>p. pc[h] # "free"
    BY OwnMove DEF Authenticate
  <2>x. PICK x \in Sessions : Serves(h, x)
    BY <2>p DEF StreamsOK
  <2> DEFINE q == inbox[h]
             rest == IF q # <<>> THEN Tail(q) ELSE q
  <2>q. q \in Seq(Messages) /\ Follows(q) /\ CarriedBy(q, x)
    BY <2>x DEF Serves, Inv, TypeOK
  <2>r. Consume(h) => inbox'[h] = rest
    BY DEF Consume, Inv, TypeOK
  <2>1. Follows(inbox'[h]) /\ CarriedBy(inbox'[h], x)
    <3>1. Follows(rest) /\ CarriedBy(rest, x)
      BY <2>q, RestShape
    <3>2. QED
      BY <2>q, <2>r, <3>1, OwnStreams
  <2>2. CASE Authenticate(h)
    <3> DEFINE login == AsLogin(Incoming(h))
    <3>1. /\ pc[h] = "auth" /\ Valid(login) /\ pc'[h] = "scan"
          /\ frame'[h].cred = login
      <4>1. Valid(login)
        BY <1>2, <2>2 DEF Authenticate, Close, Goto, Inv, TypeOK
      <4>2. Goto(h, "scan", [frame[h] EXCEPT !.cred = login])
        BY <2>2, <4>1 DEF Authenticate
      <4>3. QED
        BY <2>2, <4>1, <4>2 DEF Authenticate, Goto, Inv, TypeOK, Frames
    <3>2. login = x.login
      <4>1. q # <<>>
        <5>1. <<None, None>> \notin Accounts
          BY ConstantsAssumption
        <5>2. QED
          BY <3>1, <5>1 DEF Incoming, EOF, AsLogin, Message, Valid
      <4>2. QED
        BY <2>x, <3>1, <4>1 DEF Serves, Incoming, AsLogin, Message
    <3>3. QED
      BY <2>1, <3>1, <3>2 DEF Serves
  <2>3. CASE ~Authenticate(h)
    <3>1. /\ pc[h] # "auth" /\ pc'[h] # "auth" /\ frame'[h].cred = x.login
      BY <1>2, <2>3, <2>x, OwnMove DEF Serves
    <3>2. ASSUME pc'[h] = "data", inbox'[h] # <<>>, Head(inbox'[h]).tag = "data"
          PROVE  Head(inbox'[h]).body.part = frame'[h].hdr.part
      <4> SUFFICES ASSUME ~(/\ pc[h] = "data" /\ inbox'[h] = q
                             /\ frame'[h].hdr = frame[h].hdr)
                   PROVE  Head(inbox'[h]).body.part = frame'[h].hdr.part
        BY <2>x, <3>2 DEF Serves
      <4>1. /\ inbox'[h] = rest /\ frame'[h].hdr = AsHeader(Incoming(h))
        BY <2>3, <2>r, <3>2, OwnMove
      <4>2. Head(q).tag = "header" /\ Head(rest).body.part = Head(q).body.part
        BY <2>q, <3>2, <4>1, RestShape
      <4>3. q # <<>>
        BY <3>2, <4>1
      <4>4. QED
        BY <4>1, <4>2, <4>3 DEF Incoming, AsHeader
    <3>3. QED
      BY <2>1, <3>1, <3>2 DEF Serves
  <2>4. QED
    BY <2>2, <2>3
<1>3. QED
  BY <1>1, <1>2 DEF StreamsOK

\* Every write keeps parts under their numbers and files with their senders.
LEMMA HandlerCustody ==
  ASSUME Custody, NEW h \in Handlers, HandlerStep(h)
  PROVE  OwnNumber' /\ OwnFiles'
<1> USE DEF Custody
<1> DEFINE Kept(s, f) == disk[s][f].kind = "whole" =>
             disk[s][f].part = f[4] /\ f[1] \in SenderOf(disk[s][f].content)
<1>k. \A s \in Servers, f \in Slots : Kept(s, f)
  BY DEF OwnNumber, OwnFiles
<1>s. ServerOf(h) \in Servers
  BY DEF ServerOf, Handlers
<1>w. ASSUME NEW part \in 0..4, NEW piece, SetDisk(h, part, piece),
             pc[h] \notin {"free", "auth"},
             piece.kind = "whole" =>
               piece.part = part /\ User(h) \in SenderOf(piece.content)
      PROVE  \A s \in Servers, f \in Slots : Kept(s, f)'
  <2>1. PathOf(h, part) \in Slots
    BY <1>w, UserType, PieceTypes, DiskType DEF Inv
  <2>2. PathOf(h, part)[1] = User(h) /\ PathOf(h, part)[4] = part
    BY DEF PathOf
  <2>3. ASSUME NEW s \in Servers, NEW f \in Slots
        PROVE  \/ disk'[s][f] = disk[s][f]
               \/ f = PathOf(h, part) /\ disk'[s][f] = piece
    <3>1. disk[s] \in [Slots -> Pieces] /\ disk \in [Servers -> [Slots -> Pieces]]
      BY DEF Inv, TypeOK
    <3>2. QED
      BY <1>s, <1>w, <3>1 DEF SetDisk
  <2>4. QED
    BY <1>k, <1>w, <2>2, <2>3
<1>1. CASE OpenPart(h)
  <2>1. AsHeader(Incoming(h)).part \in 0..4
    BY ReadTypes, ParseTypes DEF Inv, Headers
  <2>2. Zeros(0).kind # "whole"
    BY DEF Zeros, Piece
  <2>3. \A s \in Servers, f \in Slots : Kept(s, f)'
    <3>1. CASE SetDisk(h, AsHeader(Incoming(h)).part, Zeros(0))
      BY <1>1, <1>w, <2>1, <2>2, <3>1 DEF OpenPart
    <3>2. CASE UNCHANGED disk
      BY <1>k, <3>2
    <3>3. QED
      BY <1>1, <3>1, <3>2 DEF OpenPart
  <2>4. QED
    BY <2>3 DEF OwnNumber, OwnFiles
<1>2. CASE WritePart(h)
  <2> DEFINE hdr == frame[h].hdr
             m == Incoming(h)
             piece == Overwritten(FileAt(h, hdr.part), AsData(m, hdr.size),
                                  frame[h].out, Written(h))
  <2>1. hdr.part \in 0..4
    BY DEF Inv, TypeOK, Frames, Headers
  <2>2. /\ pc[h] = "data" /\ SetDisk(h, hdr.part, piece)
    BY <1>2 DEF WritePart
  <2>3. ASSUME piece.kind = "whole"
        PROVE  piece.part = hdr.part /\ User(h) \in SenderOf(piece.content)
    <3>1. m.tag = "data" /\ piece = m.body
      <4> DEFINE new == AsData(m, hdr.size)
      <4>1. piece = new /\ new.kind = "whole"
        <5>1. m \in Messages /\ FileAt(h, hdr.part) \in Pieces /\ new \in Pieces
          <6>1. User(h) \in Users /\ hdr.size \in Nat
            BY <2>2, UserType DEF Inv, TypeOK, Frames, Headers
          <6>2. QED
            BY <2>1, <6>1, PieceTypes, DiskType, ReadTypes, ParseTypes DEF Inv
        <5>2. QED
          BY <2>3, <5>1, WholeWritten
      <4>2. QED
        BY <4>1 DEF AsData, Zeros, Piece
    <3>2. inbox[h] # <<>> /\ m = Head(inbox[h])
      BY <3>1 DEF Incoming, EOF, Message
    <3>3. PICK x \in Sessions : Serves(h, x)
      BY <2>2 DEF StreamsOK
    <3>4. piece.part = hdr.part
      BY <2>2, <3>1, <3>2, <3>3 DEF Serves
    <3>5. m.body.content = x.content /\ x.command.op = "put"
      <4>1. inbox[h] \in Seq(Messages)
        BY DEF Inv, TypeOK
      <4>2. 1 \in 1..Len(inbox[h]) /\ Head(inbox[h]) = inbox[h][1]
        BY <3>2, <4>1
      <4>3. QED
        BY <3>1, <3>2, <3>3, <4>2 DEF Serves, CarriedBy
    <3>6. User(h) = x.login[1] /\ x.login \in Accounts
      BY <2>2, <3>3 DEF Serves, User, Inv, OnlyAccounts
    <3>7. QED
      BY <3>1, <3>4, <3>5, <3>6 DEF SenderOf
  <2>4. \A s \in Servers, f \in Slots : Kept(s, f)'
    BY <1>w, <2>1, <2>2, <2>3
  <2>5. QED
    BY <2>4 DEF OwnNumber, OwnFiles
<1>3. CASE UNCHANGED disk
  BY <1>3 DEF OwnNumber, OwnFiles
<1>4. QED
  BY <1>1, <1>2, <1>3 DEF HandlerStep, Authenticate, ScanForDirectory,
     MakeUserDirectory, UserDirectoryExists, ReadCommand, List, ListUnopened,
     Spin, ReadRequest, ServeHeader, SendPart, ServeNothing, ServeUnopened,
     storeVars, Halt

\* The whole argument: Custody is inductive.
LEMMA CustodyInductive ==
  /\ OpenInit => Custody
  /\ Custody /\ [OpenNext]_openVars => Custody'
<1>1. OpenInit => Custody
  <2>1. OpenInit => StreamsOK
    BY DEF OpenInit, ServerInit, StreamsOK
  <2>2. OpenInit => OwnNumber /\ OwnFiles
    BY DEF OpenInit, EmptyDisk, Absent, Piece, OwnNumber, OwnFiles
  <2>3. QED
    BY <2>1, <2>2, InitInv DEF Custody
<1>2. ASSUME Custody, [OpenNext]_openVars PROVE Custody'
  <2>i. Inv /\ Inv' /\ StreamsOK /\ OwnNumber /\ OwnFiles
    BY <1>2, NextInv DEF Custody
  <2>1. ASSUME NEW h \in Handlers, HandlerStep(h) PROVE Custody'
    BY <1>2, <2>i, <2>1, HandlerStreams, HandlerCustody DEF Custody
  <2>2. ASSUME NEW s \in Servers, NEW how, Halt(s, how) PROVE Custody'
    <3>1. StreamsOK'
      BY <2>i, <2>2 DEF Halt, StreamsOK, Serves, Inv, TypeOK
    <3>2. OwnNumber' /\ OwnFiles'
      BY <2>i, <2>2 DEF Halt, OwnNumber, OwnFiles
    <3>3. QED
      BY <2>i, <3>1, <3>2 DEF Custody
  <2>3. ASSUME NEW h \in Handlers, BrokenPipe(h) PROVE Custody'
    BY <2>2, <2>3 DEF BrokenPipe, ServerOf, Handlers
  <2>4. ASSUME NEW h \in Handlers, Dial(h) \/ HangUp(h) PROVE Custody'
    <3> DEFINE Dialled(x, k) == {SubSeq(SessionMessages(x), 1, k), SessionMessages(x)}
    <3>x. PICK x \in Sessions : \E k \in 0..Len(SessionMessages(x)) :
            \E msgs \in Dialled(x, k), closed \in BOOLEAN : Accept(h, msgs, closed)
      <4>1. ASSUME NEW x \in Sessions PROVE 0 \in 0..Len(SessionMessages(x))
        BY SessionType
      <4>2. CASE Dial(h)
        BY <4>1, <4>2 DEF Dial
      <4>3. CASE HangUp(h)
        BY <4>3 DEF HangUp
      <4>4. QED
        BY <2>4, <4>2, <4>3
    <3>k. PICK k \in 0..Len(SessionMessages(x)) :
            \E msgs \in Dialled(x, k), closed \in BOOLEAN : Accept(h, msgs, closed)
      BY <3>x
    <3>1. PICK msgs \in Dialled(x, k), closed \in BOOLEAN : Accept(h, msgs, closed)
      BY <3>k
    <3>2. Serves(h, x)'
      BY <2>i, <3>1, SessionShape DEF Accept, Goto, Serves, Inv, TypeOK
    <3>3. \A j \in Handlers \ {h} : \A y : Serves(j, y) => Serves(j, y)'
      BY <2>i, <3>1 DEF Accept, Goto, Serves, Inv, TypeOK
    <3>4. StreamsOK'
      BY <2>i, <3>1, <3>2, <3>3 DEF StreamsOK, Accept, Goto, Inv, TypeOK
    <3>5. OwnNumber' /\ OwnFiles'
      BY <2>i, <3>1 DEF Accept, storeVars, OwnNumber, OwnFiles
    <3>6. QED
      BY <2>i, <3>4, <3>5 DEF Custody
  <2>5. ASSUME NEW s \in Servers, Fail(s) PROVE Custody'
    <3>1. CASE Crash(s)
      BY <2>2, <3>1 DEF Crash
    <3>2. CASE Restart(s)
      BY <2>i, <3>2 DEF Restart, Custody, StreamsOK, Serves, OwnNumber, OwnFiles
    <3>3. QED
      BY <2>5, <3>1, <3>2 DEF Fail
  <2>6. CASE UNCHANGED openVars
    BY <2>i, <2>6 DEF openVars, serverVars, Custody, StreamsOK, Serves, OwnNumber, OwnFiles
  <2>7. QED
    BY <1>2, <2>1, <2>3, <2>4, <2>5, <2>6 DEF OpenNext, Step
<1>3. QED
  BY <1>1, <1>2

(***************************************************************************)
(* A part is stored under its own number (DFS_server.c:254-284), whatever  *)
(* threads interleave, clients hang up and servers are killed: the number  *)
(* a handler has in hand is that of the bytes next on its stream.          *)
(***************************************************************************)
THEOREM PartsKeepTheirNumber == OpenSpec => []OwnNumber
<1>1. Custody => OwnNumber
  BY DEF Custody
<1>2. QED
  BY <1>1, CustodyInductive, PTL DEF OpenSpec

(***************************************************************************)
(* No user's tree ever holds bytes that another sent, whatever logins are  *)
(* tried and whatever threads interleave (DFS_server.c:150-284).           *)
(***************************************************************************)
THEOREM FilesStayWithTheirUser == OpenSpec => []OwnFiles
<1>1. Custody => OwnFiles
  BY DEF Custody
<1>2. QED
  BY <1>1, CustodyInductive, PTL DEF OpenSpec

-----------------------------------------------------------------------------
(***************************************************************************)
(* The answers.  Until a handler serves parts it has sent no header; the   *)
(* parts it has sent are not among those it still looks for; and a header  *)
(* that announces bytes is the last message only while they are to be sent. *)
(***************************************************************************)
NoHeader(q) == \A i \in 1..Len(q) : q[i].tag # "header"
Unsent(q, parts) ==
  \A i \in 1..Len(q) : q[i].tag = "header" => q[i].body.part \notin parts
NothingDue(q) ==
  q # <<>> /\ q[Len(q)].tag = "header" => q[Len(q)].body.size = 0
Answers(h) ==
  /\ pc[h] \notin {"free", "serve", "send"} => NoHeader(reply[h])
  /\ pc[h] \in {"serve", "send"} => Unsent(reply[h], frame[h].ask)
  /\ pc[h] = "serve" => NothingDue(reply[h])
  /\ pc[h] = "send" =>
       /\ reply[h] # <<>>
       /\ reply[h][Len(reply[h])] = Message("header", frame[h].hdr)
AnswersOK == \A h \in Handlers : Answers(h)
ReplyInv == Inv /\ AnswersOK /\ ReplyFramed

\* When one more message leaves an answer framed, and what becomes of the rest.
LEMMA OneMore ==
  ASSUME NEW q \in Seq(Messages), NEW m \in Messages, Framed(q)
  PROVE  LET more == Append(q, m)
         IN  /\ m.tag \notin {"header", "data"} /\ NothingDue(q) => Framed(more)
             /\ m.tag = "header" /\ NothingDue(q) /\ Unsent(q, {m.body.part}) =>
                  Framed(more)
             /\ (m.tag = "data" /\ q # <<>> /\ q[Len(q)].tag = "header"
                 /\ m.body.size = q[Len(q)].body.size) => Framed(more)
             /\ m.tag # "header" => NothingDue(more)
             /\ NoHeader(q) /\ m.tag # "header" => NoHeader(more)
             /\ \A parts : /\ Unsent(q, parts)
                           /\ m.tag = "header" => m.body.part \notin parts
                           => Unsent(more, parts)
<1> DEFINE more == Append(q, m)
           n == Len(q)
<1>1. /\ n \in Nat /\ Len(more) = n + 1 /\ more # <<>> /\ more[n + 1] = m
      /\ \A i \in 1..n : more[i] = q[i]
      /\ q # <<>> <=> n > 0
  OBVIOUS
<1> HIDE DEF more, n
<1>2. /\ m.tag # "header" => NothingDue(more)
      /\ NoHeader(q) /\ m.tag # "header" => NoHeader(more)
  BY <1>1 DEF NothingDue, NoHeader, n
<1>3. ASSUME NEW parts, Unsent(q, parts), m.tag = "header" => m.body.part \notin parts
      PROVE  Unsent(more, parts)
  BY <1>1, <1>3 DEF Unsent, n
<1> DEFINE Line(i) ==
      /\ more[i].tag = "data" => /\ i > 1 /\ more[i-1].tag = "header"
                                 /\ more[i].body.size = more[i-1].body.size
      /\ more[i].tag = "header" =>
           /\ \A j \in 1..(i-1) : more[j].tag = "header" =>
                                    more[j].body.part # more[i].body.part
           /\ (i < Len(more) /\ more[i].body.size # 0) => more[i+1].tag = "data"
<1>4. ASSUME NEW i \in 1..n, NothingDue(q) \/ m.tag = "data" PROVE Line(i)
  <2>1. more[i] = q[i] /\ (i > 1 => more[i-1] = q[i-1])
        /\ \A j \in 1..(i-1) : more[j] = q[j]
    BY <1>1
  <2>2. i < n => more[i+1] = q[i+1]
    BY <1>1
  <2>3. CASE i < n
    BY <1>1, <2>1, <2>2, <2>3 DEF Framed, n
  <2>4. CASE i = n
    BY <1>1, <1>4, <2>1, <2>4 DEF Framed, n, NothingDue
  <2>5. QED
    BY <1>1, <2>3, <2>4
<1>5. ASSUME NothingDue(q) \/ m.tag = "data", Line(n + 1) PROVE Framed(more)
  <2>1. \A i \in 1..Len(more) : Line(i)
    BY <1>1, <1>4, <1>5
  <2>2. QED
    BY <2>1 DEF Framed
<1>6. m.tag \notin {"header", "data"} => Line(n + 1)
  BY <1>1
<1>7. m.tag = "header" /\ Unsent(q, {m.body.part}) => Line(n + 1)
  BY <1>1 DEF Unsent, n
<1>8. (m.tag = "data" /\ q # <<>> /\ q[n].tag = "header"
       /\ m.body.size = q[n].body.size) => Line(n + 1)
  BY <1>1
<1>9. QED
  BY <1>2, <1>3, <1>5, <1>6, <1>7, <1>8 DEF more, n

\* What fread delivers is as long as was announced.
LEMMA AsAnnounced ==
  \A now \in Pieces, n \in Nat : ReadBack(now, n).size = n
  BY DEF ReadBack, Zeros, Mixed, Torn, Piece

\* Every step of a handler keeps its own answer framed.
LEMMA HandlerAnswers ==
  ASSUME ReplyInv, NEW h \in Handlers, HandlerStep(h)
  PROVE  Answers(h)' /\ Framed(reply[h])'
<1> USE DEF ReplyInv, Inv, TypeOK, storeVars
<1>q. /\ reply[h] \in Seq(Messages) /\ Framed(reply[h]) /\ Answers(h)
      /\ frame[h] \in Frames
      /\ frame[h].ask \subseteq Parts
  BY DEF ReplyFramed, AnswersOK, Frames
<1>n. NoHeader(reply[h]) => NothingDue(reply[h])
  <2>1. reply[h] # <<>> => Len(reply[h]) \in 1..Len(reply[h])
    BY <1>q
  <2>2. QED
    BY <2>1 DEF NoHeader, NothingDue
<1>s. \A m \in Messages : Send(h, m) => reply'[h] = Append(reply[h], m)
  BY DEF Send
<1>1. CASE Authenticate(h)
  <2> DEFINE m == Message("verdict", Valid(AsLogin(Incoming(h))))
  <2>1. m \in Messages /\ m.tag = "verdict"
    <3>1. Valid(AsLogin(Incoming(h))) \in BOOLEAN
      BY DEF Valid
    <3>2. QED
      BY <3>1, MessageTypes DEF Message
  <2>2. reply'[h] = Append(reply[h], m) /\ pc[h] = "auth"
    BY <1>1, <1>s, <2>1 DEF Authenticate
  <2>3. pc'[h] \in {"scan", "free"}
    BY <1>1 DEF Authenticate, Goto, Close
  <2>4. NoHeader(reply[h])
    BY <1>q, <2>2 DEF Answers
  <2>5. NoHeader(reply'[h]) /\ Framed(reply'[h])
    BY <1>q, <1>n, <2>1, <2>2, <2>4, OneMore
  <2>6. QED
    BY <2>3, <2>5 DEF Answers
<1>2. CASE List(h) \/ ServeNothing(h)
  <2>1. PICK m \in Messages : Send(h, m) /\ m.tag \notin {"header", "data"}
    <3>1. Listing(h) \in SUBSET (Names \X (0..4))
      BY DEF Listing
    <3>2. QED
      BY <1>2, <3>1, MessageTypes DEF List, ServeNothing, Message
  <2>2. pc[h] \in {"list", "serve"} /\ pc'[h] = "free"
    BY <1>2 DEF List, ServeNothing, Close, Goto
  <2>3. NothingDue(reply[h])
    BY <1>q, <1>n, <2>2 DEF Answers
  <2>4. Framed(reply'[h])
    BY <1>q, <1>s, <2>1, <2>3, OneMore
  <2>5. QED
    BY <2>2, <2>4 DEF Answers
<1>3. CASE ServeHeader(h)
  <2>1. PICK p \in Found(h) :
          LET head == [size |-> FileAt(h, p).size, part |-> p]
              locals == [frame[h] EXCEPT !.hdr = head, !.ask = @ \ {p},
                                         !.copy = FileAt(h, p)]
          IN  /\ Send(h, Message("header", head))
              /\ IF head.size # 0 THEN Goto(h, "send", locals)
                                  ELSE NextRound(h, "serve", locals)
    BY <1>3 DEF ServeHeader
  <2> DEFINE head == [size |-> FileAt(h, p).size, part |-> p]
             locals == [frame[h] EXCEPT !.hdr = head, !.ask = @ \ {p},
                                        !.copy = FileAt(h, p)]
             m == Message("header", head)
  <2>2. p \in frame[h].ask /\ p \in 0..4
    BY <1>q DEF Found, Parts
  <2>3. head \in Headers
    <3>1. FileAt(h, p) \in Pieces
      BY <1>3, <2>2, UserType, PieceTypes, DiskType DEF ServeHeader
    <3>2. QED
      BY <2>2, <3>1 DEF Headers, Pieces
  <2>4. /\ locals.ask = frame[h].ask \ {p} /\ locals.hdr = head
        /\ [locals EXCEPT !.round = 2].ask = frame[h].ask \ {p}
    BY <1>q DEF Frames
  <2>5. m \in Messages /\ m.tag = "header" /\ m.body = head /\ head.part = p
    BY <2>3, MessageTypes DEF Message
  <2>6. pc[h] = "serve" /\ reply'[h] = Append(reply[h], m)
    BY <1>3, <1>s, <2>1, <2>5 DEF ServeHeader
  <2>7. \/ head.size # 0 /\ Goto(h, "send", locals)
        \/ head.size = 0 /\ NextRound(h, "serve", locals)
    BY <2>1
  <2> HIDE DEF locals, m, head
  <2>8. NothingDue(reply[h]) /\ Unsent(reply[h], frame[h].ask)
    BY <1>q, <2>6 DEF Answers
  <2>9. Unsent(reply[h], {p}) /\ Unsent(reply[h], frame[h].ask \ {p})
    BY <2>2, <2>8 DEF Unsent
  <2>10. Framed(reply'[h]) /\ Unsent(reply'[h], frame[h].ask \ {p})
    BY <1>q, <2>5, <2>6, <2>8, <2>9, OneMore
  <2>11. /\ reply'[h] # <<>> /\ reply'[h][Len(reply'[h])] = m
    <3>1. /\ Len(reply[h]) \in Nat /\ Len(reply'[h]) = Len(reply[h]) + 1
          /\ reply'[h][Len(reply[h]) + 1] = m
      BY <1>q, <2>5, <2>6
    <3>2. QED
      BY <3>1
  <2>12. CASE head.size # 0 /\ Goto(h, "send", locals)
    <3>1. pc'[h] = "send" /\ frame'[h] = locals
      BY <2>12 DEF Goto
    <3>2. QED
      BY <2>4, <2>10, <2>11, <3>1 DEF Answers, m
  <2>13. CASE head.size = 0 /\ NextRound(h, "serve", locals)
    <3>1. NothingDue(reply'[h])
      BY <2>5, <2>11, <2>13 DEF NothingDue
    <3>2. \/ pc'[h] = "free"
          \/ pc'[h] = "serve" /\ frame'[h].ask = frame[h].ask \ {p}
      BY <2>4, <2>13 DEF NextRound, Goto, Close
    <3>3. QED
      BY <2>10, <3>1, <3>2 DEF Answers
  <2>14. QED
    BY <2>7, <2>12, <2>13
<1>4. CASE SendPart(h)
  <2> DEFINE hdr == frame[h].hdr
             locals == [frame[h] EXCEPT !.copy = Absent]
  <2>1. hdr.part \in 0..4 /\ hdr.size \in Nat
    BY <1>q DEF Frames, Headers
  <2>2. PICK now \in {FileAt(h, hdr.part), frame[h].copy} :
          Send(h, Message("data", ReadBack(now, hdr.size)))
    BY <1>4 DEF SendPart
  <2> DEFINE m == Message("data", ReadBack(now, hdr.size))
  <2>3. now \in Pieces
    <3>1. frame[h].copy \in Pieces
      BY <1>q DEF Frames
    <3>2. FileAt(h, hdr.part) \in Pieces
      BY <1>4, <2>1, UserType, PieceTypes, DiskType DEF SendPart
    <3>3. QED
      BY <2>2, <3>1, <3>2
  <2>4. m \in Messages /\ m.tag = "data" /\ m.body.size = hdr.size
    BY <2>1, <2>3, PieceTypes, AsAnnounced, MessageTypes DEF Message
  <2>5. reply'[h] = Append(reply[h], m) /\ pc[h] = "send"
    BY <1>4, <1>s, <2>2, <2>4 DEF SendPart
  <2>6. \/ pc'[h] = "free"
        \/ pc'[h] = "serve" /\ frame'[h].ask = frame[h].ask
    <3>1. /\ locals.ask = frame[h].ask
          /\ [locals EXCEPT !.round = 2].ask = frame[h].ask
      BY <1>q DEF Frames
    <3>2. NextRound(h, "serve", locals)
      BY <1>4 DEF SendPart
    <3> HIDE DEF locals
    <3>3. QED
      BY <3>1, <3>2 DEF NextRound, Goto, Close
  <2>7. /\ reply[h] # <<>> /\ Unsent(reply[h], frame[h].ask)
        /\ reply[h][Len(reply[h])] = Message("header", hdr)
    BY <1>q, <2>5 DEF Answers
  <2>8. /\ reply[h][Len(reply[h])].tag = "header"
        /\ reply[h][Len(reply[h])].body.size = hdr.size
    BY <2>7 DEF Message
  <2> HIDE DEF m
  <2>9. /\ Framed(reply'[h]) /\ Unsent(reply'[h], frame[h].ask)
        /\ NothingDue(reply'[h])
    BY <1>q, <2>4, <2>5, <2>7, <2>8, OneMore
  <2>10. QED
    BY <2>6, <2>9 DEF Answers
<1>5. ASSUME reply'[h] = reply[h],
             \/ pc'[h] = "free"
             \/ /\ pc[h] \notin {"free", "serve", "send"}
                /\ pc'[h] # "send"
             \/ pc[h] = "serve" /\ pc'[h] = "serve" /\ frame'[h].ask = frame[h].ask
      PROVE  Answers(h)' /\ Framed(reply[h])'
  BY <1>q, <1>n, <1>5 DEF Answers, NoHeader, Unsent
<1>6. CASE UserDirectoryExists(h) \/ ListUnopened(h)
  BY <1>5, <1>6 DEF UserDirectoryExists, ListUnopened, Halt
<1>7. CASE ServeUnopened(h)
  <2>1. [frame[h] EXCEPT !.round = 2].ask = frame[h].ask
    BY <1>q DEF Frames
  <2>2. QED
    BY <1>5, <1>7, <2>1 DEF ServeUnopened, NextRound, Goto, Close
<1>8. CASE ScanForDirectory(h) \/ MakeUserDirectory(h) \/ Spin(h) \/ ReadRequest(h)
  BY <1>5, <1>8 DEF ScanForDirectory, MakeUserDirectory, Spin, ReadRequest, Goto
<1>9. CASE OpenPart(h) \/ WritePart(h)
  <2>1. pc'[h] # "send" /\ pc[h] \in {"header", "data"} /\ reply' = reply
    BY <1>9 DEF OpenPart, WritePart, NextRound, Goto, Close
  <2>2. QED
    BY <1>5, <2>1
<1>10. CASE ReadCommand(h)
  <2>1. PICK c \in AsCommand(Incoming(h), cmd[h]) :
          IF FirstState(c.op) = "free"
            THEN Close(h) ELSE Goto(h, FirstState(c.op), frame[h])
    BY <1>10 DEF ReadCommand
  <2>2. c.op \in Ops
    BY <2>1, ReadTypes, ParseTypes DEF Commands
  <2>3. FirstState(c.op) # "send"
    BY <2>2 DEF FirstState, Ops
  <2>4. pc'[h] # "send"
    BY <2>1, <2>3 DEF Goto, Close
  <2>5. QED
    BY <1>5, <1>10, <2>4 DEF ReadCommand
<1>11. QED
  BY <1>1, <1>2, <1>3, <1>4, <1>6, <1>7, <1>8, <1>9, <1>10 DEF HandlerStep

(***************************************************************************)
(* What a client reads of a get can be cut back into parts: as many bytes  *)
(* follow a header as it announced, also when other threads truncate or    *)
(* rewrite the file between the two (DFS_server.c:352-380), and no part    *)
(* comes twice.                                                            *)
(***************************************************************************)
THEOREM AnswersAreFramed == OpenSpec => []ReplyFramed
<1>1. OpenInit => ReplyInv
  <2>1. OpenInit => AnswersOK /\ ReplyFramed
    BY DEF OpenInit, ServerInit, AnswersOK, Answers, NoHeader, ReplyFramed, Framed
  <2>2. QED
    BY <2>1, InitInv DEF ReplyInv
<1>2. ReplyInv /\ [OpenNext]_openVars => ReplyInv'
  <2> SUFFICES ASSUME ReplyInv, [OpenNext]_openVars PROVE ReplyInv'
    OBVIOUS
  <2>i. Inv /\ Inv' /\ AnswersOK /\ ReplyFramed
    BY NextInv DEF ReplyInv
  <2>1. ASSUME NEW h \in Handlers, HandlerStep(h) PROVE ReplyInv'
    <3>1. ASSUME NEW k \in Handlers \ {h} PROVE Answers(k)' /\ Framed(reply[k])'
      <4>1. reply'[k] = reply[k]
        BY <2>i, <2>1, OwnStreams
      <4>2. pc'[k] = "free" \/ (pc'[k] = pc[k] /\ frame'[k] = frame[k])
        BY <2>i, <2>1, OthersStay
      <4>3. Answers(k) /\ Framed(reply[k])
        BY <2>i DEF AnswersOK, ReplyFramed
      <4>4. QED
        BY <4>1, <4>2, <4>3 DEF Answers
    <3>2. QED
      BY <2>i, <2>1, <3>1, HandlerAnswers DEF ReplyInv, AnswersOK, ReplyFramed
  <2>2. ASSUME NEW s \in Servers, NEW how, Halt(s, how) PROVE ReplyInv'
    BY <2>i, <2>2 DEF Halt, ReplyInv, AnswersOK, Answers, ReplyFramed, Inv, TypeOK
  <2>3. ASSUME NEW h \in Handlers, BrokenPipe(h) PROVE ReplyInv'
    BY <2>2, <2>3 DEF BrokenPipe, ServerOf, Handlers
  <2>4. ASSUME NEW h \in Handlers, Dial(h) \/ HangUp(h) PROVE ReplyInv'
    <3>1. PICK msgs, closed : Accept(h, msgs, closed)
      BY <2>4 DEF Dial, HangUp
    <3>2. /\ pc'[h] = "auth" /\ reply'[h] = <<>>
          /\ \A k \in Handlers \ {h} :
               pc'[k] = pc[k] /\ frame'[k] = frame[k] /\ reply'[k] = reply[k]
      BY <2>i, <3>1 DEF Accept, Goto, Inv, TypeOK
    <3>3. Answers(h)' /\ Framed(reply[h])'
      BY <3>2 DEF Answers, NoHeader, Framed
    <3>4. \A k \in Handlers \ {h} : Answers(k)' /\ Framed(reply[k])'
      BY <2>i, <3>2 DEF AnswersOK, ReplyFramed, Answers
    <3>5. QED
      BY <2>i, <3>3, <3>4 DEF ReplyInv, AnswersOK, ReplyFramed
  <2>5. ASSUME NEW s \in Servers, Fail(s) PROVE ReplyInv'
    <3>1. CASE Crash(s)
      BY <2>2, <3>1 DEF Crash
    <3>2. CASE Restart(s)
      BY <2>i, <3>2 DEF Restart, ReplyInv, AnswersOK, Answers, ReplyFramed
    <3>3. QED
      BY <2>5, <3>1, <3>2 DEF Fail
  <2>6. CASE UNCHANGED openVars
    BY <2>i, <2>6 DEF openVars, serverVars, ReplyInv, AnswersOK, Answers, ReplyFramed
  <2>7. QED
    BY <2>1, <2>3, <2>4, <2>5, <2>6 DEF OpenNext, Step
<1>3. ReplyInv => ReplyFramed
  BY DEF ReplyInv
<1>4. QED
  BY <1>1, <1>2, <1>3, PTL DEF OpenSpec

-----------------------------------------------------------------------------
(***************************************************************************)
(* Files.  When clients finish what they began and servers stay up, what a *)
(* handler has still to read is exactly what its session has still to      *)
(* send, so it always gets the bytes a header announced.                   *)
(***************************************************************************)
PartsOf(x, j) == PartMessages(x.content, PartSent(x.pair, j))
BytesOf(x, j) == Message("data", Cut(x.content, PartSent(x.pair, j)))
HeaderOf(x, j) == [size |-> part_size(Length[x.content], PartSent(x.pair, j)),
                   part |-> PartSent(x.pair, j)]
\* What comes behind the part of a round.
Behind(x, round) == IF round = 1 THEN PartsOf(x, 1) ELSE <<>>

Reads(h, x) ==
  LET round == frame[h].round
  IN  /\ pc[h] = "auth" => inbox[h] = SessionMessages(x)
      /\ pc[h] \in {"scan", "mkdir", "command"} => inbox[h] = Tail(SessionMessages(x))
      /\ pc[h] \in {"auth", "scan", "mkdir", "command"} => round = 1
      /\ pc[h] = "header" => inbox[h] = PartsOf(x, round - 1) \o Behind(x, round)
      /\ pc[h] = "data" =>
           /\ inbox[h] = <<BytesOf(x, round - 1)>> \o Behind(x, round)
           /\ frame[h].hdr = HeaderOf(x, round - 1) /\ frame[h].hdr.size # 0
      /\ pc[h] \in {"header", "data"} => cmd[h] = x.command /\ x.command.op = "put"
      /\ pc[h] # "auth" => frame[h].cred = x.login
      /\ pc[h] # "spin"
AllRead == \A h \in Handlers : pc[h] # "free" => \E x \in Sessions : Reads(h, x)

\* What the handler of a file open for writing has to put into it.
Given(k) == AsData(Incoming(k), frame[k].hdr.size)
\* Where all puts fit in one block, a file is truncated or whole and the same
\* size whoever writes it.
OneBlockOK(s, f) ==
  /\ \/ disk[s][f] = Absent
     \/ /\ disk[s][f].kind = "whole" /\ disk[s][f].good = disk[s][f].size
        /\ Fits(f, disk[s][f].size)
     \/ disk[s][f] = Zeros(0) /\ (HasEmptyParts \/ Writing(s, f))
  /\ \A k \in Handlers : WritesTo(k, s, f) => frame[k].out = 0
\* Elsewhere a thread that writes alone has the front of its part in the file.
LoneOK(s, f) ==
  /\ \/ disk[s][f].kind \in {"absent", "whole"}
     \/ disk[s][f] = Zeros(0) /\ HasEmptyParts
     \/ Writing(s, f)
  /\ \A k \in Handlers : WritesTo(k, s, f) =>
       /\ disk[s][f] = Front(Given(k), frame[k].out)
       /\ frame[k].out < frame[k].hdr.size
       /\ \A j \in Handlers : WritesTo(j, s, f) => j = k
FileOK(s, f) ==
  IF OneBlock(f) THEN OneBlockOK(s, f)
  ELSE f \notin overlapped[s] => LoneOK(s, f)
FilesOK == \A s \in Servers, f \in Slots : FileOK(s, f)
StoreInv == AllRead /\ FilesOK /\ overlapped \in [Servers -> SUBSET Slots]

\* The parts of a session.
LEMMA SessionParts ==
  ASSUME NEW x \in Sessions, NEW j \in 0..1
  PROVE  /\ x.content \in Contents /\ x.command \in Commands
         /\ PartSent(x.pair, j) \in Parts
         /\ PartsOf(x, j) \in Seq(Messages) /\ BytesOf(x, j) \in Messages
         /\ HeaderOf(x, j) \in Headers
<1>1. /\ x.content \in Contents /\ x.pair \in Pairs /\ x.command \in Commands
  BY SessionsAssumption
<1>2. PartSent(x.pair, j) \in Parts
  BY <1>1 DEF PartSent, IndexOf, Pairs, Parts
<1>3. part_size(Length[x.content], PartSent(x.pair, j)) \in Nat
  BY <1>1, <1>2, PartShape
<1>4. HeaderOf(x, j) \in Headers
  BY <1>2, <1>3 DEF HeaderOf, Headers, Parts
<1>5. QED
  BY <1>1, <1>2, <1>4, PartsType, CutType, MessageTypes DEF PartsOf, BytesOf

\* Reading the messages of one part.
LEMMA PartRead ==
  ASSUME NEW x \in Sessions, NEW j \in 0..1, NEW rest \in Seq(Messages)
  PROVE  LET q == PartsOf(x, j) \o rest
         IN  /\ q # <<>> /\ Head(q) = Message("header", HeaderOf(x, j))
             /\ HeaderOf(x, j).size = 0 => Tail(q) = rest
             /\ HeaderOf(x, j).size # 0 => Tail(q) = <<BytesOf(x, j)>> \o rest
<1> DEFINE head == Message("header", HeaderOf(x, j))
           bytes == BytesOf(x, j)
<1>1. head \in Messages /\ bytes \in Messages
  BY SessionParts, MessageTypes
<1>2. /\ HeaderOf(x, j).size = 0 => PartsOf(x, j) = <<head>>
      /\ HeaderOf(x, j).size # 0 => PartsOf(x, j) = <<head, bytes>>
  BY SessionParts, PartShape DEF HeaderOf, PartsOf, BytesOf
<1> HIDE DEF head, bytes
<1> DEFINE q == PartsOf(x, j) \o rest
<1>3. HeaderOf(x, j).size = 0 => q # <<>> /\ Head(q) = head /\ Tail(q) = rest
  BY <1>1, <1>2, TakeFirst
<1>4. HeaderOf(x, j).size # 0 =>
        q # <<>> /\ Head(q) = head /\ Tail(q) = <<bytes>> \o rest
  <2>1. LET two == <<head, bytes>> \o rest
        IN  two # <<>> /\ Head(two) = head /\ Tail(two) = <<bytes>> \o rest
    BY <1>1, TakeOfTwo
  <2>2. QED
    BY <1>2, <2>1
<1> HIDE DEF q
<1>5. /\ q # <<>> /\ Head(q) = head
      /\ HeaderOf(x, j).size = 0 => Tail(q) = rest
      /\ HeaderOf(x, j).size # 0 => Tail(q) = <<bytes>> \o rest
  BY <1>3, <1>4
<1>6. QED
  BY <1>5 DEF q, head, bytes

\* Reading the login and the command.
LEMMA SessionRead ==
  ASSUME NEW x \in Sessions
  PROVE  LET q == SessionMessages(x)
         IN  /\ q # <<>> /\ Head(q) = Message("login", x.login)
             /\ Tail(q) # <<>> /\ Head(Tail(q)) = Message("command", x.command)
             /\ x.command.op = "put" =>
                  Tail(Tail(q)) = PartsOf(x, 0) \o Behind(x, 1)
<1> DEFINE login == Message("login", x.login)
           command == Message("command", x.command)
           rest == CASE x.command.op = "put" -> PartsOf(x, 0) \o PartsOf(x, 1)
                     [] x.command.op = "get" -> <<Message("request", x.asked)>>
                     [] OTHER -> <<>>
<1>1. /\ x.login \in Logins /\ x.command \in Commands /\ x.asked \in SUBSET Parts
  BY SessionsAssumption DEF Logins
<1>2. login \in Messages /\ command \in Messages
      /\ <<Message("request", x.asked)>> \in Seq(Messages)
  BY <1>1, MessageTypes
<1>3. rest \in Seq(Messages)
  <2>1. PartsOf(x, 0) \o PartsOf(x, 1) \in Seq(Messages)
    BY SessionParts
  <2>2. QED
    BY <1>2, <2>1
<1>4. SessionMessages(x) = <<login, command>> \o rest
  BY DEF SessionMessages, PartsOf
<1>5. x.command.op = "put" => rest = PartsOf(x, 0) \o Behind(x, 1)
  BY DEF Behind
<1> HIDE DEF login, command, rest
<1>6. QED
  BY <1>2, <1>3, <1>4, <1>5, TakeOfTwo, TakeFirst DEF login, command

\* Every step of a handler that does not end the process keeps its connection
\* in step with its session.
LEMMA HandlerReads ==
  ASSUME Inv, AllRead, DirectoryReady, NEW h \in Handlers, HandlerStep(h),
         ~UserDirectoryExists(h), ~ListUnopened(h)
  PROVE  AllRead'
<1> USE DEF Inv, TypeOK
<1>1. ASSUME NEW k \in Handlers \ {h}, pc'[k] # "free"
      PROVE  \E x \in Sessions : Reads(k, x)'
  <2>1. /\ pc'[k] = pc[k] /\ frame'[k] = frame[k] /\ cmd'[k] = cmd[k]
        /\ inbox'[k] = inbox[k]
    BY OthersStay, OwnStreams
  <2>2. PICK x \in Sessions : Reads(k, x)
    BY <1>1, <2>1 DEF AllRead
  <2>3. QED
    BY <2>1, <2>2 DEF Reads
<1>2. ASSUME pc'[h] # "free" PROVE \E x \in Sessions : Reads(h, x)'
  <2>p. pc[h] # "free"
    BY OwnMove DEF Authenticate
  <2>x. PICK x \in Sessions : Reads(h, x)
    BY <2>p DEF AllRead
  <2>f. /\ frame[h] \in Frames /\ frame[h].round \in 1..2
        /\ inbox[h] \in Seq(Messages)
        /\ SessionMessages(x) \in Seq(Messages) /\ x.command \in Commands
        /\ \A r \in 1..2 : Behind(x, r) \in Seq(Messages)
    BY SessionType, SessionParts DEF Frames, Behind
  <2>r. (Consume(h) /\ inbox[h] # <<>>) =>
          inbox'[h] = Tail(inbox[h]) /\ Incoming(h) = Head(inbox[h])
    BY DEF Consume, Incoming
  \* A round ends with what is behind it still to be read.
  <2>n. ASSUME NEW locals \in Frames, NextRound(h, "header", locals),
               inbox'[h] = Behind(x, locals.round), cmd'[h] = x.command,
               x.command.op = "put", locals.cred = x.login
        PROVE  Reads(h, x)'
    <3>1. /\ pc'[h] = "header" /\ frame'[h] = [locals EXCEPT !.round = 2]
          /\ locals.round = 1
      BY <1>2, <2>n DEF NextRound, Goto, Close
    <3>2. frame'[h].round = 2 /\ frame'[h].cred = x.login
      BY <2>n, <3>1 DEF Frames
    <3>3. inbox'[h] = PartsOf(x, 1) \o Behind(x, 2)
      <4>1. PartsOf(x, 1) \in Seq(Messages)
        BY SessionParts
      <4>2. PartsOf(x, 1) \o <<>> = PartsOf(x, 1)
        BY <4>1
      <4>3. QED
        BY <2>n, <3>1, <4>2 DEF Behind
    <3>4. QED
      BY <2>n, <3>1, <3>2, <3>3 DEF Reads
  <2>1. CASE Authenticate(h)
    <3>1. pc[h] = "auth" /\ inbox[h] = SessionMessages(x) /\ frame[h].round = 1
      BY <2>x, <2>1 DEF Authenticate, Reads
    <3>2. AsLogin(Incoming(h)) = x.login /\ inbox'[h] = Tail(SessionMessages(x))
      BY <2>1, <2>r, <3>1, SessionRead DEF Authenticate, AsLogin, Message
    <3>3. pc'[h] = "scan" /\ frame'[h] = [frame[h] EXCEPT !.cred = x.login]
      BY <1>2, <2>1, <3>2 DEF Authenticate, Goto, Close
    <3>4. frame'[h].cred = x.login /\ frame'[h].round = 1
      BY <2>f, <3>1, <3>3 DEF Frames
    <3>5. QED
      BY <3>2, <3>3, <3>4 DEF Reads
  <2>2. CASE ScanForDirectory(h) \/ MakeUserDirectory(h)
    <3>1. /\ pc[h] \in {"scan", "mkdir"} /\ pc'[h] \in {"mkdir", "command"}
          /\ frame'[h] = frame[h] /\ inbox' = inbox
      BY <2>2 DEF ScanForDirectory, MakeUserDirectory, Goto
    <3>2. QED
      BY <2>x, <3>1 DEF Reads
  <2>3. CASE ReadCommand(h)
    <3>1. /\ pc[h] = "command" /\ inbox[h] = Tail(SessionMessages(x))
          /\ frame[h].round = 1 /\ frame[h].cred = x.login
      BY <2>x, <2>3 DEF ReadCommand, Reads
    <3>2. /\ Incoming(h) = Message("command", x.command)
          /\ inbox'[h] = Tail(Tail(SessionMessages(x)))
      BY <2>3, <2>r, <3>1, SessionRead DEF ReadCommand
    <3>3. AsCommand(Incoming(h), cmd[h]) = {x.command}
      BY <3>2 DEF AsCommand, Message
    <3>4. /\ cmd'[h] = x.command
          /\ pc'[h] = FirstState(x.command.op) /\ frame'[h] = frame[h]
      BY <1>2, <2>3, <3>3 DEF ReadCommand, Goto, Close
    <3>5. x.command.op \in Ops
      BY <2>f DEF Commands
    <3>6. /\ pc'[h] \in {"list", "header", "request", "free"}
          /\ pc'[h] = "header" => x.command.op = "put"
      BY <3>4, <3>5 DEF FirstState, Ops
    <3>7. pc'[h] = "header" => inbox'[h] = PartsOf(x, 1 - 1) \o Behind(x, 1)
      BY <3>2, <3>6, SessionRead
    <3>8. QED
      BY <3>1, <3>4, <3>6, <3>7 DEF Reads
  <2>4. CASE OpenPart(h)
    <3> DEFINE j == frame[h].round - 1
               rest == Behind(x, frame[h].round)
               locals == [frame[h] EXCEPT !.hdr = HeaderOf(x, j), !.out = 0]
    <3>1. /\ pc[h] = "header" /\ Opens(h) /\ cmd'[h] = x.command
          /\ inbox[h] = PartsOf(x, j) \o rest
          /\ x.command.op = "put" /\ frame[h].cred = x.login
      BY <2>x, <2>4 DEF OpenPart, Reads, DirectoryReady
    <3>2. j \in 0..1 /\ rest \in Seq(Messages)
      BY <2>f
    <3>3. /\ AsHeader(Incoming(h)) = HeaderOf(x, j)
          /\ HeaderOf(x, j).size = 0 => inbox'[h] = rest
          /\ HeaderOf(x, j).size # 0 => inbox'[h] = <<BytesOf(x, j)>> \o rest
      <4>1. inbox[h] # <<>> /\ Head(inbox[h]) = Message("header", HeaderOf(x, j))
        BY <3>1, <3>2, PartRead
      <4>2. inbox'[h] = Tail(inbox[h]) /\ Incoming(h) = Head(inbox[h])
        BY <2>4, <2>r, <4>1 DEF OpenPart
      <4>3. AsHeader(Incoming(h)) = HeaderOf(x, j)
        BY <4>1, <4>2 DEF AsHeader, Message
      <4>4. QED
        BY <3>1, <3>2, <4>2, <4>3, PartRead
    <3>4. /\ locals \in Frames /\ locals.cred = x.login
          /\ locals.round = frame[h].round /\ locals.hdr = HeaderOf(x, j)
      BY <2>f, <3>1, <3>2, SessionParts DEF Frames
    <3>5. IF HeaderOf(x, j).size # 0 THEN Goto(h, "data", locals)
                                     ELSE NextRound(h, "header", locals)
      BY <2>4, <3>1, <3>3 DEF OpenPart
    <3> HIDE DEF locals
    <3>6. CASE HeaderOf(x, j).size # 0
      <4>1. pc'[h] = "data" /\ frame'[h] = locals
        BY <3>5, <3>6 DEF Goto
      <4>2. QED
        BY <3>1, <3>3, <3>4, <3>6, <4>1 DEF Reads
    <3>7. CASE HeaderOf(x, j).size = 0
      BY <2>n, <3>1, <3>3, <3>4, <3>5, <3>7
    <3>8. QED
      BY <3>6, <3>7
  <2>5. CASE WritePart(h) \/ Spin(h)
    <3> DEFINE j == frame[h].round - 1
               rest == Behind(x, frame[h].round)
    <3>1. /\ pc[h] = "data" /\ cmd'[h] = x.command
          /\ inbox[h] = <<BytesOf(x, j)>> \o rest
          /\ x.command.op = "put" /\ frame[h].cred = x.login
      BY <2>x, <2>5 DEF WritePart, Spin, Reads
    <3>2. j \in 0..1 /\ rest \in Seq(Messages)
      BY <2>f
    <3>3. inbox[h] # <<>> /\ Head(inbox[h]) = BytesOf(x, j) /\ Tail(inbox[h]) = rest
      BY <3>1, <3>2, SessionParts, TakeFirst
    <3>4. ~Spin(h)
      BY <3>3 DEF Spin, NeverEnds, Incoming, BytesOf, Message
    <3> DEFINE locals == [frame[h] EXCEPT !.out = Written(h)]
    <3>l. /\ locals \in Frames /\ locals.cred = x.login
          /\ locals.round = frame[h].round /\ locals.hdr = frame[h].hdr
      BY <2>f, <3>1, WrittenType DEF Frames
    <3>5. \/ NextRound(h, "header", locals) /\ Consume(h)
          \/ Goto(h, "data", locals) /\ UNCHANGED inbox
      BY <2>5, <3>4 DEF WritePart
    <3> HIDE DEF locals
    <3>6. CASE NextRound(h, "header", locals) /\ Consume(h)
      BY <2>n, <2>r, <3>1, <3>3, <3>l, <3>6
    <3>7. CASE Goto(h, "data", locals) /\ UNCHANGED inbox
      <4>1. /\ pc'[h] = "data" /\ frame'[h] = locals /\ inbox'[h] = inbox[h]
            /\ cmd'[h] = cmd[h]
        BY <2>5, <3>7 DEF Goto, WritePart, Spin
      <4>2. QED
        BY <2>x, <3>1, <3>l, <4>1 DEF Reads
    <3>8. QED
      BY <3>5, <3>6, <3>7
  <2>6. CASE \/ ReadRequest(h) \/ List(h) \/ ServeHeader(h) \/ SendPart(h)
             \/ ServeNothing(h) \/ ServeUnopened(h)
    <3>1. pc'[h] \in {"serve", "send"}
      BY <1>2, <2>6 DEF ReadRequest, List, ServeHeader, SendPart, ServeNothing,
         ServeUnopened, NextRound, Goto, Close
    <3>2. frame'[h].cred = x.login
      <4>1. ~Authenticate(h) /\ pc[h] # "auth"
        BY <2>6 DEF Authenticate, ReadRequest, List, ServeHeader, SendPart,
           ServeNothing, ServeUnopened
      <4>2. QED
        BY <1>2, <2>x, <4>1, OwnMove DEF Reads
    <3>3. QED
      BY <3>1, <3>2 DEF Reads
  <2>7. QED
    BY <2>1, <2>2, <2>3, <2>4, <2>5, <2>6 DEF HandlerStep
<1>3. QED
  BY <1>1, <1>2 DEF AllRead

\* What a handler that waits for the bytes of a part will find.
LEMMA BytesNext ==
  ASSUME NEW x \in Sessions, NEW r \in 1..2, HeaderOf(x, r - 1).size # 0
  PROVE  LET q == <<BytesOf(x, r - 1)>> \o Behind(x, r)
             new == Cut(x.content, PartSent(x.pair, r - 1))
         IN  /\ q # <<>> /\ Head(q).tag = "data" /\ Head(q).body = new
             /\ new \in Pieces /\ new.kind = "whole"
             /\ new.size = HeaderOf(x, r - 1).size /\ new.good = new.size
             /\ HeaderOf(x, r - 1).part \in 0..4
             /\ HeaderOf(x, r - 1).size = part_size(Length[x.content], HeaderOf(x, r - 1).part)
<1>1. r - 1 \in 0..1 /\ Behind(x, r) \in Seq(Messages)
  BY SessionParts DEF Behind
<1>2. /\ x.content \in Contents /\ PartSent(x.pair, r - 1) \in Parts
      /\ BytesOf(x, r - 1) \in Messages /\ HeaderOf(x, r - 1) \in Headers
  BY <1>1, SessionParts
<1> DEFINE q == <<BytesOf(x, r - 1)>> \o Behind(x, r)
           new == Cut(x.content, PartSent(x.pair, r - 1))
<1>3. q # <<>> /\ Head(q) = BytesOf(x, r - 1)
  BY <1>1, <1>2, TakeFirst
<1>4. Head(q).tag = "data" /\ Head(q).body = new
  BY <1>3 DEF BytesOf, Message
<1>5. new = Piece("whole", x.content, PartSent(x.pair, r - 1), HeaderOf(x, r - 1).size)
  BY <1>2, PartShape DEF HeaderOf
<1>6. new \in Pieces
  BY <1>2, CutType
<1>7. /\ HeaderOf(x, r - 1).part \in 0..4
      /\ HeaderOf(x, r - 1).size = part_size(Length[x.content], HeaderOf(x, r - 1).part)
  BY <1>2 DEF Headers, HeaderOf
<1> HIDE DEF q, new
<1>8. new.kind = "whole" /\ new.size = HeaderOf(x, r - 1).size /\ new.good = new.size
  BY <1>5 DEF Piece
<1>9. QED
  BY <1>3, <1>4, <1>6, <1>7, <1>8 DEF q, new

\* A file stays as sound as it was when neither it nor its writers change.
LEMMA FileStays ==
  ASSUME NEW s \in Servers, NEW f \in Slots, FileOK(s, f),
         disk'[s][f] = disk[s][f],
         f \in overlapped[s] => f \in overlapped'[s],
         \A k \in Handlers : WritesTo(k, s, f)' <=> WritesTo(k, s, f),
         \A k \in Handlers : WritesTo(k, s, f) =>
            frame'[k] = frame[k] /\ inbox'[k] = inbox[k]
  PROVE  FileOK(s, f)'
<1>1. Writing(s, f)' <=> Writing(s, f)
  BY DEF Writing
<1>2. OneBlock(f)' <=> OneBlock(f)
  BY DEF OneBlock, Fits, Puts
<1>3. CASE OneBlock(f)
  <2>1. OneBlockOK(s, f)
    BY <1>3 DEF FileOK
  <2>2. OneBlockOK(s, f)'
    BY <1>1, <2>1 DEF OneBlockOK, Fits, Puts, HasEmptyParts
  <2>3. QED
    BY <1>2, <1>3, <2>2 DEF FileOK
<1>4. CASE ~OneBlock(f)
  <2>1. ASSUME f \notin overlapped'[s] PROVE LoneOK(s, f)'
    <3>1. LoneOK(s, f)
      BY <1>4, <2>1 DEF FileOK
    <3>2. \A k \in Handlers : WritesTo(k, s, f) => Given(k)' = Given(k)
      BY DEF Given, Incoming, AsData
    <3>3. QED
      BY <1>1, <3>1, <3>2 DEF LoneOK, HasEmptyParts
  <2>2. QED
    BY <1>2, <1>4, <2>1 DEF FileOK
<1>5. QED
  BY <1>3, <1>4

\* Every step of a handler leaves the files sound.
LEMMA HandlerFiles ==
  ASSUME Inv, StoreInv, DirectoryReady, NEW h \in Handlers, Step(h),
         ~UserDirectoryExists(h), ~ListUnopened(h)
  PROVE  FilesOK' /\ overlapped' \in [Servers -> SUBSET Slots]
<1> USE DEF Inv, TypeOK, StoreInv
<1> DEFINE s == ServerOf(h)
<1>s. s \in Servers /\ HandlerStep(h) /\ Note(h)
  BY DEF ServerOf, Handlers, Step
<1>f. /\ frame[h] \in Frames /\ frame[h].round \in 1..2 /\ frame[h].out \in Nat
      /\ frame[h].hdr.size \in Nat /\ inbox[h] \in Seq(Messages)
  BY DEF Frames, Headers
<1>a. AllRead'
  BY <1>s, HandlerReads
<1>k. \A k \in Handlers \ {h} : /\ pc'[k] = pc[k] /\ frame'[k] = frame[k]
                                /\ cmd'[k] = cmd[k] /\ inbox'[k] = inbox[k]
  BY <1>s, OthersStay, OwnStreams
\* The other writers of a file stay.
<1>w. \A k \in Handlers \ {h}, r \in Servers, g \in Slots :
         WritesTo(k, r, g)' <=> WritesTo(k, r, g)
  BY <1>k DEF WritesTo, PathOf, User, ServerOf
\* Files the handler does not write before and after the step.
<1>o. ASSUME NEW r \in Servers, NEW g \in Slots, disk'[r][g] = disk[r][g],
             g \in overlapped[r] => g \in overlapped'[r],
             ~WritesTo(h, r, g), ~WritesTo(h, r, g)'
      PROVE  FileOK(r, g)'
  <2>1. \A k \in Handlers : WritesTo(k, r, g)' <=> WritesTo(k, r, g)
    BY <1>o, <1>w
  <2>2. \A k \in Handlers : WritesTo(k, r, g) =>
           frame'[k] = frame[k] /\ inbox'[k] = inbox[k]
    BY <1>o, <1>k
  <2>3. FileOK(r, g)
    BY DEF FilesOK
  <2>4. QED
    BY <1>o, <2>1, <2>2, <2>3, FileStays
<1>1. CASE OpenPart(h)
  <2>x. PICK x \in Sessions : Reads(h, x)
    BY <1>1 DEF AllRead, OpenPart
  <2> DEFINE j == frame[h].round - 1
             rest == Behind(x, frame[h].round)
             head == AsHeader(Incoming(h))
             locals == [frame[h] EXCEPT !.hdr = head, !.out = 0]
  <2>1. /\ pc[h] = "header" /\ Opens(h) /\ cmd'[h] = cmd[h] /\ cmd[h] = x.command
        /\ inbox[h] = PartsOf(x, j) \o rest /\ x.command.op = "put"
        /\ frame[h].cred = x.login
    BY <2>x, <1>1 DEF OpenPart, Reads, DirectoryReady
  <2>2. j \in 0..1 /\ rest \in Seq(Messages)
    BY <1>f, SessionParts DEF Behind
  <2>3. head = HeaderOf(x, j)
    <3>1. inbox[h] # <<>> /\ Head(inbox[h]) = Message("header", HeaderOf(x, j))
      BY <2>1, <2>2, PartRead
    <3>2. QED
      BY <3>1 DEF Incoming, AsHeader, Message
  <2>4. head \in Headers /\ head.part \in 0..4 /\ head.size \in Nat
    BY <2>2, <2>3, SessionParts DEF Headers
  <2>5. PICK f \in Slots : f = PathOf(h, head.part)
    BY <2>1, <2>4, UserType, PieceTypes, DiskType
  <2>6. /\ disk'[s][f] = Zeros(0)
        /\ \A r \in Servers, g \in Slots : r # s \/ g # f => disk'[r][g] = disk[r][g]
    <3>1. SetDisk(h, head.part, Zeros(0))
      BY <1>1, <2>1 DEF OpenPart
    <3>2. QED
      BY <1>s, <2>5, <3>1 DEF SetDisk
  <2>7. /\ overlapped' = [overlapped EXCEPT ![s] =
                            IF Writing(s, f) THEN @ \cup {f} ELSE @ \ {f}]
    BY <1>s, <2>1, <2>5 DEF Note
  <2> HIDE DEF head
  <2>8. /\ f \in overlapped'[s] <=> Writing(s, f)
        /\ \A r \in Servers, g \in Slots :
              r # s \/ g # f => (g \in overlapped[r] => g \in overlapped'[r])
        /\ overlapped' \in [Servers -> SUBSET Slots]
    BY <1>s, <2>5, <2>7
  <2>9. \/ /\ head.size # 0 /\ pc'[h] = "data" /\ frame'[h] = locals
        \/ /\ head.size = 0 /\ pc'[h] \in {"header", "free"}
    BY <1>1, <1>f, <2>1 DEF OpenPart, Goto, NextRound, Close, head
  <2>l. locals.hdr = head /\ locals.out = 0 /\ locals.cred = frame[h].cred
    BY <1>f DEF Frames
  <2> HIDE DEF locals
  <2>10. \A r \in Servers, g \in Slots : ~WritesTo(h, r, g)
    BY <2>1 DEF WritesTo
  <2>11. ASSUME NEW r \in Servers, NEW g \in Slots, r # s \/ g # f
         PROVE  FileOK(r, g)'
    <3>1. ~WritesTo(h, r, g)'
      <4>1. CASE head.size # 0
        <5>1. PathOf(h, frame[h].hdr.part)' = f
          BY <2>1, <2>5, <2>9, <2>l, <4>1 DEF PathOf, User
        <5>2. QED
          BY <2>11, <5>1 DEF WritesTo, ServerOf
      <4>2. CASE head.size = 0
        BY <2>9, <4>2 DEF WritesTo
      <4>3. QED
        BY <4>1, <4>2
    <3>2. QED
      BY <1>o, <2>6, <2>8, <2>10, <2>11, <3>1
  <2>12. ASSUME head.size = 0 PROVE HasEmptyParts
    <3>1. Length[x.content] \in Nat /\ x.content \in Contents
      BY <2>2, SessionParts, ConstantsAssumption
    <3>2. part_size(Length[x.content], PartSent(x.pair, j)) = 0
      BY <2>3, <2>12 DEF HeaderOf
    <3>3. Length[x.content] < 4
      BY <3>1, <3>2 DEF part_size
    <3>4. QED
      BY <3>1, <3>3 DEF HasEmptyParts
  <2>13. head.size # 0 => WritesTo(h, s, f)'
    BY <2>1, <2>5, <2>9, <2>l DEF WritesTo, PathOf, User, ServerOf
  <2>14. head.size = 0 => ~WritesTo(h, s, f)'
    BY <2>9 DEF WritesTo
  <2>e. HasEmptyParts \/ Writing(s, f)'
    BY <2>12, <2>13 DEF Writing
  <2>15. FileOK(s, f)'
    <3>1. CASE OneBlock(f)
      <4>1. OneBlockOK(s, f)
        BY <1>s, <2>5, <3>1 DEF FilesOK, FileOK
      <4>2. \A k \in Handlers : WritesTo(k, s, f)' => frame'[k].out = 0
        <5>1. ASSUME NEW k \in Handlers, k # h, WritesTo(k, s, f)' PROVE frame'[k].out = 0
          BY <1>k, <1>s, <1>w, <2>5, <4>1, <5>1 DEF OneBlockOK
        <5>2. WritesTo(h, s, f)' => frame'[h].out = 0
          BY <2>9, <2>14, <2>l
        <5>3. QED
          BY <5>1, <5>2
      <4>3. OneBlockOK(s, f)'
        BY <2>6, <2>e, <4>2 DEF OneBlockOK, HasEmptyParts, Zeros, Piece
      <4>4. QED
        BY <3>1, <4>3 DEF FileOK, OneBlock, Fits, Puts
    <3>2. CASE ~OneBlock(f)
      <4>1. SUFFICES ASSUME f \notin overlapped'[s] PROVE LoneOK(s, f)'
        BY <3>2 DEF FileOK, OneBlock, Fits, Puts
      <4>2. \A k \in Handlers : WritesTo(k, s, f)' => k = h
        BY <1>s, <1>w, <2>5, <2>8, <4>1 DEF Writing
      <4>3. ASSUME WritesTo(h, s, f)'
            PROVE  disk'[s][f] = Front(Given(h), frame[h].out)' /\ frame'[h].out < frame'[h].hdr.size
        <5>1. /\ head.size # 0 /\ frame'[h].out = 0 /\ frame'[h].hdr = head
              /\ pc'[h] = "data"
          BY <2>9, <2>14, <2>l, <4>3
        <5>2. PICK y \in Sessions : Reads(h, y)'
          BY <1>a, <5>1 DEF AllRead
        <5> DEFINE i == frame'[h].round
        <5>3. frame'[h].round = frame[h].round
          BY <1>f, <2>9, <5>1 DEF locals, Frames
        <5>4. /\ inbox'[h] = <<BytesOf(y, i - 1)>> \o Behind(y, i)
              /\ head = HeaderOf(y, i - 1) /\ i \in 1..2
          BY <1>f, <5>1, <5>2, <5>3 DEF Reads
        <5>5. Given(h)'.size = head.size
          BY <5>1, <5>4, BytesNext DEF Given, Incoming, AsData
        <5>6. QED
          BY <2>4, <2>6, <5>1, <5>5 DEF Front
      <4>4. QED
        BY <2>6, <2>e, <4>2, <4>3 DEF LoneOK, HasEmptyParts
    <3>3. QED
      BY <3>1, <3>2
  <2>16. QED
    BY <2>8, <2>11, <2>15 DEF FilesOK
<1>2. CASE WritePart(h)
  <2>x. PICK x \in Sessions : Reads(h, x)
    BY <1>2 DEF AllRead, WritePart
  <2> DEFINE i == frame[h].round
             hdr == frame[h].hdr
             new == Given(h)
             out == frame[h].out
             to == Written(h)
             locals == [frame[h] EXCEPT !.out = to]
  <2>1. /\ pc[h] = "data" /\ hdr = HeaderOf(x, i - 1) /\ hdr.size # 0
        /\ inbox[h] = <<BytesOf(x, i - 1)>> \o Behind(x, i)
        /\ cmd'[h] = cmd[h] /\ cmd[h] = x.command /\ x.command.op = "put"
        /\ frame[h].cred = x.login
    BY <2>x, <1>2 DEF WritePart, Reads
  <2>2. /\ new \in Pieces /\ new.kind = "whole" /\ new.size = hdr.size
        /\ new.good = new.size /\ hdr.part \in 0..4
        /\ hdr.size = part_size(Length[x.content], hdr.part)
    BY <1>f, <2>1, BytesNext DEF Given, Incoming, AsData
  <2>p. PICK f \in Slots : f = PathOf(h, hdr.part)
    BY <2>1, <2>2, UserType, DiskType
  <2>3. x \in Puts(f) /\ f[4] = hdr.part
    <3>1. x.login \in Accounts
      BY <2>1 DEF OnlyAccounts
    <3>2. QED
      BY <2>1, <2>p, <3>1 DEF PathOf, User, Puts
  <2>4. WritesTo(h, s, f)
    BY <2>1, <2>p DEF WritesTo
  <2>5. /\ disk'[s][f] = Overwritten(disk[s][f], new, out, to)
        /\ \A r \in Servers, g \in Slots : r # s \/ g # f => disk'[r][g] = disk[r][g]
    <3>1. SetDisk(h, hdr.part, Overwritten(FileAt(h, hdr.part), new, out, to))
      BY <1>2 DEF WritePart, Given
    <3>2. FileAt(h, hdr.part) = disk[s][f]
      BY <2>p DEF FileAt
    <3>3. QED
      BY <1>s, <2>p, <3>1, <3>2 DEF SetDisk
  <2>6. overlapped' = overlapped
    BY <1>s, <2>1 DEF Note
  <2>7. \/ to = hdr.size /\ pc'[h] \in {"header", "free"}
        \/ /\ to # hdr.size /\ pc'[h] = "data" /\ frame'[h] = locals
           /\ inbox'[h] = inbox[h]
    BY <1>2, <1>f DEF WritePart, Goto, NextRound, Close
  <2>l. locals.hdr = hdr /\ locals.out = to /\ locals.cred = frame[h].cred
    BY <1>f DEF Frames
  <2>t. /\ to \in Nat /\ to <= hdr.size /\ (out < hdr.size => out < to)
        /\ hdr.size <= Block => to = hdr.size
    BY WrittenType
  <2> HIDE DEF locals, to, new
  <2>8. ASSUME NEW r \in Servers, NEW g \in Slots, r # s \/ g # f
        PROVE  FileOK(r, g)'
    <3>1. ~WritesTo(h, r, g)
      BY <2>8, <2>p DEF WritesTo
    <3>2. ~WritesTo(h, r, g)'
      <4>1. CASE pc'[h] = "data"
        <5>1. PathOf(h, frame[h].hdr.part)' = f
          BY <2>1, <2>7, <2>l, <2>p, <4>1 DEF PathOf, User
        <5>2. QED
          BY <2>8, <5>1 DEF WritesTo, ServerOf
      <4>2. CASE pc'[h] # "data"
        BY <2>7, <4>2 DEF WritesTo
      <4>3. QED
        BY <4>1, <4>2
    <3>3. QED
      BY <1>o, <2>5, <2>6, <2>8, <3>1, <3>2
  <2>9. FileOK(s, f)'
    <3>1. CASE OneBlock(f)
      <4>1. OneBlockOK(s, f) /\ out = 0
        BY <1>s, <2>3, <2>4, <3>1 DEF FilesOK, FileOK, OneBlockOK
      <4>2. PICK n \in 0..Block : Fits(f, n)
        BY <3>1 DEF OneBlock
      <4>3. n = hdr.size /\ Fits(f, hdr.size)
        BY <2>2, <2>3, <4>2 DEF Fits
      <4>4. to = hdr.size
        BY <2>t, <4>2, <4>3, ConstantsAssumption
      <4>5. disk[s][f].size \in {0, hdr.size} /\ disk[s][f].good \in {0, hdr.size}
        BY <2>2, <2>3, <4>1, <4>3 DEF OneBlockOK, Fits, Absent, Zeros, Piece
      <4>6. disk'[s][f] = new
        <5>1. disk'[s][f] = Front(new, to)
          BY <1>f, <2>5, <2>t, <4>1, <4>4, <4>5 DEF Overwritten
        <5>2. QED
          BY <2>2, <4>4, <5>1 DEF Front
      <4>7. \A k \in Handlers : WritesTo(k, s, f)' => frame'[k].out = 0
        <5>1. ~WritesTo(h, s, f)'
          BY <2>7, <4>4 DEF WritesTo
        <5>2. ASSUME NEW k \in Handlers, k # h, WritesTo(k, s, f)' PROVE frame'[k].out = 0
          BY <1>k, <1>s, <1>w, <2>3, <4>1, <5>2 DEF OneBlockOK
        <5>3. QED
          BY <5>1, <5>2
      <4>8. OneBlockOK(s, f)'
        BY <2>2, <4>3, <4>6, <4>7 DEF OneBlockOK, Fits, Puts
      <4>9. QED
        BY <3>1, <4>8 DEF FileOK, OneBlock, Fits, Puts
    <3>2. CASE ~OneBlock(f)
      <4>1. SUFFICES ASSUME f \notin overlapped[s] PROVE LoneOK(s, f)'
        BY <2>6, <3>2 DEF FileOK, OneBlock, Fits, Puts
      <4>2. LoneOK(s, f)
        BY <1>s, <2>3, <3>2, <4>1 DEF FilesOK, FileOK
      <4>3. /\ disk[s][f] = Front(new, out) /\ out < hdr.size
            /\ \A k \in Handlers : WritesTo(k, s, f) => k = h
        BY <2>4, <4>2 DEF LoneOK, new
      <4>4. disk'[s][f] = Front(new, to)
        BY <1>f, <2>2, <2>5, <2>t, <4>3, OneAfterAnother
      <4>5. \A k \in Handlers : WritesTo(k, s, f)' => k = h
        BY <1>s, <1>w, <2>3, <4>3
      <4>6. CASE to = hdr.size
        <5>1. disk'[s][f] = new /\ ~WritesTo(h, s, f)'
          BY <2>2, <2>7, <4>4, <4>6 DEF Front, WritesTo
        <5>2. QED
          BY <2>2, <4>5, <5>1 DEF LoneOK
      <4>7. CASE to # hdr.size
        <5>1. pc'[h] = "data" /\ frame'[h] = locals /\ inbox'[h] = inbox[h]
          BY <2>7, <4>7
        <5>2. WritesTo(h, s, f)'
          BY <2>1, <2>l, <2>p, <5>1 DEF WritesTo, PathOf, User, ServerOf
        <5>3. Given(h)' = new
          BY <2>l, <5>1 DEF Given, Incoming, AsData, new
        <5>4. frame'[h].out < frame'[h].hdr.size
          BY <1>f, <2>l, <2>t, <4>7, <5>1
        <5>5. disk'[s][f] = Front(Given(h), frame[h].out)'
          BY <2>l, <4>4, <5>1, <5>3
        <5>6. QED
          BY <4>5, <5>2, <5>4, <5>5 DEF LoneOK, Writing
      <4>8. QED
        BY <4>6, <4>7
    <3>3. QED
      BY <3>1, <3>2
  <2>10. QED
    BY <2>6, <2>8, <2>9 DEF FilesOK
<1>3. CASE ~OpenPart(h) /\ ~WritePart(h)
  <2>1. ~Spin(h)
    BY <1>a DEF Spin, AllRead, Goto, Reads
  <2>2. /\ disk' = disk /\ pc[h] \notin {"header", "data", "spin"}
    BY <1>3, <1>s, <2>1 DEF HandlerStep, Authenticate, ScanForDirectory,
       MakeUserDirectory, ReadCommand, List, ReadRequest, ServeHeader, SendPart,
       ServeNothing, ServeUnopened, storeVars
  <2>3. pc'[h] # "data"
    BY <1>s, <2>2, OwnMove DEF Authenticate, Goto, Close
  <2>4. pc'[h] # "spin"
    BY <1>a DEF AllRead, Reads
  <2>5. overlapped' = overlapped
    BY <1>s, <2>2 DEF Note
  <2>6. ASSUME NEW r \in Servers, NEW g \in Slots PROVE FileOK(r, g)'
    BY <1>o, <2>2, <2>3, <2>4, <2>5 DEF WritesTo
  <2>7. QED
    BY <2>5, <2>6 DEF FilesOK
<1>4. QED
  BY <1>1, <1>2, <1>3

(***************************************************************************)
(* Where every user has a directory, and as long as clients finish what    *)
(* they began and no server is killed, a file nobody is writing is the     *)
(* whole part of some put, written in however many blocks by a thread that *)
(* was alone, or by any number of threads at a time if all puts of it have *)
(* one size and fit in a block (DFS_server.c:267-284).  A race of first    *)
(* connections (DFS_server.c:192), a client that goes away, a kill, or     *)
(* threads that overlap in longer parts each leave damaged files.          *)
(***************************************************************************)
THEOREM FilesAreWholeWhenQuiet ==
  ASSUME KnownUsers = Users, ~MayHangUp, ~MayCrash
  PROVE  OpenSpec => []WholeWhenQuiet
<1>1. OpenInit => StoreInv
  <2> SUFFICES ASSUME OpenInit PROVE StoreInv
    OBVIOUS
  <2>1. \A k \in Handlers : pc[k] = "free"
    BY DEF OpenInit, ServerInit
  <2>2. \A r \in Servers, g \in Slots : disk[r][g] = Absent
    BY DEF OpenInit, EmptyDisk
  <2>3. \A r \in Servers, g \in Slots : FileOK(r, g)
    BY <2>1, <2>2 DEF FileOK, OneBlockOK, LoneOK, WritesTo, Absent, Piece
  <2>4. QED
    BY <2>1, <2>3 DEF OpenInit, StoreInv, AllRead, FilesOK
<1>2. SafeInv /\ StoreInv /\ [OpenNext]_openVars => StoreInv'
  <2> SUFFICES ASSUME SafeInv, StoreInv, [OpenNext]_openVars PROVE StoreInv'
    OBVIOUS
  <2>i. Inv /\ DirectoryReady /\ Settled
    BY DEF SafeInv
  <2>1. ASSUME NEW h \in Handlers, Step(h) PROVE StoreInv'
    <3>1. ~UserDirectoryExists(h) /\ ~ListUnopened(h)
      BY <2>i DEF UserDirectoryExists, ListUnopened, Settled, DirectoryReady
    <3>2. HandlerStep(h)
      BY <2>1 DEF Step
    <3>3. QED
      BY <2>i, <2>1, <3>1, <3>2, HandlerReads, HandlerFiles DEF StoreInv
  <2>2. ASSUME NEW h \in Handlers, Dial(h), UNCHANGED overlapped PROVE StoreInv'
    <3>1. PICK x \in Sessions : Accept(h, SessionMessages(x), FALSE)
      BY <2>2 DEF Dial
    <3>2. /\ pc[h] = "free" /\ pc'[h] = "auth" /\ frame'[h].round = 1
          /\ inbox'[h] = SessionMessages(x) /\ disk' = disk /\ cmd' = cmd
          /\ \A k \in Handlers \ {h} :
               pc'[k] = pc[k] /\ frame'[k] = frame[k] /\ inbox'[k] = inbox[k]
      BY <2>i, <3>1 DEF Accept, Goto, Cleared, Inv, TypeOK, storeVars
    <3>3. Reads(h, x)'
      BY <3>2 DEF Reads
    <3>4. ASSUME NEW k \in Handlers \ {h}, NEW y \in Sessions, Reads(k, y)
          PROVE  Reads(k, y)'
      BY <3>2, <3>4 DEF Reads
    <3>5. AllRead'
      BY <3>2, <3>3, <3>4 DEF StoreInv, AllRead
    <3>6. ASSUME NEW r \in Servers, NEW g \in Slots PROVE FileOK(r, g)'
      <4>1. \A k \in Handlers : WritesTo(k, r, g)' <=> WritesTo(k, r, g)
        BY <3>2 DEF WritesTo, PathOf, User, ServerOf
      <4>2. \A k \in Handlers : WritesTo(k, r, g) =>
               frame'[k] = frame[k] /\ inbox'[k] = inbox[k]
        BY <3>2 DEF WritesTo
      <4>3. FileOK(r, g) /\ disk'[r][g] = disk[r][g] /\ overlapped' = overlapped
        BY <2>2, <3>2 DEF StoreInv, FilesOK
      <4>4. QED
        BY <4>1, <4>2, <4>3, FileStays
    <3>7. QED
      BY <2>2, <3>5, <3>6 DEF StoreInv, FilesOK
  <2>3. ~\E h \in Handlers : BrokenPipe(h) \/ HangUp(h)
    BY <2>i DEF BrokenPipe, HangUp, Settled
  <2>4. ~\E s \in Servers : Fail(s)
    BY DEF Fail
  <2>5. CASE UNCHANGED openVars
    <3>1. ASSUME NEW k \in Handlers, NEW y \in Sessions, Reads(k, y)
          PROVE  Reads(k, y)'
      BY <2>5, <3>1 DEF openVars, serverVars, Reads
    <3>2. AllRead'
      BY <2>5, <3>1 DEF openVars, serverVars, StoreInv, AllRead
    <3>3. ASSUME NEW r \in Servers, NEW g \in Slots PROVE FileOK(r, g)'
      <4>1. \A k \in Handlers : WritesTo(k, r, g)' <=> WritesTo(k, r, g)
        BY <2>5 DEF openVars, serverVars, WritesTo, PathOf, User, ServerOf
      <4>2. FileOK(r, g) /\ disk' = disk /\ overlapped' = overlapped
            /\ frame' = frame /\ inbox' = inbox
        BY <2>5 DEF openVars, serverVars, StoreInv, FilesOK
      <4>3. QED
        BY <4>1, <4>2, FileStays
    <3>4. QED
      BY <2>5, <3>2, <3>3 DEF openVars, StoreInv, FilesOK
  <2>6. QED
    BY <2>1, <2>2, <2>3, <2>4, <2>5 DEF OpenNext
<1>3. StoreInv => WholeWhenQuiet
  <2> SUFFICES ASSUME StoreInv, NEW s \in Servers, NEW f \in Slots
               PROVE  \/ disk[s][f].kind \in {"absent", "whole"}
                      \/ disk[s][f] = Zeros(0) /\ HasEmptyParts
                      \/ Writing(s, f)
                      \/ f \in overlapped[s] /\ ~OneBlock(f)
    BY DEF WholeWhenQuiet
  <2>1. FileOK(s, f)
    BY DEF StoreInv, FilesOK
  <2>2. QED
    BY <2>1 DEF FileOK, OneBlockOK, LoneOK, Absent, Piece
<1>4. QED
  BY <1>1, <1>2, <1>3, SafeAlways, PTL DEF OpenSpec
=============================================================================
