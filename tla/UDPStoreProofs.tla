---------------------------- MODULE UDPStoreProofs ----------------------------
(***************************************************************************)
(* What the server of a lone client holds, whatever the client types and    *)
(* however long its datagrams are on their way.                             *)
(***************************************************************************)
EXTENDS UDPStore, SequenceTheorems, TLAPS

\* What a file or a datagram is cut to is of the same kind.
LEMMA FirstBytesType ==
  /\ \A t \in Datagrams : FirstBytes(t) \in Datagrams
  /\ \A t \in Files : FirstBytes(t) \in Files
  /\ \A t \in Contents : FirstBytes(t) \in Contents
BY ConstantsAssumption DEF FirstBytes, Files, Datagrams

\* What the network makes of a sequence is one of the same datagrams.
LEMMA DisturbedType ==
  ASSUME NEW S, NEW q \in Seq(S), NEW r \in Disturbed(q)
  PROVE  r \in Seq(S) /\ q # <<>>
<1>1. \A i \in 1..Len(q) : RemoveAt(q, i) \in Seq(S)
  BY DEF RemoveAt
<1>2. ASSUME NEW s \in Seq(S), NEW j \in 1..(Len(s) + 1), NEW e \in S
      PROVE InsertAt(s, j, e) \in Seq(S)
  BY DEF InsertAt
<1>3. ASSUME NEW i \in 1..Len(q) PROVE Len(RemoveAt(q, i)) = Len(q) - 1 /\ q[i] \in S
  <2> DEFINE left == SubSeq(q, 1, i - 1)
             right == SubSeq(q, i + 1, Len(q))
  <2>1. /\ left \in Seq(S) /\ Len(left) = i - 1
        /\ right \in Seq(S) /\ Len(right) = Len(q) - i
    OBVIOUS
  <2>2. RemoveAt(q, i) = left \o right
    BY DEF RemoveAt
  <2> HIDE DEF left, right
  <2>3. Len(left \o right) = Len(left) + Len(right)
    BY ONLY <2>1, ConcatProperties, Zenon
  <2>4. q[i] \in S
    BY ElementOfSeq
  <2>5. Len(q) \in Nat /\ i \in Int
    OBVIOUS
  <2>6. QED
    BY <2>1, <2>2, <2>3, <2>4, <2>5
<1>4. r \in Seq(S)
  <2>1. CASE \E i \in 1..Len(q) : r = RemoveAt(q, i)
    BY <1>1, <2>1
  <2>2. CASE \E i \in 1..Len(q), j \in 1..(Len(q) + 1) : r = InsertAt(q, j, q[i])
    BY <1>2, <1>3, <2>2
  <2>3. CASE \E i \in 1..Len(q), j \in 1..Len(q) : r = InsertAt(RemoveAt(q, i), j, q[i])
    <3>1. PICK i \in 1..Len(q), j \in 1..Len(q) : r = InsertAt(RemoveAt(q, i), j, q[i])
      BY <2>3
    <3>2. j \in 1..(Len(RemoveAt(q, i)) + 1)
      BY <1>3
    <3>3. QED
      BY <1>1, <1>2, <1>3, <3>1, <3>2
  <2>4. QED
    BY <2>1, <2>2, <2>3 DEF Disturbed
<1>5. q # <<>>
  <2>1. 1..Len(q) # {}
    BY DEF Disturbed
  <2>2. QED
    BY <2>1
<1>6. QED
  BY <1>4, <1>5

-----------------------------------------------------------------------------
(***************************************************************************)
(* Types.  A client that waits for a file or is about to send one knows its *)
(* name; one that has sent nothing waits for its user.                      *)
(***************************************************************************)
Gots == [command : {"get", "ls", "other"}, body : Replies \cup {Absent},
         due : Files \cup Listings]
Asks == \A c \in Clients :
  /\ pc[c] \in {"get", "put"} => asked[c] \in Names
  /\ pc[c] = "put" => upload[c] \in Contents
Silent == \A c \in Clients \ senders : toServer[c] = <<>> /\ pc[c] = "ready"
Inv == TypeOK /\ Asks /\ Silent

LEMMA InitInv == Init => Inv
<1> SUFFICES ASSUME Init PROVE Inv
  OBVIOUS
<1>1. Nothing \in Gots
  BY DEF Nothing, Files, Gots
<1>2. /\ toServer \in [Clients -> Seq(Datagrams)] /\ toClient \in [Clients -> Seq(Replies)]
      /\ got \in [Clients -> Gots]
  BY <1>1 DEF Init
<1>3. Stored \in [Names -> Files]
  BY ConstantsAssumption DEF Files, Datagrams
<1>4. QED
  BY <1>2, <1>3, ConstantsAssumption
     DEF Init, Inv, TypeOK, Gots, Asks, Silent, Commands, ClientStates

\* The lines that a user may type, and where the client is then.
LEMMA Typed ==
  ASSUME NEW c \in Clients, User(c)
  PROVE  \/ TypeUnsent(c)
         \/ \E t \in Lines, where \in ClientStates \ {"done"} : Type(c, t, where)
<1>1. \A n \in Names : \A w \in Commands : Line(w, n) \in Lines
  BY DEF Lines, Line
<1>2. Line("ls", NoWord) \in Lines /\ Line("exit", NoWord) \in Lines /\ Blank \in Lines
  BY DEF Lines
<1>3. QED
  BY <1>1, <1>2 DEF User, TypeGet, TypeDelete, TypePut, TypeList, TypeExit, TypeNothing,
     ClientStates, Commands

LEMMA TypeInv ==
  ASSUME Inv, NEW c \in Clients, User(c)
  PROVE  Inv'
<1>i. TypeOK /\ Asks /\ Silent
  BY DEF Inv
<1>1. ASSUME NEW t \in Lines, NEW where \in ClientStates \ {"done"}, Type(c, t, where),
             upload' \in [Clients -> Contents \cup {Absent}], mine' \in [Names -> Files],
             \A d \in Clients \ {c} : upload'[d] = upload[d],
             where \in {"get", "put"} => t.name \in Names,
             where = "put" => upload'[c] \in Contents
      PROVE Inv'
  <2>1. t.name \in Names \cup {NoWord} /\ t.command \in Commands \cup {NoWord}
    BY DEF Lines, Line, Blank, Commands
  <2>2. toServer' \in [Clients -> Seq(Datagrams)]
    <3>1. Append(toServer[c], t) \in Seq(Datagrams)
      BY <1>i, AppendProperties DEF TypeOK, Datagrams
    <3>2. QED
      BY <1>i, <1>1, <3>1 DEF TypeOK, Type, Send
  <2>3. got' \in [Clients -> Gots]
    <3>1. Nothing \in Gots
      BY DEF Nothing, Files, Gots
    <3>2. QED
      BY <1>i, <1>1, <3>1 DEF TypeOK, Gots, Type
  <2>4. /\ pc' \in [Clients -> ClientStates] /\ pc'[c] = where
        /\ asked' \in [Clients -> Names \cup {Garbage}]
        /\ t.name # NoWord => asked'[c] = t.name
    BY <1>i, <1>1, <2>1 DEF TypeOK, Type
  <2>5. listing' \in [Clients -> BOOLEAN]
    BY <1>i, <1>1 DEF TypeOK, Type
  <2>6. typed' \in 0..MaxCommands
    BY <1>i, <1>1, ConstantsAssumption DEF TypeOK, Type
  <2>7. TypeOK'
    BY <1>i, <1>1, <2>2, <2>3, <2>4, <2>5, <2>6 DEF TypeOK, Gots, Type, serverVars
  <2>8. \A d \in Clients \ {c} : /\ pc'[d] = pc[d] /\ asked'[d] = asked[d]
                                 /\ toServer'[d] = toServer[d]
    BY <1>i, <1>1 DEF TypeOK, Type, Send
  <2>9. Asks'
    <3>1. NoWord \notin Names
      BY ConstantsAssumption
    <3>2. QED
      BY <1>i, <1>1, <2>4, <2>8, <3>1 DEF Asks
  <2>10. Silent'
    BY <1>i, <1>1, <2>8 DEF Silent, Type
  <2>11. QED
    BY <2>7, <2>9, <2>10 DEF Inv
<1>2. Line("ls", NoWord) \in Lines /\ Line("exit", NoWord) \in Lines /\ Blank \in Lines
  BY DEF Lines
<1>3. \A n \in Names : \A w \in Commands :
         Line(w, n) \in Lines /\ Line(w, n).name = n
  BY DEF Lines, Line
<1>4. Absent \in Files /\ Uploads \subseteq Contents
  BY ConstantsAssumption DEF Files
<1>5. ASSUME NEW n \in Names, TypeGet(c, n) PROVE Inv'
  BY <1>i, <1>1, <1>3, <1>5 DEF TypeGet, TypeOK, Gots, Asks, ClientStates, Commands
<1>6. ASSUME NEW n \in Names, TypeDelete(c, n) PROVE Inv'
  <2>1. mine' \in [Names -> Files]
    BY <1>i, <1>4, <1>6 DEF TypeDelete, TypeOK
  <2>2. QED
    BY <1>i, <1>1, <1>3, <1>6, <2>1 DEF TypeDelete, TypeOK, Gots, ClientStates, Commands
<1>7. ASSUME NEW n \in Names, NEW x \in Uploads, TypePut(c, n, x) PROVE Inv'
  <2>1. /\ upload' \in [Clients -> Contents \cup {Absent}] /\ upload'[c] \in Contents
        /\ \A d \in Clients \ {c} : upload'[d] = upload[d]
    BY <1>i, <1>4, <1>7 DEF TypePut, TypeOK
  <2>2. QED
    BY <1>i, <1>1, <1>3, <1>7, <2>1 DEF TypePut, TypeOK, Gots, ClientStates, Commands
<1>8. CASE TypeList(c) \/ TypeExit(c) \/ TypeNothing(c)
  BY <1>i, <1>1, <1>2, <1>8 DEF TypeList, TypeExit, TypeNothing, TypeOK, Gots, ClientStates
<1>9. CASE TypeUnsent(c)
  BY <1>i, <1>9 DEF TypeUnsent, Inv, TypeOK, Gots, Asks, Silent, serverVars, netVars, historyVars
<1>10. QED
  BY <1>5, <1>6, <1>7, <1>8, <1>9 DEF User

LEMMA ClientInv ==
  ASSUME Inv, NEW c \in Clients, Client(c)
  PROVE  Inv'
<1>i. TypeOK /\ Asks /\ Silent
  BY DEF Inv
<1>s. c \in senders
  BY <1>i DEF Silent, Client, SendFile, ReceiveFile, ReceiveListing, ReceiveSafe
<1>1. CASE SendFile(c)
  <2>1. asked[c] \in Names /\ upload[c] \in Contents
    BY <1>i, <1>1 DEF Asks, SendFile
  <2>2. FirstBytes(upload[c]) \in Contents
    BY <2>1, FirstBytesType
  <2>3. toServer' \in [Clients -> Seq(Datagrams)]
    <3>1. Append(toServer[c], FirstBytes(upload[c])) \in Seq(Datagrams)
      BY <1>i, <2>2, AppendProperties DEF TypeOK, Datagrams
    <3>2. QED
      BY <1>i, <1>1, <3>1 DEF TypeOK, SendFile, Send
  <2>4. mine' \in [Names -> Files]
    BY <1>i, <1>1, <2>2 DEF TypeOK, SendFile, Files, Datagrams
  <2>5. TypeOK'
    BY <1>i, <1>1, <2>3, <2>4 DEF TypeOK, Gots, SendFile, ClientStates, serverVars
  <2>6. Asks'
    BY <1>i, <1>1 DEF TypeOK, Asks, SendFile
  <2>7. Silent'
    BY <1>i, <1>s, <1>1 DEF TypeOK, Silent, SendFile, Send
  <2>8. QED
    BY <2>5, <2>6, <2>7 DEF Inv
<1>2. ASSUME NEW where \in {"ready", "done"}, Receive(c, where),
             got' \in [Clients -> Gots]
      PROVE Inv'
  <2>1. toClient' \in [Clients -> Seq(Replies)]
    <3>1. Tail(toClient[c]) \in Seq(Replies)
      BY <1>i, <1>2, HeadTailProperties DEF TypeOK, Receive
    <3>2. QED
      BY <1>i, <1>2, <3>1 DEF TypeOK, Receive
  <2>2. TypeOK'
    BY <1>i, <1>2, <2>1 DEF TypeOK, Gots, Receive, ClientStates, serverVars, historyVars
  <2>3. Asks'
    BY <1>i, <1>2 DEF TypeOK, Asks, Receive
  <2>4. Silent'
    BY <1>i, <1>s, <1>2 DEF TypeOK, Silent, Receive, historyVars
  <2>5. QED
    BY <2>2, <2>3, <2>4 DEF Inv
<1>3. ASSUME toClient[c] # <<>> PROVE Head(toClient[c]) \in Replies
  BY <1>i, <1>3, HeadTailProperties DEF TypeOK
<1>4. CASE ReceiveFile(c)
  <2>1. Head(toClient[c]) \in Replies /\ asked[c] \in Names
    BY <1>i, <1>3, <1>4 DEF ReceiveFile, Receive, Asks
  <2>2. FirstBytes(mine[asked[c]]) \in Files
    BY <1>i, <2>1, FirstBytesType DEF TypeOK
  <2>3. got' \in [Clients -> Gots]
    BY <1>i, <1>4, <2>1, <2>2 DEF ReceiveFile, TypeOK, Gots
  <2>4. QED
    BY <1>2, <1>4, <2>3 DEF ReceiveFile
<1>5. CASE ReceiveListing(c)
  <2>1. PICK r \in Shown(Head(toClient[c])) :
           got' = [got EXCEPT ![c] = [command |-> "ls", body |-> r,
                                      due |-> [names |-> Present(mine)]]]
    BY <1>5 DEF ReceiveListing
  <2>2. r \in Replies
    <3>1. Head(toClient[c]) \in Replies
      BY <1>3, <1>5 DEF ReceiveListing, Receive
    <3>2. CASE r = Head(toClient[c])
      BY <3>1, <3>2
    <3>3. CASE r # Head(toClient[c])
      <4>1. /\ Head(toClient[c]) \in Listings
            /\ \E T \in SUBSET Head(toClient[c]).names : r = [names |-> T]
        BY <3>3 DEF Shown
      <4>2. QED
        BY <4>1 DEF Listings, Replies
    <3>4. QED
      BY <3>2, <3>3
  <2>3. [names |-> Present(mine)] \in Listings
    BY DEF Listings, Present
  <2>4. got' \in [Clients -> Gots]
    BY <1>i, <2>1, <2>2, <2>3 DEF TypeOK, Gots
  <2>5. QED
    BY <1>2, <1>5, <2>4 DEF ReceiveListing
<1>6. CASE ReceiveSafe(c)
  BY <1>i, <1>2, <1>6 DEF ReceiveSafe, TypeOK, Gots
<1>7. QED
  BY <1>1, <1>4, <1>5, <1>6 DEF Client

\* What the server makes of a datagram.
LEMMA WordsType ==
  ASSUME Inv, NEW c \in Clients, toServer[c] # <<>>
  PROVE  /\ Head(toServer[c]) \in Datagrams /\ Tail(toServer[c]) \in Seq(Datagrams)
         /\ CommandOf(c) \in Commands /\ NameOf(c) \in Names \cup {Garbage}
<1>1. Head(toServer[c]) \in Datagrams /\ Tail(toServer[c]) \in Seq(Datagrams)
  BY HeadTailProperties DEF Inv, TypeOK
<1>2. /\ Words(Head(toServer[c])).command \in Commands \cup {NoWord}
      /\ Words(Head(toServer[c])).name \in Names \cup {NoWord}
  <2>1. CASE Head(toServer[c]) \in Contents
    BY <2>1, ConstantsAssumption DEF Words
  <2>2. CASE Head(toServer[c]) \notin Contents
    BY <1>1, <2>2 DEF Words, Datagrams, Lines, Line, Blank, Commands
  <2>3. QED
    BY <2>1, <2>2
<1>3. QED
  BY <1>1, <1>2 DEF CommandOf, NameOf, Inv, TypeOK

LEMMA ServerInv ==
  ASSUME Inv, NEW c \in Clients, Server(c)
  PROVE  Inv'
<1>i. TypeOK /\ Asks /\ Silent
  BY DEF Inv
<1>1. ASSUME Take(c), UNCHANGED <<clientVars, historyVars>>,
             up' \in BOOLEAN, phase' \in {"command", "data"}, command' \in Commands,
             name' \in Names \cup {Garbage}, files' \in [Names -> Files],
             toClient' \in [Clients -> Seq(Replies)]
      PROVE Inv'
  <2>1. toServer' \in [Clients -> Seq(Datagrams)]
    BY <1>i, <1>1, WordsType DEF TypeOK, Take
  <2>2. TypeOK'
    BY <1>i, <1>1, <2>1 DEF TypeOK, clientVars, historyVars
  <2>3. Asks'
    BY <1>i, <1>1 DEF Asks, clientVars
  <2>4. Silent'
    <3>1. c \in senders
      BY <1>i, <1>1 DEF Silent, Take
    <3>2. QED
      BY <1>i, <1>1, <3>1 DEF TypeOK, Silent, Take, clientVars, historyVars
  <2>5. QED
    BY <2>2, <2>3, <2>4 DEF Inv
<1>2. ASSUME NEW w, ReadCommand(c, w)
      PROVE /\ Take(c) /\ UNCHANGED <<clientVars, historyVars>>
            /\ command' \in Commands /\ name' \in Names \cup {Garbage}
  BY <1>2, WordsType DEF ReadCommand, Take
<1>3. ASSUME NEW r \in Replies, Reply(c, r) PROVE toClient' \in [Clients -> Seq(Replies)]
  <2>1. Append(toClient[c], r) \in Seq(Replies)
    BY <1>i, AppendProperties DEF TypeOK
  <2>2. QED
    BY <1>i, <1>3, <2>1 DEF Reply, TypeOK
<1>4. CASE ServeGet(c)
  <2>1. toClient' \in [Clients -> Seq(Replies)]
    <3>1. CASE NameOf(c) \in Present(files)
      <4>1. FirstBytes(files[NameOf(c)]) \in Replies
        BY <1>i, <3>1, FirstBytesType DEF TypeOK, Present, Files, Replies
      <4>2. QED
        BY <1>3, <1>4, <3>1, <4>1 DEF ServeGet
    <3>2. CASE NameOf(c) \notin Present(files)
      BY <1>i, <1>4, <3>2 DEF ServeGet, TypeOK
    <3>3. QED
      BY <3>1, <3>2
  <2>2. QED
    BY <1>i, <1>1, <1>2, <1>4, <2>1 DEF ServeGet, TypeOK
<1>5. CASE ServePut(c) \/ ServeNothing(c)
  BY <1>i, <1>1, <1>2, <1>5 DEF ServePut, ServeNothing, TypeOK
<1>6. CASE ServeFile(c)
  <2>1. files' \in [Names -> Files]
    BY <1>i, <1>6, WordsType DEF ServeFile, Take, TypeOK, Files
  <2>2. QED
    BY <1>i, <1>1, <1>6, <2>1 DEF ServeFile, TypeOK
<1>7. CASE ServeList(c)
  <2>1. [names |-> Present(files)] \in Replies
    BY DEF Replies, Listings, Present
  <2>2. QED
    BY <1>i, <1>1, <1>2, <1>3, <1>7, <2>1 DEF ServeList, TypeOK
<1>8. CASE ServeDelete(c)
  <2>1. files' \in [Names -> Files]
    BY <1>i, <1>8 DEF ServeDelete, TypeOK, Files
  <2>2. QED
    BY <1>i, <1>1, <1>2, <1>8, <2>1 DEF ServeDelete, TypeOK
<1>9. CASE ServeExit(c)
  BY <1>i, <1>1, <1>2, <1>3, <1>9 DEF ServeExit, TypeOK, Replies
<1>10. QED
  BY <1>4, <1>5, <1>6, <1>7, <1>8, <1>9 DEF Server

\* A fault is counted and typed, and it needs a datagram.
LEMMA FaultInv ==
  ASSUME Inv, NEW c \in Clients, DisturbRequests(c) \/ DisturbReplies(c) \/ LookupFails(c)
  PROVE  Inv'
<1>i. TypeOK /\ Asks /\ Silent
  BY DEF Inv
<1>1. ASSUME NEW k \in FaultKinds, Fault(k)
      PROVE /\ faults' \in Seq(FaultKinds) /\ Len(faults') <= MaxFaults
            /\ UNCHANGED <<typed, senders, mine>>
  BY <1>i, <1>1, AppendProperties, ConstantsAssumption DEF Fault, TypeOK
<1>2. "request" \in FaultKinds /\ "reply" \in FaultKinds /\ "lookup" \in FaultKinds
  BY DEF FaultKinds
<1>3. CASE DisturbRequests(c)
  <2>1. PICK q \in Disturbed(toServer[c]) : toServer' = [toServer EXCEPT ![c] = q]
    BY <1>3 DEF DisturbRequests
  <2>2. q \in Seq(Datagrams) /\ toServer[c] # <<>>
    BY <1>i, DisturbedType DEF TypeOK
  <2>3. TypeOK'
    BY <1>i, <1>1, <1>2, <1>3, <2>1, <2>2 DEF DisturbRequests, TypeOK, serverVars, clientVars
  <2>4. Asks' /\ Silent'
    <3>1. c \in senders
      BY <1>i, <2>2 DEF Silent
    <3>2. QED
      BY <1>i, <1>3, <2>1, <3>1
         DEF DisturbRequests, Fault, TypeOK, Asks, Silent, clientVars
  <2>5. QED
    BY <2>3, <2>4 DEF Inv
<1>4. CASE DisturbReplies(c)
  <2>1. PICK q \in Disturbed(toClient[c]) : toClient' = [toClient EXCEPT ![c] = q]
    BY <1>4 DEF DisturbReplies
  <2>2. q \in Seq(Replies)
    BY <1>i, DisturbedType DEF TypeOK
  <2>3. TypeOK'
    BY <1>i, <1>1, <1>2, <1>4, <2>1, <2>2 DEF DisturbReplies, TypeOK, serverVars, clientVars
  <2>4. Asks' /\ Silent'
    BY <1>i, <1>4 DEF DisturbReplies, Fault, Asks, Silent, clientVars
  <2>5. QED
    BY <2>3, <2>4 DEF Inv
<1>5. CASE LookupFails(c)
  <2>1. toServer' \in [Clients -> Seq(Datagrams)]
    BY <1>i, <1>5, WordsType DEF LookupFails, Take, TypeOK
  <2>2. TypeOK'
    BY <1>i, <1>1, <1>2, <1>5, <2>1 DEF LookupFails, TypeOK, clientVars
  <2>3. Asks' /\ Silent'
    <3>1. c \in senders
      BY <1>i, <1>5 DEF Silent, LookupFails, Take
    <3>2. QED
      BY <1>i, <1>5, <3>1 DEF LookupFails, Fault, Take, TypeOK, Asks, Silent, clientVars
  <2>4. QED
    BY <2>2, <2>3 DEF Inv
<1>6. QED
  BY <1>3, <1>4, <1>5

LEMMA NextInv == Inv /\ [Next]_vars => Inv'
<1>1. Inv /\ Next => Inv'
  BY TypeInv, ClientInv, ServerInv, FaultInv DEF Next
<1>2. Inv /\ UNCHANGED vars => Inv'
  BY DEF vars, serverVars, netVars, clientVars, historyVars, Inv, TypeOK, Asks, Silent
<1>3. QED
  BY <1>1, <1>2

(***************************************************************************)
(* Type correctness, for any clients, files, words and faults: above all a  *)
(* client that waits for a file or sends one knows its name                 *)
(* (udp_client.c:104, :128).                                                *)
(***************************************************************************)
THEOREM TypeCorrect == Spec => []TypeOK
<1>1. Inv => TypeOK
  BY DEF Inv
<1>2. QED
  BY <1>1, InitInv, NextInv, PTL DEF Spec

-----------------------------------------------------------------------------
(***************************************************************************)
(* The server of a lone client.  However many of the client's datagrams    *)
(* are on their way, taken in turn they lead the server to where the        *)
(* client thinks it is: it expects a file when the client is about to send  *)
(* one, and holds the files the client has put.                             *)
(***************************************************************************)
ServerStates ==
  [up : BOOLEAN, phase : {"command", "data"}, command : Commands,
   name : Names \cup {Garbage}, files : [Names -> Files]]
Now == [up |-> up, phase |-> phase, command |-> command, name |-> name, files |-> files]

\* A running server that waits for a file is sent one, and else a line.
Expects(s, t) == s.up /\ t \in (IF s.phase = "data" THEN Contents ELSE Lines)
Obeyed(s, t) ==
  LET w == IF t.command = NoWord THEN s.command ELSE t.command
      n == IF t.name = NoWord THEN s.name ELSE t.name
  IN  [up |-> w # "exit", phase |-> IF w = "put" THEN "data" ELSE "command",
       command |-> w, name |-> n,
       files |-> IF w = "delete" THEN [m \in Names |-> IF m = n THEN Absent ELSE s.files[m]]
                                 ELSE s.files]
Kept(s, t) ==
  [up |-> s.up, phase |-> "command", command |-> s.command, name |-> s.name,
   files |-> IF s.name \in Names \ Unwritable THEN [s.files EXCEPT ![s.name] = t]
                                              ELSE s.files]
After(s, t) == IF s.phase = "data" THEN Kept(s, t) ELSE Obeyed(s, t)

\* The datagrams q are what a server in state s expects, and lead it to e.
Leads(q, s, e) ==
  \E st \in [0..Len(q) -> ServerStates] :
    /\ st[0] = s /\ st[Len(q)] = e
    /\ \A i \in 1..Len(q) : Expects(st[i-1], q[i]) /\ st[i] = After(st[i-1], q[i])

\* The server at the end of the road, as client c sees it.
AsTold(c, e) ==
  /\ e.up <=> pc[c] \notin {"exit", "done"}
  /\ e.phase = "data" <=> pc[c] = "put"
  /\ pc[c] = "put" => e.name = asked[c]
  /\ listing[c] => e.command = "ls"
  /\ e.files = mine
OnCourse(c) == \E e \in ServerStates : Leads(toServer[c], Now, e) /\ AsTold(c, e)
StoreInv == Inv /\ \A c \in Clients : Undisturbed(c) => OnCourse(c)

LEMMA AfterType ==
  ASSUME NEW s \in ServerStates, NEW t \in Datagrams, Expects(s, t)
  PROVE  After(s, t) \in ServerStates
<1>1. CASE s.phase = "data"
  BY <1>1 DEF After, Kept, ServerStates, Files
<1>2. CASE s.phase # "data"
  <2>1. t \in Lines
    BY <1>2 DEF Expects
  <2>2. t.command \in Commands \cup {NoWord} /\ t.name \in Names \cup {NoWord}
    BY <2>1 DEF Lines, Line, Blank, Commands
  <2>3. QED
    BY <1>2, <2>2 DEF After, Obeyed, ServerStates, Files
<1>3. QED
  BY <1>1, <1>2

LEMMA LeadsNowhere ==
  ASSUME NEW s \in ServerStates
  PROVE  Leads(<<>>, s, s)
<1> DEFINE st == [i \in 0..0 |-> s]
<1>1. st \in [0..0 -> ServerStates] /\ st[0] = s /\ Len(<<>>) = 0 /\ 1..0 = {}
  OBVIOUS
<1> HIDE DEF st
<1>2. QED
  BY <1>1 DEF Leads

LEMMA LeadsAppend ==
  ASSUME NEW q \in Seq(Datagrams), NEW t \in Datagrams,
         NEW s \in ServerStates, NEW e \in ServerStates,
         Leads(q, s, e), Expects(e, t)
  PROVE  Leads(Append(q, t), s, After(e, t)) /\ After(e, t) \in ServerStates
<1>1. PICK st \in [0..Len(q) -> ServerStates] :
         /\ st[0] = s /\ st[Len(q)] = e
         /\ \A i \in 1..Len(q) : Expects(st[i-1], q[i]) /\ st[i] = After(st[i-1], q[i])
  BY DEF Leads
<1> DEFINE r == Append(q, t)
           n == Len(q)
           longer == [i \in 0..(n + 1) |-> IF i = n + 1 THEN After(e, t) ELSE st[i]]
<1>2. /\ n \in Nat /\ Len(r) = n + 1 /\ r[n + 1] = t
      /\ \A i \in 1..n : r[i] = q[i]
  OBVIOUS
<1>3. After(e, t) \in ServerStates
  BY AfterType
<1>4. longer \in [0..(n + 1) -> ServerStates]
  BY <1>1, <1>2, <1>3
<1>5. longer[0] = s /\ longer[n + 1] = After(e, t)
  BY <1>1, <1>2
<1>6. ASSUME NEW i \in 1..(n + 1)
      PROVE Expects(longer[i-1], r[i]) /\ longer[i] = After(longer[i-1], r[i])
  <2>1. CASE i = n + 1
    <3>1. longer[i-1] = e /\ r[i] = t /\ longer[i] = After(e, t)
      BY <1>1, <1>2, <2>1
    <3>2. QED
      BY <3>1
  <2>2. CASE i # n + 1
    <3>1. i \in 1..n /\ longer[i-1] = st[i-1] /\ longer[i] = st[i] /\ r[i] = q[i]
      BY <1>2, <2>2
    <3>2. QED
      BY <1>1, <3>1
  <2>3. QED
    BY <2>1, <2>2
<1> HIDE DEF longer, r
<1>7. Len(r) = n + 1
  BY <1>2
<1>8. Leads(r, s, After(e, t))
  BY <1>4, <1>5, <1>6, <1>7 DEF Leads
<1>9. QED
  BY <1>3, <1>8 DEF r

LEMMA LeadsTail ==
  ASSUME NEW q \in Seq(Datagrams), q # <<>>,
         NEW s \in ServerStates, NEW e \in ServerStates, Leads(q, s, e)
  PROVE  Expects(s, Head(q)) /\ Leads(Tail(q), After(s, Head(q)), e)
<1>1. PICK st \in [0..Len(q) -> ServerStates] :
         /\ st[0] = s /\ st[Len(q)] = e
         /\ \A i \in 1..Len(q) : Expects(st[i-1], q[i]) /\ st[i] = After(st[i-1], q[i])
  BY DEF Leads
<1> DEFINE r == Tail(q)
           n == Len(q)
           shorter == [i \in 0..(n - 1) |-> st[i + 1]]
<1>2. /\ n \in Nat /\ n >= 1 /\ Len(r) = n - 1 /\ Head(q) = q[1]
      /\ \A i \in 1..(n - 1) : r[i] = q[i + 1]
  OBVIOUS
<1>3. shorter \in [0..(n - 1) -> ServerStates]
  BY <1>1, <1>2
<1>4. Expects(st[0], q[1]) /\ st[1] = After(st[0], q[1])
  BY <1>1, <1>2
<1>5. shorter[0] = After(s, Head(q)) /\ shorter[n - 1] = e
  BY <1>1, <1>2, <1>4
<1>6. ASSUME NEW i \in 1..(n - 1)
      PROVE Expects(shorter[i-1], r[i]) /\ shorter[i] = After(shorter[i-1], r[i])
  <2>1. /\ i + 1 \in 1..n /\ shorter[i-1] = st[(i + 1) - 1]
        /\ shorter[i] = st[i + 1] /\ r[i] = q[i + 1]
    BY <1>2
  <2>2. QED
    BY <1>1, <2>1
<1> HIDE DEF shorter, r
<1>7. Len(r) = n - 1
  BY <1>2
<1>8. Leads(r, After(s, Head(q)), e)
  BY <1>3, <1>5, <1>6, <1>7 DEF Leads
<1>9. QED
  BY <1>1, <1>2, <1>4, <1>8 DEF r

\* Where nothing is on its way, the server is there.
LEMMA LeadsArrived ==
  ASSUME NEW s, NEW e, Leads(<<>>, s, e)
  PROVE  e = s
BY DEF Leads

-----------------------------------------------------------------------------
\* Who has not sent anything does nothing that matters here.
LEMMA Alone ==
  ASSUME Inv, NEW c \in Clients, Undisturbed(c), NEW d \in Clients, d # c
  PROVE  toServer[d] = <<>> /\ pc[d] = "ready"
BY DEF Inv, Silent, Undisturbed

\* Trouble once had is not forgotten, and disturbed requests are trouble.
LEMMA TroubleStays ==
  ASSUME Inv, [Next]_vars, NEW c \in Clients, Undisturbed(c)'
  PROVE  /\ Undisturbed(c)
         /\ \A d \in Clients : ~DisturbRequests(d) /\ ~LookupFails(d)
         /\ Clean(c)' => Clean(c) /\ \A d \in Clients : ~DisturbReplies(d)
<1>1. ASSUME NEW k, Fault(k)
      PROVE /\ k \in ToSet(faults)' /\ ToSet(faults) \subseteq ToSet(faults)'
            /\ faults' # <<>>
  <2>1. faults \in Seq(FaultKinds) /\ faults' = Append(faults, k)
    BY <1>1 DEF Fault, Inv, TypeOK
  <2>2. /\ DOMAIN faults' = 1..(Len(faults) + 1) /\ DOMAIN faults = 1..Len(faults)
        /\ faults'[Len(faults) + 1] = k /\ Len(faults) \in Nat
        /\ \A i \in 1..Len(faults) : faults'[i] = faults[i]
    BY <2>1
  <2>3. QED
    BY <2>2 DEF ToSet
<1>2. ASSUME NEW d \in Clients PROVE ~DisturbRequests(d) /\ ~LookupFails(d)
  BY <1>1 DEF DisturbRequests, LookupFails, Undisturbed
<1>3. ASSUME Clean(c)', NEW d \in Clients PROVE ~DisturbReplies(d)
  BY <1>1, <1>3 DEF DisturbReplies, Clean
<1>4. senders \subseteq senders' /\ (UNCHANGED faults \/ \E k \in FaultKinds : Fault(k))
  <2>1. ASSUME NEW d \in Clients, User(d)
        PROVE senders \subseteq senders' /\ UNCHANGED faults
    BY <2>1, Typed DEF TypeUnsent, Type, historyVars
  <2>2. ASSUME NEW d \in Clients, Client(d) \/ Server(d)
        PROVE senders \subseteq senders' /\ UNCHANGED faults
    BY <2>2 DEF Client, SendFile, ReceiveFile, ReceiveListing, ReceiveSafe, Receive,
       Server, ServeGet, ServePut, ServeFile, ServeList, ServeDelete, ServeExit,
       ServeNothing, ReadCommand, historyVars
  <2>3. ASSUME NEW d \in Clients, DisturbReplies(d)
        PROVE senders \subseteq senders' /\ \E k \in FaultKinds : Fault(k)
    BY <2>3 DEF DisturbReplies, Fault, FaultKinds
  <2>4. QED
    BY <1>2, <2>1, <2>2, <2>3 DEF Next, vars, historyVars
<1>5. Undisturbed(c)
  <2>1. ToSet(faults) \subseteq ToSet(faults)'
    BY <1>1, <1>4
  <2>2. QED
    BY <1>4, <2>1 DEF Undisturbed
<1>6. Clean(c)' => Clean(c)
  BY <1>1, <1>4 DEF Clean
<1>7. QED
  BY <1>2, <1>3, <1>5, <1>6

\* What a user types is what the server will be waiting for by then.
LEMMA UserOnCourse ==
  ASSUME Inv, NEW c \in Clients, OnCourse(c), User(c)
  PROVE  OnCourse(c)'
<1>i. TypeOK
  BY DEF Inv
<1>0. PICK e \in ServerStates : Leads(toServer[c], Now, e) /\ AsTold(c, e)
  BY DEF OnCourse
<1>1. Now \in ServerStates /\ toServer[c] \in Seq(Datagrams)
  BY <1>i DEF Now, ServerStates, TypeOK
<1>2. ASSUME NEW t \in Lines, NEW where \in ClientStates, Type(c, t, where)
      PROVE \E f \in ServerStates : f = Obeyed(e, t) /\ (AsTold(c, f)' => OnCourse(c)')
  <2>1. e.up /\ e.phase = "command" /\ After(e, t) = Obeyed(e, t)
    BY <1>0, <1>2 DEF AsTold, Type, ServerStates, After
  <2>2. t \in Datagrams /\ Expects(e, t)
    BY <2>1 DEF Expects, Datagrams
  <2>3. PICK f \in ServerStates : f = After(e, t) /\ Leads(Append(toServer[c], t), Now, f)
    BY <1>0, <1>1, <2>2, LeadsAppend
  <2>4. toServer'[c] = Append(toServer[c], t) /\ Now' = Now
    BY <1>i, <1>2 DEF Type, Send, TypeOK, Now, serverVars
  <2>5. AsTold(c, f)' => OnCourse(c)'
    BY <2>3, <2>4 DEF OnCourse
  <2>6. QED
    BY <2>1, <2>3, <2>5
<1>3. ASSUME NEW t \in Lines, NEW where \in ClientStates, Type(c, t, where)
      PROVE /\ e.up /\ e.files = mine /\ (listing[c] => e.command = "ls")
            /\ pc'[c] = where /\ (listing'[c] <=> t.command \in {"ls", NoWord})
            /\ t.name # NoWord => asked'[c] = t.name
  BY <1>i, <1>0, <1>3 DEF AsTold, Type, TypeOK
<1>4. \A n \in Names : \A w \in {"get", "put", "delete"} :
         /\ Line(w, n) \in Lines /\ Line(w, n).command = w /\ Line(w, n).name = n
         /\ n # NoWord /\ w # NoWord
  BY ConstantsAssumption DEF Lines, Line, Commands
<1>5. \A w \in {"ls", "exit"} :
         /\ Line(w, NoWord) \in Lines /\ Line(w, NoWord).command = w
         /\ Line(w, NoWord).name = NoWord /\ w # NoWord
  BY ConstantsAssumption DEF Lines, Line, Commands
<1>6. Blank \in Lines /\ Blank.command = NoWord /\ Blank.name = NoWord
  BY DEF Lines, Line, Blank
<1>7. {"get", "put", "ls", "exit", "ready"} \subseteq ClientStates
  BY DEF ClientStates
<1>8. ASSUME NEW n \in Names, TypeGet(c, n) PROVE OnCourse(c)'
  <2>1. Type(c, Line("get", n), "get") /\ UNCHANGED mine
    BY <1>8 DEF TypeGet
  <2>2. PICK f \in ServerStates :
           f = Obeyed(e, Line("get", n)) /\ (AsTold(c, f)' => OnCourse(c)')
    BY <1>2, <1>4, <1>5, <1>6, <1>7, <2>1
  <2>3. /\ e.files = mine /\ pc'[c] = "get" /\ ~listing'[c]
    BY <1>3, <1>4, <1>7, <2>1
  <2>4. /\ f.up = TRUE /\ f.phase = "command" /\ f.files = e.files
    BY <1>4, <2>2 DEF Obeyed
  <2>5. AsTold(c, f)'
    BY <2>1, <2>3, <2>4 DEF AsTold
  <2>6. QED
    BY <2>2, <2>5
<1>9. ASSUME NEW n \in Names, TypeDelete(c, n) PROVE OnCourse(c)'
  <2>1. /\ Type(c, Line("delete", n), "ready")
        /\ mine' = [mine EXCEPT ![n] = Absent]
    BY <1>9 DEF TypeDelete
  <2>2. mine' = [m \in Names |-> IF m = n THEN Absent ELSE mine[m]]
    BY <1>i, <2>1 DEF TypeOK
  <2>3. PICK f \in ServerStates :
           f = Obeyed(e, Line("delete", n)) /\ (AsTold(c, f)' => OnCourse(c)')
    BY <1>2, <1>4, <1>5, <1>6, <1>7, <2>1
  <2>4. /\ e.files = mine /\ pc'[c] = "ready" /\ ~listing'[c] /\ asked'[c] = n
    BY <1>3, <1>4, <1>7, <2>1
  <2>5. /\ f.up = TRUE /\ f.phase = "command" /\ f.name = n
        /\ f.files = [m \in Names |-> IF m = n THEN Absent ELSE e.files[m]]
    <3>1. PICK t : t = Line("delete", n)
      OBVIOUS
    <3>2. t.command = "delete" /\ t.name = n /\ n # NoWord /\ "delete" # NoWord
      BY <1>4, <3>1
    <3>3. f = Obeyed(e, t)
      BY <2>3, <3>1
    <3>4. QED
      BY <3>2, <3>3 DEF Obeyed
  <2>6. AsTold(c, f)'
    BY <2>2, <2>1, <2>4, <2>5 DEF AsTold
  <2>7. QED
    BY <2>3, <2>6
<1>10. ASSUME NEW n \in Names, NEW x \in Uploads, TypePut(c, n, x) PROVE OnCourse(c)'
  <2>1. Type(c, Line("put", n), "put") /\ UNCHANGED mine
    BY <1>10 DEF TypePut
  <2>2. PICK f \in ServerStates :
           f = Obeyed(e, Line("put", n)) /\ (AsTold(c, f)' => OnCourse(c)')
    BY <1>2, <1>4, <1>5, <1>6, <1>7, <2>1
  <2>3. /\ e.files = mine /\ pc'[c] = "put" /\ ~listing'[c] /\ asked'[c] = n
    BY <1>3, <1>4, <1>7, <2>1
  <2>4. /\ f.up = TRUE /\ f.phase = "data" /\ f.name = n
        /\ f.files = e.files
    BY <1>4, <2>2 DEF Obeyed
  <2>5. AsTold(c, f)'
    BY <2>1, <2>3, <2>4 DEF AsTold
  <2>6. QED
    BY <2>2, <2>5
<1>11. CASE TypeList(c)
  <2>1. Type(c, Line("ls", NoWord), "ls") /\ UNCHANGED mine
    BY <1>11 DEF TypeList
  <2>2. PICK f \in ServerStates :
           f = Obeyed(e, Line("ls", NoWord)) /\ (AsTold(c, f)' => OnCourse(c)')
    BY <1>2, <1>4, <1>5, <1>6, <1>7, <2>1
  <2>3. AsTold(c, f)'
    BY <1>3, <1>5, <1>7, <2>1, <2>2 DEF AsTold, Obeyed
  <2>4. QED
    BY <2>2, <2>3
<1>12. CASE TypeExit(c)
  <2>1. Type(c, Line("exit", NoWord), "exit") /\ UNCHANGED mine
    BY <1>12 DEF TypeExit
  <2>2. PICK f \in ServerStates :
           f = Obeyed(e, Line("exit", NoWord)) /\ (AsTold(c, f)' => OnCourse(c)')
    BY <1>2, <1>4, <1>5, <1>6, <1>7, <2>1
  <2>3. AsTold(c, f)'
    BY <1>3, <1>5, <1>7, <2>1, <2>2 DEF AsTold, Obeyed
  <2>4. QED
    BY <2>2, <2>3
<1>13. CASE TypeNothing(c)
  <2>1. Type(c, Blank, "ls") /\ UNCHANGED mine /\ listing[c]
    BY <1>13 DEF TypeNothing
  <2>2. PICK f \in ServerStates :
           f = Obeyed(e, Blank) /\ (AsTold(c, f)' => OnCourse(c)')
    BY <1>2, <1>4, <1>5, <1>6, <1>7, <2>1
  <2>3. AsTold(c, f)'
    BY <1>3, <1>6, <1>7, <2>1, <2>2 DEF AsTold, Obeyed
  <2>4. QED
    BY <2>2, <2>3
<1>14. CASE TypeUnsent(c)
  <2>1. AsTold(c, e)'
    BY <1>i, <1>0, <1>14 DEF TypeUnsent, AsTold, TypeOK, historyVars
  <2>2. QED
    BY <1>0, <1>14, <2>1 DEF TypeUnsent, OnCourse, Now, serverVars, netVars
<1>15. QED
  BY <1>8, <1>9, <1>10, <1>11, <1>12, <1>13, <1>14 DEF User

LEMMA ClientOnCourse ==
  ASSUME Inv, NEW c \in Clients, OnCourse(c), Client(c)
  PROVE  OnCourse(c)'
<1>i. TypeOK
  BY DEF Inv
<1>0. PICK e \in ServerStates : Leads(toServer[c], Now, e) /\ AsTold(c, e)
  BY DEF OnCourse
<1>1. Now \in ServerStates /\ toServer[c] \in Seq(Datagrams)
  BY <1>i DEF Now, ServerStates, TypeOK
<1>2. CASE SendFile(c)
  <2> DEFINE t == FirstBytes(upload[c])
  <2>1. /\ pc[c] = "put" /\ asked[c] \in Names /\ t \in Contents
    BY <1>2, FirstBytesType DEF SendFile, Inv, Asks
  <2>2. e.up /\ e.phase = "data" /\ e.name = asked[c] /\ e.files = mine
    BY <1>0, <2>1 DEF AsTold
  <2>3. t \in Datagrams /\ Expects(e, t)
    BY <2>1, <2>2 DEF Expects, Datagrams
  <2>4. PICK f \in ServerStates : f = Kept(e, t) /\ Leads(Append(toServer[c], t), Now, f)
    BY <1>0, <1>1, <2>2, <2>3, LeadsAppend DEF After
  <2>5. toServer'[c] = Append(toServer[c], t) /\ Now' = Now
    BY <1>i, <1>2 DEF SendFile, Send, TypeOK, Now, serverVars
  <2>6. pc'[c] = "ready" /\ listing' = listing
    BY <1>i, <1>2 DEF SendFile, TypeOK
  <2>7. f.files = mine'
    BY <1>2, <2>1, <2>2, <2>4 DEF Kept, SendFile
  <2>8. f.up = e.up /\ f.phase = "command" /\ f.command = e.command
    BY <2>4 DEF Kept
  <2>9. AsTold(c, f)'
    BY <1>0, <2>2, <2>6, <2>7, <2>8 DEF AsTold
  <2>10. QED
    BY <2>4, <2>5, <2>9 DEF OnCourse
<1>3. ASSUME NEW where \in {"ready", "done"}, Receive(c, where), pc[c] \in ClientStates \ {"put"},
             where = "done" <=> pc[c] \in {"exit", "done"}
      PROVE OnCourse(c)'
  <2>1. AsTold(c, e)'
    BY <1>i, <1>0, <1>3 DEF Receive, AsTold, TypeOK, historyVars
  <2>2. QED
    BY <1>0, <1>3, <2>1 DEF Receive, OnCourse, Now, serverVars
<1>4. CASE ReceiveFile(c) \/ ReceiveListing(c)
  BY <1>3, <1>4 DEF ReceiveFile, ReceiveListing, ClientStates
<1>5. CASE ReceiveSafe(c)
  BY <1>3, <1>5 DEF ReceiveSafe, ClientStates
<1>6. QED
  BY <1>2, <1>4, <1>5 DEF Client

\* The server makes of the next datagram what the client thinks it does.
LEMMA ServerOnCourse ==
  ASSUME Inv, NEW c \in Clients, OnCourse(c), Server(c)
  PROVE  /\ OnCourse(c)'
         /\ Expects(Now, Head(toServer[c]))
         /\ Now' = After(Now, Head(toServer[c]))
<1>i. TypeOK
  BY DEF Inv
<1>0. PICK e \in ServerStates : Leads(toServer[c], Now, e) /\ AsTold(c, e)
  BY DEF OnCourse
<1>1. Now \in ServerStates /\ toServer[c] \in Seq(Datagrams)
  BY <1>i DEF Now, ServerStates, TypeOK
<1>t. /\ Take(c) /\ UNCHANGED <<clientVars, historyVars>>
      /\ ServeFile(c) \/ \E w : ReadCommand(c, w)
  BY DEF Server, ServeGet, ServePut, ServeFile, ServeList, ServeDelete, ServeExit,
     ServeNothing, ReadCommand
<1> DEFINE t == Head(toServer[c])
<1>2. /\ Expects(Now, t) /\ Leads(Tail(toServer[c]), After(Now, t), e)
      /\ toServer[c] # <<>>
  BY <1>0, <1>1, <1>t, LeadsTail DEF Take
<1>3. Now' = After(Now, t)
  <2>1. CASE ServeFile(c)
    BY <1>i, <2>1 DEF ServeFile, Take, Now, After, Kept, TypeOK
  <2>2. ASSUME NEW w, ReadCommand(c, w)
        PROVE /\ phase = "command" /\ t \in Lines /\ Words(t) = t
              /\ After(Now, t) = Obeyed(Now, t)
              /\ command' = CommandOf(c) /\ w = CommandOf(c) /\ name' = NameOf(c)
    <3>1. t \in Lines
      BY <1>2, <2>2 DEF ReadCommand, Expects, Now
    <3>2. t \notin Contents
      BY <3>1, ConstantsAssumption
    <3>3. QED
      BY <2>2, <3>1, <3>2 DEF ReadCommand, Words, After, Now
  <2>3. ASSUME NEW w, ReadCommand(c, w)
        PROVE Obeyed(Now, t) =
                [up |-> w # "exit", phase |-> IF w = "put" THEN "data" ELSE "command",
                 command |-> w, name |-> NameOf(c),
                 files |-> IF w = "delete"
                             THEN [m \in Names |-> IF m = NameOf(c) THEN Absent ELSE files[m]]
                             ELSE files]
    BY <2>2, <2>3 DEF Obeyed, Now, CommandOf, NameOf
  <2>4. CASE ServeGet(c) \/ ServeList(c) \/ ServeNothing(c)
    BY <2>2, <2>3, <2>4 DEF ServeGet, ServeList, ServeNothing, ReadCommand, Take, Now
  <2>5. CASE ServePut(c)
    BY <2>2, <2>3, <2>5 DEF ServePut, ReadCommand, Take, Now
  <2>6. CASE ServeDelete(c)
    BY <2>2, <2>3, <2>6 DEF ServeDelete, ReadCommand, Take, Now
  <2>7. CASE ServeExit(c)
    BY <2>2, <2>3, <2>7 DEF ServeExit, ReadCommand, Take, Now
  <2>8. QED
    BY <2>1, <2>4, <2>5, <2>6, <2>7 DEF Server
<1>4. toServer'[c] = Tail(toServer[c])
  BY <1>i, <1>t DEF Take, TypeOK
<1>5. AsTold(c, e)'
  BY <1>0, <1>t DEF AsTold, clientVars, historyVars
<1>6. OnCourse(c)'
  BY <1>2, <1>3, <1>4, <1>5 DEF OnCourse
<1>7. QED
  BY <1>2, <1>3, <1>6

\* The steps of the others, and of the network, that leave c on its own.
LEMMA OthersApart ==
  ASSUME Inv, NEW c \in Clients, Undisturbed(c), Undisturbed(c)',
         NEW d \in Clients, d # c, User(d) \/ Client(d) \/ Server(d)
  PROVE  /\ UNCHANGED <<serverVars, netVars, pc, asked, upload, got, mine>>
         /\ listing'[c] = listing[c]
<1>1. toServer[d] = <<>> /\ pc[d] = "ready"
  BY Alone
<1>2. ~Client(d) /\ ~Server(d)
  BY <1>1 DEF Client, SendFile, ReceiveFile, ReceiveListing, ReceiveSafe, Server, ServeGet,
     ServePut, ServeFile, ServeList, ServeDelete, ServeExit, ServeNothing, ReadCommand, Take
<1>3. TypeUnsent(d)
  <2>1. d \notin senders'
    BY DEF Undisturbed
  <2>2. QED
    BY <1>2, <2>1, Typed DEF Type
<1>4. QED
  BY <1>3 DEF TypeUnsent, historyVars, Inv, TypeOK

LEMMA RepliesApart ==
  ASSUME NEW c \in Clients, NEW d \in Clients, DisturbReplies(d) \/ UNCHANGED vars,
         OnCourse(c)
  PROVE  OnCourse(c)'
<1>1. UNCHANGED <<serverVars, toServer, pc, listing, asked, mine>>
  BY DEF DisturbReplies, Fault, clientVars, vars, netVars, historyVars
<1>2. PICK e \in ServerStates : Leads(toServer[c], Now, e) /\ AsTold(c, e)
  BY DEF OnCourse
<1>3. AsTold(c, e)' /\ Now' = Now
  BY <1>1, <1>2 DEF AsTold, Now, serverVars
<1>4. QED
  BY <1>1, <1>2, <1>3 DEF OnCourse

LEMMA InitStore == Init => StoreInv
<1> SUFFICES ASSUME Init PROVE StoreInv
  OBVIOUS
<1>1. Inv
  BY InitInv
<1>2. ASSUME NEW c \in Clients PROVE OnCourse(c)
  <2>1. Now \in ServerStates
    BY <1>1 DEF Now, ServerStates, Inv, TypeOK
  <2>2. Leads(toServer[c], Now, Now)
    BY <2>1, LeadsNowhere DEF Init
  <2>3. AsTold(c, Now)
    BY DEF Init, AsTold, Now
  <2>4. QED
    BY <2>1, <2>2, <2>3 DEF OnCourse
<1>3. QED
  BY <1>1, <1>2 DEF StoreInv

LEMMA NextStore == StoreInv /\ [Next]_vars => StoreInv'
<1> SUFFICES ASSUME StoreInv, [Next]_vars PROVE StoreInv'
  OBVIOUS
<1>1. Inv /\ Inv'
  BY NextInv DEF StoreInv
<1>2. ASSUME NEW c \in Clients, Undisturbed(c)' PROVE OnCourse(c)'
  <2>1. /\ Undisturbed(c) /\ OnCourse(c)
        /\ \A d \in Clients : ~DisturbRequests(d) /\ ~LookupFails(d)
    BY <1>1, <1>2, TroubleStays DEF StoreInv
  <2>2. ASSUME NEW d \in Clients, User(d) \/ Client(d) \/ Server(d) PROVE OnCourse(c)'
    <3>1. CASE d = c
      BY <1>1, <2>1, <2>2, <3>1, UserOnCourse, ClientOnCourse, ServerOnCourse
    <3>2. CASE d # c
      <4>1. PICK e \in ServerStates : Leads(toServer[c], Now, e) /\ AsTold(c, e)
        BY <2>1 DEF OnCourse
      <4>2. /\ UNCHANGED <<serverVars, netVars, pc, asked, mine>> /\ listing'[c] = listing[c]
        BY <1>1, <1>2, <2>1, <2>2, <3>2, OthersApart
      <4>3. AsTold(c, e)' /\ Now' = Now /\ toServer' = toServer
        BY <4>1, <4>2 DEF AsTold, Now, serverVars, netVars
      <4>4. QED
        BY <4>1, <4>3 DEF OnCourse
    <3>3. QED
      BY <3>1, <3>2
  <2>3. QED
    BY <2>1, <2>2, RepliesApart DEF Next
<1>3. QED
  BY <1>1, <1>2 DEF StoreInv

(***************************************************************************)
(* When all that a lone client has sent has arrived, the server holds what *)
(* the client put and did not delete, for any files and names, however     *)
(* long the datagrams took (udp_server.c:88-186): put waits for no answer, *)
(* but the server takes the two datagrams of a put for what they are as    *)
(* long as none is lost, doubled or overtaken.                             *)
(***************************************************************************)
THEOREM StoreHoldsWhatWasPut == Spec => []StoreIsMine
<1>1. StoreInv => StoreIsMine
  <2> SUFFICES ASSUME StoreInv, NEW c \in Clients, Undisturbed(c), toServer[c] = <<>>
               PROVE files = mine
    BY DEF StoreIsMine
  <2>1. PICK e \in ServerStates : Leads(toServer[c], Now, e) /\ AsTold(c, e)
    BY DEF StoreInv, OnCourse
  <2>2. e = Now
    BY <2>1, LeadsArrived
  <2>3. QED
    BY <2>1, <2>2 DEF AsTold, Now
<1>2. QED
  BY <1>1, InitStore, NextStore, PTL DEF Spec

(***************************************************************************)
(* The server of a lone client ends only when the client was told to exit  *)
(* (udp_server.c:177), whatever its files read like.                       *)
(***************************************************************************)
THEOREM ServerEndsWhenTold == Spec => []EndsOnExit
<1>1. StoreInv => EndsOnExit
  <2> SUFFICES ASSUME StoreInv, NEW c \in Clients, Undisturbed(c), ~up
               PROVE pc[c] \in {"exit", "done"}
    BY DEF EndsOnExit
  <2>1. PICK e \in ServerStates : Leads(toServer[c], Now, e) /\ AsTold(c, e)
    BY DEF StoreInv, OnCourse
  <2>2. Now \in ServerStates /\ toServer[c] \in Seq(Datagrams) /\ Now.up = up
    BY DEF StoreInv, Inv, TypeOK, Now, ServerStates
  <2>3. toServer[c] = <<>>
    BY <2>1, <2>2, LeadsTail DEF Expects
  <2>4. e = Now
    BY <2>1, <2>3, LeadsArrived
  <2>5. QED
    BY <2>1, <2>2, <2>4 DEF AsTold
<1>2. QED
  BY <1>1, InitStore, NextStore, PTL DEF Spec

-----------------------------------------------------------------------------
(***************************************************************************)
(* The answers to a lone client.  A question is the last thing it has sent  *)
(* and its answer the only thing it is sent: until then there is none.      *)
(***************************************************************************)
Question(t) == t \in Lines /\ t.command \in {"get", "ls", "exit", NoWord}
Pending(c, t) ==
  \/ pc[c] = "get"  /\ t = Line("get", asked[c])
  \/ pc[c] = "ls"   /\ t \in {Line("ls", NoWord), Blank}
  \/ pc[c] = "exit" /\ t = Line("exit", NoWord)
Due(c) == CASE pc[c] = "get" -> FirstBytes(mine[asked[c]])
            [] pc[c] = "ls"  -> [names |-> Present(mine)]
            [] pc[c] = "exit" -> Safe
OneQuestion(c, q) == \A i \in 1..Len(q) : Question(q[i]) => i = Len(q) /\ Pending(c, q[i])
Attended(c) ==
  /\ OneQuestion(c, toServer[c])
  /\ pc[c] = "ls" => listing[c]
  /\ \/ toClient[c] = <<>>
     \/ /\ toServer[c] = <<>> /\ pc[c] \in {"get", "ls", "exit"}
        /\ toClient[c] = <<Due(c)>>
Matches(c) ==
  /\ got[c].command = "get" => got[c].body = got[c].due
  /\ got[c].command = "ls" => got[c].body \in Shown(got[c].due)
AnswerInv == StoreInv /\ \A c \in Clients : Clean(c) => Attended(c) /\ Matches(c)

LEMMA UserAsks ==
  ASSUME Inv, NEW c \in Clients, Attended(c), Matches(c), User(c)
  PROVE  Attended(c)' /\ Matches(c)'
<1>i. TypeOK /\ toServer[c] \in Seq(Datagrams)
  BY DEF Inv, TypeOK
<1>1. CASE TypeUnsent(c)
  <2>1. /\ pc' = pc /\ toServer' = toServer /\ toClient' = toClient /\ got' = got
        /\ asked' = asked /\ mine' = mine /\ pc[c] = "ready"
    BY <1>1 DEF TypeUnsent, netVars, historyVars
  <2>2. QED
    BY <2>1 DEF Attended, Matches, OneQuestion, Pending
<1>2. ASSUME NEW t \in Lines, NEW where \in ClientStates, Type(c, t, where),
             Question(t) => Pending(c, t)', where = "ls" => t.command \in {"ls", NoWord}
      PROVE Attended(c)' /\ Matches(c)'
  <2>1. pc[c] = "ready" /\ toClient[c] = <<>>
    BY <1>2 DEF Type, Attended
  <2>2. /\ toServer'[c] = Append(toServer[c], t) /\ toClient' = toClient
        /\ pc'[c] = where /\ (listing'[c] <=> t.command \in {"ls", NoWord})
        /\ got'[c] = Nothing
    BY <1>i, <1>2 DEF Type, Send, TypeOK
  <2>3. \A i \in 1..Len(toServer[c]) : ~Question(toServer[c][i])
    BY <2>1 DEF Attended, OneQuestion, Pending
  <2>4. OneQuestion(c, toServer[c])'
    <3>1. PICK q : q = Append(toServer[c], t)
      OBVIOUS
    <3>2. /\ Len(q) = Len(toServer[c]) + 1 /\ q[Len(q)] = t
          /\ \A i \in 1..Len(toServer[c]) : q[i] = toServer[c][i]
          /\ Len(toServer[c]) \in Nat
      BY <1>i, <3>1
    <3>3. ASSUME NEW i \in 1..Len(q), Question(q[i]) PROVE i = Len(q) /\ Pending(c, q[i])'
      <4>1. i = Len(q)
        BY <2>3, <3>2, <3>3
      <4>2. QED
        BY <1>2, <3>2, <3>3, <4>1
    <3>4. QED
      BY <2>2, <3>1, <3>3 DEF OneQuestion
  <2>5. QED
    BY <1>2, <2>1, <2>2, <2>4 DEF Attended, Matches, Nothing
<1>4. \A n \in Names : \A w \in {"get", "put", "delete"} :
         /\ Line(w, n) \in Lines /\ Line(w, n).command = w /\ Line(w, n).name = n
         /\ n # NoWord /\ w # NoWord
  BY ConstantsAssumption DEF Lines, Line, Commands
<1>5. \A w \in {"ls", "exit"} :
         /\ Line(w, NoWord) \in Lines /\ Line(w, NoWord).command = w /\ w # NoWord
  BY ConstantsAssumption DEF Lines, Line, Commands
<1>6. Blank \in Lines /\ Blank.command = NoWord
  BY DEF Lines, Line, Blank
<1>7. {"get", "put", "ls", "exit", "ready"} \subseteq ClientStates
  BY DEF ClientStates
<1>8. ASSUME NEW n \in Names, TypeGet(c, n) PROVE Attended(c)' /\ Matches(c)'
  <2>1. Type(c, Line("get", n), "get")
    BY <1>8 DEF TypeGet
  <2>2. pc'[c] = "get" /\ asked'[c] = n
    BY <1>i, <1>4, <2>1 DEF Type, TypeOK
  <2>3. PICK t \in Lines : t = Line("get", n)
    BY <1>4
  <2>4. Pending(c, t)'
    BY <2>2, <2>3 DEF Pending
  <2>5. QED
    BY <1>2, <1>7, <2>1, <2>3, <2>4
<1>9. ASSUME NEW n \in Names, NEW w \in {"put", "delete"}, NEW where \in {"put", "ready"},
             Type(c, Line(w, n), where)
      PROVE Attended(c)' /\ Matches(c)'
  <2>1. ~Question(Line(w, n))
    BY <1>4 DEF Question
  <2>2. PICK t \in Lines : t = Line(w, n) /\ ~Question(t)
    BY <1>4, <2>1
  <2>3. QED
    BY <1>2, <1>7, <1>9, <2>2
<1>10. CASE TypeList(c)
  <2>1. Type(c, Line("ls", NoWord), "ls")
    BY <1>10 DEF TypeList
  <2>2. pc'[c] = "ls"
    BY <1>i, <2>1 DEF Type, TypeOK
  <2>3. PICK t \in Lines : t = Line("ls", NoWord) /\ t.command = "ls"
    BY <1>5
  <2>4. Pending(c, t)'
    BY <2>2, <2>3 DEF Pending
  <2>5. QED
    BY <1>2, <1>7, <2>1, <2>3, <2>4
<1>11. CASE TypeExit(c)
  <2>1. Type(c, Line("exit", NoWord), "exit")
    BY <1>11 DEF TypeExit
  <2>2. pc'[c] = "exit"
    BY <1>i, <2>1 DEF Type, TypeOK
  <2>3. PICK t \in Lines : t = Line("exit", NoWord)
    BY <1>5
  <2>4. Pending(c, t)'
    BY <2>2, <2>3 DEF Pending
  <2>5. QED
    BY <1>2, <1>7, <2>1, <2>3, <2>4
<1>12. CASE TypeNothing(c)
  <2>1. Type(c, Blank, "ls")
    BY <1>12 DEF TypeNothing
  <2>2. pc'[c] = "ls"
    BY <1>i, <2>1 DEF Type, TypeOK
  <2>3. PICK t \in Lines : t = Blank /\ t.command = NoWord
    BY <1>6
  <2>4. Pending(c, t)'
    BY <2>2, <2>3 DEF Pending
  <2>5. QED
    BY <1>2, <1>7, <2>1, <2>3, <2>4
<1>13. QED
  BY <1>1, <1>8, <1>9, <1>10, <1>11, <1>12 DEF User, TypePut, TypeDelete

LEMMA ClientIsAnswered ==
  ASSUME Inv, NEW c \in Clients, Attended(c), Matches(c), Client(c)
  PROVE  Attended(c)' /\ Matches(c)'
<1>i. TypeOK /\ toServer[c] \in Seq(Datagrams)
  BY DEF Inv, TypeOK
<1>1. CASE SendFile(c)
  <2>1. pc[c] = "put" /\ toClient[c] = <<>>
    BY <1>1 DEF SendFile, Attended
  <2>2. PICK t \in Contents : t = FirstBytes(upload[c])
    BY <1>1, FirstBytesType DEF SendFile, Inv, Asks
  <2>3. ~Question(t)
    BY <2>2, ConstantsAssumption DEF Question
  <2>4. /\ toServer'[c] = Append(toServer[c], t) /\ toClient' = toClient
        /\ pc'[c] = "ready" /\ got' = got
    BY <1>i, <1>1, <2>2 DEF SendFile, Send, TypeOK
  <2>5. \A i \in 1..Len(toServer[c]) : ~Question(toServer[c][i])
    BY <2>1 DEF Attended, OneQuestion, Pending
  <2>6. PICK q : q = Append(toServer[c], t)
    OBVIOUS
  <2>7. /\ Len(q) = Len(toServer[c]) + 1 /\ q[Len(q)] = t
        /\ \A i \in 1..Len(toServer[c]) : q[i] = toServer[c][i]
        /\ Len(toServer[c]) \in Nat
    BY <1>i, <2>6
  <2>8. \A i \in 1..Len(q) : ~Question(q[i])
    BY <2>3, <2>5, <2>7
  <2>9. OneQuestion(c, toServer[c])'
    BY <2>4, <2>6, <2>8 DEF OneQuestion
  <2>10. QED
    BY <2>1, <2>4, <2>9 DEF Attended, Matches
<1>2. ASSUME NEW where \in {"ready", "done"}, Receive(c, where)
      PROVE /\ Attended(c)' /\ Head(toClient[c]) = Due(c)
  <2>1. toClient[c] = <<Due(c)>> /\ toServer[c] = <<>>
    BY <1>2 DEF Receive, Attended
  <2>2. toClient'[c] = <<>> /\ toServer' = toServer /\ pc'[c] = where
    BY <1>i, <1>2, <2>1 DEF Receive, TypeOK
  <2>3. QED
    BY <2>1, <2>2 DEF Attended, OneQuestion
<1>3. CASE ReceiveFile(c)
  <2>1. Receive(c, "ready") /\ Head(toClient[c]) = FirstBytes(mine[asked[c]])
    BY <1>2, <1>3 DEF ReceiveFile, Due
  <2>2. /\ got'[c].command = "get" /\ got'[c].body = Head(toClient[c])
        /\ got'[c].due = FirstBytes(mine[asked[c]])
    BY <1>i, <1>3 DEF ReceiveFile, TypeOK
  <2>3. QED
    BY <1>2, <2>1, <2>2 DEF Matches
<1>4. CASE ReceiveListing(c)
  <2>1. Receive(c, "ready") /\ Head(toClient[c]) = [names |-> Present(mine)]
    BY <1>2, <1>4 DEF ReceiveListing, Due
  <2>2. PICK r \in Shown(Head(toClient[c])) :
          got' = [got EXCEPT ![c] = [command |-> "ls", body |-> r,
                                     due |-> [names |-> Present(mine)]]]
    BY <1>4 DEF ReceiveListing
  <2>3. /\ got'[c].command = "ls" /\ got'[c].body = r
        /\ got'[c].due = [names |-> Present(mine)]
    BY <1>i, <2>2 DEF TypeOK
  <2>4. QED
    BY <1>2, <2>1, <2>2, <2>3 DEF Matches
<1>5. CASE ReceiveSafe(c)
  BY <1>2, <1>5 DEF ReceiveSafe, Matches
<1>6. QED
  BY <1>1, <1>3, <1>4, <1>5 DEF Client

LEMMA ServerAnswers ==
  ASSUME Inv, NEW c \in Clients, OnCourse(c), Attended(c), Matches(c), Server(c)
  PROVE  Attended(c)' /\ Matches(c)'
<1>i. TypeOK /\ toServer[c] \in Seq(Datagrams)
  BY DEF Inv, TypeOK
<1>t. /\ Take(c) /\ UNCHANGED <<clientVars, historyVars>>
  BY DEF Server, ServeGet, ServePut, ServeFile, ServeList, ServeDelete, ServeExit,
     ServeNothing, ReadCommand
<1> DEFINE t == Head(toServer[c])
<1>0. /\ pc' = pc /\ listing' = listing /\ asked' = asked /\ got' = got /\ mine' = mine
  BY <1>t DEF clientVars, historyVars
<1>1. PICK q : /\ q = Tail(toServer[c]) /\ toServer'[c] = q
               /\ toServer[c] # <<>> /\ toClient[c] = <<>>
  BY <1>i, <1>t DEF Take, TypeOK, Attended
<1>2. /\ Len(q) = Len(toServer[c]) - 1 /\ Len(q) \in Nat /\ t = toServer[c][1]
      /\ \A i \in 1..Len(q) : q[i] = toServer[c][i + 1]
      /\ Len(q) = 0 => q = <<>>
  BY <1>i, <1>1
<1>3. OneQuestion(c, toServer[c])'
  <2>1. ASSUME NEW i \in 1..Len(q), Question(q[i]) PROVE i = Len(q) /\ Pending(c, q[i])
    <3>1. i + 1 \in 1..Len(toServer[c]) /\ q[i] = toServer[c][i + 1]
      BY <1>2
    <3>2. QED
      BY <1>2, <2>1, <3>1 DEF Attended, OneQuestion
  <2>2. QED
    BY <1>0, <1>1, <2>1 DEF OneQuestion, Pending
<1>4. Expects(Now, t) /\ OnCourse(c)'
  BY ServerOnCourse
<1>5. Words(t) = t \/ phase = "data"
  BY <1>4, ConstantsAssumption DEF Expects, Now, Words
<1>6. toClient'[c] = <<>> \/ (q = <<>> /\ pc[c] \in {"get", "ls", "exit"} /\ toClient'[c] = <<Due(c)>>)
  <2>1. CASE toClient' = toClient
    BY <1>1, <2>1
  <2>2. CASE ServeGet(c) \/ ServeList(c) \/ ServeExit(c)
    <3>1. phase = "command" /\ t \in Lines /\ Words(t) = t
      BY <1>4, <1>5, <2>2 DEF ServeGet, ServeList, ServeExit, ReadCommand, Expects, Now
    <3>2. CommandOf(c) \in {"get", "ls", "exit"} /\ command' = CommandOf(c)
      BY <2>2 DEF ServeGet, ServeList, ServeExit, ReadCommand
    <3>3. Question(t)
      BY <3>1, <3>2 DEF CommandOf, Question
    <3>4. Len(toServer[c]) = 1 /\ Pending(c, t) /\ q = <<>>
      <4>1. 1 \in 1..Len(toServer[c])
        BY <1>2
      <4>2. 1 = Len(toServer[c]) /\ Pending(c, t)
        BY <1>2, <3>3, <4>1 DEF Attended, OneQuestion
      <4>3. QED
        BY <1>2, <4>2
    <3>5. PICK e \in ServerStates : Leads(<<>>, Now', e) /\ AsTold(c, e)'
      BY <1>1, <1>4, <3>4 DEF OnCourse
    <3>6. e = Now'
      BY <3>5, LeadsArrived
    <3>7. files' = mine /\ (listing[c] => command' = "ls")
      BY <1>0, <3>5, <3>6 DEF AsTold, Now
    <3>8. files' = files
      BY <2>2 DEF ServeGet, ServeList, ServeExit
    <3>9. CASE pc[c] = "get"
      <4>1. t = Line("get", asked[c]) /\ asked[c] \in Names
        BY <3>4, <3>9 DEF Pending, Inv, Asks
      <4>2. CommandOf(c) = "get" /\ NameOf(c) = asked[c]
        BY <3>1, <4>1, ConstantsAssumption DEF CommandOf, NameOf, Line, Commands
      <4>3. ServeGet(c)
        BY <2>2, <4>2 DEF ServeList, ServeExit, ReadCommand
      <4>4. toClient'[c] = <<>> \/ toClient'[c] = <<FirstBytes(files[asked[c]])>>
        BY <1>i, <1>1, <4>2, <4>3 DEF ServeGet, Reply, TypeOK
      <4>5. QED
        BY <3>4, <3>7, <3>8, <3>9, <4>4 DEF Due
    <3>10. CASE pc[c] = "ls"
      <4>1. listing[c]
        BY <3>10 DEF Attended
      <4>2. ServeList(c)
        BY <2>2, <3>7, <4>1 DEF ServeGet, ServeExit, ReadCommand
      <4>3. toClient'[c] = <<[names |-> Present(files)]>>
        BY <1>i, <1>1, <4>2 DEF ServeList, Reply, TypeOK
      <4>4. QED
        BY <3>4, <3>7, <3>8, <3>10, <4>3 DEF Due
    <3>11. CASE pc[c] = "exit"
      <4>1. t = Line("exit", NoWord)
        BY <3>4, <3>11 DEF Pending
      <4>2. CommandOf(c) = "exit"
        BY <3>1, <4>1, ConstantsAssumption DEF CommandOf, Line, Commands
      <4>3. ServeExit(c)
        BY <2>2, <4>2 DEF ServeGet, ServeList, ReadCommand
      <4>4. toClient'[c] = <<Safe>>
        BY <1>i, <1>1, <4>3 DEF ServeExit, Reply, TypeOK
      <4>5. QED
        BY <3>4, <3>11, <4>4 DEF Due
    <3>12. QED
      BY <3>4, <3>9, <3>10, <3>11 DEF Pending
  <2>3. QED
    BY <2>1, <2>2 DEF Server, ServePut, ServeFile, ServeDelete, ServeNothing
<1>7. Due(c)' = Due(c)
  BY <1>0 DEF Due
<1>8. Matches(c)'
  BY <1>0 DEF Matches
<1>9. Attended(c)'
  BY <1>0, <1>1, <1>3, <1>6, <1>7 DEF Attended
<1>10. QED
  BY <1>8, <1>9

(***************************************************************************)
(* get saves what was put last, cut to one datagram, and ls shows the files *)
(* there are (udp_client.c:93, :217): with one client and no faults, the    *)
(* answer a client reads is that to the question it asked.                  *)
(***************************************************************************)
THEOREM AnswersFitQuestions == Spec => []AnswersMatch
<1>1. Init => AnswerInv
  <2> SUFFICES ASSUME Init PROVE AnswerInv
    OBVIOUS
  <2>1. ASSUME NEW c \in Clients PROVE Attended(c) /\ Matches(c)
    BY DEF Init, Attended, OneQuestion, Matches, Nothing
  <2>2. QED
    BY <2>1, InitStore DEF AnswerInv
<1>2. AnswerInv /\ [Next]_vars => AnswerInv'
  <2> SUFFICES ASSUME AnswerInv, [Next]_vars PROVE AnswerInv'
    OBVIOUS
  <2>1. StoreInv /\ StoreInv' /\ Inv
    BY NextStore DEF AnswerInv, StoreInv
  <2>2. ASSUME NEW c \in Clients, Clean(c)' PROVE Attended(c)' /\ Matches(c)'
    <3>1. ToSet(<<>>) = {}
      BY DEF ToSet
    <3>2. Undisturbed(c)'
      BY <2>2, <3>1 DEF Clean, Undisturbed
    <3>3. /\ Clean(c) /\ Undisturbed(c) /\ Attended(c) /\ Matches(c) /\ OnCourse(c)
          /\ \A d \in Clients : ~DisturbRequests(d) /\ ~LookupFails(d) /\ ~DisturbReplies(d)
      BY <2>1, <2>2, <3>2, TroubleStays DEF AnswerInv, StoreInv
    <3>4. ASSUME NEW d \in Clients, User(d) \/ Client(d) \/ Server(d)
          PROVE Attended(c)' /\ Matches(c)'
      <4>1. CASE d = c
        BY <2>1, <3>3, <3>4, <4>1, UserAsks, ClientIsAnswered, ServerAnswers
      <4>2. CASE d # c
        <5>1. /\ UNCHANGED <<netVars, pc, asked, got, mine>> /\ listing'[c] = listing[c]
          BY <2>1, <3>2, <3>3, <3>4, <4>2, OthersApart
        <5>2. QED
          BY <3>3, <5>1 DEF Attended, Matches, OneQuestion, Pending, Due, netVars
      <4>3. QED
        BY <4>1, <4>2
    <3>5. CASE UNCHANGED vars
      BY <3>3, <3>5 DEF vars, netVars, clientVars, historyVars, Attended, Matches,
         OneQuestion, Pending, Due
    <3>6. QED
      BY <3>3, <3>4, <3>5 DEF Next
  <2>3. QED
    BY <2>1, <2>2 DEF AnswerInv
<1>3. AnswerInv => AnswersMatch
  BY DEF AnswerInv, AnswersMatch, Matches
<1>4. QED
  BY <1>1, <1>2, <1>3, PTL DEF Spec
=============================================================================
