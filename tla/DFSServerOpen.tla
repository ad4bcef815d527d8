---------------------------- MODULE DFSServerOpen ----------------------------
(***************************************************************************)
(* The DFS servers under any clients that speak the protocol: a session is *)
(* everything one connection will carry, and MayHangUp lets the client go  *)
(* away after any prefix of it.                                            *)
(***************************************************************************)
EXTENDS DFSServer

CONSTANTS
  Sessions,    \* [login, command, content, pair, asked]
  MayHangUp,   \* clients may close before they have sent everything
  MayCrash     \* servers may be killed and restarted

ASSUME SessionsAssumption ==
  /\ Sessions \subseteq [login : Users \X Passwords, command : Commands,
                         content : Contents, pair : Pairs, asked : SUBSET Parts]
  /\ MayHangUp \in BOOLEAN /\ MayCrash \in BOOLEAN

\* The messages of one connection, in the order the client writes them.
SessionMessages(x) ==
  <<Message("login", x.login), Message("command", x.command)>> \o
  CASE x.command.op = "put" -> PartMessages(x.content, PartSent(x.pair, 0)) \o
                               PartMessages(x.content, PartSent(x.pair, 1))
    [] x.command.op = "get" -> <<Message("request", x.asked)>>
    [] OTHER -> <<>>

Dial(h) == \E x \in Sessions : Accept(h, SessionMessages(x), FALSE)
HangUp(h) ==
  /\ MayHangUp
  /\ \E x \in Sessions : \E k \in 0..Len(SessionMessages(x)) :
       Accept(h, SubSeq(SessionMessages(x), 1, k), TRUE)
Fail(s) == MayCrash /\ (Crash(s) \/ Restart(s))

VARIABLE overlapped  \* history: overlapped[s] are the files of server s that
                     \* were opened last while another thread was writing them
openVars == <<serverVars, overlapped>>

\* What a step of handler h does to the history: OpenPart, which alone starts
\* at "header", opens a file.
Note(h) ==
  LET s == ServerOf(h)
      opened == PathOf(h, AsHeader(Incoming(h)).part)
  IN  overlapped' = IF pc[h] # "header" THEN overlapped ELSE
        [overlapped EXCEPT ![s] = IF Writing(s, opened) THEN @ \cup {opened}
                                                     ELSE @ \ {opened}]
Step(h) == HandlerStep(h) /\ Note(h)

OpenNext ==
  \/ \E h \in Handlers : Step(h)
  \/ /\ \/ \E h \in Handlers : BrokenPipe(h) \/ Dial(h) \/ HangUp(h)
        \/ \E s \in Servers : Fail(s)
     /\ UNCHANGED overlapped

OpenInit == ServerInit /\ disk = EmptyDisk /\ overlapped = [s \in Servers |-> {}]
OpenSpec == OpenInit /\ [][OpenNext]_openVars

\* The kernel runs every thread that is not blocked in read.
FairOpenSpec ==
  OpenSpec /\ \A h \in Handlers : WF_openVars(Step(h))

-----------------------------------------------------------------------------
(***************************************************************************)
(* Whatever file a user's tree holds came from that user's own put: with   *)
(* the contents of the sessions marked by the user who sends them, no      *)
(* thread ever writes one user's bytes under another name, also when       *)
(* several threads write and when logins fail.                             *)
(***************************************************************************)
SenderOf(content) == {x.login[1] : x \in {y \in Sessions :
   y.content = content /\ y.command.op = "put" /\ y.login \in Accounts}}
OwnFiles ==
  \A s \in Servers, f \in Slots :
     disk[s][f].kind = "whole" => f[1] \in SenderOf(disk[s][f].content)

\* The sessions that put the file at f.
Puts(f) == {x \in Sessions : /\ x.command.op = "put" /\ x.login \in Accounts
                             /\ x.login[1] = f[1] /\ x.command.dir = f[2]
                             /\ x.command.name = f[3]}

(***************************************************************************)
(* A handler whose client went away after the login carries out the        *)
(* command an earlier connection left on its stack (DFS_server.c:206), and *)
(* finds no header behind it (line 257): that never creates or truncates a *)
(* numbered part.  A part is there only under a user, directory, name and  *)
(* number that a put of this user was to store.                            *)
(***************************************************************************)
OwnParts ==
  \A s \in Servers, f \in Slots :
    f[4] # 0 /\ disk[s][f].kind # "absent" =>
      \E x \in Puts(f) : f[4] \in PairParts(x.pair)

(***************************************************************************)
(* A file nobody is writing is the whole part of some put (lines 267-284)  *)
(* while the server runs, although it is written block by block, unless    *)
(* the threads that wrote it last did so at a time.  Then it is whole only *)
(* if all that is ever put there has one size and fits in one block of     *)
(* stdio; a put that is alone repairs what such threads left.  Files of no *)
(* bytes are whole parts of contents of fewer than four bytes.             *)
(***************************************************************************)
HasEmptyParts == \E c \in Contents : Length[c] < 4
Fits(f, n)  == \A x \in Puts(f) : n = part_size(Length[x.content], f[4])
OneBlock(f) == \E n \in 0..Block : Fits(f, n)
WholeWhenQuiet ==
  \A s \in Servers, f \in Slots :
    \/ status[s] # "up"
    \/ disk[s][f].kind \in {"absent", "whole"}
    \/ disk[s][f] = Zeros(0) /\ HasEmptyParts
    \/ Writing(s, f)
    \/ f \in overlapped[s] /\ ~OneBlock(f)

(***************************************************************************)
(* What the servers are said to do with clients at the same time: they     *)
(* "store file pieces from client put" and "can service multiple clients   *)
(* and requests at the same time" (readme.txt:45-48), so that a file       *)
(* nobody is writing is a piece that some client put.                      *)
(***************************************************************************)
StoresPieces ==
  \A s \in Servers, f \in Slots :
    Writing(s, f) \/ disk[s][f].kind \in {"absent", "whole"}
=============================================================================
