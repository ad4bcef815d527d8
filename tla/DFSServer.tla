------------------------------ MODULE DFSServer ------------------------------
(***************************************************************************)
(* The handler threads of the DFS servers: handle_request of DFS_server.c, *)
(* one thread per connection, all threads of a server sharing its          *)
(* directory tree and its process.                                         *)
(*                                                                         *)
(* A connection is a pair of FIFO streams.  Each write of the peers is one *)
(* message and each read takes one message whole; inbox[h] holds what the  *)
(* client wrote and handler h has not read, reply[h] what h wrote and the  *)
(* client has not read.  What the client does is left to the modules that  *)
(* extend this one.                                                        *)
(***************************************************************************)
EXTENDS DFSPlacement, Sequences, FiniteSets

CONSTANTS
  Servers,       \* server processes
  Threads,       \* simultaneous connections of one server (a bound)
  Users, Passwords,
  Accounts,      \* the pairs in serverconfig.txt
  Prefixes,      \* <<u, v>> where the name u is a prefix of the name v, u # v
  KnownUsers,    \* users whose directory exists at the start
  Names,         \* file names
  Subs,          \* names of subdirectories
  Base,          \* stands for a user's base directory
  Contents,      \* file contents
  Length,        \* their lengths in bytes
  MAXBUF,        \* DFS_server.c:21
  Block,         \* the size of stdio's buffers
  None           \* no content, no user

Dirs  == Subs \cup {Base}
Slots == Users \X Dirs \X Names \X (0..4)  \* file paths; part 0 is ".name."
Handlers == Servers \X Threads
ServerOf(h) == h[1]

ASSUME ConstantsAssumption ==
  /\ Accounts \subseteq Users \X Passwords
  /\ Prefixes \subseteq Users \X Users
  /\ KnownUsers \subseteq Users
  /\ Names # {} /\ Base \notin Subs
  /\ None \notin Contents /\ None \notin Users
  /\ Length \in [Contents -> Nat]
  /\ MAXBUF \in Nat \ {0} /\ Block \in Nat \ {0}

(***************************************************************************)
(* What a file on a server, or a stretch of a stream, holds: one part of a *)
(* content or the front of one, zero bytes, or bytes of more than one      *)
(* origin.  good is the number of bytes at its beginning that are those of *)
(* the content and part it names.                                          *)
(***************************************************************************)
Piece(kind, content, part, size) ==
  [kind |-> kind, content |-> content, part |-> part, size |-> size, good |-> size]
Absent   == Piece("absent", None, 0, 0)
Zeros(n) == Piece("zeros", None, 0, n)
Torn(piece, k, n) ==
  [kind |-> "mixed", content |-> piece.content, part |-> piece.part,
   size |-> n, good |-> k]
Mixed(n) == Torn(Absent, 0, n)
Cut(content, part) ==
  LET n == part_size(Length[content], part)
  IN  IF n = 0 THEN Zeros(0) ELSE Piece("whole", content, part, n)
Pieces == [kind : {"absent", "whole", "front", "zeros", "mixed"},
           content : Contents \cup {None}, part : 0..4, size : Nat, good : Nat]

\* The first k bytes of a piece.
Front(piece, k) ==
  IF k = piece.size THEN piece ELSE IF k = 0 THEN Zeros(0)
  ELSE [piece EXCEPT !.kind = IF @ = "whole" THEN "front" ELSE @,
                     !.size = k, !.good = k]
\* A write of the bytes from..to of new at their place, over what the file
\* holds by then.  Bytes that have been written over, and holes, are unknown.
Begins(old, new, from) ==
  old.content = new.content /\ old.part = new.part /\ from <= old.good
Overwritten(old, new, from, to) ==
  LET n == IF old.size > to THEN old.size ELSE to
      k == IF Begins(old, new, from) /\ old.good > to THEN old.good ELSE to
  IN  IF from = 0 \/ Begins(old, new, from)
        THEN IF k = n THEN Front(new, n) ELSE Torn(new, k, n)
        ELSE Torn(old, IF old.good < from THEN old.good ELSE from, n)

\* What fread delivers into a zeroed buffer when the file held n bytes at
\* the time its size was taken and holds now by the time it is read.
\* Mutants: only the bytes fread returned; one byte more than was announced.
ReadBack_AsRead(now, n) == now
ReadBack_OneMore(now, n) == Mixed(n + 1)
ReadBack(now, n) == IF now.size = n THEN now
                    ELSE IF now.size = 0 THEN Zeros(n) ELSE Mixed(n)

(***************************************************************************)
(* Messages.  EOF is what read leaves in the zeroed buffer when the peer   *)
(* is gone; the operators As... are the sscanf of a buffer.                *)
(***************************************************************************)
Logins   == (Users \X Passwords) \cup {<<None, None>>}
Ops      == {"list", "put", "get", "MKDIR", "none"}
Commands == [op : Ops, name : Names, dir : Dirs]
NoCommand(name) == [op |-> "none", name |-> name, dir |-> Base]
Headers  == [size : Nat, part : 0..4]
Message(tag, body) == [tag |-> tag, body |-> body]
Messages == [tag : {"login"}, body : Logins]
       \cup [tag : {"command"}, body : Commands]
       \cup [tag : {"header"}, body : Headers]
       \cup [tag : {"request"}, body : SUBSET Parts]
       \cup [tag : {"data"}, body : Pieces]
       \cup [tag : {"verdict"}, body : BOOLEAN]
       \cup [tag : {"listing"}, body : SUBSET (Names \X (0..4))]
       \cup [tag : {"nothing", "eof"}, body : {None}]
EOF == Message("eof", None)

AsLogin(m)   == IF m.tag = "login" THEN m.body ELSE <<None, None>>
\* Mutants: the part number counts from 0; without a header the part is the
\* first; the flags are cleared after they
\* were copied; the buffer is cleared after it was read.
AsHeader_FromZero(m) == IF m.tag = "header" THEN [m.body EXCEPT !.part = @ - 1]
                        ELSE [size |-> 0, part |-> 0]
AsHeader_First(m) == IF m.tag = "header" THEN m.body ELSE [size |-> 0, part |-> 1]
AsRequest_Cleared(m) == {}
AsData_Cleared(m, n) == Zeros(n)
AsHeader(m)  == IF m.tag = "header" THEN m.body ELSE [size |-> 0, part |-> 0]
AsRequest(m) == IF m.tag = "request" THEN m.body ELSE {}
AsData(m, n) == IF m.tag = "data" THEN m.body ELSE Zeros(n)
\* sscanf of an empty buffer assigns nothing: store_command and one_argument
\* are uninitialized, so they hold what an earlier handler left on the stack
\* of this thread or something that names no command; num_args is -1.
Stale(c) == IF c.op = "MKDIR" THEN c ELSE [c EXCEPT !.dir = Base]
AsCommand(m, left) == IF m.tag = "command" THEN {m.body}
                      ELSE {Stale(left), NoCommand(left.name)}

\* What put writes for one part: its header and, unless it is empty, its bytes.
PartMessages(content, part) ==
  LET n    == part_size(Length[content], part)
      head == Message("header", [size |-> n, part |-> part])
  IN  IF n = 0 THEN <<head>> ELSE <<head, Message("data", Cut(content, part))>>

VARIABLES
  status,  \* status[s]: "up", "down" or "exited"
  dirs,    \* dirs[s]: the directories <<user, dir>> of server s
  disk,    \* disk[s][slot]: the file at that path
  pc,      \* pc[h]: what handler h is about to do; "free" without connection
  frame,   \* frame[h]: the variables of handle_request that are cleared for
           \* every connection: cred is client_username and client_password,
           \* round is j + 1 in the loops over two parts, hdr is file_size and
           \* file_part of the round, out the bytes of the part that are in the
           \* file, ask is requested_files and copy what stdio may have read of
           \* the file when get found out its size
  cmd,     \* store_command, one_argument, two_argument, which are not cleared
  inbox, reply,
  gone     \* gone[h]: the client end of the connection is closed

storeVars == <<status, dirs, disk>>
serverVars == <<status, dirs, disk, pc, frame, cmd, inbox, reply, gone>>

States == {"free", "auth", "scan", "mkdir", "command", "list", "header",
           "data", "request", "serve", "send", "spin"}
Frames == [cred : Logins, round : 1..2, hdr : Headers, out : Nat,
           ask : SUBSET Parts, copy : Pieces]
Cleared == [cred |-> <<None, None>>, round |-> 1,
            hdr |-> [size |-> 0, part |-> 0], out |-> 0, ask |-> {},
            copy |-> Absent]

TypeOK ==
  /\ status \in [Servers -> {"up", "down", "exited"}]
  /\ dirs \in [Servers -> SUBSET (Users \X Dirs)]
  /\ disk \in [Servers -> [Slots -> Pieces]]
  /\ pc \in [Handlers -> States]
  /\ frame \in [Handlers -> Frames]
  /\ cmd \in [Handlers -> Commands]
  /\ inbox \in [Handlers -> Seq(Messages)]
  /\ reply \in [Handlers -> Seq(Messages)]
  /\ gone \in [Handlers -> BOOLEAN]

EmptyDisk == [s \in Servers |-> [f \in Slots |-> Absent]]

\* main: the servers are started, over whatever their directories hold.
ServerInit ==
  /\ status = [s \in Servers |-> "up"]
  /\ dirs = [s \in Servers |-> KnownUsers \X {Base}]
  /\ pc = [h \in Handlers |-> "free"]
  /\ frame = [h \in Handlers |-> Cleared]
  /\ cmd = [h \in Handlers |-> NoCommand(CHOOSE n \in Names : TRUE)]
  /\ inbox = [h \in Handlers |-> <<>>]
  /\ reply = [h \in Handlers |-> <<>>]
  /\ gone = [h \in Handlers |-> FALSE]

-----------------------------------------------------------------------------
\* Building blocks of the handler's steps.

User(h) == frame[h].cred[1]
Tree(h) == <<User(h), cmd[h].dir>>                  \* filepath
PathOf(h, part) == <<User(h), cmd[h].dir, cmd[h].name, part>>
FileAt(h, part) == disk[ServerOf(h)][PathOf(h, part)]
Opens(h) == Tree(h) \in dirs[ServerOf(h)]           \* opendir, fopen succeed

\* read: returns when there is something to read or the peer has closed.
\* Mutant: the end of the stream is not noticed.
Readable_NoEOF(h) == inbox[h] # <<>>
Readable(h) == inbox[h] # <<>> \/ gone[h]
Incoming(h) == IF inbox[h] # <<>> THEN Head(inbox[h]) ELSE EOF
Consume(h)  ==
  inbox' = [inbox EXCEPT ![h] = IF @ # <<>> THEN Tail(@) ELSE @]
Send(h, m)  == reply' = [reply EXCEPT ![h] = Append(@, m)]

Goto(h, where, locals) == /\ pc' = [pc EXCEPT ![h] = where]
                          /\ frame' = [frame EXCEPT ![h] = locals]
\* handle_request returns and thread() closes the connection.
Close(h) == Goto(h, "free", Cleared)
\* End of one round of a loop over two parts that starts again at again.
\* Mutants: three rounds; one round.
NextRound_Thrice(h, again, locals) ==
  IF locals.round <= 2 THEN Goto(h, again, [locals EXCEPT !.round = @ + 1])
                       ELSE Close(h)
NextRound_Once(h, again, locals) == Close(h)
NextRound(h, again, locals) ==
  IF locals.round = 1 THEN Goto(h, again, [locals EXCEPT !.round = 2])
                      ELSE Close(h)

SetDisk(h, part, piece) ==
  disk' = [disk EXCEPT ![ServerOf(h)][PathOf(h, part)] = piece]

\* The end of the process, by exit(0) or by a signal: it ends the handlers
\* of all its threads, closes their connections and forgets their stacks.
Halt(s, how) ==
  /\ status' = [status EXCEPT ![s] = how]
  /\ pc' = [h \in Handlers |-> IF ServerOf(h) = s THEN "free" ELSE pc[h]]
  /\ frame' = [h \in Handlers |-> IF ServerOf(h) = s THEN Cleared ELSE frame[h]]
  /\ cmd' = [h \in Handlers |-> IF ServerOf(h) = s THEN NoCommand(cmd[h].name)
                                ELSE cmd[h]]
  /\ UNCHANGED <<dirs, disk, inbox, reply, gone>>

\* Mutants: the password is not compared; the last account is not looked at.
Valid_AnyPassword(login) == \E p \in Passwords : <<login[1], p>> \in Accounts
Valid_AllButOne(login) == login \in Accounts \ {CHOOSE a \in Accounts : TRUE}
Valid(login) == login \in Accounts
\* strncmp over the entries of "." with the length of the client's name.
UserDirSeen(s, u) ==
  \E v \in Users : <<v, Base>> \in dirs[s] /\ (v = u \/ <<u, v>> \in Prefixes)
\* mkdir of a subdirectory: without effect when it exists or its parent does
\* not; the code ignores the result.
\* Mutant: the directory is not made.
WithSubdirectory_Not(s, u, d) == dirs[s]
WithSubdirectory(s, u, d) ==
  IF <<u, Base>> \in dirs[s] THEN dirs[s] \cup {<<u, d>>} ELSE dirs[s]

-----------------------------------------------------------------------------
\* The steps of handle_request.

\* Lines 150-172: the login is read and answered; no match closes.
Authenticate(h) ==
  LET login == AsLogin(Incoming(h))
  IN  /\ pc[h] = "auth" /\ Readable(h)
      /\ Send(h, Message("verdict", Valid(login)))
      /\ IF Valid(login) THEN Goto(h, "scan", [frame[h] EXCEPT !.cred = login])
                         ELSE Close(h)
      /\ Consume(h)
      /\ UNCHANGED <<storeVars, cmd, gone>>

\* Lines 174-188: look for the user's directory among the entries of ".".
ScanForDirectory(h) ==
  /\ pc[h] = "scan"
  /\ Goto(h, IF UserDirSeen(ServerOf(h), User(h)) THEN "command" ELSE "mkdir",
          frame[h])
  /\ UNCHANGED <<storeVars, cmd, inbox, reply, gone>>

\* Lines 190-197: create it; a mkdir that fails ends the process.
MakeUserDirectory(h) ==
  /\ pc[h] = "mkdir"
  /\ <<User(h), Base>> \notin dirs[ServerOf(h)]
  /\ dirs' = [dirs EXCEPT ![ServerOf(h)] = @ \cup {<<User(h), Base>>}]
  /\ Goto(h, "command", frame[h])
  /\ UNCHANGED <<status, disk, cmd, inbox, reply, gone>>
UserDirectoryExists(h) ==
  /\ pc[h] = "mkdir" /\ <<User(h), Base>> \in dirs[ServerOf(h)]
  /\ Halt(ServerOf(h), "exited")

\* Where the if statements on store_command lead.
FirstState(op) == CASE op = "list" -> "list"    [] op = "put"   -> "header"
                    [] op = "get"  -> "request" [] op = "MKDIR" -> "free"
                    [] op = "none" -> "free"

\* Lines 202-218, 243-251, 296-304 and all of MKDIR: the command is read and
\* its subdirectory made.
ReadCommand(h) ==
  /\ pc[h] = "command" /\ Readable(h)
  /\ \E c \in AsCommand(Incoming(h), cmd[h]) :
       /\ cmd' = [cmd EXCEPT ![h] = c]
       /\ dirs' = [dirs EXCEPT ![ServerOf(h)] =
                     WithSubdirectory(ServerOf(h), User(h), c.dir)]
       /\ IF FirstState(c.op) = "free" THEN Close(h)
                                       ELSE Goto(h, FirstState(c.op), frame[h])
  /\ Consume(h)
  /\ UNCHANGED <<status, disk, reply, gone>>

\* Lines 219-238: the entries of the directory that are files.
Listing(h) == {e \in Names \X (0..4) :
  disk[ServerOf(h)][<<User(h), cmd[h].dir, e[1], e[2]>>].kind # "absent"}
List(h) ==
  /\ pc[h] = "list" /\ Opens(h)
  /\ Send(h, Message("listing", Listing(h)))
  /\ Close(h)
  /\ UNCHANGED <<storeVars, cmd, inbox, gone>>
\* Lines 233-236: a directory that cannot be opened ends the process.
ListUnopened(h) ==
  /\ pc[h] = "list" /\ ~Opens(h)
  /\ Halt(ServerOf(h), "exited")

\* Lines 254-270: the header of a part is read and its file opened with "w".
\* Without the directory fopen fails and nothing more is read in the round.
OpenPart(h) ==
  LET head == AsHeader(Incoming(h))
      locals == [frame[h] EXCEPT !.hdr = head, !.out = 0]
  IN  /\ pc[h] = "header" /\ Readable(h)
      /\ IF Opens(h) THEN SetDisk(h, head.part, Zeros(0)) ELSE UNCHANGED disk
      /\ IF Opens(h) /\ head.size # 0 THEN Goto(h, "data", locals)
                                      ELSE NextRound(h, "header", locals)
      /\ Consume(h)
      /\ UNCHANGED <<status, dirs, cmd, reply, gone>>

\* With more than MAXBUF bytes left and the peer gone read returns 0 for ever
\* and bytes_left never falls (lines 272-276).
NeverEnds(h) == Incoming(h).tag = "eof" /\ frame[h].hdr.size > MAXBUF

\* Lines 271-284: the bytes of the part are read and written, whatever number
\* of bytes read returned.  stdio writes whole blocks of them as it gets them,
\* at the thread's own place in the file, and fclose writes what is left.
Written(h) == IF frame[h].out + Block < frame[h].hdr.size
                THEN frame[h].out + Block ELSE frame[h].hdr.size
WritePart(h) ==
  LET hdr == frame[h].hdr
      to  == Written(h)
      locals == [frame[h] EXCEPT !.out = to]
  IN  /\ pc[h] = "data" /\ Readable(h) /\ ~NeverEnds(h)
      /\ SetDisk(h, hdr.part, Overwritten(FileAt(h, hdr.part),
                    AsData(Incoming(h), hdr.size), frame[h].out, to))
      /\ IF to = hdr.size THEN NextRound(h, "header", locals) /\ Consume(h)
                          ELSE Goto(h, "data", locals) /\ UNCHANGED inbox
      /\ UNCHANGED <<status, dirs, cmd, reply, gone>>
Spin(h) ==
  /\ pc[h] = "data" /\ Readable(h) /\ NeverEnds(h)
  /\ Goto(h, "spin", frame[h])
  /\ UNCHANGED <<storeVars, cmd, inbox, reply, gone>>

\* Lines 305-311: the four flags of the parts the client still wants.
ReadRequest(h) ==
  /\ pc[h] = "request" /\ Readable(h)
  /\ Goto(h, "serve", [frame[h] EXCEPT !.ask = AsRequest(Incoming(h))])
  /\ Consume(h)
  /\ UNCHANGED <<storeVars, cmd, reply, gone>>

\* The requested parts with a file; readdir may come upon any of them first.
Found(h) == {p \in frame[h].ask : FileAt(h, p).kind # "absent"}

\* Lines 387-391: none of the requested parts is here.
ServeNothing(h) ==
  /\ pc[h] = "serve" /\ Opens(h) /\ Found(h) = {}
  /\ Send(h, Message("nothing", None))
  /\ Close(h)
  /\ UNCHANGED <<storeVars, cmd, inbox, gone>>

\* Lines 392-395: a directory that cannot be opened is answered by nothing.
ServeUnopened(h) ==
  /\ pc[h] = "serve" /\ ~Opens(h)
  /\ NextRound(h, "serve", frame[h])
  /\ UNCHANGED <<storeVars, cmd, inbox, reply, gone>>

\* Lines 319-366: the first requested part that readdir meets is opened and
\* its size sent.
ServeHeader(h) ==
  /\ pc[h] = "serve" /\ Opens(h)
  /\ \E p \in Found(h) :
       LET head == [size |-> FileAt(h, p).size, part |-> p]
           locals == [frame[h] EXCEPT !.hdr = head, !.ask = @ \ {p},
                                      !.copy = FileAt(h, p)]
       IN  /\ Send(h, Message("header", head))
           /\ IF head.size # 0 THEN Goto(h, "send", locals)
                               ELSE NextRound(h, "serve", locals)
  /\ UNCHANGED <<storeVars, cmd, inbox, gone>>

\* Lines 367-380: the bytes of the part, as many as the header announced: of
\* the file as it is now, or of stdio's buffer, which the fseek to the end has
\* filled already when the file fits in it.
SendPart(h) ==
  LET hdr == frame[h].hdr
  IN  /\ pc[h] = "send"
      /\ \E now \in {FileAt(h, hdr.part), frame[h].copy} :
           Send(h, Message("data", ReadBack(now, hdr.size)))
      /\ NextRound(h, "serve", [frame[h] EXCEPT !.copy = Absent])
      /\ UNCHANGED <<storeVars, cmd, inbox, gone>>

\* A write on a connection the client has reset, which its kernel does when
\* bytes it was sent were not read or arrive after it closed: SIGPIPE, for
\* which the server has no handler.
BrokenPipe(h) ==
  /\ pc[h] \in {"list", "serve", "send"} /\ Opens(h)
  /\ gone[h] /\ reply[h] # <<>>
  /\ Halt(ServerOf(h), "exited")

HandlerStep(h) ==
  \/ Authenticate(h) \/ ScanForDirectory(h)
  \/ MakeUserDirectory(h) \/ UserDirectoryExists(h)
  \/ ReadCommand(h)  \/ List(h)         \/ ListUnopened(h)
  \/ OpenPart(h)     \/ WritePart(h)    \/ Spin(h)
  \/ ReadRequest(h)  \/ ServeHeader(h)  \/ SendPart(h)
  \/ ServeNothing(h) \/ ServeUnopened(h)

\* The process is killed from outside, and started again over its directory.
Crash(s)   == status[s] = "up" /\ Halt(s, "down")
Restart(s) == /\ status[s] = "down"
              /\ status' = [status EXCEPT ![s] = "up"]
              /\ UNCHANGED <<dirs, disk, pc, frame, cmd, inbox, reply, gone>>

\* main accepts a connection and starts a thread for it; msgs is what the
\* client has written by then and closed whether it is gone already.
Accept(h, msgs, closed) ==
  /\ status[ServerOf(h)] = "up" /\ pc[h] = "free"
  /\ Goto(h, "auth", Cleared)
  /\ inbox' = [inbox EXCEPT ![h] = msgs]
  /\ reply' = [reply EXCEPT ![h] = <<>>]
  /\ gone' = [gone EXCEPT ![h] = closed]
  /\ UNCHANGED <<storeVars, cmd>>

-----------------------------------------------------------------------------
(***************************************************************************)
(* A part is stored under its own number: the bytes in f.3 are the third   *)
(* part of the content they come from, in whatever order parts and         *)
(* connections arrive.                                                     *)
(***************************************************************************)
OwnNumber ==
  \A s \in Servers, f \in Slots :
     disk[s][f].kind = "whole" => disk[s][f].part = f[4]

(***************************************************************************)
(* When a handler reaches the command of an accepted user, the user's own  *)
(* directory is there ("Create a directory if none exists",                *)
(* DFS_server.c:190), and while it carries out list, put or get the        *)
(* directory it names is there.                                            *)
(***************************************************************************)
DirectoryReady ==
  \A h \in Handlers :
    /\ pc[h] \notin {"free", "auth", "scan", "mkdir"} =>
         <<User(h), Base>> \in dirs[ServerOf(h)]
    /\ pc[h] \in {"list", "header", "data", "request", "serve", "send"} =>
         Opens(h)

(***************************************************************************)
(* No sequence of sessions ends the server process: "The server is         *)
(* multithread and can service multiple clients and requests at the same   *)
(* time" (readme.txt:48).                                                  *)
(***************************************************************************)
NeverExits == \A s \in Servers : status[s] # "exited"

\* Handler h has the file at f of server s open for writing.
WritesTo(h, s, f) ==
  /\ ServerOf(h) = s /\ pc[h] \in {"data", "spin"}
  /\ PathOf(h, frame[h].hdr.part) = f
Writing(s, f) == \E h \in Handlers : WritesTo(h, s, f)

(***************************************************************************)
(* What a handler answers to a get can be cut back into parts by the       *)
(* client, which has nothing but the announced sizes to go by: the bytes   *)
(* after a header are as many as it said, also when another thread         *)
(* truncates the file in between, and no part is sent twice.               *)
(***************************************************************************)
Framed(q) ==
  \A i \in 1..Len(q) :
    /\ q[i].tag = "data" => /\ i > 1 /\ q[i-1].tag = "header"
                            /\ q[i].body.size = q[i-1].body.size
    /\ q[i].tag = "header" =>
         /\ \A j \in 1..(i-1) : q[j].tag = "header" =>
                                   q[j].body.part # q[i].body.part
         /\ (i < Len(q) /\ q[i].body.size # 0) => q[i+1].tag = "data"
ReplyFramed == \A h \in Handlers : Framed(reply[h])

(***************************************************************************)
(* Every connection is served to its end and its thread finishes (line     *)
(* 116).  A handler whose client goes away does not wait for it: it        *)
(* reads zeros, serves or exits, or else is in the loop of lines 271-276   *)
(* for good.                                                               *)
(***************************************************************************)
HandlersFinishOrSpin ==
  \A h \in Handlers : pc[h] # "free" ~> pc[h] \in {"free", "spin"}
=============================================================================
