------------------------------ MODULE UDPStore ------------------------------
(***************************************************************************)
(* The UDP file storage: the command loop of udp_server.c and those of the *)
(* udp_client.c programs that talk to it.                                  *)
(*                                                                         *)
(* A datagram is what the user typed or the bytes of a file.  The server   *)
(* tells the two apart only by when they arrive: the datagram after a put  *)
(* is the file.  What it reads as a command is Words of the datagram; the  *)
(* words sscanf does not find keep the values they had.                    *)
(***************************************************************************)
EXTENDS Integers, Sequences, FiniteSets, SequencesExt

CONSTANTS
  Clients, Names,
  Contents,   \* of files
  Uploads,    \* contents of the files the users have (a bound)
  WordsOf,    \* WordsOf[x]: the words sscanf finds in x, a record as in Line
  Cut,        \* Cut[x]: the first BUFSIZE bytes of x
  NoWord,     \* sscanf finds none
  Garbage,    \* what the memory of store_filename holds at the start
  Absent,     \* no file
  Safe,       \* the server's answer to exit
  Stored,     \* Stored[n]: the files the server has at the start
  Unwritable, \* names the server cannot create
  MaxShown,   \* names in the 300 bytes of a listing that the client reads
  MaxCommands, MaxFaults  \* bounds on what is typed and what goes wrong

Commands == {"get", "put", "ls", "delete", "exit", "other"}
Line(command, name) == [command |-> command, name |-> name]
Blank == Line(NoWord, NoWord)
Lines == [command : Commands, name : Names] \cup {Line("ls", NoWord),
                                                  Line("exit", NoWord), Blank}
Datagrams == Lines \cup Contents
Files     == Datagrams \cup {Absent}  \* a command may be stored as a file
Listings  == [names : SUBSET Names]
Replies   == Datagrams \cup Listings \cup {Safe}

ASSUME ConstantsAssumption ==
  /\ WordsOf \in [Contents -> [command : Commands \cup {NoWord},
                               name : Names \cup {NoWord}]]
  /\ Cut \in [Contents -> Contents] /\ \A x \in Contents : Cut[Cut[x]] = Cut[x]
  /\ Stored \in [Names -> Contents \cup {Absent}]
  /\ Unwritable \subseteq Names /\ Uploads \subseteq Contents
  /\ Garbage \notin Names /\ NoWord \notin Names \cup Commands \cup {Garbage}
  /\ Absent \notin Datagrams /\ Safe \notin Datagrams \cup Listings
  /\ Lines \cap Contents = {}
  /\ MaxShown \in Nat /\ MaxCommands \in Nat /\ MaxFaults \in Nat

Words(t) == IF t \in Contents THEN WordsOf[t] ELSE t
FirstBytes(t) == IF t \in Contents THEN Cut[t] ELSE t
Present(f) == {n \in Names : f[n] # Absent}

VARIABLES
  up,        \* the server has not ended
  phase,     \* which of its recvfrom it waits in: "command" or "data"
  command, name,  \* store_command and store_filename of the server
  files,     \* the files in its directory
  toServer,  \* toServer[c]: the datagrams on their way from c
  toClient,  \* toClient[c]: those on their way to c
  pc,        \* pc[c]: what client c does; "ready": it waits for its user
  listing,   \* listing[c]: its store_command is ls
  asked,     \* asked[c]: its store_filename
  upload,    \* upload[c]: the file it is about to send
  got,       \* got[c]: what its user got last, and what was due to it
  \* For the bounds and the properties only.
  typed,
  faults,    \* what has gone wrong: a sequence of FaultKinds
  senders,   \* the clients that have sent anything
  mine       \* the files as they are if one client alone has put and deleted them

serverVars  == <<up, phase, command, name, files>>
netVars     == <<toServer, toClient>>
clientVars  == <<pc, listing, asked, upload, got>>
historyVars == <<typed, faults, senders, mine>>
vars == <<serverVars, netVars, clientVars, historyVars>>

ClientStates == {"ready", "put", "get", "ls", "exit", "done"}
\* Datagrams to the server, datagrams to the clients, look-ups of senders.
FaultKinds == {"request", "reply", "lookup"}
Nothing == [command |-> "other", body |-> Absent, due |-> Absent]

TypeOK ==
  /\ up \in BOOLEAN /\ phase \in {"command", "data"}
  /\ command \in Commands /\ name \in Names \cup {Garbage}
  /\ files \in [Names -> Files]
  /\ toServer \in [Clients -> Seq(Datagrams)]
  /\ toClient \in [Clients -> Seq(Replies)]
  /\ pc \in [Clients -> ClientStates] /\ listing \in [Clients -> BOOLEAN]
  /\ asked \in [Clients -> Names \cup {Garbage}]
  /\ upload \in [Clients -> Contents \cup {Absent}]
  /\ got \in [Clients -> [command : {"get", "ls", "other"},
                          body : Replies \cup {Absent},
                          due : Files \cup Listings]]
  /\ typed \in 0..MaxCommands /\ faults \in Seq(FaultKinds) /\ Len(faults) <= MaxFaults
  /\ senders \in SUBSET Clients
  /\ mine \in [Names -> Files]

Init ==
  /\ up = TRUE /\ phase = "command"
  /\ command = "other" /\ name = Garbage
  /\ files = Stored
  /\ toServer = [c \in Clients |-> <<>>]
  /\ toClient = [c \in Clients |-> <<>>]
  /\ pc = [c \in Clients |-> "ready"]
  /\ listing = [c \in Clients |-> FALSE]
  /\ asked = [c \in Clients |-> Garbage]
  /\ upload = [c \in Clients |-> Absent]
  /\ got = [c \in Clients |-> Nothing]
  /\ typed = 0 /\ faults = <<>>
  /\ senders = {}
  /\ mine = Stored

-----------------------------------------------------------------------------
(***************************************************************************)
(* The client.                                                             *)
(***************************************************************************)
Send(c, t) == toServer' = [toServer EXCEPT ![c] = Append(@, t)]

\* The user types a line that is sent; sscanf reads the command (and the
\* name) out of it.
Type(c, t, where) ==
  /\ pc[c] = "ready" /\ typed < MaxCommands
  /\ typed' = typed + 1
  /\ senders' = senders \cup {c}
  /\ Send(c, t)
  /\ pc' = [pc EXCEPT ![c] = where]
  /\ listing' = [listing EXCEPT ![c] = t.command \in {"ls", NoWord}]
  /\ asked' = [asked EXCEPT ![c] = IF t.name = NoWord THEN @ ELSE t.name]
  /\ got' = [got EXCEPT ![c] = Nothing]
  /\ UNCHANGED <<serverVars, toClient, faults>>

TypeGet(c, n)  == Type(c, Line("get", n), "get") /\ UNCHANGED <<upload, mine>>
TypeList(c)    == Type(c, Line("ls", NoWord), "ls") /\ UNCHANGED <<upload, mine>>
TypeExit(c)    == Type(c, Line("exit", NoWord), "exit") /\ UNCHANGED <<upload, mine>>
TypeDelete(c, n) == /\ Type(c, Line("delete", n), "ready")
                    /\ mine' = [mine EXCEPT ![n] = Absent]
                    /\ UNCHANGED upload
TypePut(c, n, x) == /\ Type(c, Line("put", n), "put")
                    /\ upload' = [upload EXCEPT ![c] = x]
                    /\ UNCHANGED mine
\* An empty line leaves store_command as it is: after ls it is sent too.
TypeNothing(c) == /\ listing[c]
                  /\ Type(c, Blank, "ls")
                  /\ UNCHANGED <<upload, mine>>

\* A command without a name, of an absent file or that is none: not sent.
TypeUnsent(c) ==
  /\ pc[c] = "ready"
  /\ listing' = [listing EXCEPT ![c] = FALSE]
  /\ UNCHANGED <<serverVars, netVars, pc, asked, upload, got, historyVars>>

\* The second datagram of a put, lines 128-148.
SendFile(c) ==
  /\ pc[c] = "put"
  /\ Send(c, FirstBytes(upload[c]))
  /\ pc' = [pc EXCEPT ![c] = "ready"]
  /\ upload' = [upload EXCEPT ![c] = Absent]
  /\ mine' = IF asked[c] \in Unwritable THEN mine
             ELSE [mine EXCEPT ![asked[c]] = FirstBytes(upload[c])]
  /\ UNCHANGED <<serverVars, toClient, listing, asked, got, typed, faults, senders>>

\* recvfrom returns the next datagram, whichever command it answers.
Receive(c, where) ==
  /\ toClient[c] # <<>>
  /\ toClient' = [toClient EXCEPT ![c] = Tail(@)]
  /\ pc' = [pc EXCEPT ![c] = where]
  /\ UNCHANGED <<serverVars, toServer, listing, asked, upload, historyVars>>
ReceiveFile(c) ==
  /\ pc[c] = "get" /\ Receive(c, "ready")
  /\ got' = [got EXCEPT ![c] = [command |-> "get", body |-> Head(toClient[c]),
                                due |-> FirstBytes(mine[asked[c]])]]
\* Of a listing the client reads what fits into 300 bytes.
Shown(r) ==
  IF r \in Listings /\ Cardinality(r.names) > MaxShown
    THEN {[names |-> S] : S \in {T \in SUBSET r.names : Cardinality(T) = MaxShown}}
    ELSE {r}
ReceiveListing(c) ==
  /\ pc[c] = "ls" /\ Receive(c, "ready")
  /\ \E r \in Shown(Head(toClient[c])) :
       got' = [got EXCEPT ![c] = [command |-> "ls", body |-> r,
                                  due |-> [names |-> Present(mine)]]]
ReceiveSafe(c) == pc[c] = "exit" /\ Receive(c, "done") /\ UNCHANGED got

-----------------------------------------------------------------------------
(***************************************************************************)
(* The server.  A command word or a name that the datagram does not hold   *)
(* is the one of the last command, whoever sent that.                      *)
(***************************************************************************)
CommandOf(c) == LET w == Words(Head(toServer[c])).command
                IN  IF w = NoWord THEN command ELSE w
\* Mutants: the name is what was scanned, or the one of the command before.
NameOf_AsScanned(c) == Words(Head(toServer[c])).name
NameOf_Stale(c) == name
NameOf(c) == LET w == Words(Head(toServer[c])).name
             IN  IF w = NoWord THEN name ELSE w

Take(c) == /\ up /\ toServer[c] # <<>>
           /\ toServer' = [toServer EXCEPT ![c] = Tail(@)]
ReadCommand(c, w) == /\ phase = "command" /\ Take(c) /\ CommandOf(c) = w
                     /\ command' = w /\ name' = NameOf(c)
                     /\ UNCHANGED <<clientVars, historyVars>>
Reply(c, r) == toClient' = [toClient EXCEPT ![c] = Append(@, r)]

ServeGet(c) ==
  /\ ReadCommand(c, "get")
  /\ IF NameOf(c) \in Present(files) THEN Reply(c, FirstBytes(files[NameOf(c)]))
                                     ELSE UNCHANGED toClient
  /\ UNCHANGED <<up, phase, files>>
\* Mutant: the server does not wait for the file.
ServePut_NoWait(c) ==
  /\ ReadCommand(c, "put")
  /\ UNCHANGED <<up, phase, files, toClient>>
ServePut(c) ==
  /\ ReadCommand(c, "put")
  /\ phase' = "data"
  /\ UNCHANGED <<up, files, toClient>>
\* The file is the next datagram, whoever sent it.
ServeFile(c) ==
  /\ phase = "data" /\ Take(c)
  /\ phase' = "command"
  /\ files' = IF name \in Names \ Unwritable
                THEN [files EXCEPT ![name] = Head(toServer[c])] ELSE files
  /\ UNCHANGED <<up, command, name, toClient, clientVars, historyVars>>
\* Mutant: nothing is sent when there is nothing to list.
ServeList_Something(c) ==
  /\ ReadCommand(c, "ls")
  /\ IF Present(files) = {} THEN UNCHANGED toClient
                            ELSE Reply(c, [names |-> Present(files)])
  /\ UNCHANGED <<up, phase, files>>
ServeList(c) ==
  /\ ReadCommand(c, "ls")
  /\ Reply(c, [names |-> Present(files)])
  /\ UNCHANGED <<up, phase, files>>
ServeDelete(c) ==
  /\ ReadCommand(c, "delete")
  /\ files' = [n \in Names |-> IF n = NameOf(c) THEN Absent ELSE files[n]]
  /\ UNCHANGED <<up, phase, toClient>>
ServeExit(c) ==
  /\ ReadCommand(c, "exit")
  /\ Reply(c, Safe)
  /\ up' = FALSE
  /\ UNCHANGED <<phase, files>>
ServeNothing(c) ==
  /\ ReadCommand(c, "other")
  /\ UNCHANGED <<up, phase, files, toClient>>

-----------------------------------------------------------------------------
(***************************************************************************)
(* What may go wrong.                                                      *)
(***************************************************************************)
Fault(k) == /\ Len(faults) < MaxFaults /\ faults' = Append(faults, k)
            /\ UNCHANGED <<typed, senders, mine>>
\* The sequences that the network makes of q: a datagram is lost, comes twice
\* or is overtaken.
Disturbed(q) ==
  {RemoveAt(q, i) : i \in 1..Len(q)}
    \cup {InsertAt(q, j, q[i]) : i \in 1..Len(q), j \in 1..(Len(q) + 1)}
    \cup {InsertAt(RemoveAt(q, i), j, q[i]) : i \in 1..Len(q), j \in 1..Len(q)}
DisturbRequests(c) ==
  /\ Fault("request")
  /\ \E q \in Disturbed(toServer[c]) : toServer' = [toServer EXCEPT ![c] = q]
  /\ UNCHANGED <<serverVars, toClient, clientVars>>
DisturbReplies(c) ==
  /\ Fault("reply")
  /\ \E q \in Disturbed(toClient[c]) : toClient' = [toClient EXCEPT ![c] = q]
  /\ UNCHANGED <<serverVars, toServer, clientVars>>
\* gethostbyaddr does not know the sender: error() ends the server.
LookupFails(c) ==
  /\ Fault("lookup")
  /\ phase = "command" /\ Take(c)
  /\ up' = FALSE
  /\ UNCHANGED <<phase, command, name, files, toClient, clientVars>>

-----------------------------------------------------------------------------
User(c) ==
  \/ \E n \in Names : TypeGet(c, n) \/ TypeDelete(c, n)
  \/ \E n \in Names, x \in Uploads : TypePut(c, n, x)
  \/ TypeList(c) \/ TypeExit(c) \/ TypeNothing(c) \/ TypeUnsent(c)
Client(c) == SendFile(c) \/ ReceiveFile(c) \/ ReceiveListing(c) \/ ReceiveSafe(c)
Server(c) ==
  \/ ServeGet(c) \/ ServePut(c) \/ ServeFile(c) \/ ServeList(c)
  \/ ServeDelete(c) \/ ServeExit(c) \/ ServeNothing(c)

Next == \E c \in Clients :
          \/ User(c) \/ Client(c) \/ Server(c)
          \/ DisturbRequests(c) \/ DisturbReplies(c) \/ LookupFails(c)
Spec == Init /\ [][Next]_vars
\* The processes go on when they can; the users owe nothing.
FairSpec == Spec /\ \A c \in Clients : WF_vars(Client(c)) /\ WF_vars(Server(c))

-----------------------------------------------------------------------------
\* Only c has sent anything, and nothing has gone wrong with what it sent;
\* nor, if Clean, with what it was answered.
Undisturbed(c) == senders \subseteq {c} /\ ToSet(faults) \subseteq {"reply"}
Clean(c) == senders \subseteq {c} /\ faults = <<>>

(***************************************************************************)
(* When all that a lone client sent has arrived, the server holds what the *)
(* client put and did not delete, although put does not wait for an answer *)
(* and a file may read like a command.  Replies that are lost, late or     *)
(* come twice confuse the client but never its server.                     *)
(***************************************************************************)
StoreIsMine ==
  \A c \in Clients :
    Undisturbed(c) /\ toServer[c] = <<>> /\ pc[c] # "put" => files = mine

(***************************************************************************)
(* get saves the file as it was put last, cut to one datagram, and ls      *)
(* shows the files there are, as many as fit: the answer read is always    *)
(* that to the question asked.                                             *)
(***************************************************************************)
AnswersMatch ==
  \A c \in Clients : Clean(c) =>
    /\ got[c].command = "get" => got[c].body = got[c].due
    /\ got[c].command = "ls" => got[c].body \in Shown(got[c].due)

(***************************************************************************)
(* The server of a lone client ends only when the client is told to exit,  *)
(* not when a file it stores reads like that or a reply goes astray.       *)
(***************************************************************************)
EndsOnExit ==
  \A c \in Clients : Undisturbed(c) /\ ~up => pc[c] \in {"exit", "done"}

(***************************************************************************)
(* A lone client is answered, unless it gets a file that does not exist.   *)
(***************************************************************************)
Answered ==
  \A c \in Clients :
    (pc[c] \in {"ls", "exit"} \/ (pc[c] = "get" /\ asked[c] \in Present(mine)))
      ~> (pc[c] \in {"ready", "done"} \/ ~Clean(c))
=============================================================================
