--------------------------------- MODULE DFS ---------------------------------
(***************************************************************************)
(* The distributed file system: clients, each running the command loop of  *)
(* DFS_client.c, and the four servers of DFSServer.                        *)
(***************************************************************************)
EXTENDS DFSCommand

CONSTANTS
  Clients,
  Login,       \* Login[c]: the last line of c's configuration file
  Plans,       \* Plans[c]: sequences of commands c's user may type (a bound)
  Digest,      \* Digest[content]: see get_md5_mod
  Stored,      \* Stored[k]: content an earlier put has left at the path k
  Patient,     \* users wait until the servers have finished with a command
  Outages,     \* servers are killed and restarted: "never", "idle" or "any"
  MaxDown,     \* servers down at the same time (a bound)
  MaxFiles,    \* descriptors a client may have besides the standard three
  MayKill      \* clients may be stopped with ctrl-c at any moment

ASSUME ClientAssumption ==
  /\ Servers = 1..MAXSERVERS   \* the order of the configuration file
  /\ Login \in [Clients -> Users \X Passwords]
  /\ Digest \in [Contents -> Digests]
  /\ MaxDown \in Nat /\ MaxFiles \in Nat
  /\ Patient \in BOOLEAN /\ MayKill \in BOOLEAN
  /\ Outages \in {"never", "idle", "any"}

Paths == Users \X Dirs \X Names
ASSUME PlansAssumption ==
  /\ Stored \in [Paths -> Contents \cup {None}]
  /\ \A c \in Clients : \A plan \in Plans[c] : plan \in Seq(TaskTypes)

VARIABLES
  cpc,      \* what the client is about to do
  job,      \* the variables of the command being carried out; see Jobs
  sess,     \* sess[c]: the handler at the other end of sockfd, or None
  peer,     \* peer[h]: the client that connected to h; its socket is open
            \* unless gone[h], because put, get and MKDIR never close it
  outbox,   \* what is left to write in this session
  last,     \* arg1 and arg2 of the last header, or None: never cleared
  heap,     \* heap[c][p]: what file_bufs[p - 1] points to
  open,     \* sockets of c that are open
  file,     \* the file in the client's directory, part by part
  listed,   \* the names the last list called complete
  todo,     \* todo[c]: the commands the user has still to type
  \* History, for the properties only.
  latest,   \* latest[k]: content of the last put of the path k
  missed    \* missed[k]: servers that put did not reach

clientVars == <<cpc, job, sess, peer, outbox, last, heap, open, file, listed,
                todo>>
historyVars == <<latest, missed>>
vars == <<serverVars, clientVars, historyVars>>

ClientStates == {"idle", "connect", "verdict", "write", "listing", "answer",
                 "bytes", "spin", "exited"}
\* Not initialized; to a buffer in use; to one that was freed; freed although
\* it pointed to no buffer in use.
Pointers == {"unset", "live", "freed", "wild"}
ClientTypeOK ==
  /\ cpc \in [Clients -> ClientStates]
  /\ job \in [Clients -> Jobs]
  /\ sess \in [Clients -> Handlers \cup {None}]
  /\ peer \in [Handlers -> Clients \cup {None}]
  /\ outbox \in [Clients -> Seq(Messages)]
  /\ last \in [Clients -> Headers \cup {None}]
  /\ heap \in [Clients -> [Parts -> Pointers]] /\ open \in [Clients -> 0..MaxFiles]
  /\ file \in [Clients -> [Parts -> Pieces]]
  /\ listed \in [Clients -> SUBSET Names]
  /\ todo \in [Clients -> Seq(TaskTypes)]
  /\ latest \in [Paths -> Contents \cup {None}]
  /\ missed \in [Paths -> SUBSET Servers]

NoBufs == [p \in Parts |-> Absent]
NewJob(task) ==
  [task |-> task, turn |-> 1,
   pair |-> IF task.op = "put" THEN get_md5_mod(Digest[task.content]) ELSE 0,
   round |-> 1, want |-> Parts, bufs |-> NoBufs, seen |-> {},
   lost |-> FALSE, offline |-> {}]

\* The files of a put that reached all four servers.
StoredDisk ==
  [s \in Servers |-> [f \in Slots |->
     LET x == Stored[<<f[1], f[2], f[3]>>]
     IN  IF x # None /\ f[4] \in PairParts(Layout(get_md5_mod(Digest[x]))[s])
           THEN Cut(x, f[4]) ELSE Absent]]

Init ==
  /\ ServerInit /\ disk = StoredDisk
  /\ cpc = [c \in Clients |-> "idle"]
  /\ job = [c \in Clients |->
             NewJob([op |-> "MKDIR", name |-> CHOOSE n \in Names : TRUE,
                     dir |-> Base, content |-> None])]
  /\ sess = [c \in Clients |-> None]
  /\ peer = [h \in Handlers |-> None]
  /\ outbox = [c \in Clients |-> <<>>]
  /\ last = [c \in Clients |-> None]
  /\ heap = [c \in Clients |-> [p \in Parts |-> "unset"]]
  /\ open = [c \in Clients |-> 0]
  /\ file = [c \in Clients |-> NoBufs]
  /\ listed = [c \in Clients |-> {}]
  /\ todo \in {t \in [Clients -> UNION {Plans[c] : c \in Clients}] :
                \A c \in Clients : t[c] \in Plans[c]}
  /\ latest = Stored
  /\ missed = [k \in Paths |-> {}]

-----------------------------------------------------------------------------
PathKey(c) == <<Login[c][1], job[c].task.dir, job[c].task.name>>

\* The server's side of the connection is closed.
Closed(h) == pc[h] = "free"
\* read: the next message, or EOF once the server has closed.
\* Mutant: the end of the stream is not noticed.
Answered_NoEOF(c) == reply[sess[c]] # <<>>
Answered(c) == reply[sess[c]] # <<>> \/ Closed(sess[c])
Answer(c)   == IF reply[sess[c]] # <<>> THEN Head(reply[sess[c]]) ELSE EOF
TakeAnswer(c) ==
  reply' = [reply EXCEPT ![sess[c]] = IF @ # <<>> THEN Tail(@) ELSE @]

Step(c, where, j) == /\ cpc' = [cpc EXCEPT ![c] = where]
                     /\ job' = [job EXCEPT ![c] = j]
\* The next server of the loop over avaliable_servers.
\* Mutant: i is not increased.
NextServer_Again(c, j) == /\ Step(c, "connect", [j EXCEPT !.round = 1])
                          /\ sess' = [sess EXCEPT ![c] = None]
NextServer(c, j) ==
  /\ Step(c, "connect", [j EXCEPT !.turn = @ + 1, !.round = 1])
  /\ sess' = [sess EXCEPT ![c] = None]
\* The next of the two parts get takes from a server.
NextAnswer(c, j) ==
  IF j.round = 1 THEN Step(c, "answer", [j EXCEPT !.round = 2]) /\ UNCHANGED sess
                 ELSE NextServer(c, j)

\* The client process ends; its kernel closes its sockets.
ExitClient(c) ==
  /\ cpc' = [cpc EXCEPT ![c] = "exited"]
  /\ sess' = [sess EXCEPT ![c] = None]
  /\ gone' = [h \in Handlers |-> gone[h] \/ peer[h] = c]
  /\ UNCHANGED <<storeVars, pc, frame, cmd, inbox, reply,
                 job, peer, outbox, last, heap, open, file, listed, todo,
                 historyVars>>

\* malloc for these parts, the old pointers are lost; free of all four.
Malloc(c, parts) ==
  heap' = [heap EXCEPT ![c] = [p \in Parts |-> IF p \in parts THEN "live" ELSE @[p]]]
Freed(h) == [p \in Parts |-> IF h[p] = "live" THEN "freed" ELSE "wild"]
FreeAll(c) == heap' = [heap EXCEPT ![c] = Freed(@)]
\* fopen and socket need a descriptor.
Descriptor(c) == open[c] < MaxFiles

Drained == \A h \in Handlers : pc[h] = "free"

\* Lines 239-240: the file that put is to send, if there is one.
Sendable(c, task) == task.op = "put" => task.content # None /\ Descriptor(c)
\* Lines 111-122 and 243-278: the user types a command.
Enter(c) ==
  /\ cpc[c] = "idle" /\ todo[c] # <<>> /\ (Patient => Drained)
  /\ Sendable(c, Head(todo[c]))
  /\ Step(c, "connect", NewJob(Head(todo[c])))
  /\ IF Head(todo[c]).op = "put" THEN Malloc(c, Parts) ELSE UNCHANGED heap
  /\ todo' = [todo EXCEPT ![c] = Tail(@)]
  /\ UNCHANGED <<serverVars, sess, peer, outbox, last, open, file, listed,
                 historyVars>>
\* Lines 239-241 and 351-354: "Unable to open input file to send", and free of
\* whatever file_bufs holds.  If that was not in use the library may abort the
\* client or not notice.
PutUnopened(c) ==
  /\ cpc[c] = "idle" /\ todo[c] # <<>> /\ ~Sendable(c, Head(todo[c]))
  /\ FreeAll(c)
  /\ todo' = [todo EXCEPT ![c] = Tail(@)]
  /\ \/ /\ \E p \in Parts : heap[c][p] # "live"
        /\ cpc' = [cpc EXCEPT ![c] = "exited"]
        /\ gone' = [h \in Handlers |-> gone[h] \/ peer[h] = c]
     \/ UNCHANGED <<cpc, gone>>
  /\ UNCHANGED <<storeVars, pc, frame, cmd, inbox, reply, job, sess, peer,
                 outbox, last, open, file, listed, historyVars>>

\* get leaves the loop as soon as nothing is missing (line 370).
LoopEnds(c) == \/ job[c].turn > MAXSERVERS
               \/ job[c].task.op = "get" /\ job[c].want = {}

\* Connecting and writing the login.
Connect(c) ==
  /\ cpc[c] = "connect" /\ ~LoopEnds(c) /\ Descriptor(c)
  /\ \E h \in Handlers :
       /\ ServerOf(h) = job[c].turn /\ \A k \in Clients : sess[k] # h
       /\ Accept(h, <<Message("login", Login[c])>>, FALSE)
       /\ sess' = [sess EXCEPT ![c] = h]
       /\ peer' = [peer EXCEPT ![h] = c]
  /\ open' = [open EXCEPT ![c] = @ + 1]
  /\ Step(c, "verdict", [job[c] EXCEPT !.lost = FALSE])
  /\ UNCHANGED <<outbox, last, heap, file, listed, todo, historyVars>>

\* connect fails, or there is no socket to connect: "Server ... is offline".
\* A socket that could not be connected is not closed.
ServerOffline(c) ==
  /\ cpc[c] = "connect" /\ ~LoopEnds(c)
  /\ status[job[c].turn] # "up" \/ ~Descriptor(c)
  /\ open' = [open EXCEPT ![c] = IF Descriptor(c) THEN @ + 1 ELSE @]
  /\ NextServer(c, [job[c] EXCEPT !.offline = @ \cup {job[c].turn}])
  /\ UNCHANGED <<serverVars, peer, outbox, last, heap, file, listed, todo,
                 historyVars>>

\* strncmp with the length of the answer, which is 0 at the end of the stream:
\* an empty answer is taken for the refusal.
Refused(m) == m.tag = "eof" \/ m.body = FALSE

\* Lines 141-148: anything but the refusal lets the command go on.
LoginAccepted(c) ==
  /\ cpc[c] = "verdict" /\ Answered(c) /\ ~Refused(Answer(c))
  /\ Step(c, "write", job[c])
  /\ outbox' = [outbox EXCEPT ![c] = Script(job[c])]
  /\ TakeAnswer(c)
  /\ UNCHANGED <<storeVars, pc, frame, cmd, inbox, gone, sess, peer, last,
                 heap, open, file, listed, todo, historyVars>>
LoginRefused(c) ==
  /\ cpc[c] = "verdict" /\ Answered(c) /\ Refused(Answer(c))
  /\ ExitClient(c)

\* Where the client goes when everything is written: list and get wait for an
\* answer, put and MKDIR for nothing.
AfterWriting(c, j) ==
  CASE j.task.op = "list" -> Step(c, "listing", j) /\ UNCHANGED sess
    [] j.task.op = "get"  -> Step(c, "answer", j) /\ UNCHANGED sess
    [] j.task.op = "put"  -> NextServer(c, [j EXCEPT !.pair = WrapPair(@) + 1])
    [] j.task.op = "MKDIR" -> NextServer(c, j)

\* One write; what is written to a closed connection is lost.
Write(c) ==
  LET h == sess[c]
      j == [job[c] EXCEPT !.lost = @ \/ Closed(h)]
  IN  /\ cpc[c] = "write"
      /\ inbox' = IF Closed(h) THEN inbox
                  ELSE [inbox EXCEPT ![h] = Append(@, Head(outbox[c]))]
      /\ outbox' = [outbox EXCEPT ![c] = Tail(@)]
      /\ IF Len(outbox[c]) = 1 THEN AfterWriting(c, j)
                               ELSE Step(c, "write", j) /\ UNCHANGED sess
      /\ UNCHANGED <<storeVars, pc, frame, cmd, reply, gone, peer, last, heap,
                     open, file, listed, todo, historyVars>>
\* A second write to it ends the client: SIGPIPE.
WriteBroken(c) ==
  /\ cpc[c] = "write" /\ Closed(sess[c]) /\ job[c].lost
  /\ ExitClient(c)

\* Lines 160-212: the entries are merged into ret_files, the socket closed.
ReadListing(c) ==
  /\ cpc[c] = "listing" /\ Answered(c)
  /\ LET m == Answer(c)
     IN  NextServer(c, [job[c] EXCEPT !.seen =
                         @ \cup IF m.tag = "listing" THEN m.body ELSE {}])
  /\ TakeAnswer(c)
  /\ gone' = [gone EXCEPT ![sess[c]] = TRUE]
  /\ open' = [open EXCEPT ![c] = @ - 1]
  /\ UNCHANGED <<storeVars, pc, frame, cmd, inbox, peer, outbox, last, heap,
                 file, listed, todo, historyVars>>

\* Lines 413-415.
NoMoreParts(c) ==
  /\ cpc[c] = "answer" /\ Answered(c) /\ Answer(c).tag = "nothing"
  /\ NextServer(c, job[c])
  /\ TakeAnswer(c)
  /\ UNCHANGED <<storeVars, pc, frame, cmd, inbox, gone, peer, outbox, last,
                 heap, open, file, listed, todo, historyVars>>

\* At the end of the stream sscanf assigns nothing and the header before this
\* one is taken again.
HeaderOf(c, m) == IF m.tag = "header" THEN m.body ELSE last[c]

\* Lines 417-429: the part is ticked off and a buffer allocated for it.
ReadHeader(c) ==
  /\ cpc[c] = "answer" /\ Answered(c) /\ Answer(c).tag # "nothing"
  /\ HeaderOf(c, Answer(c)) # None
  /\ LET hd == HeaderOf(c, Answer(c))
         j  == [job[c] EXCEPT !.want = @ \ {hd.part}, !.bufs[hd.part] = Zeros(0)]
     IN  /\ last' = [last EXCEPT ![c] = hd]
         /\ Malloc(c, {hd.part})
         /\ IF hd.size = 0 THEN NextAnswer(c, j)
                           ELSE Step(c, "bytes", j) /\ UNCHANGED sess
  /\ TakeAnswer(c)
  /\ UNCHANGED <<storeVars, pc, frame, cmd, inbox, gone, peer, outbox, open,
                 file, listed, todo, historyVars>>
\* Before the first header arg2 is not initialized: what happens is a write
\* outside ask_parts, which may end the client or go unnoticed.
ReadGarbage(c) ==
  /\ cpc[c] = "answer" /\ Answered(c) /\ Answer(c).tag = "eof" /\ last[c] = None
  /\ \/ ExitClient(c)
     \/ /\ NextAnswer(c, job[c])
        /\ UNCHANGED <<serverVars, peer, outbox, last, heap, open, file, listed,
                       todo, historyVars>>

\* Lines 430-447: the bytes of the part, or zeros at the end of the stream.
ReadBytes(c) ==
  /\ cpc[c] = "bytes" /\ Answered(c)
  /\ ~(Answer(c).tag = "eof" /\ last[c].size > MAXBUF)
  /\ NextAnswer(c, [job[c] EXCEPT !.bufs[last[c].part] =
                      AsData(Answer(c), last[c].size)])
  /\ TakeAnswer(c)
  /\ UNCHANGED <<storeVars, pc, frame, cmd, inbox, gone, peer, outbox, last,
                 heap, open, file, listed, todo, historyVars>>
\* With more than MAXBUF bytes left at the end of the stream read returns 0
\* for ever.
SpinClient(c) ==
  /\ cpc[c] = "bytes" /\ Answered(c) /\ Answer(c).tag = "eof" /\ last[c].size > MAXBUF
  /\ Step(c, "spin", job[c])
  /\ UNCHANGED <<serverVars, sess, peer, outbox, last, heap, open, file, listed,
                 todo, historyVars>>

\* Line 455: get writes the file and frees the buffers only when nothing is
\* missing, and if the file can be opened.
\* Mutant: it frees them when parts are missing too.
Frees_Incomplete(c) == job[c].task.op \in {"put", "get"}
Frees(c) == \/ job[c].task.op = "put"
            \/ job[c].task.op = "get" /\ job[c].want = {} /\ Descriptor(c)
\* Lines 223-235, 351-354 and 455-474: the end of the loop.  list calls a name
\* complete when all four of its parts were seen.
Finish(c) ==
  /\ cpc[c] = "connect" /\ LoopEnds(c)
  /\ Step(c, "idle", job[c])
  /\ IF Frees(c) THEN FreeAll(c) ELSE UNCHANGED heap
  /\ file' = IF job[c].task.op = "get" /\ job[c].want = {} /\ Descriptor(c)
               THEN [file EXCEPT ![c] = job[c].bufs] ELSE file
  /\ listed' = IF job[c].task.op = "list"
                 THEN [listed EXCEPT ![c] =
                        {n \in Names : {n} \X Parts \subseteq job[c].seen}]
                 ELSE listed
  /\ IF job[c].task.op = "put"
       THEN /\ latest' = [latest EXCEPT ![PathKey(c)] = job[c].task.content]
            /\ missed' = [missed EXCEPT ![PathKey(c)] = job[c].offline]
       ELSE UNCHANGED <<latest, missed>>
  /\ UNCHANGED <<serverVars, sess, peer, outbox, last, open, todo>>

ClientStep(c) ==
  \/ Connect(c)      \/ ServerOffline(c)
  \/ LoginAccepted(c) \/ LoginRefused(c)
  \/ Write(c)        \/ WriteBroken(c)
  \/ ReadListing(c)
  \/ NoMoreParts(c)  \/ ReadHeader(c) \/ ReadGarbage(c)
  \/ ReadBytes(c)    \/ SpinClient(c)
  \/ Finish(c)

\* ctrl-c.
Kill(c) == MayKill /\ cpc[c] # "exited" /\ ExitClient(c)

Quiet == Drained /\ \A c \in Clients : cpc[c] \in {"idle", "exited"}
\* Bounds: no outages once nobody can notice them, and servers come back only
\* between commands.
Outage(s) ==
  /\ \E c \in Clients : cpc[c] # "exited" /\ (cpc[c] # "idle" \/ todo[c] # <<>>)
  /\ \/ /\ Outages = "any" \/ (Outages = "idle" /\ Quiet)
        /\ Cardinality({d \in Servers : status[d] = "down"}) < MaxDown
        /\ Crash(s)
     \/ Outages # "never" /\ Quiet /\ Restart(s)
  /\ UNCHANGED <<clientVars, historyVars>>

ServerStep(h) == /\ HandlerStep(h) \/ BrokenPipe(h)
                 /\ UNCHANGED <<clientVars, historyVars>>

Next ==
  \/ \E h \in Handlers : ServerStep(h)
  \/ \E c \in Clients : Enter(c) \/ PutUnopened(c) \/ ClientStep(c) \/ Kill(c)
  \/ \E s \in Servers : Outage(s)

Spec == Init /\ [][Next]_vars

\* Every process that is not blocked in a read goes on; users, failures and
\* ctrl-c owe nothing.
FairSpec ==
  /\ Spec
  /\ \A h \in Handlers :
       WF_vars(HandlerStep(h) /\ UNCHANGED <<clientVars, historyVars>>)
  /\ \A c \in Clients : WF_vars(ClientStep(c))

-----------------------------------------------------------------------------
TypesOK == TypeOK /\ ClientTypeOK

\* The file f is the content, undamaged.
IsContent(f, content) == \A p \in Parts : f[p] = Cut(content, p)

\* Client c has just finished a command of this kind on a path that was put.
Finished(c, op) == /\ cpc[c] = "idle" /\ job[c].task.op = op
                   /\ latest[PathKey(c)] # None
\* Servers out of reach when the path was put or during this command.
Outs(c) == Cardinality(missed[PathKey(c)] \cup job[c].offline)

(***************************************************************************)
(* A get, by a user who lets the put finish, returns the file that was     *)
(* put, although one server was out of reach then or now, or both: this is  *)
(* what storing every part twice is for (readme.txt:22-27).  list calls the *)
(* name complete under the same conditions (readme.txt:19-21).             *)
(***************************************************************************)
SurvivesOneOutage ==
  \A c \in Clients :
    /\ Finished(c, "get") /\ Outs(c) <= 1 =>
         job[c].want = {} /\ IsContent(file[c], latest[PathKey(c)])
    /\ Finished(c, "list") /\ Outs(c) <= 1 => job[c].task.name \in listed[c]

(***************************************************************************)
(* put and get free the buffers of file_bufs only while all four point to  *)
(* memory in use, whatever commands came before and whichever of them were  *)
(* left incomplete (DFS_client.c:351-354, 463).  It takes that the files    *)
(* the user names to put exist.                                            *)
(***************************************************************************)
FreesWhatItAllocated ==
  \A c \in Clients, p \in Parts : heap[c][p] # "wild"

(***************************************************************************)
(* What the client tells its user is true: a server called offline         *)
(* (DFS_client.c:135, 285, 378, 484) is down.                              *)
(***************************************************************************)
OfflineOnlyIfDown ==
  [][\A c \in Clients, s \in Servers :
       cpc[c] = "connect" /\ s \in job'[c].offline \ job[c].offline => status[s] # "up"]_vars

(***************************************************************************)
(* A client ends with "Invalid Username/Password" only when its pair is    *)
(* not in the servers' configuration (DFS_client.c:294-297).               *)
(***************************************************************************)
RefusedOnlyIfInvalid ==
  \A c \in Clients : cpc[c] = "exited" => Login[c] \notin Accounts

(***************************************************************************)
(* What get counts as found and will write to the user's file is an        *)
(* undamaged part of some content, in its place: "If all 4 parts are found *)
(* then the file is written to the client" (readme.txt:26).                *)
(***************************************************************************)
OnlyWholeParts ==
  \A c \in Clients, p \in Parts :
    \/ job[c].task.op # "get" \/ p \in job[c].want
    \/ cpc[c] \in {"bytes", "spin"} /\ last[c].part = p
    \/ \E x \in Contents : job[c].bufs[p] = Cut(x, p)

\* The file get writes is made of the parts of one content.
OneVersion ==
  \A c \in Clients : file[c] # NoBufs => \E x \in Contents : IsContent(file[c], x)

(***************************************************************************)
(* get finds every part some server in reach has: "Attempts to retrieve    *)
(* all 4 parts of a file ... from each server" (readme.txt:26).            *)
(***************************************************************************)
AvailableIsRetrieved ==
  \A c \in Clients :
    /\ Finished(c, "get")
    /\ \A p \in Parts : \E s \in Servers \ job[c].offline :
         disk[s][PathKey(c) \o <<p>>].kind # "absent"
    => job[c].want = {}

(***************************************************************************)
(* A server the last put reached has something to send to the get that     *)
(* follows: the put has been waited for ("Wait for a response",            *)
(* DFS_client.c:323).                                                      *)
(***************************************************************************)
ReadsOwnPut ==
  \A c \in Clients :
    /\ cpc[c] = "answer" /\ job[c].want = Parts
    /\ latest[PathKey(c)] # None /\ job[c].turn \notin missed[PathKey(c)]
    => Answer(c).tag # "nothing"

(***************************************************************************)
(* The stream a get reads stays in step with what the handler writes: the  *)
(* client takes the bytes of a part for bytes, as many as announced, and   *)
(* headers for headers, whatever else the handlers are doing.              *)
(***************************************************************************)
InStep ==
  \A c \in Clients : cpc[c] \in {"answer", "bytes"} /\ reply[sess[c]] # <<>> =>
    IF cpc[c] = "bytes" THEN /\ Answer(c).tag = "data"
                             /\ Answer(c).body.size = last[c].size
                        ELSE Answer(c).tag \in {"header", "nothing"}

(***************************************************************************)
(* The client's loops over the servers end: no command waits for ever for  *)
(* an answer, whatever other clients do.                                   *)
(***************************************************************************)
CommandsFinish ==
  \A c \in Clients : cpc[c] # "idle" ~> cpc[c] \in {"idle", "exited"}
CommandsFinishOrSpin ==
  \A c \in Clients : cpc[c] # "idle" ~> cpc[c] \in {"idle", "exited", "spin"}

(***************************************************************************)
(* What the user is promised (FileStore): the file a get leaves is the     *)
(* content of the last put of that path.                                   *)
(***************************************************************************)
ContentOf(f) == IF f = NoBufs THEN None
                ELSE IF \E x \in Contents : IsContent(f, x)
                  THEN CHOOSE x \in Contents : IsContent(f, x)
                  ELSE "damaged"
Promise == INSTANCE FileStore
             WITH stored <- latest, local <- [c \in Clients |-> ContentOf(file[c])]
ImplementsFileStore == Promise!Spec
=============================================================================
