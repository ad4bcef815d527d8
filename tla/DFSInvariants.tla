---------------------------- MODULE DFSInvariants ----------------------------
(***************************************************************************)
(* The inductive invariants of the distributed file system, each over the  *)
(* one before it; DFSProofs shows that they hold and what they imply.      *)
(***************************************************************************)
EXTENDS DFS, DFSServerProofs

\* The client has a connection.
InSession(c) ==
  cpc[c] \in {"verdict", "write", "listing", "answer", "bytes", "spin"}

(***************************************************************************)
(* The types are not inductive alone: the variables of a command keep      *)
(* theirs because the connection it uses is its own, is counted and is one *)
(* of the server whose turn it is, and because handlers announce no part   *)
(* but those they were asked for.                                          *)
(***************************************************************************)
SessionOK(c) ==
  /\ InSession(c) => /\ sess[c] \in Handlers /\ ServerOf(sess[c]) = job[c].turn
                     /\ peer[sess[c]] = c /\ ~gone[sess[c]] /\ open[c] > 0
  /\ cpc[c] = "write" => outbox[c] # <<>>
  /\ cpc[c] \in {"bytes", "spin"} => last[c] # None
  /\ last[c] # None => last[c].part \in Parts
  /\ job[c].task.op = "put" => job[c].task.content # None
TypeInv == /\ Inv /\ ClientTypeOK
           /\ \A c \in Clients : SessionOK(c)
           /\ \A h \in Handlers : Announces(reply[h])

-----------------------------------------------------------------------------
(***************************************************************************)
(* InStep needs more: in each state of the handler, how many whole answers *)
(* can be under way, and whether half a one.  Before that, that the answer *)
(* to the login is the only message until the command is read, and that    *)
(* the command is the one the client sent.                                 *)
(***************************************************************************)
\* What is left to read, a header whose bytes are still to come included.
Ahead(c) == IF cpc[c] = "bytes" THEN Announced(last[c]) \o reply[sess[c]]
                                ELSE reply[sess[c]]

AwaitsParts(c) ==
  LET h == sess[c]
  IN  /\ CanBeCut(pc[h], frame[h], Ahead(c))
      /\ pc[h] \in BeforeCommand =>
           \/ inbox[h] # <<>> /\ IsGet(Head(inbox[h]))
           \/ inbox[h] = <<>> /\ cpc[c] = "write" /\ IsGet(Head(outbox[c]))
StepOK(c) ==
  /\ cpc[c] = "verdict" => AwaitsVerdict(sess[c])
  /\ cpc[c] \in {"answer", "bytes"} => job[c].task.op = "get"
  /\ cpc[c] = "bytes" => last[c].size # 0
  /\ cpc[c] \in {"write", "answer", "bytes"} /\ job[c].task.op = "get" => AwaitsParts(c)
StepInv == TypeInv /\ \A c \in Clients : StepOK(c)

-----------------------------------------------------------------------------
\* Sockets the command at hand may still open.
Remaining(c) == CASE cpc[c] \in {"idle", "exited"} -> 0
                  [] cpc[c] = "connect" -> 5 - job[c].turn
                  [] OTHER -> 4 - job[c].turn

(***************************************************************************)
(* The pointers file_bufs holds: a put has allocated all four before its   *)
(* loop begins, a get one for each part it has ticked off, and nothing else *)
(* is freed.  A file that cannot be opened would free what is not in use.   *)
(***************************************************************************)
HeapOK(c) ==
  /\ \A p \in Parts : heap[c][p] # "wild"
  /\ \A i \in 1..Len(todo[c]) : todo[c][i].op = "put" => todo[c][i].content # None
  /\ cpc[c] # "exited" => open[c] + 4 * Len(todo[c]) + Remaining(c) < MaxFiles
  /\ cpc[c] \notin {"idle", "exited"} =>
       /\ job[c].task.op = "put" => \A p \in Parts : heap[c][p] = "live"
       /\ job[c].task.op = "get" => \A p \in Parts \ job[c].want : heap[c][p] = "live"
HeapInv == TypeInv /\ \A c \in Clients : HeapOK(c)

-----------------------------------------------------------------------------
\* What the handler of c's connection has still to read.
Unsent(c) == IF cpc[c] = "write" THEN outbox[c] ELSE <<>>
Stream(c) == inbox[sess[c]] \o Unsent(c)
\* The handler of an account while its client waits for the verdict.
Welcomed(c) ==
  LET h == sess[c]
  IN  /\ job[c].round = 1 /\ frame[h].round = 1
      /\ \/ /\ pc[h] = "auth" /\ reply[h] = <<>>
            /\ inbox[h] = <<Message("login", Login[c])>>
         \/ /\ pc[h] \in {"scan", "command"} /\ frame[h].cred = Login[c]
            /\ inbox[h] = <<>> /\ reply[h] = <<Message("verdict", TRUE)>>
\* The handler of an account, and what it has answered, while its client
\* writes the command and reads the answer.
AtWork(c) ==
  LET h == sess[c]
      j == job[c]
  IN  /\ cpc[c] \in {"write", "listing", "answer", "bytes"}
      /\ cpc[c] = "listing" => j.task.op = "list"
      /\ CarriesOut(pc[h], frame[h], cmd[h], Login[c], j, Stream(c))
      /\ pc[h] \in Silent => Ahead(c) = <<>> /\ j.round = 1
      /\ j.task.op = "get" => Owed(pc[h], frame[h], j.round, Ahead(c))
Insider(c) == /\ cpc[c] # "exited"
              /\ cpc[c] = "connect" => job[c].round = 1
              /\ InSession(c) => IF cpc[c] = "verdict" THEN Welcomed(c) ELSE AtWork(c)
\* A client without an account gets as far as the refusal.
Outsider(c) ==
  /\ cpc[c] \in {"idle", "connect", "verdict", "exited"}
  /\ \A h \in Handlers : peer[h] = c /\ pc[h] # "free" => cpc[c] = "verdict" /\ h = sess[c]
  /\ cpc[c] = "verdict" =>
       LET h == sess[c]
       IN  \/ /\ pc[h] = "auth" /\ reply[h] = <<>>
              /\ inbox[h] = <<Message("login", Login[c])>>
           \/ pc[h] = "free" /\ reply[h] = <<Message("verdict", FALSE)>>
ClientOK(c) == IF Login[c] \in Accounts THEN Insider(c) ELSE Outsider(c)
CalmServers ==
  /\ \A s \in Servers : Users \X {Base} \subseteq dirs[s]
  /\ DirectoryReady
  /\ \A h \in Handlers : pc[h] # "mkdir" /\ (gone[h] => pc[h] = "free")
CalmInv == /\ HeapInv /\ StepInv /\ CalmServers
           /\ \A c \in Clients : ClientOK(c)

-----------------------------------------------------------------------------
OwnPair(c, s) ==
  IF job[c].task.op = "put"
    THEN PairAt(get_md5_mod(Digest[job[c].task.content]), job[c].offline, s) ELSE 0
\* The command as server s is sent it.
JobAt(c, s) == [job[c] EXCEPT !.pair = OwnPair(c, s)]

\* A handler of c's command, which may have gone on to other servers.
OfClient(c, h) == peer[h] = c /\ pc[h] # "free"
LeftBehind(c, h) ==
  /\ job[c].task.op \in {"put", "MKDIR"}
  /\ ServerOf(h) < job[c].turn /\ ServerOf(h) \notin job[c].offline
  /\ CarriesOut(pc[h], frame[h], cmd[h], Login[c], JobAt(c, ServerOf(h)), inbox[h])
Serving(c) ==
  /\ \A h \in Handlers : OfClient(c, h) =>
       (InSession(c) /\ h = sess[c]) \/ LeftBehind(c, h)
  /\ \A h, k \in Handlers :
       OfClient(c, h) /\ OfClient(c, k) /\ ServerOf(h) = ServerOf(k) => h = k
Placed(c) ==
  /\ job[c].offline \subseteq 1..(job[c].turn - 1)
  /\ cpc[c] # "idle" /\ job[c].task.op = "put" /\ job[c].turn <= MAXSERVERS =>
       WrapPair(job[c].pair) = OwnPair(c, job[c].turn)
  /\ cpc[c] = "idle" /\ job[c].task.op = "put" =>
       /\ job[c].turn > MAXSERVERS
       /\ missed[PathKey(c)] = job[c].offline

Own(c) == {k \in Paths : k[1] = Login[c][1]}
Writes(c, s, k, p) ==
  \E h \in Handlers : /\ OfClient(c, h) /\ pc[h] = "data" /\ ServerOf(h) = s
                      /\ k = PathKey(c) /\ frame[h].hdr.part = p
\* A file being written is the front of the part of the put.
FrontOf(c, p, n) == Front(Cut(job[c].task.content, p), n)
HalfWritten(c) ==
  \A h \in Handlers : OfClient(c, h) /\ pc[h] = "data" =>
    /\ frame[h].hdr.part \in Parts /\ frame[h].out < frame[h].hdr.size
    /\ At(ServerOf(h), PathKey(c), frame[h].hdr.part)
         = FrontOf(c, frame[h].hdr.part, frame[h].out)
WholeFiles(c) ==
  /\ HalfWritten(c)
  /\ \A s \in Servers, k \in Own(c), p \in Parts :
       \/ Writes(c, s, k, p)
       \/ At(s, k, p) = Absent \/ \E x \in Contents : At(s, k, p) = Cut(x, p)
\* What a put has left on the servers that are done with it, and the first of
\* two parts on those that are not.
Kept(c, s, j) ==
  LET p == PartSent(OwnPair(c, s), j)
  IN  At(s, PathKey(c), p) = Cut(job[c].task.content, p)
PutStored(c) ==
  job[c].task.op = "put" =>
  /\ \A s \in Servers :
       /\ s < job[c].turn /\ s \notin job[c].offline
       /\ \A h \in Handlers : OfClient(c, h) => ServerOf(h) # s
       => Kept(c, s, 0) /\ Kept(c, s, 1)
  /\ \A h \in Handlers :
       OfClient(c, h) /\ pc[h] \in {"header", "data"} /\ frame[h].round = 2 =>
         Kept(c, ServerOf(h), 0)
Held(c) ==
  \A k \in Own(c), s \in Servers :
    latest[k] # None /\ s \notin missed[k] =>
      \/ \E p \in Parts : There(s, k, p)
      \/ cpc[c] = "idle" /\ job[c].task.op = "put" /\ k = PathKey(c)
Files(c) == WholeFiles(c) /\ PutStored(c) /\ Held(c)

\* The parts c wants and has not been sent.
Unserved(c) == job[c].want \ Coming(reply[sess[c]])
Answering(c) ==
  LET h == sess[c]
      s == job[c].turn
      k == PathKey(c)
  IN  cpc[c] \in {"answer", "bytes"} =>
  /\ Tells(Ahead(c), s, k)
  /\ pc[h] = "send" => /\ frame[h].hdr.part \in Parts /\ There(s, k, frame[h].hdr.part)
                       /\ frame[h].copy = At(s, k, frame[h].hdr.part)
                       /\ frame[h].copy.size = frame[h].hdr.size
  /\ pc[h] \in {"serve", "send"} => frame[h].ask = Unserved(c)
  /\ \A i \in 1..Len(reply[h]) : reply[h][i].tag = "nothing" =>
       \A p \in Unserved(c) : ~There(s, k, p)
BufsFrom(c, X) ==
  job[c].task.op = "get" => \A p \in Parts \ job[c].want :
    \/ cpc[c] = "bytes" /\ last[c].part = p
    \/ \E x \in X : job[c].bufs[p] = Cut(x, p)
AloneOK(c) == Serving(c) /\ Placed(c) /\ Files(c) /\ Answering(c) /\ BufsFrom(c, Contents)
AloneInv ==
  /\ CalmInv /\ \A h \in Handlers : pc[h] # "free" => peer[h] \in Clients
  /\ \A c \in Clients : AloneOK(c)

-----------------------------------------------------------------------------
(***************************************************************************)
(* One server may be missing.  A file of an account stays where its last   *)
(* put left it if no other put takes it elsewhere: either it is put once,  *)
(* or no server is ever missing and its contents have digests of one class.*)
(***************************************************************************)
KeyOf(c, task) == <<Login[c][1], task.dir, task.name>>
Class(x) == get_md5_mod(Digest[x])
Replaces(x, y) == Outages = "never" /\ Class(x) = Class(y)
\* The puts of a list of commands: over a version x of their file, and over
\* each other.
PutsReplace(c, t, x) ==
  \A i \in 1..Len(t) : t[i].op = "put" =>
    /\ x[KeyOf(c, t[i])] # None => Replaces(x[KeyOf(c, t[i])], t[i].content)
    /\ \A j \in 1..Len(t) : /\ j < i /\ t[j].op = "put"
                            /\ KeyOf(c, t[j]) = KeyOf(c, t[i])
                            => Replaces(t[j].content, t[i].content)

\* The version of a file that the last put, finished or not, leaves or has
\* left, the servers it skips, and the parts it takes to each of the others.
Putting(c, k) == job[c].task.op = "put" /\ k = PathKey(c)
Version(c, k) == IF Putting(c, k) THEN job[c].task.content ELSE latest[k]
Skipped(c, k) == IF Putting(c, k) THEN job[c].offline ELSE missed[k]
PlaceOf(c, k, s) == PairParts(PairAt(Class(Version(c, k)), Skipped(c, k), s))
\* A put of a new file has not been to the servers to come.
Reached(c, k, s) ==
  Putting(c, k) /\ latest[k] = None =>
    s < job[c].turn \/ (s = job[c].turn /\ InSession(c))
InPlace(c) ==
  \A k \in Own(c), s \in Servers, p \in Parts : There(s, k, p) =>
    /\ Version(c, k) # None /\ s \notin Skipped(c, k)
    /\ p \in PlaceOf(c, k, s) /\ Reached(c, k, s)
Current(c) ==
  \A k \in Own(c), s \in Servers, p \in Parts : ~Putting(c, k) =>
    /\ There(s, k, p) => At(s, k, p) = Cut(latest[k], p)
    /\ latest[k] # None /\ s \notin missed[k] /\ p \in PlaceOf(c, k, s) => There(s, k, p)
Puts(c) ==
  /\ PutsReplace(c, todo[c], [k \in Paths |-> Version(c, k)])
  /\ job[c].task.op = "put" =>
       IF cpc[c] = "idle" THEN latest[PathKey(c)] = job[c].task.content
                          ELSE latest[PathKey(c)] # None => Outages = "never"

\* What get has collected: all there was on the servers behind it.
Gathered(c) ==
  job[c].task.op = "get" =>
  /\ \A s \in Servers, p \in Parts :
       s < job[c].turn /\ s \notin job[c].offline /\ There(s, PathKey(c), p) =>
         p \notin job[c].want
  /\ \A p \in Parts \ job[c].want :
       /\ latest[PathKey(c)] # None
       /\ \/ cpc[c] = "bytes" /\ last[c].part = p
          \/ job[c].bufs[p] = Cut(latest[PathKey(c)], p)
\* A server is left after its second part, another than the first, or when it
\* has none.
Halfway(c) ==
  LET s == job[c].turn
      k == PathKey(c)
  IN  cpc[c] \in {"answer", "bytes"} =>
  /\ Fresh(reply[sess[c]], job[c].want)
  /\ cpc[c] = "bytes" => last[c].part \in Parts \ job[c].want /\ There(s, k, last[c].part)
  /\ job[c].round = 2 => \E p \in Parts \ job[c].want :
       There(s, k, p) /\ (cpc[c] = "bytes" => p # last[c].part)
\* What ls has seen.
Lists(B, c, s) == \A p \in Parts : There(s, PathKey(c), p) => <<job[c].task.name, p>> \in B
Seen(c) ==
  job[c].task.op = "list" =>
  /\ \A s \in Servers : s < job[c].turn /\ s \notin job[c].offline => Lists(job[c].seen, c, s)
  /\ cpc[c] = "listing" /\ pc[sess[c]] = "free" =>
       \E B \in SUBSET (Names \X (0..4)) :
         reply[sess[c]] = <<Message("listing", B)>> /\ Lists(B, c, job[c].turn)
Result(c) ==
  /\ Finished(c, "get") /\ Outs(c) <= 1 =>
       job[c].want = {} /\ IsContent(file[c], latest[PathKey(c)])
  /\ Finished(c, "list") /\ Outs(c) <= 1 => job[c].task.name \in listed[c]
NoneMissing ==
  Outages = "never" =>
    /\ \A s \in Servers : status[s] = "up"
    /\ \A c \in Clients : job[c].offline = {}
    /\ \A k \in Paths : missed[k] = {}
SettledOK(c) == InPlace(c) /\ Current(c) /\ Puts(c) /\ Gathered(c) /\ Halfway(c) /\ Seen(c) /\ Result(c)
SettledInv == AloneInv /\ NoneMissing /\ \A c \in Clients : SettledOK(c)
=============================================================================
