------------------------------ MODULE ProxyCache ------------------------------
(***************************************************************************)
(* The caching proxy: proxyGet of proxyserver_with_cache.c, one thread per *)
(* connection, all threads sharing the list of nodes and the files in the  *)
(* proxy's directory.                                                      *)
(*                                                                         *)
(* A document is a sequence of chunks, a chunk being what one read or      *)
(* write moves.  The list is only touched under host_list_access, so each  *)
(* of search_hosts, search_host_files and add_host is one step; nothing    *)
(* holds the semaphore from one of them to the next.                       *)
(***************************************************************************)
EXTENDS Integers, Sequences

CONSTANTS
  Handlers,      \* threads at work at the same time (a bound)
  Urls,
  Names,         \* host names and addresses, as they are written in URLs
  Files,         \* names of cache files
  HostOf,        \* HostOf[url]: formated_hostname
  FileOf,        \* FileOf[url]: formated_filename
  AddressOf,     \* AddressOf[name]: what it resolves to, or NoName
  Blacklist,     \* the lines of the blacklist file
  BlacklistFile, \* its name
  Unwritable,    \* files that fopen does not open for writing
  NoName, NoFile,\* the empty strings
  Garbled,       \* a string that is none of Names and Files
  Recycled,      \* malloc may hand out memory that has been used before
  Prefixed,      \* pairs of strings the first of which begins the second
  Zeros,         \* a chunk of zeros
  Versions,      \* of the documents of the servers, 1 the first
  Length,        \* Length[v]: chunks of the documents of version v
  timeout,
  Changing,      \* resources that change on the servers (a bound)
  MaxTime, MaxConnections, \* bounds on time and on the connections accepted
  MaxSpin        \* bound on the chunks a thread writes that spins

Black == {Blacklist[i] : i \in 1..Len(Blacklist)}

ASSUME ConstantsAssumption ==
  /\ Urls # {}
  /\ HostOf \in [Urls -> Names \cup {NoName}]
  /\ FileOf \in [Urls -> Files]
  /\ AddressOf \in [Names \cup {NoName} -> Names \cup {NoName}]
  /\ Blacklist \in Seq(Names)
  /\ Unwritable \subseteq Files /\ Changing \subseteq Urls
  /\ NoName \notin Names /\ Garbled \notin Names \cup {NoName} \cup Files
  /\ NoFile \notin Files \cup {Garbled} /\ BlacklistFile \notin Files
  /\ Recycled \in BOOLEAN
  /\ Prefixed \subseteq (Names \cup Files) \X (Names \cup Files)
  /\ Zeros \notin [url : Urls, addr : Names, version : Versions]
  /\ 1 \in Versions /\ Versions \subseteq Nat
  /\ Length \in [Versions -> Nat \ {0}]
  /\ timeout \in Nat /\ MaxTime \in Nat /\ MaxConnections \in Nat
  /\ MaxSpin \in Nat

Strings == Names \cup Files \cup {NoName, Garbled}
Node(host, addr, fname, tv, black) ==
  [hostname |-> host, ip_address |-> addr, filename |-> fname, tv |-> tv,
   blacklisted |-> black]
Nodes == [hostname : Strings, ip_address : Strings,
          filename : Strings \cup {NoFile, BlacklistFile},
          tv : 0..MaxTime, blacklisted : BOOLEAN]

\* What the server at addr answers to a request for url.
Documents == [url : Urls, addr : Names, version : Versions]
Chunks(d) == Length[d.version]
Whole(d)  == [i \in 1..Chunks(d) |-> d]
Bytes == Documents \cup {Zeros}

VARIABLES
  up,       \* the process has not ended
  nodes,    \* the list that begins at head
  now,      \* gettimeofday
  hostent,  \* the structure gethostbyname returns, which all threads share
  file,     \* file[f]: the chunks of the file f, when it is present
  present,  \* the files that exist
  origin,   \* origin[u]: the version of u the servers hold
  accepted, \* connections accepted (for the bound)
  pc,       \* pc[h]: what handler h is about to do; "free" without connection
  frame,    \* frame[h]: the variables of proxyGet; see Frames
  \* History, for the properties only.
  docs,     \* docs[f]: the documents received for f since it was last opened
            \* for writing while nobody else had it open for writing
  settled   \* settled[h]: when h opened its cached copy it held one document
            \* and nobody was writing it, nor has anybody begun to since

envVars == <<now, origin>>
diskVars == <<file, present>>
historyVars == <<docs, settled>>
vars == <<up, nodes, envVars, hostent, diskVars, accepted, pc, frame, historyVars>>

States == {"free", "host", "file", "again", "age", "open", "send", "resolve",
           "address", "ip", "create", "connect", "receive", "stamp", "add",
           "spin"}
Answers == {"none", "403", "404", "500", "cached", "fetched"}
Frames == [url : Urls,
           node : Nat,        \* current_host: a position in nodes, 0 for NULL
           addr : Strings,    \* the address to connect to, also IPbuffer
           fname : Files,     \* the file that is open
           after : {"stamp", "add"},     \* what follows the transfer
           doc : Bytes,       \* the document the server sends
           got : Nat,         \* chunks of it read and passed to the browser
           out : Nat,         \* chunks of it that stdio has written to disk
           size : Nat,        \* file_length
           copy : Seq(Bytes), \* what stdio may have read when size was taken
           sent : Seq(Bytes), \* chunks of the cached copy sent to the browser
           answer : Answers]
Cleared(u) ==
  [url |-> u, node |-> 0, addr |-> NoName, fname |-> FileOf[u], after |-> "add",
   doc |-> Zeros, got |-> 0, out |-> 0, size |-> 0, copy |-> <<>>,
   sent |-> <<>>, answer |-> "none"]

TypeOK ==
  /\ up \in BOOLEAN
  /\ nodes \in Seq(Nodes) /\ nodes # <<>>
  /\ now \in 0..MaxTime
  /\ hostent \in Names \cup {NoName}
  /\ file \in [Files -> Seq(Bytes)]
  /\ present \in SUBSET Files
  /\ origin \in [Urls -> Versions]
  /\ accepted \in 0..MaxConnections
  /\ pc \in [Handlers -> States]
  /\ frame \in [Handlers -> Frames]
  /\ docs \in [Files -> SUBSET Documents]
  /\ settled \in [Handlers -> BOOLEAN]

\* main: head is the first block malloc hands out and is still zero;
\* create_blacklist adds a node for every line (lines 591-607).
BlacklistNode(name) == Node(name, name, BlacklistFile, 0, TRUE)
Init ==
  /\ up = TRUE
  /\ nodes = <<Node(NoName, NoName, NoFile, 0, FALSE)>>
             \o [i \in 1..Len(Blacklist) |-> BlacklistNode(Blacklist[i])]
  /\ now = 0
  /\ hostent = NoName
  /\ file = [f \in Files |-> <<>>]
  /\ present = {}
  /\ origin = [u \in Urls |-> 1]
  /\ accepted = 0
  /\ pc = [h \in Handlers |-> "free"]
  /\ frame = [h \in Handlers |-> Cleared(CHOOSE u \in Urls : TRUE)]
  /\ docs = [f \in Files |-> {}]
  /\ settled = [h \in Handlers |-> FALSE]

-----------------------------------------------------------------------------
\* The first position in a set of positions, 0 when there is none.
First(S) == IF S = {} THEN 0 ELSE CHOOSE i \in S : \A j \in S : i <= j

search_hosts(s) ==
  First({i \in 1..Len(nodes) : nodes[i].hostname = s \/ nodes[i].ip_address = s})
search_host_files(f) == First({i \in 1..Len(nodes) : nodes[i].filename = f})

gettimeofday == now

\* 0 when the time since tv is at most difference, else 1.
timestamp_difference(tv, difference) == IF now - tv <= difference THEN 0 ELSE 1

\* What a string is that memcpy has put into memory from malloc without its
\* final zero: it goes on with whatever the memory held, up to the first zero
\* there, and so may be any string that begins with s.
Continued(s) == {t \in Names \cup Files : <<s, t>> \in Prefixed}
Copied(s) == IF Recycled THEN {s, Garbled} \cup Continued(s) ELSE {s}

Writers(f) == {h \in Handlers : frame[h].fname = f /\
                 pc[h] \in {"connect", "receive", "spin"}}

\* The file q after chunks i..j of d were written at their place.
Written(q, d, i, j) ==
  IF j < i THEN q ELSE
  [k \in 1..(IF j > Len(q) THEN j ELSE Len(q)) |->
     IF k \in i..j THEN d ELSE IF k <= Len(q) THEN q[k] ELSE Zeros]

Goto(h, where, locals) == /\ pc' = [pc EXCEPT ![h] = where]
                          /\ frame' = [frame EXCEPT ![h] = locals]
\* proxyGet returns and thread() closes the connection; what is kept of the
\* frame is for the properties.
Close(h, how) ==
  Goto(h, "free", [Cleared(frame[h].url) EXCEPT !.sent = frame[h].sent,
                                                !.answer = how])

-----------------------------------------------------------------------------
\* main accepts a connection; its thread reads a request that is a GET.
Accept(h, u) ==
  /\ up /\ pc[h] = "free" /\ accepted < MaxConnections
  /\ accepted' = accepted + 1
  /\ Goto(h, "host", Cleared(u))
  /\ settled' = [settled EXCEPT ![h] = FALSE]
  /\ UNCHANGED <<up, nodes, envVars, hostent, diskVars, docs>>
\* Lines 157-163, 405-410: no GET, or no version of HTTP.
AcceptOther(h) ==
  /\ up /\ pc[h] = "free" /\ accepted < MaxConnections
  /\ accepted' = accepted + 1
  /\ Close(h, "500")
  /\ settled' = [settled EXCEPT ![h] = FALSE]
  /\ UNCHANGED <<up, nodes, envVars, hostent, diskVars, docs>>

\* Lines 229-235, 346-355: the host is looked up.
FindHost(h) ==
  LET i == search_hosts(HostOf[frame[h].url])
  IN  /\ up /\ pc[h] = "host"
      /\ IF i = 0 THEN Goto(h, "resolve", [frame[h] EXCEPT !.node = 0])
         ELSE IF nodes[i].blacklisted THEN Close(h, "403")
         ELSE Goto(h, "file", [frame[h] EXCEPT !.node = i])
      /\ UNCHANGED <<up, nodes, envVars, hostent, diskVars, accepted, historyVars>>

\* Lines 237-239.
FindFile(h) ==
  LET i == search_host_files(FileOf[frame[h].url])
  IN  /\ up /\ pc[h] = "file"
      /\ Goto(h, IF i = 0 THEN "again" ELSE "age", [frame[h] EXCEPT !.node = i])
      /\ UNCHANGED <<up, nodes, envVars, hostent, diskVars, accepted, historyVars>>

\* Line 315: the host again, for its address.
FindHostAgain(h) ==
  LET i == search_hosts(HostOf[frame[h].url])
  IN  /\ up /\ pc[h] = "again"
      /\ Goto(h, "create", [frame[h] EXCEPT !.node = i, !.after = "add",
                              !.addr = nodes[i].ip_address,
                              !.fname = FileOf[frame[h].url]])
      /\ UNCHANGED <<up, nodes, envVars, hostent, diskVars, accepted, historyVars>>

\* Lines 243, 278-281: is the copy fresh?  The node is read outside the
\* semaphore.
CheckAge(h) ==
  LET n == nodes[frame[h].node]
  IN  /\ up /\ pc[h] = "age"
      /\ IF timestamp_difference(n.tv, timeout) = 0
           THEN Goto(h, "open", frame[h])
           ELSE Goto(h, "create", [frame[h] EXCEPT !.after = "stamp",
                                     !.addr = n.ip_address,
                                     !.fname = n.filename])
      /\ UNCHANGED <<up, nodes, envVars, hostent, diskVars, accepted, historyVars>>

\* Lines 245-251: the cached copy is opened and its length taken.  A copy of
\* one chunk may be read into stdio's buffer by fseek.
OpenCached(h) ==
  LET f == nodes[frame[h].node].filename
  IN  /\ up /\ pc[h] = "open"
      /\ IF f \in present
           THEN /\ Goto(h, "send", [frame[h] EXCEPT !.fname = f,
                          !.size = Len(file[f]),
                          !.copy = IF Len(file[f]) = 1 THEN file[f] ELSE <<>>])
                /\ settled' = [settled EXCEPT ![h] =
                     Writers(f) = {} /\ \E d \in docs[f] : docs[f] = {d}]
           ELSE Close(h, "500") /\ UNCHANGED settled
      /\ UNCHANGED <<up, nodes, envVars, hostent, diskVars, accepted, docs>>

\* Lines 252-270: the next chunk is read into the cleared buffer and sent,
\* until file_length is reached, whatever the file holds by then.
\* Mutant: one chunk too few.
AllSent_Early(h) == Len(frame[h].sent) >= frame[h].size - 1
AllSent(h) == Len(frame[h].sent) = frame[h].size
ReadChunk(h, k) ==
  {IF k <= Len(file[frame[h].fname]) THEN file[frame[h].fname][k] ELSE Zeros}
    \cup {frame[h].copy[i] : i \in {k} \cap (1..Len(frame[h].copy))}
SendCached(h) ==
  /\ up /\ pc[h] = "send" /\ ~AllSent(h)
  /\ \E chunk \in ReadChunk(h, Len(frame[h].sent) + 1) :
       Goto(h, "send", [frame[h] EXCEPT !.sent = Append(@, chunk)])
  /\ UNCHANGED <<up, nodes, envVars, hostent, diskVars, accepted, historyVars>>
CloseCached(h) ==
  /\ up /\ pc[h] = "send" /\ AllSent(h)
  /\ Close(h, "cached")
  /\ UNCHANGED <<up, nodes, envVars, hostent, diskVars, accepted, historyVars>>

\* Lines 355, 397-403: gethostbyname fills the structure all threads share.
Resolve(h) ==
  LET a == AddressOf[HostOf[frame[h].url]]
  IN  /\ up /\ pc[h] = "resolve"
      /\ IF a = NoName THEN Close(h, "404") /\ UNCHANGED hostent
         ELSE Goto(h, "address", frame[h]) /\ hostent' = a
      /\ UNCHANGED <<up, nodes, envVars, diskVars, accepted, historyVars>>

\* Line 358: its address is copied out of the structure.
ReadAddress(h) ==
  /\ up /\ pc[h] = "address"
  /\ Goto(h, "ip", [frame[h] EXCEPT !.addr = hostent])
  /\ UNCHANGED <<up, nodes, envVars, hostent, diskVars, accepted, historyVars>>

\* Lines 359-366.
\* Mutant: the connection is made to what the shared structure holds by then.
FindAddress_Reread(h) ==
  LET i == search_hosts(frame[h].addr)
  IN  /\ up /\ pc[h] = "ip"
      /\ IF i # 0 /\ nodes[i].blacklisted THEN Close(h, "403")
         ELSE Goto(h, "create", [frame[h] EXCEPT !.node = i, !.after = "add",
                                   !.addr = hostent,
                                   !.fname = FileOf[frame[h].url]])
      /\ UNCHANGED <<up, nodes, envVars, hostent, diskVars, accepted, historyVars>>
FindAddress(h) ==
  LET i == search_hosts(frame[h].addr)
  IN  /\ up /\ pc[h] = "ip"
      /\ IF i # 0 /\ nodes[i].blacklisted THEN Close(h, "403")
         ELSE Goto(h, "create", [frame[h] EXCEPT !.node = i, !.after = "add",
                                   !.fname = FileOf[frame[h].url]])
      /\ UNCHANGED <<up, nodes, envVars, hostent, diskVars, accepted, historyVars>>

\* Lines 281-282, 317-318, 368-369: fopen truncates the file.
Create(h) ==
  LET f == frame[h].fname
  IN  /\ up /\ pc[h] = "create" /\ f \notin Unwritable
      /\ Goto(h, "connect", frame[h])
      /\ file' = [file EXCEPT ![f] = <<>>]
      /\ present' = present \cup {f}
      /\ docs' = [docs EXCEPT ![f] = IF Writers(f) = {} THEN {} ELSE @]
      /\ settled' = [k \in Handlers |->
                       settled[k] /\ ~(pc[k] = "send" /\ frame[k].fname = f)]
      /\ UNCHANGED <<up, nodes, envVars, hostent, accepted>>
\* Mutants: a node is added all the same; fopen is tried again for ever.
CannotCreate_AddsNode(h) ==
  /\ up /\ pc[h] = "create" /\ frame[h].fname \in Unwritable
  /\ Goto(h, frame[h].after, frame[h])
  /\ UNCHANGED <<up, nodes, envVars, hostent, diskVars, accepted, historyVars>>
CannotCreate_Retries(h) ==
  /\ up /\ pc[h] = "create" /\ frame[h].fname \in Unwritable
  /\ Goto(h, "create", frame[h])
  /\ UNCHANGED <<up, nodes, envVars, hostent, diskVars, accepted, historyVars>>
CannotCreate(h) ==
  /\ up /\ pc[h] = "create" /\ frame[h].fname \in Unwritable
  /\ Close(h, "500")
  /\ UNCHANGED <<up, nodes, envVars, hostent, diskVars, accepted, historyVars>>

\* Lines 285-287, 321-323, 372-374: the request is sent; the server answers
\* with the document it holds.
Connect(h) ==
  /\ up /\ pc[h] = "connect" /\ frame[h].addr \in Names
  /\ LET u == frame[h].url
         d == [url |-> u, addr |-> frame[h].addr, version |-> origin[u]]
     IN  /\ Goto(h, "receive", [frame[h] EXCEPT !.doc = d, !.got = 0, !.out = 0])
         /\ docs' = [docs EXCEPT ![frame[h].fname] = @ \cup {d}]
  /\ UNCHANGED <<up, nodes, envVars, hostent, diskVars, accepted, settled>>

\* client_connect fails and returns no socket, or the connection breaks: read
\* returns -1 for ever and n never becomes 0.  fwrite, told to write a
\* negative number of bytes, fills stdio's buffer from the cleared buf and
\* flushes it, round after round.
Fail(h) ==
  /\ up /\ pc[h] \in {"connect", "receive"}
  /\ Goto(h, "spin", frame[h])
  /\ UNCHANGED <<up, nodes, envVars, hostent, diskVars, accepted, historyVars>>

Spin(h) ==
  LET x == frame[h]
  IN  /\ up /\ pc[h] = "spin" /\ x.out < MaxSpin
      /\ file' = [file EXCEPT ![x.fname] = Written(@, Zeros, x.out + 1, x.out + 1)]
      /\ Goto(h, "spin", [x EXCEPT !.out = @ + 1])
      /\ UNCHANGED <<up, nodes, envVars, hostent, present, accepted, historyVars>>

\* One round of the loops of lines 290-295, 326-331, 377-382.  stdio writes
\* what it is given to the file when its buffer is full.
Receive(h) ==
  LET x == frame[h]
  IN  /\ up /\ pc[h] = "receive" /\ x.got < Chunks(x.doc)
      /\ \E k \in x.out..(x.got + 1) :
           /\ file' = [file EXCEPT ![x.fname] = Written(@, x.doc, x.out + 1, k)]
           /\ Goto(h, "receive", [x EXCEPT !.got = @ + 1, !.out = k])
      /\ UNCHANGED <<up, nodes, envVars, hostent, present, accepted, historyVars>>

\* The loop ends and fclose writes the rest.
\* Mutant: the file is not closed.
Flushed_Not(q, x) == q
Flushed(q, x) == Written(q, x.doc, x.out + 1, Chunks(x.doc))
EndTransfer(h) ==
  LET x == frame[h]
  IN  /\ up /\ pc[h] = "receive" /\ x.got = Chunks(x.doc)
      /\ file' = [file EXCEPT ![x.fname] = Flushed(@, x)]
      /\ Goto(h, x.after, [x EXCEPT !.out = Chunks(x.doc)])
      /\ UNCHANGED <<up, nodes, envVars, hostent, present, accepted, historyVars>>

\* Lines 301-304.
Stamp(h) ==
  /\ up /\ pc[h] = "stamp"
  /\ nodes' = [nodes EXCEPT ![frame[h].node].tv = gettimeofday]
  /\ Close(h, "fetched")
  /\ UNCHANGED <<up, envVars, hostent, diskVars, accepted, historyVars>>

\* Lines 337, 388: add_host.
add_host(host, a, f) ==
  \E x \in Copied(host), y \in Copied(a), z \in Copied(f) :
    nodes' = Append(nodes, Node(x, y, z, gettimeofday, FALSE))
Add(h) ==
  /\ up /\ pc[h] = "add"
  /\ add_host(HostOf[frame[h].url], frame[h].addr, FileOf[frame[h].url])
  /\ Close(h, "fetched")
  /\ UNCHANGED <<up, envVars, hostent, diskVars, accepted, historyVars>>

\* A browser that is gone when the proxy writes to it: SIGPIPE ends the
\* process.
BrowserGone(h) ==
  /\ up /\ pc[h] \in {"send", "receive"}
  /\ up' = FALSE
  /\ UNCHANGED <<nodes, envVars, hostent, diskVars, accepted, pc, frame, historyVars>>

Tick == /\ up /\ now < MaxTime /\ now' = now + 1
        /\ UNCHANGED <<up, nodes, origin, hostent, diskVars, accepted, pc, frame,
                       historyVars>>
\* The document changes on the servers.
Publish(u) ==
  /\ up /\ u \in Changing /\ origin[u] + 1 \in Versions
  /\ origin' = [origin EXCEPT ![u] = @ + 1]
  /\ UNCHANGED <<up, nodes, now, hostent, diskVars, accepted, pc, frame,
                 historyVars>>

Serve(h) ==
  \/ FindHost(h) \/ FindFile(h) \/ FindHostAgain(h) \/ CheckAge(h)
  \/ OpenCached(h) \/ SendCached(h) \/ CloseCached(h)
  \/ Resolve(h) \/ ReadAddress(h) \/ FindAddress(h)
  \/ Create(h) \/ CannotCreate(h) \/ Connect(h) \/ Fail(h)
  \/ Spin(h) \/ Receive(h) \/ EndTransfer(h) \/ Stamp(h) \/ Add(h)

Next ==
  \/ \E h \in Handlers :
       \/ \E u \in Urls : Accept(h, u)
       \/ AcceptOther(h) \/ Serve(h) \/ BrowserGone(h)
  \/ Tick \/ \E u \in Urls : Publish(u)

Spec == Init /\ [][Next]_vars
\* A thread that can go on does; servers answer or fail; browsers and the
\* clock owe nothing.
FairSpec == Spec /\ \A h \in Handlers : WF_vars(Serve(h))

-----------------------------------------------------------------------------
(***************************************************************************)
(* Neither a host nor an address of the blacklist is ever served or        *)
(* connected to ("Check to make sure the ipaddress isn't blacklisted, if   *)
(* it is send a 403 to the browser", readme.txt:38), also when another     *)
(* thread's lookup has replaced the address in the structure of            *)
(* gethostbyname.  An address is checked once and copied into a node       *)
(* (line 489) that later requests connect to unchecked: where it begins a  *)
(* blacklisted one the copy may be that one.                               *)
(***************************************************************************)
Calling == {"create", "connect", "receive", "stamp", "add", "spin"}
NeverForbidden ==
  \A h \in Handlers :
    /\ pc[h] \notin {"free", "host"} => HostOf[frame[h].url] \notin Black
    /\ pc[h] \in Calling => frame[h].addr \notin Black

(***************************************************************************)
(* The file a node names exists: a node is added after its file, and a     *)
(* cached copy can always be opened (lines 245-277; the nodes hold the     *)
(* "Filename(that contents are stored in)", readme.txt:16).  A node whose  *)
(* file name the copy (line 490) has made another resource's breaks it.    *)
(***************************************************************************)
FileBehindNode ==
  \A i \in 1..Len(nodes) : nodes[i].filename \in Files =>
                             nodes[i].filename \in present

(***************************************************************************)
(* Threads that fetch one document at the same time truncate the file      *)
(* under one another, leave holes and write over each other; when the last *)
(* of them is done the file is the whole document all the same             *)
(* (lines 281-299 and the like).                                           *)
(***************************************************************************)
WholeWhenUnwritten ==
  \A f \in Files : \A d \in docs[f] :
    Writers(f) = {} /\ docs[f] = {d} => file[f] = Whole(d)

(***************************************************************************)
(* A cached answer is one whole document of the file the request names, if *)
(* no other thread is writing the file while it is sent (lines 245-270).   *)
(***************************************************************************)
CachedAnswerWhole ==
  \A h \in Handlers :
    pc[h] = "free" /\ frame[h].answer = "cached" /\ settled[h] =>
      \E d \in Documents : /\ frame[h].sent = Whole(d)
                           /\ FileOf[d.url] = FileOf[frame[h].url]

(***************************************************************************)
(* "there is only one node corresponding to each file and thus to each     *)
(* resource" (readme.txt:18).                                              *)
(***************************************************************************)
OneNodePerFile ==
  \A i, j \in 1..Len(nodes) :
    nodes[i].filename \in Files /\ nodes[i].filename = nodes[j].filename => i = j

(***************************************************************************)
(* Every request is answered and its connection closed, or its thread is   *)
(* in the loop that read's -1 does not end, or the process is gone.        *)
(***************************************************************************)
RequestsEnd ==
  \A h \in Handlers : pc[h] # "free" ~> (pc[h] \in {"free", "spin"} \/ ~up)
=============================================================================
