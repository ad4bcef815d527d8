----------------------------- MODULE ProxyEarlier -----------------------------
(***************************************************************************)
(* The two stages of the proxy before ProxyCache: one that only relays     *)
(* (proxyserver_no_cache.c) and one that caches per host (proxyserver.c).   *)
(* In the second a host has one node, that of the resource first fetched    *)
(* from it, and any later transfer from the host renews its timestamp.     *)
(* Threads write and read the files piece by piece; where each piece lies   *)
(* is in ProxyCache, here a file is what it consists of.                   *)
(***************************************************************************)
EXTENDS Integers, Sequences

CONSTANTS
  Threads,
  Urls,         \* URIs of GET requests
  Hosts,        \* host names, as the URI's text has them
  HostOf,       \* HostOf[u]: what lines 151-202 leave of the URI
  Files,
  FileOf,       \* FileOf[u]: the URI with '.', ':' and '/' replaced by '_'
  Addresses,
  AddressOf,    \* AddressOf[h]: what gethostbyname says, or None
  None,         \* no request, no address, no page
  Prefixed,     \* Prefixed: the pairs of strings of which the first begins the second
  Garbled,      \* a string copied without its final zero that has become no other
  Writable,     \* the files that can be opened for writing
  Timeout,
  MaxTime,      \* bounds
  MaxRequests

ASSUME RequestAssumption ==
  /\ HostOf \in [Urls -> Hosts] /\ FileOf \in [Urls -> Files]
  /\ AddressOf \in [Hosts -> Addresses \cup {None}] /\ Writable \subseteq Files
  /\ None \notin Urls \cup Addresses \cup (Urls \X Addresses)
  /\ Prefixed \subseteq (Hosts \cup Addresses \cup Files) \X (Hosts \cup Addresses \cup Files)
  /\ Garbled \notin Hosts \cup Addresses \cup Files
ASSUME BoundAssumption == Timeout \in Nat /\ MaxTime \in Nat /\ MaxRequests \in Nat

VARIABLES
  build,     \* "relay": proxyserver_no_cache.c; "cache": proxyserver.c
  up,        \* the process is up
  pc,        \* place in proxyGet
  url,       \* url[t]: the URI read, or None if this is no GET request
  node,      \* node[t]: index of current_host
  addr,      \* addr[t]: IPbuffer
  intact,    \* intact[t]: nobody has truncated t's file since t created it
  copy,      \* copy[t]: what t has read of the file it sends
  answer,    \* answer[t]: what the browser has been sent
  hostent,   \* gethostbyname's result, one for all threads
  nodes,     \* the list behind head
  disk,      \* disk[f]: what the file f consists of
  now,       \* seconds of the clock
  requests,  \* connections so far
  \* History, for the properties only.
  recorded,  \* recorded[u]: when a transfer of u was last recorded, or -1
  overtaken  \* a thread has read the address of another's host

threadVars == <<url, node, addr>>
copyVars == <<intact, copy>>
historyVars == <<recorded, overtaken>>
vars == <<build, up, pc, threadVars, copyVars, answer, hostent, nodes, disk, now, requests,
          historyVars>>

States == {"free", "request", "file", "age", "copy", "send", "resolve", "address",
           "connect", "transfer", "spin", "host", "renew", "add"}
\* A page is what the server at an address sends for a URI.
Pages == Urls \X Addresses
\* What a file consists of: if it is there, the pages whose bytes, and None if
\* zeros, have been written to it since it was truncated, and if it is one page
\* from beginning to end.
Contents == [there : BOOLEAN, from : SUBSET (Pages \cup {None}), whole : BOOLEAN]
Missing == [there |-> FALSE, from |-> {}, whole |-> FALSE]
Empty == [there |-> TRUE, from |-> {}, whole |-> FALSE]
OnePage(p) == [there |-> TRUE, from |-> {p}, whole |-> TRUE]
\* More of p is written to c, all of it if nothing of it was missing.
Added(c, p, all) ==
  [there |-> TRUE, from |-> c.from \cup {p},
   whole |-> c.from \subseteq {p} /\ (all \/ c.whole)]

Nothing == [kind |-> "none", what |-> Missing, stamp |-> 0]
Strings == Hosts \cup Addresses \cup Files
Nodes == [host : Strings \cup {Garbled}, address : Strings \cup {Garbled},
          file : Strings \cup {Garbled}, tv : 0..MaxTime]

Init ==
  /\ build \in {"relay", "cache"} /\ up = TRUE
  /\ pc = [t \in Threads |-> "free"]
  /\ url = [t \in Threads |-> None]
  /\ node = [t \in Threads |-> 0]
  /\ addr = [t \in Threads |-> None]
  /\ intact = [t \in Threads |-> FALSE]
  /\ copy = [t \in Threads |-> Missing]
  /\ answer = [t \in Threads |-> Nothing]
  /\ hostent = None /\ nodes = <<>>
  /\ disk = [f \in Files |-> Missing]
  /\ now = 0 /\ requests = 0
  /\ recorded = [u \in Urls |-> -1] /\ overtaken = FALSE

-----------------------------------------------------------------------------
Host(t) == HostOf[url[t]]
File(t) == FileOf[url[t]]
Page(t) == <<url[t], addr[t]>>
Goto(t, there) == pc' = [pc EXCEPT ![t] = there]
\* The answer is complete, or what is left of the connection is closed.
Reply(t, kind, what, stamp) ==
  /\ answer' = [answer EXCEPT ![t] = [kind |-> kind, what |-> what, stamp |-> stamp]]
  /\ Goto(t, "free")
Refuse(t) == Reply(t, "500", Missing, 0)

\* search_hosts and search_host_files: the first match, 0 if there is none.
FirstOf(S) == IF S = {} THEN 0 ELSE CHOOSE i \in S : \A j \in S : i <= j
search_hosts(s) == FirstOf({i \in DOMAIN nodes : s \in {nodes[i].host, nodes[i].address}})
search_host_files(f) == FirstOf({i \in DOMAIN nodes : nodes[i].file = f})

\* A connection, a thread for it, and the first line of the request.
Accept(t) ==
  /\ up /\ pc[t] = "free" /\ requests < MaxRequests
  /\ \E u \in Urls \cup {None} : url' = [url EXCEPT ![t] = u]
  /\ node' = [node EXCEPT ![t] = 0]
  /\ addr' = [addr EXCEPT ![t] = None]
  /\ answer' = [answer EXCEPT ![t] = Nothing]
  /\ Goto(t, "request")
  /\ requests' = requests + 1
  /\ UNCHANGED <<build, up, copyVars, hostent, nodes, disk, now, historyVars>>
NotGet(t) ==
  /\ up /\ pc[t] = "request" /\ url[t] = None
  /\ Refuse(t)
  /\ UNCHANGED <<build, up, threadVars, copyVars, hostent, nodes, disk, now, requests, historyVars>>

\* The relay goes on to look the host up.
ReadRequest(t) ==
  /\ build = "relay" /\ up /\ pc[t] = "request" /\ url[t] # None
  /\ Goto(t, "resolve")
  /\ UNCHANGED <<build, up, threadVars, copyVars, answer, hostent, nodes, disk, now, requests,
                 historyVars>>
\* Lines 214-225: no node of this version is blacklisted.
CheckHost(t) ==
  /\ build = "cache" /\ up /\ pc[t] = "request" /\ url[t] # None
  /\ Goto(t, "file")
  /\ UNCHANGED <<build, up, threadVars, copyVars, answer, hostent, nodes, disk, now, requests,
                 historyVars>>
\* Lines 228-232.
\* Mutant: the node of the host is taken.
NodeFor_Host(t) == search_hosts(Host(t))
NodeFor(t) == search_host_files(File(t))
FindFile(t) ==
  /\ up /\ pc[t] = "file"
  /\ node' = [node EXCEPT ![t] = NodeFor(t)]
  /\ Goto(t, IF NodeFor(t) = 0 THEN "resolve" ELSE "age")
  /\ UNCHANGED <<build, up, url, addr, copyVars, answer, hostent, nodes, disk, now, requests,
                 historyVars>>
\* Lines 233-234, outside the semaphore.
timestamp_difference(tv) == IF now - tv <= Timeout THEN 0 ELSE 1
CheckAge(t) ==
  /\ up /\ pc[t] = "age"
  /\ Goto(t, IF timestamp_difference(nodes[node[t]].tv) = 0 THEN "copy" ELSE "resolve")
  /\ UNCHANGED <<build, up, threadVars, copyVars, answer, hostent, nodes, disk, now, requests,
                 historyVars>>
\* Lines 236-242: the file is opened and its length taken.
Readable(f) == f \in Files /\ disk[f].there
OpenCached(t) ==
  LET f == nodes[node[t]].file
  IN  /\ up /\ pc[t] = "copy"
      /\ IF Readable(f)
         THEN /\ copy' = [copy EXCEPT ![t] = disk[f]]
              /\ Goto(t, "send") /\ UNCHANGED answer
         ELSE Refuse(t) /\ UNCHANGED copy
      /\ UNCHANGED <<build, up, threadVars, intact, hostent, nodes, disk, now, requests,
                     historyVars>>
\* Lines 244-257: a piece is read and sent, with whatever is in the file now; the
\* whole is one page only if the file is what it was.  The file stays open.
Mixed(c, d) == [there |-> TRUE, from |-> c.from \cup d.from, whole |-> c = d /\ c.whole]
SendSome(t) ==
  /\ up /\ pc[t] = "send"
  /\ copy' = [copy EXCEPT ![t] = Mixed(@, disk[File(t)])]
  /\ UNCHANGED <<build, up, pc, threadVars, intact, answer, hostent, nodes, disk, now,
                 requests, historyVars>>
SendLast(t) ==
  /\ up /\ pc[t] = "send"
  /\ Reply(t, "cached", Mixed(copy[t], disk[File(t)]), nodes[node[t]].tv)
  /\ copy' = [copy EXCEPT ![t] = Missing]
  /\ UNCHANGED <<build, up, threadVars, intact, hostent, nodes, disk, now, requests,
                 historyVars>>

\* Lines 280 and 328-333.
Resolve(t) ==
  /\ up /\ pc[t] = "resolve"
  /\ IF AddressOf[Host(t)] = None THEN Refuse(t) /\ UNCHANGED hostent
     ELSE /\ hostent' = AddressOf[Host(t)]
          /\ Goto(t, "address") /\ UNCHANGED answer
  /\ UNCHANGED <<build, up, threadVars, copyVars, nodes, disk, now, requests, historyVars>>
\* Lines 282-294: inet_ntoa reads what is in the structure by now.
ReadAddress(t) ==
  /\ up /\ pc[t] = "address"
  /\ addr' = [addr EXCEPT ![t] = hostent]
  /\ overtaken' = (overtaken \/ hostent # AddressOf[Host(t)])
  /\ Goto(t, "connect")
  /\ UNCHANGED <<build, up, url, node, copyVars, answer, hostent, nodes, disk, now, requests,
                 recorded>>

\* The relay: connect and write the request.
ConnectRelay(t) ==
  /\ build = "relay" /\ up /\ pc[t] = "connect"
  /\ Goto(t, "transfer")
  /\ UNCHANGED <<build, up, threadVars, copyVars, answer, hostent, nodes, disk, now, requests,
                 historyVars>>
EndRelay(t) ==
  /\ build = "relay" /\ up /\ pc[t] = "transfer"
  /\ Reply(t, "fetched", OnePage(Page(t)), 0)
  /\ UNCHANGED <<build, up, threadVars, copyVars, hostent, nodes, disk, now, requests, historyVars>>

\* Lines 296-308: the file is truncated, under whoever else is writing it.
Create(t) ==
  /\ build = "cache" /\ up /\ pc[t] = "connect" /\ File(t) \in Writable
  /\ disk' = [disk EXCEPT ![File(t)] = Empty]
  /\ intact' = [u \in Threads |->
       u = t \/ (intact[u] /\ ~(pc[u] = "transfer" /\ File(u) = File(t)))]
  /\ Goto(t, "transfer")
  /\ UNCHANGED <<build, up, threadVars, copy, answer, hostent, nodes, now, requests,
                 historyVars>>
\* Lines 301-306; the socket stays open.
\* Mutant: it tries again.
CannotCreate_Retries(t) ==
  /\ build = "cache" /\ up /\ pc[t] = "connect" /\ File(t) \notin Writable
  /\ Goto(t, "connect")
  /\ UNCHANGED <<build, up, threadVars, copyVars, answer, hostent, nodes, disk, now, requests,
                 historyVars>>
CannotCreate(t) ==
  /\ build = "cache" /\ up /\ pc[t] = "connect" /\ File(t) \notin Writable
  /\ Refuse(t)
  /\ UNCHANGED <<build, up, threadVars, copyVars, hostent, nodes, disk, now, requests, historyVars>>

\* Lines 308-316: stdio writes some of what has been read, at the thread's own
\* place in the file, before the end of the stream.
Receive(t) ==
  /\ build = "cache" /\ up /\ pc[t] = "transfer"
  /\ \E all \in {FALSE, intact[t]} :
       disk' = [disk EXCEPT ![File(t)] = Added(@, Page(t), all)]
  /\ UNCHANGED <<build, up, pc, threadVars, copyVars, answer, hostent, nodes, now,
                 requests, historyVars>>
\* Lines 309-319: the end of the stream; fclose writes what is left.
\* Mutant: the file is not closed.
EndTransfer_Unflushed(t) ==
  /\ build = "cache" /\ up /\ pc[t] = "transfer"
  /\ intact' = [intact EXCEPT ![t] = FALSE]
  /\ Goto(t, "host")
  /\ UNCHANGED <<build, up, threadVars, copy, answer, hostent, nodes, disk, now, requests,
                 historyVars>>
EndTransfer(t) ==
  /\ build = "cache" /\ up /\ pc[t] = "transfer"
  /\ disk' = [disk EXCEPT ![File(t)] = Added(@, Page(t), intact[t])]
  /\ intact' = [intact EXCEPT ![t] = FALSE]
  /\ Goto(t, "host")
  /\ UNCHANGED <<build, up, threadVars, copy, answer, hostent, nodes, now, requests,
                 historyVars>>

\* The connection or a read failed: read returns -1, which is not 0, for ever,
\* and fwrite fills the file with the zeros of buf (lines 309-316).
Fail(t) ==
  /\ up /\ pc[t] = "transfer"
  /\ intact' = [intact EXCEPT ![t] = FALSE]
  /\ Goto(t, "spin")
  /\ UNCHANGED <<build, up, threadVars, copy, answer, hostent, nodes, disk, now, requests,
                 historyVars>>
FillWithZeros(t) ==
  /\ build = "cache" /\ up /\ pc[t] = "spin"
  /\ disk' = [disk EXCEPT ![File(t)] = Added(@, None, FALSE)]
  /\ UNCHANGED <<build, up, pc, threadVars, copyVars, answer, hostent, nodes, now,
                 requests, historyVars>>
\* Writing to a browser that has gone is SIGPIPE.
BrowserGone(t) ==
  /\ up /\ pc[t] \in {"send", "transfer"}
  /\ up' = FALSE
  /\ UNCHANGED <<build, pc, threadVars, copyVars, answer, hostent, nodes, disk, now,
                 requests, historyVars>>

\* Lines 320-322: the node of the host, whatever resource it is for.
\* Mutant: the address is searched for.
Searched_Address(t) == addr[t]
Searched(t) == Host(t)
FindHost(t) ==
  /\ up /\ pc[t] = "host"
  /\ node' = [node EXCEPT ![t] = search_hosts(Searched(t))]
  /\ Goto(t, IF search_hosts(Searched(t)) = 0 THEN "add" ELSE "renew")
  /\ UNCHANGED <<build, up, url, addr, copyVars, answer, hostent, nodes, disk, now, requests,
                 historyVars>>
Record(t) == recorded' = [recorded EXCEPT ![url[t]] = now]
Fetched(t) == Reply(t, "fetched", OnePage(Page(t)), 0)
\* Line 323, outside the semaphore.
Renew(t) ==
  /\ up /\ pc[t] = "renew"
  /\ nodes' = [nodes EXCEPT ![node[t]].tv = now]
  /\ Record(t) /\ Fetched(t)
  /\ UNCHANGED <<build, up, threadVars, copyVars, hostent, disk, now, requests, overtaken>>
\* Line 326.  The strings are copied without their final zero: what follows them
\* in memory that may have been used can make of one another that it begins.
Copied(s) == {s, Garbled} \cup {r \in Strings : <<s, r>> \in Prefixed}
add_host(t) ==
  \E h \in Copied(Host(t)), a \in Copied(addr[t]), f \in Copied(File(t)) :
    nodes' = Append(nodes, [host |-> h, address |-> a, file |-> f, tv |-> now])
Add(t) ==
  /\ up /\ pc[t] = "add"
  /\ add_host(t)
  /\ Record(t) /\ Fetched(t)
  /\ UNCHANGED <<build, up, threadVars, copyVars, hostent, disk, now, requests, overtaken>>

Tick == /\ up /\ now < MaxTime /\ now' = now + 1
        /\ UNCHANGED <<build, up, pc, threadVars, copyVars, answer, hostent, nodes, disk,
                       requests, historyVars>>

Serve(t) ==
  \/ NotGet(t)   \/ ReadRequest(t)  \/ CheckHost(t) \/ FindFile(t) \/ CheckAge(t)
  \/ OpenCached(t) \/ SendLast(t)    \/ Resolve(t)   \/ ReadAddress(t)
  \/ ConnectRelay(t) \/ EndRelay(t) \/ Create(t) \/ CannotCreate(t)
  \/ EndTransfer(t)  \/ FindHost(t) \/ Renew(t)  \/ Add(t)
\* A piece more of a file is read or written.
MovePiece(t) == SendSome(t) \/ Receive(t) \/ FillWithZeros(t)
Next ==
  \/ \E t \in Threads : Accept(t) \/ Serve(t) \/ MovePiece(t) \/ Fail(t) \/ BrowserGone(t)
  \/ Tick

Spec == Init /\ [][Next]_vars
\* Threads run; an origin server answers or its connection fails.
FairSpec == Spec /\ \A t \in Threads : WF_vars(Serve(t))

-----------------------------------------------------------------------------
TypeOK ==
  /\ build \in {"relay", "cache"} /\ up \in BOOLEAN
  /\ pc \in [Threads -> States] /\ url \in [Threads -> Urls \cup {None}]
  /\ node \in [Threads -> 0..Len(nodes)] /\ addr \in [Threads -> Addresses \cup {None}]
  /\ intact \in [Threads -> BOOLEAN] /\ copy \in [Threads -> Contents]
  /\ answer \in [Threads -> [kind : {"none", "500", "cached", "fetched"}, what : Contents,
                             stamp : 0..MaxTime]]
  /\ hostent \in Addresses \cup {None}
  /\ nodes \in Seq(Nodes)
  /\ disk \in [Files -> Contents]
  /\ now \in 0..MaxTime /\ requests \in 0..MaxRequests
  /\ recorded \in [Urls -> -1..MaxTime] /\ overtaken \in BOOLEAN

(***************************************************************************)
(* What a browser is sent, also out of a file that other requests create,   *)
(* write and truncate meanwhile, is of the page it asked for, from the host *)
(* it named, and zeros at most (lines 236-258 and 308-316), unless a        *)
(* look-up has been overtaken by another thread's (line 282).  Whether it   *)
(* is all of the page is CopiesComplete.                                   *)
(***************************************************************************)
PageAsked ==
  \A t \in Threads : \A p \in answer[t].what.from \ {None} :
    overtaken \/ p = <<url[t], AddressOf[Host(t)]>>

(***************************************************************************)
(* A file that no thread is writing any more is one page from beginning to *)
(* end, however the transfers that created, truncated and wrote it have     *)
(* overlapped: the last of them to truncate it writes all of it (lines      *)
(* 300-319).  One that spins on a failed connection is still writing.      *)
(***************************************************************************)
FilesWhole ==
  \A f \in Files : disk[f].there =>
    \/ disk[f].whole
    \/ \E t \in Threads : pc[t] \in {"transfer", "spin"} /\ File(t) = f
    \/ overtaken

(***************************************************************************)
(* "sends a cached copy if it exists" (line 227): what is sent out of a    *)
(* file is the page, all of it.                                            *)
(***************************************************************************)
CopiesComplete ==
  \A t \in Threads : answer[t].kind = "cached" => answer[t].what.whole \/ overtaken

(***************************************************************************)
(* What the age check means in this version, and what line 320 says of it, *)
(* "Search nodes to see if the hostname exists, then overwrite its          *)
(* timestamp": a copy is sent only if some transfer from its host has been  *)
(* recorded as late as the node says, never on the strength of another      *)
(* host's, though hosts may share an address.  It holds as long as no URI   *)
(* has an address in the place of a name, and no name that is copied        *)
(* without its final zero begins another host's (add_host).                *)
(***************************************************************************)
FreshHost ==
  \A t \in Threads : answer[t].kind = "cached" =>
    \E u \in Urls : HostOf[u] = Host(t) /\ answer[t].stamp <= recorded[u]

(***************************************************************************)
(* "check to make sure it was cached less than the timeout" (line 233): the *)
(* transfer that the copy itself comes from is as late as that.             *)
(***************************************************************************)
FreshCopy ==
  \A t \in Threads : answer[t].kind = "cached" => answer[t].stamp <= recorded[url[t]]

(***************************************************************************)
(* Every request is answered, or its thread spins on a failed connection,  *)
(* or the process has ended.                                               *)
(***************************************************************************)
RequestsEnd ==
  \A t \in Threads : pc[t] = "request" ~> pc[t] \in {"free", "spin"} \/ ~up
=============================================================================
