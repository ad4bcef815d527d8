-------------------------- MODULE ProxyEarlierProofs --------------------------
(***************************************************************************)
(* What the list of hosts and the files behind it are good for in the two   *)
(* earlier stages of the proxy, for any number of threads, hosts and        *)
(* resources.  A node keeps the host and the file it was added with, and    *)
(* its timestamp is never later than a transfer recorded for its host.      *)
(***************************************************************************)
EXTENDS ProxyEarlier, SequenceTheorems, WellFoundedInduction, TLAPS

Answers == [kind : {"none", "500", "cached", "fetched"}, what : Contents, stamp : 0..MaxTime]

\* What a thread knows at its place in proxyGet.
Knows(t) ==
  /\ pc[t] \notin {"free", "request"} => url[t] \in Urls
  /\ pc[t] \in {"age", "copy", "send"} =>
       node[t] \in DOMAIN nodes /\ nodes[node[t]].file = File(t)
  /\ pc[t] = "renew" =>
       node[t] \in DOMAIN nodes /\ Host(t) \in {nodes[node[t]].host, nodes[node[t]].address}
  /\ pc[t] = "address" => hostent \in Addresses
  /\ pc[t] \in {"connect", "transfer", "host", "renew", "add"} => addr[t] \in Addresses

IInv == TypeOK /\ \A t \in Threads : Knows(t)

\* FirstOf returns the least element of a set of positions.
LEMMA FirstIsLeast ==
  ASSUME NEW S \in SUBSET Nat, S # {}
  PROVE  FirstOf(S) \in S /\ \A j \in S : FirstOf(S) <= j
<1> DEFINE R == {p \in Nat \X Nat : p[1] < p[2]}
<1>1. IsWellFoundedOn(R, Nat)
  BY NatLessThanWellFounded DEF OpToRel
<1>2. \A x, y \in S : <<y, x>> \in R <=> y < x
  OBVIOUS
<1> HIDE DEF R
<1>3. PICK x \in S : \A y \in S : ~ (<<y, x>> \in R)
  BY <1>1, WFMin
<1>4. \A y \in S : x \in Nat /\ y \in Nat /\ ~ (y < x)
  BY <1>2, <1>3
<1>5. \A j \in S : x <= j
  BY <1>4
<1>6. QED
  BY <1>5 DEF FirstOf

\* What the two searches return.
LEMMA SearchHosts ==
  ASSUME TypeOK, NEW s
  PROVE  \/ search_hosts(s) = 0
         \/ /\ search_hosts(s) \in DOMAIN nodes
            /\ s \in {nodes[search_hosts(s)].host, nodes[search_hosts(s)].address}
<1> DEFINE S == {i \in DOMAIN nodes : s \in {nodes[i].host, nodes[i].address}}
<1>1. S \in SUBSET Nat BY DEF TypeOK
<1>2. CASE S = {} BY <1>2 DEF search_hosts, FirstOf
<1>3. CASE S # {}
  <2>1. FirstOf(S) \in S BY <1>1, <1>3, FirstIsLeast
  <2>2. FirstOf(S) = search_hosts(s) BY DEF search_hosts
  <2> QED BY <2>1, <2>2
<1> QED BY <1>2, <1>3

LEMMA SearchFiles ==
  ASSUME TypeOK, NEW f
  PROVE  \/ search_host_files(f) = 0
         \/ /\ search_host_files(f) \in DOMAIN nodes
            /\ nodes[search_host_files(f)].file = f
<1> DEFINE S == {i \in DOMAIN nodes : nodes[i].file = f}
<1>1. S \in SUBSET Nat BY DEF TypeOK
<1>2. CASE S = {} BY <1>2 DEF search_host_files, FirstOf
<1>3. CASE S # {}
  <2>1. FirstOf(S) \in S BY <1>1, <1>3, FirstIsLeast
  <2>2. FirstOf(S) = search_host_files(f) BY DEF search_host_files
  <2> QED BY <2>1, <2>2
<1> QED BY <1>2, <1>3

\* What becomes of files and of copies is again the contents of a file.
LEMMA ContentsType ==
  /\ Missing \in Contents /\ Empty \in Contents
  /\ \A p \in Pages : OnePage(p) \in Contents
  /\ \A c \in Contents, p \in Pages \cup {None}, all \in BOOLEAN : Added(c, p, all) \in Contents
  /\ \A c, d \in Contents : Mixed(c, d) \in Contents
<1>1. Missing \in Contents /\ Empty \in Contents BY DEF Missing, Empty, Contents
<1>2. \A p \in Pages : OnePage(p) \in Contents BY DEF OnePage, Contents
<1>3. ASSUME NEW c \in Contents, NEW p \in Pages \cup {None}, NEW all \in BOOLEAN
      PROVE  Added(c, p, all) \in Contents
  <2>1. c.from \cup {p} \in SUBSET (Pages \cup {None}) BY DEF Contents
  <2>2. (c.from \subseteq {p} /\ (all \/ c.whole)) \in BOOLEAN OBVIOUS
  <2> QED BY <2>1, <2>2 DEF Added, Contents
<1>4. ASSUME NEW c \in Contents, NEW d \in Contents PROVE Mixed(c, d) \in Contents
  <2>1. c.from \cup d.from \in SUBSET (Pages \cup {None}) BY DEF Contents
  <2>2. (c = d /\ c.whole) \in BOOLEAN OBVIOUS
  <2> QED BY <2>1, <2>2 DEF Mixed, Contents
<1> QED BY <1>1, <1>2, <1>3, <1>4

\* What a thread that has sent its answer has sent.
LEMMA ReplyType ==
  ASSUME TypeOK, NEW t \in Threads, NEW kind \in {"none", "500", "cached", "fetched"},
         NEW what \in Contents, NEW stamp \in 0..MaxTime, Reply(t, kind, what, stamp)
  PROVE  /\ answer' \in [Threads -> Answers] /\ pc' \in [Threads -> States]
         /\ answer' = [answer EXCEPT ![t] = [kind |-> kind, what |-> what, stamp |-> stamp]]
         /\ pc' = [pc EXCEPT ![t] = "free"]
<1>1. [kind |-> kind, what |-> what, stamp |-> stamp] \in Answers BY DEF Answers
<1> QED BY <1>1 DEF Reply, Goto, TypeOK, Answers, States

LEMMA RefuseType ==
  ASSUME TypeOK, NEW t \in Threads, Refuse(t)
  PROVE  /\ answer' \in [Threads -> Answers] /\ pc' \in [Threads -> States]
         /\ answer' = [answer EXCEPT ![t] = [kind |-> "500", what |-> Missing, stamp |-> 0]]
         /\ pc' = [pc EXCEPT ![t] = "free"]
<1>1. Missing \in Contents /\ 0 \in 0..MaxTime BY BoundAssumption, ContentsType
<1> QED BY <1>1, ReplyType DEF Refuse

-----------------------------------------------------------------------------
LEMMA InitType == Init => TypeOK
<1> SUFFICES ASSUME Init PROVE TypeOK
  OBVIOUS
<1>1. Nothing \in Answers BY BoundAssumption, ContentsType DEF Nothing, Answers
<1>2. nodes \in Seq(Nodes) /\ Len(nodes) = 0 BY EmptySeq DEF Init
<1>3. /\ answer \in [Threads -> Answers] /\ node \in [Threads -> 0..Len(nodes)]
      /\ url \in [Threads -> Urls \cup {None}] /\ addr \in [Threads -> Addresses \cup {None}]
  BY <1>1, <1>2 DEF Init
<1>4. /\ pc \in [Threads -> States] /\ disk \in [Files -> Contents] /\ now \in 0..MaxTime
      /\ requests \in 0..MaxRequests /\ recorded \in [Urls -> -1..MaxTime]
      /\ intact \in [Threads -> BOOLEAN] /\ copy \in [Threads -> Contents]
  BY BoundAssumption, ContentsType DEF Init, States
<1> QED BY <1>2, <1>3, <1>4 DEF Init, TypeOK, Answers

\* The steps that change no more than the thread's place and its answer.
LEMMA QuietType ==
  ASSUME TypeOK, pc' \in [Threads -> States], answer' \in [Threads -> Answers],
         UNCHANGED <<build, up, threadVars, copyVars, hostent, nodes, disk, now, requests, historyVars>>
  PROVE  TypeOK'
BY DEF TypeOK, threadVars, copyVars, historyVars, Answers

LEMMA AddType ==
  ASSUME TypeOK, NEW t \in Threads, url[t] \in Urls, addr[t] \in Addresses, add_host(t)
  PROVE  /\ nodes' \in Seq(Nodes) /\ Len(nodes') = Len(nodes) + 1
         /\ \A i \in 1..Len(nodes) : nodes'[i] = nodes[i]
         /\ LET n == nodes'[Len(nodes) + 1]
            IN  /\ n.host \in Copied(Host(t)) /\ n.file \in Copied(File(t))
                /\ n.address \in Copied(addr[t]) /\ n.tv = now
<1>1. PICK s \in Copied(Host(t)), a \in Copied(addr[t]), f \in Copied(File(t)) :
        nodes' = Append(nodes, [host |-> s, address |-> a, file |-> f, tv |-> now])
  BY DEF add_host
<1> DEFINE n == [host |-> s, address |-> a, file |-> f, tv |-> now]
<1>2. n \in Nodes
  <2>1. Host(t) \in Strings /\ addr[t] \in Strings /\ File(t) \in Strings
    BY RequestAssumption DEF Host, File, Strings
  <2>2. s \in Strings \cup {Garbled} /\ a \in Strings \cup {Garbled} /\ f \in Strings \cup {Garbled}
    BY <2>1 DEF Copied
  <2>3. now \in 0..MaxTime BY DEF TypeOK
  <2> QED BY <2>2, <2>3 DEF Nodes
<1>3. nodes \in Seq(Nodes) BY DEF TypeOK
<1>4. n.host = s /\ n.address = a /\ n.file = f /\ n.tv = now OBVIOUS
<1> HIDE DEF n
<1>5. nodes' = Append(nodes, n) BY <1>1 DEF n
<1>6. /\ nodes' \in Seq(Nodes) /\ Len(nodes') = Len(nodes) + 1
      /\ \A i \in 1..Len(nodes) : nodes'[i] = nodes[i]
      /\ nodes'[Len(nodes) + 1] = n
  BY <1>2, <1>3, <1>5, AppendProperties
<1> QED BY <1>4, <1>6

LEMMA StepType == IInv /\ [Next]_vars => TypeOK'
<1> SUFFICES ASSUME IInv, [Next]_vars PROVE TypeOK'
  OBVIOUS
<1>0. TypeOK BY DEF IInv
<1>1. ASSUME NEW t \in Threads, Accept(t) PROVE TypeOK'
  <2>1. Nothing \in Answers BY BoundAssumption, ContentsType DEF Nothing, Answers
  <2>2. answer' \in [Threads -> Answers] BY <1>0, <1>1, <2>1 DEF Accept, TypeOK, Answers
  <2>3. /\ url' \in [Threads -> Urls \cup {None}] /\ node' \in [Threads -> 0..Len(nodes)]
        /\ addr' \in [Threads -> Addresses \cup {None}]
    BY <1>0, <1>1 DEF Accept, TypeOK
  <2>4. pc' \in [Threads -> States] /\ requests' \in 0..MaxRequests
    BY <1>0, <1>1, BoundAssumption DEF Accept, Goto, TypeOK, States
  <2>5. UNCHANGED <<build, up, copyVars, hostent, nodes, disk, now, historyVars>> BY <1>1 DEF Accept
  <2> QED BY <1>0, <2>2, <2>3, <2>4, <2>5 DEF TypeOK, copyVars, historyVars, Answers
<1>2. ASSUME NEW t \in Threads, NotGet(t) PROVE TypeOK'
  <2>1. answer' \in [Threads -> Answers] /\ pc' \in [Threads -> States]
    BY <1>0, <1>2, RefuseType DEF NotGet
  <2> QED BY <1>0, <1>2, <2>1, QuietType DEF NotGet
<1>3. ASSUME NEW t \in Threads,
             ReadRequest(t) \/ CheckHost(t) \/ CheckAge(t) \/ ConnectRelay(t)
      PROVE  TypeOK'
  <2>1. pc' \in [Threads -> States]
    BY <1>0, <1>3 DEF ReadRequest, CheckHost, CheckAge, ConnectRelay, Goto, TypeOK, States
  <2>2. answer' = answer /\ answer \in [Threads -> Answers]
    BY <1>0, <1>3 DEF ReadRequest, CheckHost, CheckAge, ConnectRelay, TypeOK, Answers
  <2>3. UNCHANGED <<build, up, threadVars, copyVars, hostent, nodes, disk, now, requests, historyVars>>
    BY <1>3 DEF ReadRequest, CheckHost, CheckAge, ConnectRelay
  <2> QED BY <1>0, <2>1, <2>2, <2>3, QuietType
<1>4. ASSUME NEW t \in Threads, FindFile(t) PROVE TypeOK'
  <2>1. NodeFor(t) \in 0..Len(nodes)
    <3>1. DOMAIN nodes = 1..Len(nodes) /\ Len(nodes) \in Nat BY <1>0 DEF TypeOK
    <3>2. NodeFor(t) = 0 \/ NodeFor(t) \in DOMAIN nodes BY <1>0, SearchFiles DEF NodeFor
    <3> QED BY <3>1, <3>2
  <2>2. node' \in [Threads -> 0..Len(nodes)] /\ pc' \in [Threads -> States]
    BY <1>0, <1>4, <2>1 DEF FindFile, Goto, TypeOK, States
  <2>3. UNCHANGED <<build, up, url, addr, copyVars, answer, hostent, nodes, disk, now, requests,
                    historyVars>>
    BY <1>4 DEF FindFile
  <2> QED BY <1>0, <2>2, <2>3 DEF TypeOK, copyVars, historyVars
<1>5. ASSUME NEW t \in Threads, OpenCached(t) PROVE TypeOK'
  <2> DEFINE f == nodes[node[t]].file
  <2>1. CASE Readable(f)
    <3>1. disk[f] \in Contents BY <1>0, <2>1 DEF Readable, TypeOK
    <3>2. copy' = [copy EXCEPT ![t] = disk[f]] /\ Goto(t, "send") /\ answer' = answer
      BY <1>5, <2>1 DEF OpenCached
    <3>3. copy' \in [Threads -> Contents] BY <1>0, <3>1, <3>2 DEF TypeOK
    <3>4. pc' \in [Threads -> States] BY <1>0, <3>2 DEF Goto, TypeOK, States
    <3>5. UNCHANGED <<build, up, threadVars, intact, hostent, nodes, disk, now, requests,
                      historyVars>>
      BY <1>5 DEF OpenCached
    <3> HIDE DEF f
    <3> QED BY <1>0, <3>2, <3>3, <3>4, <3>5 DEF TypeOK, threadVars, historyVars
  <2>2. CASE ~Readable(f)
    <3>1. Refuse(t) /\ copy' = copy BY <1>5, <2>2 DEF OpenCached
    <3>2. answer' \in [Threads -> Answers] /\ pc' \in [Threads -> States]
      BY <1>0, <3>1, RefuseType
    <3>3. UNCHANGED <<build, up, threadVars, intact, hostent, nodes, disk, now, requests,
                      historyVars>>
      BY <1>5 DEF OpenCached
    <3> QED BY <1>0, <3>1, <3>2, <3>3, QuietType DEF copyVars
  <2> QED BY <2>1, <2>2
<1>s. ASSUME NEW t \in Threads, pc[t] = "send"
      PROVE  Mixed(copy[t], disk[File(t)]) \in Contents /\ nodes[node[t]].tv \in 0..MaxTime
  <2>1. url[t] \in Urls /\ node[t] \in DOMAIN nodes BY <1>s DEF IInv, Knows
  <2>2. copy[t] \in Contents /\ disk[File(t)] \in Contents
    BY <1>0, <2>1, RequestAssumption DEF File, TypeOK
  <2>3. nodes[node[t]] \in Nodes BY <1>0, <2>1, ElementOfSeq DEF TypeOK
  <2> QED BY <2>2, <2>3, ContentsType DEF Nodes
<1>16. ASSUME NEW t \in Threads, SendSome(t) PROVE TypeOK'
  <2>1. copy' \in [Threads -> Contents] BY <1>0, <1>16, <1>s DEF SendSome, TypeOK
  <2>2. UNCHANGED <<build, up, pc, threadVars, intact, answer, hostent, nodes, disk, now,
                    requests, historyVars>>
    BY <1>16 DEF SendSome
  <2> QED BY <1>0, <2>1, <2>2 DEF TypeOK, threadVars, historyVars
<1>17. ASSUME NEW t \in Threads, SendLast(t) PROVE TypeOK'
  <2> DEFINE c == Mixed(copy[t], disk[File(t)])
  <2>1. /\ Reply(t, "cached", c, nodes[node[t]].tv) /\ copy' = [copy EXCEPT ![t] = Missing]
        /\ UNCHANGED <<build, up, threadVars, intact, hostent, nodes, disk, now, requests,
                       historyVars>>
    BY <1>17 DEF SendLast
  <2>2. c \in Contents /\ nodes[node[t]].tv \in 0..MaxTime BY <1>17, <1>s DEF SendLast
  <2> HIDE DEF c
  <2>3. answer' \in [Threads -> Answers] /\ pc' \in [Threads -> States]
    BY <1>0, <2>1, <2>2, ReplyType
  <2>4. copy' \in [Threads -> Contents] BY <1>0, <2>1, ContentsType DEF TypeOK
  <2> QED BY <1>0, <2>1, <2>3, <2>4 DEF TypeOK, threadVars, historyVars, Answers
<1>6. ASSUME NEW t \in Threads, Resolve(t) PROVE TypeOK'
  <2>1. url[t] \in Urls BY <1>6 DEF Resolve, IInv, Knows
  <2>2. CASE AddressOf[Host(t)] = None
    <3>1. answer' \in [Threads -> Answers] /\ pc' \in [Threads -> States]
      BY <1>0, <1>6, <2>2, RefuseType DEF Resolve
    <3> QED BY <1>0, <1>6, <2>2, <3>1, QuietType DEF Resolve
  <2>3. CASE AddressOf[Host(t)] # None
    <3>1. hostent' \in Addresses \cup {None}
      BY <1>6, <2>1, <2>3, RequestAssumption DEF Resolve, Host
    <3>2. pc' \in [Threads -> States] /\ answer' = answer
      BY <1>0, <1>6, <2>3 DEF Resolve, Goto, TypeOK, States
    <3>3. UNCHANGED <<build, up, threadVars, copyVars, nodes, disk, now, requests, historyVars>>
      BY <1>6 DEF Resolve
    <3> QED BY <1>0, <3>1, <3>2, <3>3 DEF TypeOK, threadVars, copyVars, historyVars
  <2> QED BY <2>2, <2>3
<1>7. ASSUME NEW t \in Threads, ReadAddress(t) PROVE TypeOK'
  <2>1. addr' \in [Threads -> Addresses \cup {None}] /\ pc' \in [Threads -> States]
    BY <1>0, <1>7 DEF ReadAddress, Goto, TypeOK, States
  <2>2. overtaken' \in BOOLEAN BY <1>7 DEF ReadAddress
  <2>3. UNCHANGED <<build, up, url, node, copyVars, answer, hostent, nodes, disk, now,
                    requests, recorded>>
    BY <1>7 DEF ReadAddress
  <2> QED BY <1>0, <2>1, <2>2, <2>3 DEF TypeOK, copyVars
<1>8. ASSUME NEW t \in Threads, EndRelay(t) PROVE TypeOK'
  <2>1. OnePage(Page(t)) \in Contents /\ 0 \in 0..MaxTime
    BY <1>8, BoundAssumption, ContentsType DEF EndRelay, IInv, Knows, Page, Pages
  <2>2. answer' \in [Threads -> Answers] /\ pc' \in [Threads -> States]
    BY <1>0, <1>8, <2>1, ReplyType DEF EndRelay
  <2> QED BY <1>0, <1>8, <2>2, QuietType DEF EndRelay
<1>9. ASSUME NEW t \in Threads,
             Create(t) \/ Receive(t) \/ EndTransfer(t) \/ Fail(t) \/ FillWithZeros(t)
      PROVE  TypeOK'
  <2>0. pc[t] \in {"connect", "transfer", "spin"}
    BY <1>9 DEF Create, Receive, EndTransfer, Fail, FillWithZeros
  <2>1. url[t] \in Urls BY <2>0 DEF IInv, Knows
  <2>2. \A all \in BOOLEAN : Added(disk[File(t)], None, all) \in Contents
    BY <1>0, <2>1, RequestAssumption, ContentsType DEF File, TypeOK
  <2>3. ASSUME pc[t] = "transfer"
        PROVE  \A all \in BOOLEAN : Added(disk[File(t)], Page(t), all) \in Contents
    <3>1. Page(t) \in Pages BY <2>1, <2>3 DEF IInv, Knows, Page, Pages
    <3> QED BY <1>0, <2>1, <3>1, RequestAssumption, ContentsType DEF File, TypeOK
  <2>4. \/ disk' = disk
        \/ \E c \in Contents : disk' = [disk EXCEPT ![File(t)] = c]
    <3>1. CASE Create(t) BY <3>1, ContentsType DEF Create
    <3>2. CASE Receive(t)
      <4>1. PICK all \in {FALSE, intact[t]} :
              disk' = [disk EXCEPT ![File(t)] = Added(@, Page(t), all)]
        BY <3>2 DEF Receive
      <4>2. all \in BOOLEAN BY <1>0 DEF TypeOK
      <4>3. Added(disk[File(t)], Page(t), all) \in Contents BY <2>3, <3>2, <4>2 DEF Receive
      <4> QED BY <4>1, <4>3
    <3>3. CASE EndTransfer(t)
      <4>1. intact[t] \in BOOLEAN BY <1>0 DEF TypeOK
      <4>2. Added(disk[File(t)], Page(t), intact[t]) \in Contents
        BY <2>3, <3>3, <4>1 DEF EndTransfer
      <4> QED BY <3>3, <4>2 DEF EndTransfer
    <3>4. CASE Fail(t) BY <3>4 DEF Fail
    <3>5. CASE FillWithZeros(t) BY <2>2, <3>5 DEF FillWithZeros
    <3> QED BY <1>9, <3>1, <3>2, <3>3, <3>4, <3>5
  <2>5. disk' \in [Files -> Contents] BY <1>0, <2>4 DEF TypeOK
  <2>6. pc' \in [Threads -> States]
    BY <1>0, <1>9 DEF Create, Receive, EndTransfer, Fail, FillWithZeros, copyVars, Goto, TypeOK,
                      States
  <2>7. intact' \in [Threads -> BOOLEAN]
    BY <1>0, <1>9 DEF Create, Receive, EndTransfer, Fail, FillWithZeros, copyVars, TypeOK
  <2>8. UNCHANGED <<build, up, threadVars, copy, answer, hostent, nodes, now, requests,
                    historyVars>>
    BY <1>9 DEF Create, Receive, EndTransfer, Fail, FillWithZeros, copyVars
  <2> QED BY <1>0, <2>5, <2>6, <2>7, <2>8 DEF TypeOK, threadVars, historyVars
<1>10. ASSUME NEW t \in Threads, CannotCreate(t) PROVE TypeOK'
  <2>1. answer' \in [Threads -> Answers] /\ pc' \in [Threads -> States]
    BY <1>0, <1>10, RefuseType DEF CannotCreate
  <2> QED BY <1>0, <1>10, <2>1, QuietType DEF CannotCreate
<1>11. ASSUME NEW t \in Threads, BrowserGone(t) PROVE TypeOK'
  <2>1. up' \in BOOLEAN BY <1>11 DEF BrowserGone
  <2>2. UNCHANGED <<build, pc, threadVars, copyVars, answer, hostent, nodes, disk, now,
                    requests, historyVars>>
    BY <1>11 DEF BrowserGone
  <2> QED BY <1>0, <2>1, <2>2 DEF TypeOK, threadVars, copyVars, historyVars
<1>12. ASSUME NEW t \in Threads, FindHost(t) PROVE TypeOK'
  <2>1. search_hosts(Searched(t)) \in 0..Len(nodes)
    <3>1. DOMAIN nodes = 1..Len(nodes) /\ Len(nodes) \in Nat BY <1>0 DEF TypeOK
    <3>2. search_hosts(Searched(t)) = 0 \/ search_hosts(Searched(t)) \in DOMAIN nodes
      BY <1>0, SearchHosts
    <3> QED BY <3>1, <3>2
  <2>2. node' \in [Threads -> 0..Len(nodes)] /\ pc' \in [Threads -> States]
    BY <1>0, <1>12, <2>1 DEF FindHost, Goto, TypeOK, States
  <2>3. UNCHANGED <<build, up, url, addr, copyVars, answer, hostent, nodes, disk, now, requests,
                    historyVars>>
    BY <1>12 DEF FindHost
  <2> QED BY <1>0, <2>2, <2>3 DEF TypeOK, copyVars, historyVars
<1>13. ASSUME NEW t \in Threads, Renew(t) \/ Add(t) PROVE TypeOK'
  <2>0. pc[t] \in {"renew", "add"} BY <1>13 DEF Renew, Add
  <2>1. /\ OnePage(Page(t)) \in Contents /\ 0 \in 0..MaxTime
        /\ url[t] \in Urls /\ addr[t] \in Addresses
    BY <2>0, BoundAssumption, ContentsType DEF IInv, Knows, Page, Pages
  <2>2. answer' \in [Threads -> Answers] /\ pc' \in [Threads -> States]
    BY <1>0, <1>13, <2>1, ReplyType DEF Renew, Add, Fetched
  <2>3. recorded' \in [Urls -> -1..MaxTime]
    <3>1. recorded' = [recorded EXCEPT ![url[t]] = now]
      BY <1>13 DEF Renew, Add, Record
    <3>2. recorded \in [Urls -> -1..MaxTime] /\ now \in 0..MaxTime BY <1>0 DEF TypeOK
    <3>3. now \in -1..MaxTime BY <3>2, BoundAssumption
    <3> QED BY <3>1, <3>2, <3>3
  <2>4. nodes' \in Seq(Nodes) /\ Len(nodes') >= Len(nodes)
    <3>1. CASE Renew(t)
      <4>1. node[t] \in 1..Len(nodes) BY <1>0, <3>1 DEF Renew, IInv, Knows, TypeOK
      <4>2. nodes[node[t]] \in Nodes BY <1>0, <4>1, ElementOfSeq DEF TypeOK
      <4>3. [nodes[node[t]] EXCEPT !.tv = now] \in Nodes BY <1>0, <4>2 DEF Nodes, TypeOK
      <4>4. nodes' = [nodes EXCEPT ![node[t]] = [nodes[node[t]] EXCEPT !.tv = now]]
        BY <3>1 DEF Renew
      <4> QED BY <1>0, <4>1, <4>3, <4>4, ExceptSeq DEF TypeOK
    <3>2. CASE Add(t)
      BY <1>0, <2>1, <3>2, AddType DEF Add, TypeOK
    <3> QED BY <1>13, <3>1, <3>2
  <2>5. node \in [Threads -> 0..Len(nodes')]
    <3>1. Len(nodes) \in Nat /\ Len(nodes') \in Nat BY <1>0, <2>4 DEF TypeOK
    <3> QED BY <1>0, <2>4, <3>1 DEF TypeOK
  <2>6. UNCHANGED <<build, up, threadVars, copyVars, hostent, disk, now, requests, overtaken>>
    BY <1>13 DEF Renew, Add
  <2> QED BY <1>0, <2>2, <2>3, <2>4, <2>5, <2>6 DEF TypeOK, threadVars, copyVars, Answers
<1>14. CASE Tick
  <2>1. now' \in 0..MaxTime BY <1>0, <1>14, BoundAssumption DEF Tick, TypeOK
  <2>2. UNCHANGED <<build, up, pc, threadVars, copyVars, answer, hostent, nodes, disk,
                    requests, historyVars>>
    BY <1>14 DEF Tick
  <2> QED BY <1>0, <2>1, <2>2 DEF TypeOK, threadVars, copyVars, historyVars
<1>15. CASE UNCHANGED vars
  BY <1>0, <1>15 DEF vars, threadVars, copyVars, historyVars, TypeOK
<1> QED
  BY <1>1, <1>2, <1>3, <1>4, <1>5, <1>6, <1>7, <1>8, <1>9, <1>10, <1>11, <1>12, <1>13, <1>14,
     <1>15, <1>16, <1>17 DEF Next, Serve, MovePiece

-----------------------------------------------------------------------------
\* A node stays where it is, with the host, the address and the file it has.
LEMMA NodesKeep ==
  ASSUME IInv, [Next]_vars, NEW i \in DOMAIN nodes
  PROVE  /\ i \in DOMAIN nodes' /\ nodes'[i].host = nodes[i].host
         /\ nodes'[i].address = nodes[i].address /\ nodes'[i].file = nodes[i].file
<1>0. TypeOK BY DEF IInv
<1>1. DOMAIN nodes = 1..Len(nodes) /\ nodes[i] \in Nodes BY <1>0, ElementOfSeq DEF TypeOK
<1>2. ASSUME NEW t \in Threads, Renew(t) 
      PROVE  /\ i \in DOMAIN nodes' /\ nodes'[i].host = nodes[i].host
             /\ nodes'[i].address = nodes[i].address /\ nodes'[i].file = nodes[i].file
  <2>1. nodes' = [nodes EXCEPT ![node[t]] = [nodes[node[t]] EXCEPT !.tv = now]]
    BY <1>2 DEF Renew
  <2>2. DOMAIN nodes' = DOMAIN nodes BY <2>1
  <2>3. nodes'[i] = nodes[i] \/ nodes'[i] = [nodes[i] EXCEPT !.tv = now]
    BY <1>1, <2>1
  <2> QED BY <1>1, <2>2, <2>3 DEF Nodes
<1>3. ASSUME NEW t \in Threads, Add(t) 
      PROVE  /\ i \in DOMAIN nodes' /\ nodes'[i].host = nodes[i].host
             /\ nodes'[i].address = nodes[i].address /\ nodes'[i].file = nodes[i].file
  <2>1. url[t] \in Urls /\ addr[t] \in Addresses BY <1>3 DEF Add, IInv, Knows
  <2>2. /\ nodes' \in Seq(Nodes) /\ Len(nodes') = Len(nodes) + 1
        /\ \A j \in 1..Len(nodes) : nodes'[j] = nodes[j]
    BY <1>0, <1>3, <2>1, AddType DEF Add
  <2>3. DOMAIN nodes' = 1..Len(nodes') /\ Len(nodes) \in Nat
    BY <1>0, <2>2, LenProperties DEF TypeOK
  <2> QED BY <1>1, <2>2, <2>3
<1>4. (\E t \in Threads : Renew(t) \/ Add(t)) \/ nodes' = nodes
  BY DEF Next, Serve, MovePiece, Accept, NotGet, ReadRequest, CheckHost, FindFile, CheckAge,
         OpenCached, SendSome, SendLast, Resolve, ReadAddress, ConnectRelay, EndRelay, Create,
         CannotCreate, Receive, Fail, FillWithZeros, BrowserGone, EndTransfer, FindHost, Tick,
         vars
<1> QED BY <1>2, <1>3, <1>4

\* A thread's step leaves what the others know, and what it does not touch.
LEMMA OthersKnow ==
  ASSUME IInv, [Next]_vars, NEW u \in Threads,
         pc'[u] = pc[u], url'[u] = url[u], node'[u] = node[u], addr'[u] = addr[u],
         hostent \in Addresses => hostent' \in Addresses
  PROVE  Knows(u)'
<1>1. Knows(u) BY DEF IInv
<1>2. ASSUME node[u] \in DOMAIN nodes
      PROVE  /\ node[u] \in DOMAIN nodes' /\ nodes'[node[u]].host = nodes[node[u]].host
             /\ nodes'[node[u]].address = nodes[node[u]].address
             /\ nodes'[node[u]].file = nodes[node[u]].file
  BY <1>2, NodesKeep
<1> QED BY <1>1, <1>2 DEF Knows, File, Host

\* The others' variables do not change, and no look-up leaves nothing behind.
Apart(t) ==
  /\ \A u \in Threads : u # t => /\ pc'[u] = pc[u] /\ url'[u] = url[u]
                                /\ node'[u] = node[u] /\ addr'[u] = addr[u]
  /\ hostent \in Addresses => hostent' \in Addresses

LEMMA KnowsStep ==
  ASSUME IInv, [Next]_vars
  PROVE  \A u \in Threads : Knows(u)'
<1>0. TypeOK /\ \A t \in Threads : Knows(t) BY DEF IInv
<1>d. /\ DOMAIN pc = Threads /\ DOMAIN url = Threads /\ DOMAIN node = Threads
      /\ DOMAIN addr = Threads
      /\ pc = [x \in Threads |-> pc[x]] /\ url = [x \in Threads |-> url[x]]
      /\ node = [x \in Threads |-> node[x]] /\ addr = [x \in Threads |-> addr[x]]
  BY <1>0 DEF TypeOK
<1>a. ASSUME NEW t \in Threads, Apart(t), Knows(t)' PROVE \A u \in Threads : Knows(u)'
  BY <1>a, OthersKnow DEF Apart
<1>r. ASSUME NEW t \in Threads, NEW kind, NEW what, NEW stamp, Reply(t, kind, what, stamp)
      PROVE  pc' = [pc EXCEPT ![t] = "free"]
  BY <1>r DEF Reply, Goto
<1>f. ASSUME NEW t \in Threads, Refuse(t) PROVE pc' = [pc EXCEPT ![t] = "free"]
  BY <1>f, <1>r DEF Refuse
<1>1. ASSUME NEW t \in Threads, Accept(t) PROVE \A u \in Threads : Knows(u)'
  <2>1. Apart(t) BY <1>d, <1>1 DEF Accept, Goto, Apart
  <2>2. pc'[t] = "request" BY <1>d, <1>1 DEF Accept, Goto
  <2> QED BY <1>a, <2>1, <2>2 DEF Knows
\* The steps that end with an answer.
<1>2. ASSUME NEW t \in Threads,
             NotGet(t) \/ SendLast(t) \/ EndRelay(t) \/ CannotCreate(t) \/ Renew(t) \/ Add(t)
      PROVE  \A u \in Threads : Knows(u)'
  <2>1. pc' = [pc EXCEPT ![t] = "free"]
    BY <1>2, <1>r, <1>f DEF NotGet, SendLast, EndRelay, CannotCreate, Renew, Add, Fetched
  <2>2. UNCHANGED <<threadVars, hostent>>
    BY <1>2 DEF NotGet, SendLast, EndRelay, CannotCreate, Renew, Add
  <2>3. Apart(t) BY <1>d, <2>1, <2>2 DEF Apart, threadVars
  <2>4. pc'[t] = "free" BY <1>d, <2>1
  <2> QED BY <1>a, <2>3, <2>4 DEF Knows
\* Those that only go on.
<1>3. ASSUME NEW t \in Threads, ReadRequest(t) \/ CheckHost(t) PROVE \A u \in Threads : Knows(u)'
  <2>1. /\ pc'[t] \in {"resolve", "file"} /\ url[t] \in Urls
        /\ UNCHANGED <<url, node, addr, hostent>>
    BY <1>0, <1>d, <1>3 DEF ReadRequest, CheckHost, Goto, threadVars, TypeOK
  <2>2. Apart(t) BY <1>d, <1>3 DEF ReadRequest, CheckHost, Goto, threadVars, Apart
  <2> QED BY <1>a, <2>1, <2>2 DEF Knows
<1>4. ASSUME NEW t \in Threads, FindFile(t) PROVE \A u \in Threads : Knows(u)'
  <2>1. /\ pc[t] = "file" /\ node'[t] = search_host_files(File(t))
        /\ pc'[t] = IF search_host_files(File(t)) = 0 THEN "resolve" ELSE "age"
        /\ UNCHANGED <<url, addr, nodes, hostent>>
    BY <1>d, <1>4 DEF FindFile, NodeFor, Goto
  <2>2. Apart(t) BY <1>d, <1>4 DEF FindFile, NodeFor, Goto, Apart
  <2>3. url[t] \in Urls BY <1>0, <2>1 DEF Knows
  <2>4. Knows(t)' BY <1>0, <2>1, <2>3, SearchFiles DEF Knows, File
  <2> QED BY <1>a, <2>2, <2>4
<1>5. ASSUME NEW t \in Threads, CheckAge(t) PROVE \A u \in Threads : Knows(u)'
  <2>1. /\ pc[t] = "age" /\ pc'[t] \in {"copy", "resolve"}
        /\ UNCHANGED <<url, node, addr, nodes, hostent>>
    BY <1>d, <1>5 DEF CheckAge, Goto, threadVars
  <2>2. Apart(t) BY <1>d, <1>5 DEF CheckAge, Goto, threadVars, Apart
  <2>3. Knows(t)' BY <1>0, <2>1 DEF Knows, File
  <2> QED BY <1>a, <2>2, <2>3
<1>12. ASSUME NEW t \in Threads, OpenCached(t) PROVE \A u \in Threads : Knows(u)'
  <2>0. pc[t] = "copy" /\ UNCHANGED <<url, node, addr, nodes, hostent>>
    BY <1>12 DEF OpenCached, threadVars
  <2>1. pc' = [pc EXCEPT ![t] = "free"] \/ pc' = [pc EXCEPT ![t] = "send"]
    BY <1>12, <1>f DEF OpenCached, Goto
  <2>2. Apart(t) BY <1>d, <2>0, <2>1 DEF Apart
  <2>3. pc'[t] \in {"free", "send"} BY <1>d, <2>1
  <2>4. Knows(t)' BY <1>0, <2>0, <2>3 DEF Knows, File
  <2> QED BY <1>a, <2>2, <2>4
<1>6. ASSUME NEW t \in Threads, Resolve(t) PROVE \A u \in Threads : Knows(u)'
  <2>1. pc[t] = "resolve" /\ url[t] \in Urls /\ UNCHANGED <<url, node, addr, nodes>>
    BY <1>0, <1>6 DEF Resolve, Knows, threadVars
  <2>2. CASE AddressOf[Host(t)] = None
    <3>1. pc' = [pc EXCEPT ![t] = "free"] /\ hostent' = hostent
      BY <1>6, <1>f, <2>2 DEF Resolve
    <3>2. Apart(t) BY <1>d, <2>1, <3>1 DEF Apart
    <3>3. pc'[t] = "free" BY <1>d, <3>1
    <3> QED BY <1>a, <3>2, <3>3 DEF Knows
  <2>3. CASE AddressOf[Host(t)] # None
    <3>1. pc' = [pc EXCEPT ![t] = "address"] /\ hostent' = AddressOf[Host(t)]
      BY <1>6, <2>3 DEF Resolve, Goto
    <3>2. hostent' \in Addresses BY <2>1, <2>3, <3>1, RequestAssumption DEF Host
    <3>3. Apart(t) BY <1>d, <2>1, <3>1, <3>2 DEF Apart
    <3>4. pc'[t] = "address" BY <1>d, <3>1
    <3> QED BY <1>a, <2>1, <3>2, <3>3, <3>4 DEF Knows
  <2> QED BY <2>2, <2>3
<1>7. ASSUME NEW t \in Threads, ReadAddress(t) PROVE \A u \in Threads : Knows(u)'
  <2>1. /\ pc[t] = "address" /\ pc'[t] = "connect" /\ addr'[t] = hostent
        /\ UNCHANGED <<url, node, hostent>>
    BY <1>d, <1>7 DEF ReadAddress, Goto
  <2>2. Apart(t) BY <1>d, <1>7 DEF ReadAddress, Goto, Apart
  <2>3. Knows(t)' BY <1>0, <2>1 DEF Knows
  <2> QED BY <1>a, <2>2, <2>3
<1>8. ASSUME NEW t \in Threads, ConnectRelay(t) \/ Create(t) \/ EndTransfer(t) \/ Fail(t)
      PROVE  \A u \in Threads : Knows(u)'
  <2>1. /\ pc[t] \in {"connect", "transfer"} /\ pc'[t] \in {"transfer", "host", "spin"}
        /\ UNCHANGED <<url, node, addr, hostent>>
    BY <1>d, <1>8 DEF ConnectRelay, Create, EndTransfer, Fail, Goto, threadVars
  <2>2. Apart(t)
    BY <1>d, <1>8 DEF ConnectRelay, Create, EndTransfer, Fail, Goto, threadVars, Apart
  <2>3. Knows(t)' BY <1>0, <2>1 DEF Knows
  <2> QED BY <1>a, <2>2, <2>3
<1>9. ASSUME NEW t \in Threads, FindHost(t) PROVE \A u \in Threads : Knows(u)'
  <2>1. /\ pc[t] = "host" /\ node'[t] = search_hosts(Host(t))
        /\ pc'[t] = IF search_hosts(Host(t)) = 0 THEN "add" ELSE "renew"
        /\ UNCHANGED <<url, addr, nodes, hostent>>
    BY <1>d, <1>9 DEF FindHost, Searched, Goto
  <2>2. Apart(t) BY <1>d, <1>9 DEF FindHost, Searched, Goto, Apart
  <2>3. url[t] \in Urls /\ addr[t] \in Addresses BY <1>0, <2>1 DEF Knows
  <2>4. Knows(t)' BY <1>0, <2>1, <2>3, SearchHosts DEF Knows, Host
  <2> QED BY <1>a, <2>2, <2>4
<1>10. ASSUME UNCHANGED <<pc, threadVars, hostent>> PROVE \A u \in Threads : Knows(u)'
  BY <1>10, OthersKnow DEF threadVars
<1>11. ASSUME (\E t \in Threads : MovePiece(t) \/ BrowserGone(t)) \/ Tick \/ UNCHANGED vars
       PROVE  \A u \in Threads : Knows(u)'
  <2>1. UNCHANGED <<pc, threadVars, hostent>>
    BY <1>11 DEF MovePiece, SendSome, Receive, FillWithZeros, BrowserGone, Tick, vars
  <2> QED BY <1>10, <2>1
<1> QED
  BY <1>1, <1>2, <1>3, <1>4, <1>5, <1>6, <1>7, <1>8, <1>9, <1>11, <1>12 DEF Next, Serve

LEMMA Holds == Spec => []IInv
<1>1. Init => IInv
  BY InitType DEF Init, IInv, Knows
<1>2. IInv /\ [Next]_vars => IInv'
  BY StepType, KnowsStep DEF IInv
<1> QED BY <1>1, <1>2, PTL DEF Spec

(***************************************************************************)
(* The variables have their types, however many threads, hosts and         *)
(* resources there are: every index into the list is that of a node.       *)
(***************************************************************************)
THEOREM TypeCorrect == Spec => []TypeOK
<1>1. IInv => TypeOK BY DEF IInv
<1> QED BY <1>1, Holds, PTL

-----------------------------------------------------------------------------
\* Some transfer from the host h has been recorded at s or later.
Recorded(h, s) == \E w \in Urls : HostOf[w] = h /\ s <= recorded[w]

\* What is true of every node: it was added for some resource, and the last
\* transfer from that resource's host is as late as the node says.
Born(n) ==
  \E u \in Urls : /\ n.file \in Copied(FileOf[u]) /\ n.host \in Copied(HostOf[u])
                 /\ n.address \in {Garbled} \cup UNION {Copied(a) : a \in Addresses}
                 /\ Recorded(HostOf[u], n.tv)

FreshInv ==
  /\ \A w \in Urls : recorded[w] <= now
  /\ \A i \in DOMAIN nodes : Born(nodes[i])
  /\ \A t \in Threads : answer[t].kind = "cached" => Recorded(Host(t), answer[t].stamp)

\* A later transfer takes nothing back.
LEMMA RecordedGrows ==
  ASSUME \A w \in Urls : recorded[w] \in Int /\ recorded'[w] \in Int /\ recorded[w] <= recorded'[w],
         NEW h, NEW s \in Nat, Recorded(h, s)
  PROVE  Recorded(h, s)'
BY DEF Recorded

LEMMA BornGrows ==
  ASSUME \A w \in Urls : recorded[w] \in Int /\ recorded'[w] \in Int /\ recorded[w] <= recorded'[w],
         NEW n \in Nodes, NEW m, m = n, Born(n)
  PROVE  Born(m)'
<1>1. n.tv \in Nat BY BoundAssumption DEF Nodes
<1>2. PICK u \in Urls : /\ n.file \in Copied(FileOf[u]) /\ n.host \in Copied(HostOf[u])
                       /\ n.address \in {Garbled} \cup UNION {Copied(a) : a \in Addresses}
                       /\ Recorded(HostOf[u], n.tv)
  BY DEF Born
<1>3. Recorded(HostOf[u], n.tv)' BY <1>1, <1>2, RecordedGrows
<1> QED BY <1>2, <1>3 DEF Born

\* No host's name, nor the name of the file of another host's resource, is what
\* a string copied without its final zero can have become.
NoneBegins ==
  \A s, r \in Strings : <<s, r>> \in Prefixed =>
    /\ s \in Hosts \cup Addresses => r \notin Hosts
    /\ s \in Files => r \notin Files

LEMMA CopiesKept ==
  ASSUME NoneBegins
  PROVE  /\ \A h \in Hosts \cup Addresses, x \in Hosts : x \in Copied(h) => x = h
         /\ \A f, x \in Files : x \in Copied(f) => x = f
<1>1. ASSUME NEW s \in Strings, NEW x \in Strings, x \in Copied(s), x # s PROVE <<s, x>> \in Prefixed
  BY <1>1, RequestAssumption DEF Copied, Strings
<1>2. ASSUME NEW h \in Hosts \cup Addresses, NEW x \in Hosts, x \in Copied(h) PROVE x = h
  <2>1. h \in Strings /\ x \in Strings BY DEF Strings
  <2> QED BY <1>1, <1>2, <2>1 DEF NoneBegins
<1>3. ASSUME NEW f \in Files, NEW x \in Files, x \in Copied(f) PROVE x = f
  <2>1. f \in Strings /\ x \in Strings BY DEF Strings
  <2> QED BY <1>1, <1>3, <2>1 DEF NoneBegins
<1> QED BY <1>2, <1>3

LEMMA FreshStep ==
  ASSUME Hosts \cap Addresses = {}, NoneBegins,
         \A u, v \in Urls : FileOf[u] = FileOf[v] => HostOf[u] = HostOf[v],
         IInv, IInv', FreshInv, [Next]_vars
  PROVE  FreshInv'
<1>0. TypeOK /\ TypeOK' BY DEF IInv
<1>d. /\ DOMAIN nodes = 1..Len(nodes) /\ \A i \in DOMAIN nodes : nodes[i] \in Nodes
  BY <1>0, ElementOfSeq DEF TypeOK
<1>n. /\ now \in Nat /\ now' \in Nat
      /\ \A w \in Urls : recorded[w] \in Int /\ recorded'[w] \in Int
  BY <1>0, BoundAssumption DEF TypeOK
\* Steps that record nothing and send nothing out of the cache.
<1>q. ASSUME UNCHANGED <<nodes, recorded>>, now' >= now,
             \A t \in Threads : answer'[t].kind = "cached" =>
                               answer'[t] = answer[t] /\ url'[t] = url[t]
      PROVE  FreshInv'
  <2>1. \A w \in Urls : recorded'[w] <= now' BY <1>n, <1>q DEF FreshInv
  <2>2. \A i \in DOMAIN nodes' : Born(nodes[i])'
    BY <1>q DEF FreshInv, Born, Recorded
  <2>3. \A t \in Threads : answer'[t].kind = "cached" => Recorded(Host(t), answer[t].stamp)'
    BY <1>q DEF FreshInv, Recorded, Host
  <2> QED BY <2>1, <2>2, <2>3 DEF FreshInv
<1>a. DOMAIN answer = Threads /\ answer = [x \in Threads |-> answer[x]] /\ DOMAIN url = Threads
      /\ url = [x \in Threads |-> url[x]]
  BY <1>0 DEF TypeOK
<1>r. ASSUME NEW t \in Threads, NEW kind, NEW what, NEW stamp, Reply(t, kind, what, stamp)
      PROVE  /\ answer'[t].kind = kind /\ answer'[t].what = what /\ answer'[t].stamp = stamp
             /\ \A x \in Threads : x # t => answer'[x] = answer[x]
  BY <1>a, <1>r DEF Reply
<1>1. ASSUME NEW t \in Threads, Accept(t) PROVE FreshInv'
  <2>1. /\ answer'[t].kind = "none"
        /\ \A x \in Threads : x # t => answer'[x] = answer[x] /\ url'[x] = url[x]
    BY <1>a, <1>1 DEF Accept, Nothing
  <2>2. UNCHANGED <<nodes, recorded, now>> BY <1>1 DEF Accept, historyVars
  <2> QED BY <1>n, <1>q, <2>1, <2>2
<1>2. ASSUME NEW t \in Threads, NotGet(t) \/ EndRelay(t) \/ CannotCreate(t)
      PROVE  FreshInv'
  <2>1. Refuse(t) \/ Reply(t, "fetched", OnePage(Page(t)), 0)
    BY <1>2 DEF NotGet, EndRelay, CannotCreate
  <2>2. answer'[t].kind # "cached" /\ \A x \in Threads : x # t => answer'[x] = answer[x]
    BY <1>r, <2>1 DEF Refuse
  <2>3. UNCHANGED <<url, nodes, recorded, now>>
    BY <1>2 DEF NotGet, EndRelay, CannotCreate, threadVars, historyVars
  <2> QED BY <1>n, <1>q, <2>2, <2>3
<1>9. ASSUME NEW t \in Threads, OpenCached(t) PROVE FreshInv'
  <2>1. UNCHANGED <<url, nodes, recorded, now>> BY <1>9 DEF OpenCached, threadVars, historyVars
  <2>2. Refuse(t) \/ answer' = answer BY <1>9 DEF OpenCached
  <2>3. \A x \in Threads : answer'[x].kind = "cached" => answer'[x] = answer[x]
    BY <1>r, <2>2 DEF Refuse
  <2> QED BY <1>n, <1>q, <2>1, <2>3
<1>3. ASSUME NEW t \in Threads, SendLast(t) PROVE FreshInv'
  <2> DEFINE n == nodes[node[t]]
  <2>1. UNCHANGED <<url, nodes, recorded, now>> BY <1>3 DEF SendLast, threadVars, historyVars
  <2>2. node[t] \in DOMAIN nodes /\ n.file = File(t) /\ url[t] \in Urls
    BY <1>3 DEF SendLast, IInv, Knows
  <2>3. Reply(t, "cached", Mixed(copy[t], disk[File(t)]), n.tv) BY <1>3 DEF SendLast
  <2>4. answer'[t].stamp = n.tv /\ \A x \in Threads : x # t => answer'[x] = answer[x]
    BY <1>r, <2>3
  <2>5. PICK u \in Urls : n.file \in Copied(FileOf[u]) /\ Recorded(HostOf[u], n.tv)
    BY <2>2 DEF FreshInv, Born
  <2>6. FileOf[u] = FileOf[url[t]]
    BY <2>2, <2>5, CopiesKept, RequestAssumption DEF File
  <2>7. HostOf[u] = Host(t) BY <2>2, <2>6 DEF Host
  <2>8. Recorded(Host(t), n.tv) BY <2>5, <2>7
  <2>9. \A x \in Threads : answer'[x].kind = "cached" => Recorded(Host(x), answer'[x].stamp)
    BY <2>4, <2>8 DEF FreshInv
  <2>10. \A x \in Threads : answer'[x].kind = "cached" => Recorded(Host(x), answer[x].stamp)'
    BY <2>1, <2>9 DEF Recorded, Host
  <2>11. (\A w \in Urls : recorded[w] <= now)' BY <2>1 DEF FreshInv
  <2>12. \A i \in DOMAIN nodes' : Born(nodes[i])' BY <2>1 DEF FreshInv, Born, Recorded
  <2> QED BY <2>10, <2>11, <2>12 DEF FreshInv
<1>4. ASSUME NEW t \in Threads, Resolve(t) PROVE FreshInv'
  <2>1. UNCHANGED <<url, nodes, recorded, now>> BY <1>4 DEF Resolve, threadVars, historyVars
  <2>2. Refuse(t) \/ answer' = answer BY <1>4 DEF Resolve
  <2>3. \A x \in Threads : answer'[x].kind = "cached" => answer'[x] = answer[x]
    BY <1>r, <2>2 DEF Refuse
  <2> QED BY <1>n, <1>q, <2>1, <2>3
<1>5. ASSUME NEW t \in Threads, Renew(t) \/ Add(t) PROVE FreshInv'
  <2>0. url[t] \in Urls /\ addr[t] \in Addresses BY <1>5 DEF Renew, Add, IInv, Knows
  <2>1. /\ recorded' = [recorded EXCEPT ![url[t]] = now] /\ Fetched(t)
        /\ UNCHANGED <<url, now>>
    BY <1>5 DEF Renew, Add, Record, threadVars
  <2>2. DOMAIN recorded = Urls BY <1>0 DEF TypeOK
  <2>3. recorded'[url[t]] = now /\ \A w \in Urls : w # url[t] => recorded'[w] = recorded[w]
    BY <2>0, <2>1, <2>2
  <2>4. /\ \A w \in Urls : recorded[w] <= recorded'[w]
        /\ \A w \in Urls : recorded'[w] <= now'
    BY <1>n, <2>1, <2>3 DEF FreshInv
  <2>5. Recorded(Host(t), now)' BY <1>n, <2>0, <2>1, <2>3 DEF Recorded, Host
  <2>6. \A x \in Threads : answer'[x].kind = "cached" => answer'[x] = answer[x]
    BY <1>r, <2>1 DEF Fetched
  <2>7. \A x \in Threads : answer'[x].kind = "cached" => Recorded(Host(x), answer[x].stamp)'
    <3> TAKE x \in Threads
    <3> HAVE answer'[x].kind = "cached"
    <3>1. answer'[x] = answer[x] /\ answer[x].stamp \in Nat
      BY <1>0, <2>6, BoundAssumption DEF TypeOK
    <3>2. Recorded(Host(x), answer[x].stamp) BY <3>1 DEF FreshInv
    <3>3. Host(x)' = Host(x) BY <2>1 DEF Host
    <3> QED BY <1>n, <2>4, <3>1, <3>2, <3>3, RecordedGrows
  <2>8. \A i \in DOMAIN nodes' : Born(nodes[i])'
    <3>0. ASSUME NEW i \in DOMAIN nodes, nodes'[i] = nodes[i] PROVE Born(nodes[i])'
      BY <1>d, <1>n, <2>4, <3>0, BornGrows DEF FreshInv
    <3>1. CASE Add(t)
      <4>0. PICK l \in Nat : l = Len(nodes) + 1 BY <1>0 DEF TypeOK
      <4>1. /\ nodes' \in Seq(Nodes) /\ Len(nodes') = l
            /\ \A i \in 1..Len(nodes) : nodes'[i] = nodes[i]
            /\ nodes'[l].host \in Copied(Host(t)) /\ nodes'[l].file \in Copied(File(t))
            /\ nodes'[l].address \in Copied(addr[t]) /\ nodes'[l].tv = now
        BY <1>0, <2>0, <3>1, <4>0, AddType DEF Add
      <4>2. DOMAIN nodes' = 1..l /\ Len(nodes) \in Nat
        BY <1>0, <4>0, <4>1, LenProperties DEF TypeOK
      <4>3. Born(nodes[l])'
        BY <2>0, <2>1, <2>5, <4>1 DEF Born, Host, File
      <4>4. \A i \in DOMAIN nodes' : i = l \/ i \in 1..Len(nodes) BY <4>0, <4>2
      <4> QED BY <1>d, <3>0, <4>1, <4>3, <4>4
    <3>2. CASE Renew(t)
      <4>0. PICK k \in DOMAIN nodes : k = node[t] BY <3>2 DEF Renew, IInv, Knows
      <4>1. /\ Host(t) \in {nodes[k].host, nodes[k].address}
            /\ nodes' = [nodes EXCEPT ![k] = [nodes[k] EXCEPT !.tv = now]]
        BY <3>2, <4>0 DEF Renew, IInv, Knows
      <4>2. /\ DOMAIN nodes' = DOMAIN nodes /\ nodes'[k] = [nodes[k] EXCEPT !.tv = now]
            /\ \A i \in DOMAIN nodes : i # k => nodes'[i] = nodes[i]
        BY <4>1
      <4>3. nodes[k] \in Nodes BY <1>d, <4>1
      <4>4. Host(t) \in Hosts BY <2>0, RequestAssumption DEF Host
      <4>6. PICK u \in Urls :
              /\ nodes[k].file \in Copied(FileOf[u]) /\ nodes[k].host \in Copied(HostOf[u])
              /\ nodes[k].address \in {Garbled} \cup UNION {Copied(a) : a \in Addresses}
        BY <4>1 DEF FreshInv, Born
      <4>5. nodes[k].host = Host(t)
        <5>1. Host(t) # Garbled BY <4>4, RequestAssumption
        <5>2. \A a \in Addresses : Host(t) \notin Copied(a) BY <4>4, CopiesKept
        <5> QED BY <4>1, <4>6, <5>1, <5>2
      <4>7. HostOf[u] = Host(t) BY <4>4, <4>5, <4>6, CopiesKept, RequestAssumption
      <4>8. /\ nodes'[k].file = nodes[k].file /\ nodes'[k].host = nodes[k].host
            /\ nodes'[k].address = nodes[k].address
            /\ nodes'[k].tv = now
        BY <4>2, <4>3 DEF Nodes
      <4>9. Born(nodes[k])'
        BY <2>1, <2>5, <4>6, <4>7, <4>8 DEF Born, Host
      <4>10. \A i \in DOMAIN nodes' : i = k \/ (i \in DOMAIN nodes /\ nodes'[i] = nodes[i])
        BY <4>2
      <4> QED BY <3>0, <4>9, <4>10
    <3> QED BY <1>5, <3>1, <3>2
  <2> QED BY <2>4, <2>7, <2>8 DEF FreshInv
<1>6. ASSUME NEW t \in Threads,
             \/ ReadRequest(t) \/ CheckHost(t) \/ FindFile(t) \/ CheckAge(t) \/ ReadAddress(t)
             \/ ConnectRelay(t) \/ Create(t) \/ EndTransfer(t) \/ FindHost(t) \/ Fail(t)
             \/ BrowserGone(t) \/ MovePiece(t)
      PROVE  FreshInv'
  <2>1. UNCHANGED <<url, answer, nodes, recorded, now>>
    BY <1>6 DEF ReadRequest, CheckHost, FindFile, CheckAge, ReadAddress, ConnectRelay, Create,
                EndTransfer, FindHost, Fail, BrowserGone, MovePiece, SendSome, Receive,
                FillWithZeros, threadVars, historyVars
  <2> QED BY <1>n, <1>q, <2>1
<1>7. CASE Tick
  <2>1. UNCHANGED <<url, answer, nodes, recorded>> /\ now' = now + 1
    BY <1>7 DEF Tick, threadVars, historyVars
  <2> QED BY <1>n, <1>q, <2>1
<1>8. CASE UNCHANGED vars
  <2>1. UNCHANGED <<url, answer, nodes, recorded, now>>
    BY <1>8 DEF vars, threadVars, historyVars
  <2> QED BY <1>n, <1>q, <2>1
<1> QED BY <1>1, <1>2, <1>3, <1>4, <1>5, <1>6, <1>7, <1>8, <1>9 DEF Next, Serve

(***************************************************************************)
(* The age check: where no URI names its host by the address, files of     *)
(* different hosts have different names, and no name or address begins a    *)
(* host's name, nor a file's name another file's, a copy is never sent on   *)
(* the strength of a transfer from another host, even one at the same       *)
(* address, whatever follows the strings that add_host copies without their *)
(* final zero.                                                             *)
(***************************************************************************)
THEOREM CopiesAgeWithTheirHost ==
  ASSUME Hosts \cap Addresses = {}, NoneBegins,
         \A u, v \in Urls : FileOf[u] = FileOf[v] => HostOf[u] = HostOf[v]
  PROVE  Spec => []FreshHost
<1>1. Init => FreshInv
  <2> SUFFICES ASSUME Init PROVE FreshInv
    OBVIOUS
  <2>1. (\A w \in Urls : recorded[w] <= now) /\ DOMAIN nodes = {} BY DEF Init
  <2>2. \A t \in Threads : answer[t].kind = "none" BY DEF Init, Nothing
  <2> QED BY <2>1, <2>2 DEF FreshInv
<1>2. IInv /\ IInv' /\ FreshInv /\ [Next]_vars => FreshInv'
  BY FreshStep
<1>3. FreshInv => FreshHost
  BY DEF FreshInv, FreshHost, Recorded
<1> QED BY <1>1, <1>2, <1>3, Holds, PTL DEF Spec

-----------------------------------------------------------------------------
Own(u) == <<u, AddressOf[HostOf[u]]>>
Connected == {"connect", "transfer", "host", "renew", "add"}
\* What is in c is of the page of u, and zeros.
Of(c, u) == \A p \in c.from : p \in {Own(u), None}

\* While no look-up has been overtaken: the address a thread has read is its
\* host's, and a file holds what is of the resource it is named for.
AddressesOwn == \A t \in Threads : pc[t] \in Connected => addr[t] = AddressOf[Host(t)]
FilesOwn == \A u \in Urls : Of(disk[FileOf[u]], u)
CopiesOwn == \A t \in Threads : pc[t] = "send" => Of(copy[t], url[t])
AnswersOwn == \A t \in Threads : Of(answer[t].what, url[t])
PagesOwn == AddressesOwn /\ FilesOwn /\ CopiesOwn /\ AnswersOwn

PageInv == overtaken \/ PagesOwn

LEMMA OfWhat ==
  /\ \A u : Of(Missing, u) /\ Of(Empty, u) /\ Of(OnePage(Own(u)), u)
  /\ \A u, c, d : Of(c, u) /\ Of(d, u) => Of(Mixed(c, d), u)
  /\ \A u, c, p, all : Of(c, u) /\ p \in {Own(u), None} => Of(Added(c, p, all), u)
<1>1. \A u : Of(Missing, u) /\ Of(Empty, u) BY DEF Of, Missing, Empty
<1>2. \A u : Of(OnePage(Own(u)), u) BY DEF Of, OnePage
<1>3. \A u, c, d : Of(c, u) /\ Of(d, u) => Of(Mixed(c, d), u) BY DEF Of, Mixed
<1>4. \A u, c, p, all : Of(c, u) /\ p \in {Own(u), None} => Of(Added(c, p, all), u)
  BY DEF Of, Added
<1> QED BY <1>1, <1>2, <1>3, <1>4

LEMMA Overtakes == [Next]_vars /\ overtaken => overtaken'
BY DEF Next, Serve, MovePiece, Accept, NotGet, ReadRequest, CheckHost, FindFile, CheckAge,
       OpenCached, SendSome, SendLast, Resolve, ReadAddress, ConnectRelay, EndRelay, Create,
       CannotCreate, Receive, Fail, FillWithZeros, BrowserGone, EndTransfer, FindHost, Renew,
       Add, Tick, vars, historyVars

\* What a step that writes files does to them: t's file is truncated or gets
\* more of t's page or zeros.
LEMMA WritesOwn ==
  ASSUME \A u, v \in Urls : FileOf[u] = FileOf[v] => u = v,
         IInv, PagesOwn, NEW t \in Threads,
         Create(t) \/ Receive(t) \/ EndTransfer(t) \/ Fail(t) \/ FillWithZeros(t)
  PROVE  FilesOwn'
<1>0. TypeOK BY DEF IInv
<1>1. pc[t] \in {"connect", "transfer", "spin"}
  BY DEF Create, Receive, EndTransfer, Fail, FillWithZeros
<1>2. url[t] \in Urls /\ File(t) \in Files BY <1>1, RequestAssumption DEF IInv, Knows, File
<1>3. ASSUME pc[t] = "transfer" PROVE Page(t) = Own(url[t])
  BY <1>3 DEF PagesOwn, AddressesOwn, Connected, Page, Own, Host
<1>4. Of(disk[File(t)], url[t]) BY <1>2 DEF PagesOwn, FilesOwn, File
<1>5. \/ disk' = disk
      \/ \E c : Of(c, url[t]) /\ disk' = [disk EXCEPT ![File(t)] = c]
  <2>1. CASE Create(t) BY <2>1, OfWhat DEF Create
  <2>2. CASE Receive(t)
    <3>1. PICK all \in {FALSE, intact[t]} :
            disk' = [disk EXCEPT ![File(t)] = Added(@, Page(t), all)]
      BY <2>2 DEF Receive
    <3>2. Of(Added(disk[File(t)], Page(t), all), url[t])
      BY <1>3, <1>4, <2>2, OfWhat DEF Receive
    <3> QED BY <3>1, <3>2
  <2>3. CASE EndTransfer(t)
    <3>1. Of(Added(disk[File(t)], Page(t), intact[t]), url[t])
      BY <1>3, <1>4, <2>3, OfWhat DEF EndTransfer
    <3> QED BY <2>3, <3>1 DEF EndTransfer
  <2>4. CASE Fail(t) BY <2>4 DEF Fail
  <2>5. CASE FillWithZeros(t)
    <3>1. Of(Added(disk[File(t)], None, FALSE), url[t]) BY <1>4, OfWhat
    <3> QED BY <2>5, <3>1 DEF FillWithZeros
  <2> QED BY <2>1, <2>2, <2>3, <2>4, <2>5
<1>6. DOMAIN disk = Files BY <1>0 DEF TypeOK
<1>7. \A u \in Urls : Of(disk'[FileOf[u]], u)
  <2> SUFFICES ASSUME NEW u \in Urls PROVE Of(disk'[FileOf[u]], u)
    OBVIOUS
  <2>1. Of(disk[FileOf[u]], u) /\ FileOf[u] \in Files
    BY RequestAssumption DEF PagesOwn, FilesOwn
  <2>2. CASE u = url[t] BY <1>2, <1>5, <1>6, <2>1, <2>2 DEF File
  <2>3. CASE u # url[t]
    <3>1. FileOf[u] # File(t) BY <1>2, <2>3 DEF File
    <3> QED BY <1>5, <1>6, <2>1, <3>1
  <2> QED BY <2>2, <2>3
<1> QED BY <1>7 DEF FilesOwn, Of, Own

LEMMA PageStep ==
  ASSUME \A u, v \in Urls : FileOf[u] = FileOf[v] => u = v,
         IInv, IInv', PageInv, [Next]_vars
  PROVE  PageInv'
<1>1. overtaken => overtaken' BY Overtakes
<1> SUFFICES ASSUME ~overtaken' PROVE PagesOwn'
  BY DEF PageInv
<1>2. PagesOwn BY <1>1 DEF PageInv
<1>0. TypeOK BY DEF IInv
<1>d. /\ DOMAIN pc = Threads /\ DOMAIN url = Threads /\ DOMAIN answer = Threads
      /\ DOMAIN addr = Threads /\ DOMAIN copy = Threads
      /\ pc = [x \in Threads |-> pc[x]] /\ url = [x \in Threads |-> url[x]]
      /\ answer = [x \in Threads |-> answer[x]] /\ addr = [x \in Threads |-> addr[x]]
      /\ copy = [x \in Threads |-> copy[x]]
  BY <1>0 DEF TypeOK
<1>p. ASSUME NEW t \in Threads, pc[t] \in Connected PROVE Page(t) = Own(url[t])
  BY <1>2, <1>p DEF PagesOwn, AddressesOwn, Page, Own, Host
<1>r. ASSUME NEW t \in Threads, NEW kind, NEW what, NEW stamp, Reply(t, kind, what, stamp)
      PROVE  /\ answer'[t].what = what /\ pc'[t] = "free"
             /\ \A x \in Threads : x # t => answer'[x] = answer[x] /\ pc'[x] = pc[x]
  BY <1>d, <1>r DEF Reply, Goto
\* A step that ends with an answer.
<1>a. ASSUME NEW t \in Threads, NEW kind, NEW what, NEW stamp, Reply(t, kind, what, stamp),
             UNCHANGED <<url, addr, disk>>, \A x \in Threads : x # t => copy'[x] = copy[x],
             Of(what, url[t])
      PROVE  PagesOwn'
  <2>1. /\ answer'[t].what = what /\ pc'[t] = "free"
        /\ \A x \in Threads : x # t => answer'[x] = answer[x] /\ pc'[x] = pc[x]
    BY <1>a, <1>r
  <2>2. AddressesOwn' BY <1>2, <1>a, <2>1 DEF PagesOwn, AddressesOwn, Connected, Host
  <2>3. FilesOwn' BY <1>2, <1>a DEF PagesOwn, FilesOwn, Of, Own
  <2>4. CopiesOwn' BY <1>2, <1>a, <2>1 DEF PagesOwn, CopiesOwn, Of, Own
  <2>5. AnswersOwn' BY <1>2, <1>a, <2>1 DEF PagesOwn, AnswersOwn, Of, Own
  <2> QED BY <2>2, <2>3, <2>4, <2>5 DEF PagesOwn
\* A step that ends with none.
<1>q. ASSUME UNCHANGED <<url, answer>>, FilesOwn',
             \A x \in Threads : pc'[x] \in Connected => addr'[x] = AddressOf[Host(x)],
             \A x \in Threads : pc'[x] = "send" => Of(copy'[x], url[x])
      PROVE  PagesOwn'
  <2>1. AddressesOwn' BY <1>q DEF AddressesOwn, Host
  <2>2. CopiesOwn' BY <1>q DEF CopiesOwn, Of, Own
  <2>3. AnswersOwn' BY <1>2, <1>q DEF PagesOwn, AnswersOwn, Of, Own
  <2> QED BY <1>q, <2>1, <2>2, <2>3 DEF PagesOwn
<1>f. ASSUME UNCHANGED disk PROVE FilesOwn'
  BY <1>2, <1>f DEF PagesOwn, FilesOwn, Of, Own
<1>s. ASSUME NEW t \in Threads, pc[t] \in {"copy", "send"}
      PROVE  url[t] \in Urls /\ nodes[node[t]].file = File(t) /\ Of(disk[File(t)], url[t])
  BY <1>2, <1>s DEF IInv, Knows, PagesOwn, FilesOwn, File
<1>3. ASSUME NEW t \in Threads, Accept(t) PROVE PagesOwn'
  <2>1. /\ pc'[t] = "request" /\ answer'[t].what = Missing /\ UNCHANGED <<disk, copy>>
        /\ \A x \in Threads : x # t => /\ pc'[x] = pc[x] /\ url'[x] = url[x]
                                      /\ addr'[x] = addr[x] /\ answer'[x] = answer[x]
    BY <1>d, <1>3 DEF Accept, Goto, Nothing, copyVars
  <2>2. AddressesOwn' BY <1>2, <2>1 DEF PagesOwn, AddressesOwn, Connected, Host
  <2>3. FilesOwn' BY <1>f, <2>1
  <2>4. CopiesOwn' BY <1>2, <2>1 DEF PagesOwn, CopiesOwn, Of, Own
  <2>5. AnswersOwn' BY <1>2, <2>1, OfWhat DEF PagesOwn, AnswersOwn, Of, Own, Missing
  <2> QED BY <2>2, <2>3, <2>4, <2>5 DEF PagesOwn
<1>4. ASSUME NEW t \in Threads, NotGet(t) \/ CannotCreate(t) PROVE PagesOwn'
  <2>1. Refuse(t) /\ UNCHANGED <<url, addr, disk, copy>>
    BY <1>4 DEF NotGet, CannotCreate, threadVars, copyVars
  <2> QED BY <1>a, <2>1, OfWhat DEF Refuse
<1>5. ASSUME NEW t \in Threads, OpenCached(t) PROVE PagesOwn'
  <2>1. UNCHANGED <<url, addr, disk>> /\ pc[t] = "copy" BY <1>5 DEF OpenCached, threadVars
  <2>2. nodes[node[t]].file = File(t) /\ Of(disk[File(t)], url[t]) BY <1>s, <2>1
  <2>3. CASE ~Readable(File(t))
    <3>1. Refuse(t) /\ copy' = copy BY <1>5, <2>2, <2>3 DEF OpenCached
    <3> QED BY <1>a, <2>1, <3>1, OfWhat DEF Refuse
  <2>4. CASE Readable(File(t))
    <3>1. /\ copy' = [copy EXCEPT ![t] = disk[File(t)]] /\ pc' = [pc EXCEPT ![t] = "send"]
          /\ answer' = answer
      BY <1>5, <2>2, <2>4 DEF OpenCached, Goto
    <3>2. /\ copy'[t] = disk[File(t)] /\ pc'[t] = "send"
          /\ \A x \in Threads : x # t => copy'[x] = copy[x] /\ pc'[x] = pc[x]
      BY <1>d, <3>1
    <3>3. \A x \in Threads : pc'[x] \in Connected => addr'[x] = AddressOf[Host(x)]
      BY <1>2, <2>1, <3>2 DEF PagesOwn, AddressesOwn, Connected
    <3>4. \A x \in Threads : pc'[x] = "send" => Of(copy'[x], url[x])
      BY <1>2, <2>2, <3>2 DEF PagesOwn, CopiesOwn
    <3> QED BY <1>f, <1>q, <2>1, <3>1, <3>3, <3>4
  <2> QED BY <2>3, <2>4
<1>12. ASSUME NEW t \in Threads, SendSome(t) PROVE PagesOwn'
  <2>1. /\ UNCHANGED <<pc, url, addr, answer, disk>> /\ pc[t] = "send"
        /\ copy' = [copy EXCEPT ![t] = Mixed(copy[t], disk[File(t)])]
    BY <1>12 DEF SendSome, threadVars
  <2>2. Of(Mixed(copy[t], disk[File(t)]), url[t])
    BY <1>2, <1>s, <2>1, OfWhat DEF PagesOwn, CopiesOwn
  <2>3. /\ copy'[t] = Mixed(copy[t], disk[File(t)])
        /\ \A x \in Threads : x # t => copy'[x] = copy[x]
    BY <1>d, <2>1
  <2>4. \A x \in Threads : pc'[x] = "send" => Of(copy'[x], url[x])
    BY <1>2, <2>1, <2>2, <2>3 DEF PagesOwn, CopiesOwn
  <2> QED BY <1>2, <1>f, <1>q, <2>1, <2>4 DEF PagesOwn, AddressesOwn
<1>13. ASSUME NEW t \in Threads, SendLast(t) PROVE PagesOwn'
  <2>1. /\ UNCHANGED <<url, addr, disk>> /\ pc[t] = "send"
        /\ Reply(t, "cached", Mixed(copy[t], disk[File(t)]), nodes[node[t]].tv)
        /\ copy' = [copy EXCEPT ![t] = Missing]
    BY <1>13 DEF SendLast, threadVars
  <2>2. Of(Mixed(copy[t], disk[File(t)]), url[t])
    BY <1>2, <1>s, <2>1, OfWhat DEF PagesOwn, CopiesOwn
  <2>3. \A x \in Threads : x # t => copy'[x] = copy[x] BY <1>d, <2>1
  <2> QED BY <1>a, <2>1, <2>2, <2>3
<1>6. ASSUME NEW t \in Threads, EndRelay(t) \/ Renew(t) \/ Add(t) PROVE PagesOwn'
  <2>1. /\ Reply(t, "fetched", OnePage(Page(t)), 0) /\ UNCHANGED <<url, addr, disk, copy>>
        /\ pc[t] \in {"transfer", "renew", "add"}
    BY <1>6 DEF EndRelay, Renew, Add, Fetched, threadVars, copyVars
  <2>2. Page(t) = Own(url[t]) BY <1>p, <2>1 DEF Connected
  <2> QED BY <1>a, <2>1, <2>2, OfWhat
<1>7. ASSUME NEW t \in Threads, Resolve(t) PROVE PagesOwn'
  <2>1. UNCHANGED <<url, addr, disk, copy>> BY <1>7 DEF Resolve, threadVars, copyVars
  <2>2. CASE AddressOf[Host(t)] = None
    <3>1. Refuse(t) BY <1>7, <2>2 DEF Resolve
    <3> QED BY <1>a, <2>1, <3>1, OfWhat DEF Refuse
  <2>3. CASE AddressOf[Host(t)] # None
    <3>1. answer' = answer /\ pc' = [pc EXCEPT ![t] = "address"]
      BY <1>7, <2>3 DEF Resolve, Goto
    <3>2. \A x \in Threads : pc'[x] = pc[x] \/ pc'[x] = "address" BY <1>d, <3>1
    <3>3. \A x \in Threads : pc'[x] \in Connected => addr'[x] = AddressOf[Host(x)]
      BY <1>2, <2>1, <3>2 DEF PagesOwn, AddressesOwn, Connected
    <3>4. \A x \in Threads : pc'[x] = "send" => Of(copy'[x], url[x])
      BY <1>2, <2>1, <3>2 DEF PagesOwn, CopiesOwn
    <3> QED BY <1>f, <1>q, <2>1, <3>1, <3>3, <3>4
  <2> QED BY <2>2, <2>3
<1>8. ASSUME NEW t \in Threads, ReadAddress(t) PROVE PagesOwn'
  <2>1. UNCHANGED <<url, answer, disk, copy>> /\ hostent = AddressOf[Host(t)]
    BY <1>8 DEF ReadAddress, copyVars
  <2>2. /\ addr'[t] = hostent /\ pc'[t] = "connect"
        /\ \A x \in Threads : x # t => addr'[x] = addr[x] /\ pc'[x] = pc[x]
    BY <1>d, <1>8 DEF ReadAddress, Goto
  <2>3. \A x \in Threads : pc'[x] \in Connected => addr'[x] = AddressOf[Host(x)]
    BY <1>2, <2>1, <2>2 DEF PagesOwn, AddressesOwn
  <2>4. \A x \in Threads : pc'[x] = "send" => Of(copy'[x], url[x])
    BY <1>2, <2>1, <2>2 DEF PagesOwn, CopiesOwn
  <2> QED BY <1>f, <1>q, <2>1, <2>3, <2>4
<1>9. ASSUME NEW t \in Threads,
             Create(t) \/ Receive(t) \/ EndTransfer(t) \/ Fail(t) \/ FillWithZeros(t)
      PROVE  PagesOwn'
  <2>1. FilesOwn' BY <1>2, <1>9, WritesOwn
  <2>2. UNCHANGED <<url, addr, answer, copy>>
    BY <1>9 DEF Create, Receive, EndTransfer, Fail, FillWithZeros, threadVars, copyVars
  <2>3. /\ \A x \in Threads : pc'[x] \in Connected => pc[x] \in Connected
        /\ \A x \in Threads : pc'[x] = "send" => pc[x] = "send"
    BY <1>d, <1>9 DEF Create, Receive, EndTransfer, Fail, FillWithZeros, Goto, Connected
  <2>4. \A x \in Threads : pc'[x] \in Connected => addr'[x] = AddressOf[Host(x)]
    BY <1>2, <2>2, <2>3 DEF PagesOwn, AddressesOwn
  <2>5. \A x \in Threads : pc'[x] = "send" => Of(copy'[x], url[x])
    BY <1>2, <2>2, <2>3 DEF PagesOwn, CopiesOwn
  <2> QED BY <1>q, <2>1, <2>2, <2>4, <2>5
<1>10. ASSUME NEW t \in Threads,
              \/ ReadRequest(t) \/ CheckHost(t) \/ FindFile(t) \/ CheckAge(t)
              \/ ConnectRelay(t) \/ FindHost(t)
       PROVE  PagesOwn'
  <2>1. UNCHANGED <<url, addr, answer, disk, copy>>
    BY <1>10 DEF ReadRequest, CheckHost, FindFile, CheckAge, ConnectRelay, FindHost, threadVars,
                 copyVars
  <2>2. /\ \A x \in Threads : pc'[x] \in Connected => pc[x] \in Connected
        /\ \A x \in Threads : pc'[x] = "send" => pc[x] = "send"
    BY <1>d, <1>10 DEF ReadRequest, CheckHost, FindFile, CheckAge, ConnectRelay, FindHost, Goto,
                       Connected
  <2>3. \A x \in Threads : pc'[x] \in Connected => addr'[x] = AddressOf[Host(x)]
    BY <1>2, <2>1, <2>2 DEF PagesOwn, AddressesOwn
  <2>4. \A x \in Threads : pc'[x] = "send" => Of(copy'[x], url[x])
    BY <1>2, <2>1, <2>2 DEF PagesOwn, CopiesOwn
  <2> QED BY <1>f, <1>q, <2>1, <2>3, <2>4
<1>11. ASSUME (\E t \in Threads : BrowserGone(t)) \/ Tick \/ UNCHANGED vars PROVE PagesOwn'
  <2>1. UNCHANGED <<pc, url, addr, answer, disk, copy>>
    BY <1>11 DEF BrowserGone, Tick, vars, threadVars, copyVars
  <2> QED BY <1>2, <1>f, <1>q, <2>1 DEF PagesOwn, AddressesOwn, CopiesOwn
<1> QED
  BY <1>3, <1>4, <1>5, <1>6, <1>7, <1>8, <1>9, <1>10, <1>11, <1>12, <1>13
  DEF Next, Serve, MovePiece

LEMMA PagesHold ==
  ASSUME \A u, v \in Urls : FileOf[u] = FileOf[v] => u = v
  PROVE  Spec => []PageInv
<1>1. Init => PageInv
  <2> SUFFICES ASSUME Init PROVE PagesOwn
    BY DEF PageInv
  <2>1. \A t \in Threads : pc[t] = "free" /\ answer[t].what = Missing BY DEF Init, Nothing
  <2>2. \A u \in Urls : disk[FileOf[u]] = Missing BY RequestAssumption DEF Init
  <2> QED
    BY <2>1, <2>2, OfWhat DEF PagesOwn, AddressesOwn, FilesOwn, CopiesOwn, AnswersOwn, Connected
<1>2. IInv /\ IInv' /\ PageInv /\ [Next]_vars => PageInv'
  BY PageStep
<1> QED BY <1>1, <1>2, Holds, PTL DEF Spec

(***************************************************************************)
(* What a browser is sent: if no two resources share the name of a file,   *)
(* it is of the page it asked for, from the host it named, out of a file or *)
(* not, and zeros at most, until a look-up is overtaken by another          *)
(* thread's, however the threads that truncate and write the file overlap.  *)
(***************************************************************************)
THEOREM BrowsersGetTheirPage ==
  ASSUME \A u, v \in Urls : FileOf[u] = FileOf[v] => u = v
  PROVE  Spec => []PageAsked
<1>1. PageInv => PageAsked
  <2> SUFFICES ASSUME PageInv PROVE PageAsked
    OBVIOUS
  <2>1. overtaken \/ \A t \in Threads : \A p \in answer[t].what.from : p \in {Own(url[t]), None}
    BY DEF PageInv, PagesOwn, AnswersOwn, Of
  <2> QED BY <2>1 DEF PageAsked, Own, Host
<1> QED BY <1>1, PagesHold, PTL

-----------------------------------------------------------------------------
\* Who will not leave the file f as it is: a thread that fills it with zeros, and
\* one that has truncated it last and is still to write the rest.
Spinning(f) == \E t \in Threads : pc[t] = "spin" /\ File(t) = f
Held(f) == build = "cache" /\ \E t \in Threads : pc[t] = "transfer" /\ File(t) = f /\ intact[t]

FilesHeld ==
  /\ \A t \in Threads : build = "cache" /\ pc[t] = "transfer" => disk[File(t)].there
  /\ \A f \in Files : None \in disk[f].from => Spinning(f)
  /\ \A f \in Files : disk[f].there => disk[f].whole \/ Spinning(f) \/ Held(f)

WholeInv == overtaken \/ FilesHeld

\* A thread that spins does so for ever; one that transfers goes on, ends or fails.
LEMMA Stays ==
  ASSUME IInv, [Next]_vars, NEW x \in Threads, pc[x] \in {"spin", "transfer"}
  PROVE  \/ pc'[x] = pc[x] /\ url'[x] = url[x]
         \/ pc[x] = "transfer" /\ (EndRelay(x) \/ EndTransfer(x) \/ Fail(x))
<1>0. TypeOK BY DEF IInv
<1>d. DOMAIN pc = Threads /\ DOMAIN url = Threads BY <1>0 DEF TypeOK
<1>1. ASSUME NEW t \in Threads, Accept(t)
      PROVE  pc'[x] = pc[x] /\ url'[x] = url[x]
  BY <1>d, <1>1 DEF Accept, Goto
<1>2. ASSUME NEW t \in Threads,
             \/ NotGet(t) \/ ReadRequest(t) \/ CheckHost(t) \/ FindFile(t) \/ CheckAge(t)
             \/ OpenCached(t) \/ SendLast(t) \/ Resolve(t) \/ ReadAddress(t)
             \/ ConnectRelay(t) \/ Create(t) \/ CannotCreate(t) \/ FindHost(t) \/ Renew(t)
             \/ Add(t)
      PROVE  pc'[x] = pc[x] /\ url'[x] = url[x]
  <2>1. pc[t] \notin {"spin", "transfer"} /\ url' = url
    BY <1>2 DEF NotGet, ReadRequest, CheckHost, FindFile, CheckAge, OpenCached, SendLast, Resolve,
                ReadAddress, ConnectRelay, Create, CannotCreate, FindHost, Renew, Add, threadVars
  <2>2. \E v : pc' = [pc EXCEPT ![t] = v]
    BY <1>2 DEF NotGet, ReadRequest, CheckHost, FindFile, CheckAge, OpenCached, SendLast, Resolve,
                ReadAddress, ConnectRelay, Create, CannotCreate, FindHost, Renew, Add, Fetched,
                Refuse, Reply, Goto
  <2> QED BY <1>d, <2>1, <2>2
<1>3. ASSUME NEW t \in Threads, EndRelay(t) \/ EndTransfer(t) \/ Fail(t), t # x
      PROVE  pc'[x] = pc[x] /\ url'[x] = url[x]
  BY <1>d, <1>3 DEF EndRelay, EndTransfer, Fail, Reply, Goto, threadVars
<1>4. ASSUME EndRelay(x) \/ EndTransfer(x) \/ Fail(x) PROVE pc[x] = "transfer"
  BY <1>4 DEF EndRelay, EndTransfer, Fail
<1>5. ASSUME NEW t \in Threads, MovePiece(t) \/ BrowserGone(t)
      PROVE  pc'[x] = pc[x] /\ url'[x] = url[x]
  BY <1>5 DEF MovePiece, SendSome, Receive, FillWithZeros, BrowserGone, threadVars
<1>6. ASSUME Tick \/ UNCHANGED vars PROVE pc'[x] = pc[x] /\ url'[x] = url[x]
  BY <1>6 DEF Tick, vars, threadVars
<1> QED BY <1>1, <1>2, <1>3, <1>4, <1>5, <1>6 DEF Next, Serve

\* Where no thread fills t's file with zeros, more of its page makes it no less
\* whole.
LEMMA AddsToPage ==
  ASSUME IInv, PagesOwn, NEW t \in Threads, pc[t] = "transfer",
         None \notin disk[File(t)].from, NEW all \in BOOLEAN
  PROVE  LET c == Added(disk[File(t)], Page(t), all)
         IN  None \notin c.from /\ c.there /\ (all \/ disk[File(t)].whole => c.whole)
<1>1. url[t] \in Urls /\ addr[t] \in Addresses BY DEF IInv, Knows
<1>2. Page(t) = Own(url[t])
  BY DEF PagesOwn, AddressesOwn, Connected, Page, Own, Host
<1>3. \A p \in disk[File(t)].from : p \in {Own(url[t]), None}
  BY <1>1 DEF PagesOwn, FilesOwn, Of, File
<1>4. Page(t) # None BY <1>1, RequestAssumption DEF Page
<1> QED BY <1>2, <1>3, <1>4 DEF Added

LEMMA WholeStep ==
  ASSUME IInv, IInv', PageInv, WholeInv, [Next]_vars
  PROVE  WholeInv'
<1>1. overtaken => overtaken' BY Overtakes
<1> SUFFICES ASSUME ~overtaken' PROVE FilesHeld'
  BY DEF WholeInv
<1>2. PagesOwn /\ FilesHeld BY <1>1 DEF PageInv, WholeInv
<1>0. TypeOK BY DEF IInv
<1>d. /\ DOMAIN pc = Threads /\ DOMAIN url = Threads /\ DOMAIN disk = Files
      /\ DOMAIN intact = Threads
  BY <1>0 DEF TypeOK
<1>s. ASSUME NEW f, Spinning(f) PROVE Spinning(f)'
  <2>1. PICK x \in Threads : pc[x] = "spin" /\ File(x) = f BY <1>s DEF Spinning
  <2>2. pc'[x] = "spin" /\ url'[x] = url[x] BY <2>1, Stays
  <2> QED BY <2>1, <2>2 DEF Spinning, File
\* A step that writes no file and takes no transfer further.
<1>q. ASSUME UNCHANGED <<build, disk, intact>>,
             \A x \in Threads : pc[x] = "transfer" => pc'[x] = "transfer" /\ url'[x] = url[x],
             \A x \in Threads : build = "cache" /\ pc'[x] = "transfer" =>
                               pc[x] = "transfer" /\ url'[x] = url[x]
      PROVE  FilesHeld'
  <2>1. (\A t \in Threads : build = "cache" /\ pc[t] = "transfer" => disk[File(t)].there)'
    BY <1>2, <1>q DEF FilesHeld, File
  <2>2. (\A f \in Files : None \in disk[f].from => Spinning(f))'
    BY <1>2, <1>q, <1>s DEF FilesHeld
  <2>3. ASSUME NEW f, Held(f) PROVE Held(f)'
    BY <1>q, <2>3 DEF Held, File
  <2>4. (\A f \in Files : disk[f].there => disk[f].whole \/ Spinning(f) \/ Held(f))'
    BY <1>2, <1>q, <1>s, <2>3 DEF FilesHeld
  <2> QED BY <2>1, <2>2, <2>4 DEF FilesHeld
\* What a step that writes t's file, if it writes at all, has to show.
<1>w. ASSUME NEW t \in Threads, UNCHANGED <<build, url>>, NEW f \in Files, f = File(t),
             \A g \in Files : g # f => disk'[g] = disk[g],
             \A x \in Threads : pc'[x] = "transfer" => x = t \/ pc[x] = "transfer",
             \A x \in Threads : File(x) # f /\ pc[x] = "transfer" =>
                               pc'[x] = "transfer" /\ intact'[x] = intact[x],
             disk'[f].there,
             None \in disk'[f].from => Spinning(f)',
             disk'[f].whole \/ Spinning(f)' \/ Held(f)'
      PROVE  FilesHeld'
  <2>1. \A x \in Threads : build' = "cache" /\ pc'[x] = "transfer" => disk'[File(x)].there
    <3> SUFFICES ASSUME NEW x \in Threads, build' = "cache", pc'[x] = "transfer", File(x) # f
                 PROVE  disk'[File(x)].there
      BY <1>w
    <3>1. pc[x] = "transfer" /\ build = "cache" BY <1>w
    <3>2. File(x) \in Files BY <3>1, RequestAssumption DEF IInv, Knows, File
    <3> QED BY <1>2, <1>w, <3>1, <3>2 DEF FilesHeld
  <2>2. ASSUME NEW g \in Files, None \in disk'[g].from PROVE Spinning(g)'
    <3>1. CASE g = f BY <1>w, <2>2, <3>1
    <3>2. CASE g # f
      <4>1. Spinning(g) BY <1>2, <1>w, <2>2, <3>2 DEF FilesHeld
      <4> QED BY <1>s, <4>1
    <3> QED BY <3>1, <3>2
  <2>3. ASSUME NEW g \in Files, g # f, Held(g) PROVE Held(g)'
    BY <1>w, <2>3 DEF Held, File
  <2>4. ASSUME NEW g \in Files, disk'[g].there PROVE disk'[g].whole \/ Spinning(g)' \/ Held(g)'
    <3>1. CASE g = f BY <1>w, <3>1
    <3>2. CASE g # f
      <4>1. disk[g].whole \/ Spinning(g) \/ Held(g) BY <1>2, <1>w, <2>4, <3>2 DEF FilesHeld
      <4> QED BY <1>s, <1>w, <2>3, <3>2, <4>1
    <3> QED BY <3>1, <3>2
  <2>5. (\A x \in Threads : build = "cache" /\ pc[x] = "transfer" => disk[File(x)].there)'
    BY <1>w, <2>1 DEF File
  <2> QED BY <2>2, <2>4, <2>5 DEF FilesHeld
<1>u. ASSUME NEW t \in Threads, pc[t] \notin {"free", "request"} PROVE File(t) \in Files
  BY <1>u, RequestAssumption DEF IInv, Knows, File
<1>3. ASSUME NEW t \in Threads, Create(t) PROVE FilesHeld'
  <2>1. /\ build = "cache" /\ pc[t] = "connect" /\ UNCHANGED <<build, url>>
        /\ disk' = [disk EXCEPT ![File(t)] = Empty] /\ pc' = [pc EXCEPT ![t] = "transfer"]
    BY <1>3 DEF Create, Goto, threadVars
  <2>2. PICK f \in Files : f = File(t) BY <1>u, <2>1
  <2>3. /\ disk'[f] = Empty /\ \A g \in Files : g # f => disk'[g] = disk[g]
        /\ pc'[t] = "transfer" /\ \A x \in Threads : x # t => pc'[x] = pc[x]
    BY <1>d, <2>1, <2>2
  <2>4. intact'[t] /\ \A x \in Threads : x # t /\ File(x) # f => intact'[x] = intact[x]
    BY <1>3, <1>0, <2>2 DEF Create, TypeOK
  <2>5. Held(f)' BY <2>1, <2>2, <2>3, <2>4 DEF Held, File
  <2>6. Empty.there /\ None \notin Empty.from BY DEF Empty
  <2>7. \A x \in Threads : pc'[x] = "transfer" => x = t \/ pc[x] = "transfer" BY <2>3
  <2>8. \A x \in Threads : File(x) # f /\ pc[x] = "transfer" =>
                          pc'[x] = "transfer" /\ intact'[x] = intact[x]
    BY <2>1, <2>2, <2>3, <2>4
  <2> QED BY <1>w, <2>1, <2>2, <2>3, <2>5, <2>6, <2>7, <2>8
<1>4. ASSUME NEW t \in Threads, Receive(t) \/ EndTransfer(t) PROVE FilesHeld'
  <2>1. /\ build = "cache" /\ pc[t] = "transfer" /\ UNCHANGED <<build, url>>
        /\ \A x \in Threads : x # t => pc'[x] = pc[x] /\ intact'[x] = intact[x]
    BY <1>d, <1>4 DEF Receive, EndTransfer, Goto, threadVars, copyVars
  <2>2. PICK all \in BOOLEAN :
          /\ disk' = [disk EXCEPT ![File(t)] = Added(@, Page(t), all)]
          /\ EndTransfer(t) => all = intact[t]
    <3>1. intact[t] \in BOOLEAN BY <1>0 DEF TypeOK
    <3> QED BY <1>4, <3>1 DEF Receive, EndTransfer, Goto
  <2>3. PICK f \in Files : f = File(t) BY <1>u, <2>1
  <2>4. PICK c : c = Added(disk[f], Page(t), all) OBVIOUS
  <2>5. disk'[f] = c /\ \A g \in Files : g # f => disk'[g] = disk[g]
    BY <1>d, <2>2, <2>3, <2>4
  <2>6. c.there BY <2>4 DEF Added
  <2>7. ASSUME None \notin disk[f].from
        PROVE  None \notin c.from /\ (all \/ disk[f].whole => c.whole)
    BY <1>2, <2>1, <2>3, <2>4, <2>7, AddsToPage
  <2>8. ASSUME Held(f) PROVE Held(f)' \/ (EndTransfer(t) /\ intact[t])
    <3>1. PICK x \in Threads : pc[x] = "transfer" /\ File(x) = f /\ intact[x]
      BY <2>8 DEF Held
    <3>2. CASE x # t BY <2>1, <3>1, <3>2 DEF Held, File
    <3>3. CASE x = t
      <4>1. CASE Receive(t)
        <5>1. pc' = pc /\ intact' = intact BY <4>1 DEF Receive, copyVars
        <5> QED BY <2>1, <3>1, <5>1 DEF Held, File
      <4> QED BY <1>4, <3>1, <3>3, <4>1
    <3> QED BY <3>2, <3>3
  <2>9. (None \in c.from => Spinning(f)') /\ (c.whole \/ Spinning(f)' \/ Held(f)')
    <3>1. CASE None \in disk[f].from
      <4>1. Spinning(f) BY <1>2, <3>1 DEF FilesHeld
      <4>2. Spinning(f)' BY <1>s, <4>1
      <4> QED BY <4>2
    <3>2. CASE None \notin disk[f].from
      <4>1. disk[f].there BY <1>2, <2>1, <2>3 DEF FilesHeld
      <4>2. disk[f].whole \/ Spinning(f) \/ Held(f) BY <1>2, <4>1 DEF FilesHeld
      <4>3. CASE Spinning(f)
        <5>1. Spinning(f)' BY <1>s, <4>3
        <5> QED BY <5>1
      <4>4. CASE ~Spinning(f) BY <2>2, <2>7, <2>8, <3>2, <4>2, <4>4
      <4> QED BY <4>3, <4>4
    <3> QED BY <3>1, <3>2
  <2>10. \A x \in Threads : pc'[x] = "transfer" => x = t \/ pc[x] = "transfer" BY <2>1
  <2>11. \A x \in Threads : File(x) # f /\ pc[x] = "transfer" =>
                           pc'[x] = "transfer" /\ intact'[x] = intact[x]
    BY <2>1, <2>3
  <2> QED BY <1>w, <2>1, <2>3, <2>5, <2>6, <2>9, <2>10, <2>11
<1>5. ASSUME NEW t \in Threads, Fail(t) PROVE FilesHeld'
  <2>1. /\ pc[t] = "transfer" /\ UNCHANGED <<build, url, disk>> /\ pc'[t] = "spin"
        /\ \A x \in Threads : x # t => pc'[x] = pc[x] /\ intact'[x] = intact[x]
    BY <1>d, <1>5 DEF Fail, Goto, threadVars
  <2>2. PICK f \in Files : f = File(t) BY <1>u, <2>1
  <2>3. Spinning(f)' BY <2>1, <2>2 DEF Spinning, File
  <2>4. \A x \in Threads : build' = "cache" /\ pc'[x] = "transfer" => disk'[File(x)].there
    BY <1>2, <2>1 DEF FilesHeld
  <2>5. ASSUME NEW g \in Files, None \in disk'[g].from PROVE Spinning(g)'
    <3>1. Spinning(g) BY <1>2, <2>1, <2>5 DEF FilesHeld
    <3> QED BY <1>s, <3>1
  <2>6. ASSUME NEW g \in Files, disk'[g].there PROVE disk'[g].whole \/ Spinning(g)' \/ Held(g)'
    <3>1. disk[g].whole \/ Spinning(g) \/ Held(g) BY <1>2, <2>1, <2>6 DEF FilesHeld
    <3>2. CASE Spinning(g) BY <1>s, <3>2
    <3>3. CASE Held(g) /\ g # f BY <2>1, <2>2, <3>3 DEF Held, File
    <3>4. CASE g = f BY <2>3, <3>4
    <3> QED BY <2>1, <3>1, <3>2, <3>3, <3>4
  <2>7. (\A x \in Threads : build = "cache" /\ pc[x] = "transfer" => disk[File(x)].there)'
    BY <2>1, <2>4 DEF File
  <2> QED BY <2>5, <2>6, <2>7 DEF FilesHeld
<1>6. ASSUME NEW t \in Threads, FillWithZeros(t) PROVE FilesHeld'
  <2>1. /\ pc[t] = "spin" /\ UNCHANGED <<build, url, pc, intact>>
        /\ disk' = [disk EXCEPT ![File(t)] = Added(@, None, FALSE)]
    BY <1>6 DEF FillWithZeros, threadVars, copyVars
  <2>2. PICK f \in Files : f = File(t) BY <1>u, <2>1
  <2>3. disk'[f].there /\ \A g \in Files : g # f => disk'[g] = disk[g]
    BY <1>d, <2>1, <2>2 DEF Added
  <2>4. Spinning(f)' BY <2>1, <2>2 DEF Spinning, File
  <2> QED BY <1>w, <2>1, <2>2, <2>3, <2>4
<1>7. ASSUME NEW t \in Threads,
             \/ Accept(t) \/ NotGet(t) \/ ReadRequest(t) \/ CheckHost(t) \/ FindFile(t)
             \/ CheckAge(t) \/ OpenCached(t) \/ SendSome(t) \/ SendLast(t) \/ Resolve(t)
             \/ ReadAddress(t) \/ ConnectRelay(t) \/ EndRelay(t) \/ CannotCreate(t)
             \/ FindHost(t) \/ Renew(t) \/ Add(t) \/ BrowserGone(t)
      PROVE  FilesHeld'
  <2>1. UNCHANGED <<build, disk, intact>>
    BY <1>7 DEF Accept, NotGet, ReadRequest, CheckHost, FindFile, CheckAge, OpenCached, SendSome,
                SendLast, Resolve, ReadAddress, ConnectRelay, EndRelay, CannotCreate, FindHost,
                Renew, Add, BrowserGone, copyVars
  <2>2. CASE build = "relay"
    <3>1. build' = "relay" BY <2>1, <2>2
    <3>2. \A f \in Files : Held(f) => FALSE BY <2>2 DEF Held
    <3>3. ASSUME NEW f \in Files, disk'[f].there PROVE disk'[f].whole \/ Spinning(f)'
      <4>1. disk[f].whole \/ Spinning(f) BY <1>2, <2>1, <3>2, <3>3 DEF FilesHeld
      <4> QED BY <1>s, <2>1, <4>1
    <3>4. ASSUME NEW f \in Files, None \in disk'[f].from PROVE Spinning(f)'
      <4>1. Spinning(f) BY <1>2, <2>1, <3>4 DEF FilesHeld
      <4> QED BY <1>s, <4>1
    <3> QED BY <3>1, <3>3, <3>4 DEF FilesHeld
  <2>3. CASE build # "relay"
    <3>1. ~EndRelay(t) /\ ~ConnectRelay(t) BY <2>3 DEF EndRelay, ConnectRelay
    <3>2. \/ pc' = pc
          \/ \E v : pc' = [pc EXCEPT ![t] = v] /\ v # "transfer" /\ pc[t] # "transfer"
      <4>1. CASE SendSome(t) \/ BrowserGone(t)
        BY <4>1 DEF SendSome, BrowserGone
      <4>2. CASE ~(SendSome(t) \/ BrowserGone(t))
        <5>1. pc[t] # "transfer"
          BY <1>7, <3>1, <4>2
          DEF Accept, NotGet, ReadRequest, CheckHost, FindFile, CheckAge, OpenCached, SendLast,
              Resolve, ReadAddress, CannotCreate, FindHost, Renew, Add
        <5>2. CASE Accept(t) \/ ReadRequest(t) \/ CheckHost(t) \/ FindFile(t) \/ CheckAge(t)
                   \/ ReadAddress(t) \/ FindHost(t)
          BY <5>1, <5>2 DEF Accept, ReadRequest, CheckHost, FindFile, CheckAge, ReadAddress,
                            FindHost, Goto
        <5>3. CASE NotGet(t) \/ SendLast(t) \/ CannotCreate(t) \/ Renew(t) \/ Add(t)
          BY <5>1, <5>3 DEF NotGet, SendLast, CannotCreate, Renew, Add, Fetched, Refuse, Reply, Goto
        <5>4. CASE OpenCached(t) \/ Resolve(t)
          BY <5>1, <5>4 DEF OpenCached, Resolve, Refuse, Reply, Goto
        <5> QED BY <1>7, <3>1, <4>2, <5>2, <5>3, <5>4
      <4> QED BY <4>1, <4>2
    <3>3. \A x \in Threads : pc[x] = "transfer" \/ pc'[x] = "transfer" => pc'[x] = pc[x]
      BY <1>d, <3>2
    <3>4. \A x \in Threads : pc[x] = "transfer" => url'[x] = url[x]
      <4> SUFFICES ASSUME NEW x \in Threads, pc[x] = "transfer" PROVE url'[x] = url[x]
        OBVIOUS
      <4>1. pc'[x] = "transfer" BY <3>3
      <4>2. ~EndTransfer(x) /\ ~Fail(x) BY <1>d, <4>1 DEF EndTransfer, Fail, Goto
      <4>3. ~EndRelay(x) BY <2>3 DEF EndRelay
      <4> QED BY <4>2, <4>3, Stays
    <3> QED BY <1>q, <2>1, <3>3, <3>4
  <2> QED BY <2>2, <2>3
<1>8. ASSUME Tick \/ UNCHANGED vars PROVE FilesHeld'
  <2>1. UNCHANGED <<build, pc, url, disk, intact>>
    BY <1>8 DEF Tick, vars, threadVars, copyVars
  <2> QED BY <1>q, <2>1
<1> QED
  BY <1>3, <1>4, <1>5, <1>6, <1>7, <1>8 DEF Next, Serve, MovePiece

(***************************************************************************)
(* The files of the cache: if no two resources share the name of a file,    *)
(* one that no thread is writing is one page from beginning to end, until a *)
(* look-up is overtaken, for any number of threads that create, truncate    *)
(* and write it at the same time.                                          *)
(***************************************************************************)
THEOREM QuietFilesAreWhole ==
  ASSUME \A u, v \in Urls : FileOf[u] = FileOf[v] => u = v
  PROVE  Spec => []FilesWhole
<1>1. Init => WholeInv
  BY DEF Init, WholeInv, FilesHeld, Missing
<1>2. IInv /\ IInv' /\ PageInv /\ WholeInv /\ [Next]_vars => WholeInv'
  BY WholeStep
<1>3. WholeInv => FilesWhole
  BY DEF WholeInv, FilesHeld, Spinning, Held, FilesWhole
<1> QED BY <1>1, <1>2, <1>3, Holds, PagesHold, PTL DEF Spec
=============================================================================
