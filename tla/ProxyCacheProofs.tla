--------------------------- MODULE ProxyCacheProofs ---------------------------
(***************************************************************************)
(* What holds of the proxy for any number of threads, resources, hosts,    *)
(* blacklists and requests.                                                *)
(***************************************************************************)
EXTENDS ProxyCache, WellFoundedInduction, TLAPS

\* First returns the least element of a set of positions.
LEMMA FirstIsLeast ==
  ASSUME NEW S \in SUBSET Nat, S # {}
  PROVE  First(S) \in S /\ \A j \in S : First(S) <= j
<1> DEFINE R == {p \in Nat \X Nat : p[1] < p[2]}
<1>1. IsWellFoundedOn(R, Nat)
  BY NatLessThanWellFounded DEF OpToRel
<1>2. \A x, y \in S : <<y, x>> \in R <=> y < x
  OBVIOUS
<1> HIDE DEF R
<1>3. PICK x \in S : \A y \in S : ~ (<<y, x>> \in R)
  BY <1>1, WFMin
<1>4. \A y \in S : x \in Nat /\ y \in Nat /\ ~ (y < x)
  BY <1>2, <1>3
<1>5. \A j \in S : x <= j
  BY <1>4
<1>6. QED
  BY <1>5 DEF First

\* What search_hosts finds.
Matches(s) ==
  {i \in 1..Len(nodes) : nodes[i].hostname = s \/ nodes[i].ip_address = s}
LEMMA SearchHosts ==
  ASSUME NEW s, Matches(s) # {}
  PROVE  search_hosts(s) \in Matches(s) /\ \A j \in Matches(s) : search_hosts(s) <= j
<1>1. Matches(s) \in SUBSET Nat
  BY DEF Matches
<1>2. QED
  BY <1>1, FirstIsLeast DEF Matches, search_hosts
LEMMA SearchHostsNone ==
  ASSUME NEW s, search_hosts(s) = 0, nodes \in Seq(Nodes)
  PROVE  Matches(s) = {}
BY SearchHosts DEF Matches
LEMMA SearchHostsType ==
  ASSUME NEW s, nodes \in Seq(Nodes)
  PROVE  search_hosts(s) \in Nat
<1>1. CASE Matches(s) = {}
  BY <1>1 DEF search_hosts, Matches, First
<1>2. CASE Matches(s) # {}
  BY <1>2, SearchHosts DEF Matches
<1>3. QED
  BY <1>1, <1>2

\* What search_host_files finds.
LEMMA SearchFiles ==
  ASSUME NEW f, search_host_files(f) # 0
  PROVE  /\ search_host_files(f) \in 1..Len(nodes)
         /\ nodes[search_host_files(f)].filename = f
<1> DEFINE S == {i \in 1..Len(nodes) : nodes[i].filename = f}
<1>1. S # {} /\ S \in SUBSET Nat
  BY DEF search_host_files, First
<1>2. First(S) \in S
  BY <1>1, FirstIsLeast
<1>3. QED
  BY <1>2 DEF search_host_files

-----------------------------------------------------------------------------
\* What the copies of strings may not do for some of the theorems: no name or
\* address begins a blacklisted one; no file name begins another.
NoneBeginsListed ==
  Recycled => \A s, t \in Names \cup Files : <<s, t>> \in Prefixed => t \notin Black
NoneBeginsFile ==
  Recycled => \A s, t \in Names \cup Files : <<s, t>> \in Prefixed => t \notin Files
Unlisted(a) == NoneBeginsListed => a \notin Black
FilesThere == NoneBeginsFile => FileBehindNode

LEMMA CopiesUnlisted ==
  ASSUME NEW a, NEW b \in Copied(a), a \in Names, Unlisted(a)
  PROVE  Unlisted(b)
<1> SUFFICES ASSUME NoneBeginsListed PROVE b \notin Black
  BY DEF Unlisted
<1>1. a \notin Black
  BY DEF Unlisted
<1>2. Garbled \notin Black
  BY ConstantsAssumption DEF Black
<1>3. b \in {a, Garbled} \/ (Recycled /\ b \in Names \cup Files /\ <<a, b>> \in Prefixed)
  BY DEF Copied, Continued
<1>4. QED
  BY <1>1, <1>2, <1>3 DEF NoneBeginsListed
LEMMA CopiesThere ==
  ASSUME NEW f \in Files, NEW g \in Copied(f), NoneBeginsFile, g \in Files
  PROVE  g = f
<1>1. g \in {f, Garbled} \/ (Recycled /\ <<f, g>> \in Prefixed)
  BY DEF Copied, Continued
<1>2. QED
  BY <1>1, ConstantsAssumption DEF NoneBeginsFile

\* The blacklist is at the front of the list, behind head; a node that is not
\* blacklisted has no blacklisted address.
ListOK ==
  /\ Len(nodes) > Len(Blacklist)
  /\ nodes[1].hostname = NoName /\ nodes[1].ip_address = NoName
  /\ \A i \in 1..Len(Blacklist) :
       nodes[i + 1].hostname = Blacklist[i] /\ nodes[i + 1].blacklisted
  /\ \A i \in 1..Len(nodes) :
       IF nodes[i].blacklisted
         THEN /\ nodes[i].hostname \in Black
              /\ nodes[i].ip_address = nodes[i].hostname
              /\ nodes[i].filename = BlacklistFile
         ELSE Unlisted(nodes[i].ip_address)

\* What holds of each handler by itself.
Refreshing(h) ==
  \/ pc[h] = "stamp"
  \/ pc[h] \in {"create", "connect", "receive"} /\ frame[h].after = "stamp"
LocalOK(h) ==
  /\ frame[h].fname = FileOf[frame[h].url]
  /\ pc[h] \in {"age", "open"} =>
       /\ frame[h].node \in 1..Len(nodes)
       /\ nodes[frame[h].node].filename = FileOf[frame[h].url]
  /\ pc[h] \in {"file", "again"} => Matches(HostOf[frame[h].url]) # {}
  /\ Refreshing(h) => frame[h].node \in 1..Len(nodes)
  /\ pc[h] = "receive" => /\ frame[h].doc \in Documents
                          /\ frame[h].doc.url = frame[h].url
  /\ pc[h] \in {"connect", "receive", "stamp", "add"} => frame[h].fname \in present
  /\ pc[h] \notin {"free", "host"} => HostOf[frame[h].url] \notin Black
  /\ pc[h] \in Calling => Unlisted(frame[h].addr)
  /\ pc[h] \in {"receive", "add"} => frame[h].addr \in Names

Inv == TypeOK /\ ListOK /\ FilesThere /\ \A h \in Handlers : LocalOK(h)

\* A name of the blacklist is found at a blacklisted node.
LEMMA BlacklistFirst ==
  ASSUME TypeOK, ListOK, NEW s \in Black
  PROVE  Matches(s) # {} /\ nodes[search_hosts(s)].blacklisted
<1>1. PICK i \in 1..Len(Blacklist) : s = Blacklist[i]
  BY DEF Black
<1>2. Blacklist \in Seq(Names) /\ s \in Names
  BY <1>1, ConstantsAssumption
<1>3. i + 1 \in Matches(s)
  <2>1. Len(Blacklist) \in Nat /\ Len(nodes) \in Nat
    BY <1>2 DEF TypeOK
  <2>2. i + 1 \in 1..Len(nodes)
    BY <2>1 DEF ListOK
  <2>3. nodes[i + 1].hostname = s
    BY <1>1 DEF ListOK
  <2>4. QED
    BY <2>2, <2>3 DEF Matches
<1>4. 1 \notin Matches(s)
  BY <1>2, ConstantsAssumption DEF Matches, ListOK
<1> DEFINE k == search_hosts(s)
<1>5. k \in Matches(s) /\ k <= i + 1
  BY <1>3, SearchHosts
<1>6. k \in 2..(i + 1)
  BY <1>4, <1>5 DEF Matches
<1>7. k - 1 \in 1..Len(Blacklist)
  BY <1>2, <1>6
<1>8. nodes[(k - 1) + 1].blacklisted
  BY <1>7 DEF ListOK
<1>9. QED
  BY <1>3, <1>6, <1>8

\* The list only grows at its end, and only timestamps change.
Grows ==
  /\ Len(nodes') >= Len(nodes)
  /\ \A i \in 1..Len(nodes) :
       /\ nodes'[i].hostname = nodes[i].hostname
       /\ nodes'[i].ip_address = nodes[i].ip_address
       /\ nodes'[i].filename = nodes[i].filename
       /\ nodes'[i].blacklisted = nodes[i].blacklisted

\* What a step of one handler does not touch stays right.
LEMMA OthersOK ==
  ASSUME Inv, NEW h, Grows, present \subseteq present', nodes' \in Seq(Nodes),
         \A k \in Handlers \ {h} : pc'[k] = pc[k] /\ frame'[k] = frame[k]
  PROVE  \A k \in Handlers \ {h} : LocalOK(k)'
<1> SUFFICES ASSUME NEW k \in Handlers \ {h} PROVE LocalOK(k)'
  OBVIOUS
<1>1. LocalOK(k) /\ nodes \in Seq(Nodes)
  BY DEF Inv, TypeOK
<1>2. ASSUME NEW s PROVE Matches(s) \subseteq Matches(s)'
  BY <1>1 DEF Matches, Grows
<1>3. 1..Len(nodes) \subseteq 1..Len(nodes')
  BY <1>1 DEF Grows
<1>4. QED
  BY <1>1, <1>2, <1>3 DEF LocalOK, Refreshing, Grows

-----------------------------------------------------------------------------
LEMMA ClearedType == \A u \in Urls : Cleared(u) \in Frames /\ Cleared(u).url = u
                                     /\ Cleared(u).fname = FileOf[u]
BY ConstantsAssumption DEF Cleared, Frames, Strings, Bytes, Answers

\* Goto changes one handler.
LEMMA GotoType ==
  ASSUME TypeOK, NEW h \in Handlers, NEW where \in States, NEW locals \in Frames,
         Goto(h, where, locals)
  PROVE  /\ pc' \in [Handlers -> States] /\ frame' \in [Handlers -> Frames]
         /\ pc'[h] = where /\ frame'[h] = locals
         /\ \A k \in Handlers \ {h} : pc'[k] = pc[k] /\ frame'[k] = frame[k]
BY DEF TypeOK, Goto

\* A step that touches neither the list nor the files keeps the invariant
\* when it keeps that of its handler.
LEMMA LocalStep ==
  ASSUME Inv, NEW h \in Handlers, NEW where \in States, NEW locals \in Frames,
         Goto(h, where, locals), LocalOK(h)',
         UNCHANGED <<up, nodes, now, origin, file, present, docs>>,
         accepted' \in 0..MaxConnections,
         hostent' \in Names \cup {NoName}, settled' \in [Handlers -> BOOLEAN]
  PROVE  Inv'
<1>0. TypeOK /\ ListOK /\ FilesThere
  BY DEF Inv
<1>1. TypeOK'
  BY <1>0, GotoType DEF TypeOK
<1>2. Grows /\ nodes' \in Seq(Nodes)
  BY <1>0 DEF Grows, TypeOK
<1>3. \A k \in Handlers \ {h} : LocalOK(k)'
  BY <1>0, <1>2, GotoType, OthersOK
<1>4. ListOK' /\ FilesThere'
  BY <1>0 DEF ListOK, FilesThere, FileBehindNode, NoneBeginsFile
<1>5. QED
  BY <1>1, <1>3, <1>4 DEF Inv

\* Closing the connection.
LEMMA CloseOK ==
  ASSUME TypeOK, NEW h \in Handlers, NEW how \in Answers, Close(h, how)
  PROVE  /\ \E locals \in Frames : Goto(h, "free", locals)
         /\ LocalOK(h)'
<1> DEFINE locals == [Cleared(frame[h].url) EXCEPT !.sent = frame[h].sent,
                                                   !.answer = how]
<1>1. frame[h] \in Frames
  BY DEF TypeOK
<1>2. locals \in Frames /\ locals.fname = FileOf[locals.url]
  <2>1. frame[h].url \in Urls /\ frame[h].sent \in Seq(Bytes)
    BY <1>1 DEF Frames
  <2>2. Cleared(frame[h].url) \in Frames
    BY <2>1, ClearedType
  <2>3. locals \in Frames
    BY <2>1, <2>2 DEF Frames
  <2>4. locals.fname = FileOf[locals.url]
    BY DEF Cleared
  <2>5. QED
    BY <2>3, <2>4
<1>3. Goto(h, "free", locals)
  BY DEF Close
<1>4. pc'[h] = "free" /\ frame'[h] = locals
  BY <1>2, <1>3, GotoType DEF States
<1>5. LocalOK(h)'
  BY <1>2, <1>4 DEF LocalOK, Refreshing, Calling
<1>6. QED
  BY <1>2, <1>3, <1>5

LEMMA CloseStep ==
  ASSUME Inv, NEW h \in Handlers, NEW how \in Answers, Close(h, how),
         UNCHANGED <<up, nodes, now, origin, file, present, docs>>,
         accepted' \in 0..MaxConnections,
         hostent' \in Names \cup {NoName}, settled' \in [Handlers -> BOOLEAN]
  PROVE  Inv'
<1>1. TypeOK
  BY DEF Inv
<1>2. PICK locals \in Frames : Goto(h, "free", locals)
  BY <1>1, CloseOK
<1>3. LocalOK(h)'
  BY <1>1, CloseOK
<1>4. "free" \in States
  BY DEF States
<1>5. QED
  BY <1>2, <1>3, <1>4, LocalStep

\* The steps of a handler that only look things up.
LEMMA LookupInv ==
  ASSUME Inv, NEW h \in Handlers,
         \/ FindHost(h) \/ FindFile(h) \/ FindHostAgain(h) \/ CheckAge(h)
         \/ Resolve(h) \/ ReadAddress(h) \/ FindAddress(h)
  PROVE  Inv'
<1> DEFINE x == frame[h]
<1>0. TypeOK /\ ListOK /\ LocalOK(h) /\ x \in Frames
  BY DEF Inv, TypeOK
<1>a. /\ accepted \in 0..MaxConnections /\ hostent \in Names \cup {NoName}
      /\ settled \in [Handlers -> BOOLEAN]
      /\ nodes \in Seq(Nodes) /\ x.url \in Urls
      /\ HostOf[x.url] \in Names \cup {NoName}
  BY <1>0, ConstantsAssumption DEF TypeOK, Frames
<1>b. {"403", "404", "500"} \subseteq Answers
  BY DEF Answers
<1>1. CASE FindHost(h)
  <2> DEFINE i == search_hosts(HostOf[x.url])
  <2>1. CASE i = 0
    <3> DEFINE y == [x EXCEPT !.node = 0]
    <3>1. Goto(h, "resolve", y) /\ y \in Frames /\ "resolve" \in States
      BY <1>1, <1>0, <2>1 DEF FindHost, Frames, States
    <3>2. pc'[h] = "resolve" /\ frame'[h] = y
      BY <1>0, <3>1, GotoType
    <3>3. HostOf[x.url] \notin Black
      BY <1>0, <1>a, <2>1, SearchHostsNone, BlacklistFirst
    <3>4. LocalOK(h)'
      BY <1>0, <3>2, <3>3 DEF LocalOK, Refreshing, Calling, Frames
    <3>5. QED
      BY <1>1, <1>a, <3>1, <3>4, LocalStep DEF FindHost, envVars, diskVars, historyVars
  <2>2. CASE i # 0 /\ nodes[i].blacklisted
    BY <1>1, <1>a, <1>b, <2>2, CloseStep DEF FindHost, envVars, diskVars, historyVars
  <2>3. CASE i # 0 /\ ~nodes[i].blacklisted
    <3> DEFINE y == [x EXCEPT !.node = i]
    <3>1. Matches(HostOf[x.url]) # {}
      BY <2>3 DEF search_hosts, Matches, First
    <3>2. i \in 1..Len(nodes)
      BY <3>1, SearchHosts DEF Matches
    <3>3. Goto(h, "file", y) /\ y \in Frames /\ "file" \in States
      <4>1. Goto(h, "file", y)
        BY <1>1, <2>3 DEF FindHost
      <4>2. \A n \in Nat : [x EXCEPT !.node = n] \in Frames
        BY <1>0 DEF Frames
      <4>3. i \in Nat
        BY <3>2
      <4>4. QED
        BY <4>1, <4>2, <4>3 DEF States
    <3>4. pc'[h] = "file" /\ frame'[h] = y
      BY <1>0, <3>3, GotoType
    <3>5. HostOf[x.url] \notin Black
      BY <1>0, <2>3, BlacklistFirst
    <3>6. Matches(HostOf[frame[h].url])' # {}
      <4>1. nodes' = nodes /\ frame'[h].url = x.url
        BY <1>0, <1>1, <3>4 DEF FindHost, Frames
      <4>2. QED
        BY <3>1, <4>1 DEF Matches
    <3>7. LocalOK(h)'
      BY <1>0, <3>4, <3>5, <3>6 DEF LocalOK, Refreshing, Calling, Frames
    <3>8. QED
      BY <1>1, <1>a, <3>3, <3>7, LocalStep DEF FindHost, envVars, diskVars, historyVars
  <2>4. QED
    BY <2>1, <2>2, <2>3
<1>2. CASE FindFile(h)
  <2> DEFINE i == search_host_files(FileOf[x.url])
             y == [x EXCEPT !.node = i]
             where == IF i = 0 THEN "again" ELSE "age"
  <2>1. i # 0 => i \in 1..Len(nodes) /\ nodes[i].filename = FileOf[x.url]
    BY SearchFiles
  <2>2. Goto(h, where, y) /\ y \in Frames /\ where \in States
    <3>1. i \in Nat
      BY <1>a, <2>1
    <3>2. y \in Frames
      BY <1>0, <3>1 DEF Frames
    <3>3. QED
      BY <1>2, <3>2 DEF FindFile, States
  <2>3. pc'[h] = where /\ frame'[h] = y /\ nodes' = nodes
    BY <1>0, <1>2, <2>2, GotoType DEF FindFile
  <2>4. Matches(HostOf[frame[h].url])' # {}
    <3>1. Matches(HostOf[x.url]) # {}
      BY <1>0, <1>2 DEF FindFile, LocalOK
    <3>2. frame'[h].url = x.url
      BY <1>0, <2>3 DEF Frames
    <3>3. QED
      BY <2>3, <3>1, <3>2 DEF Matches
  <2>5. LocalOK(h)'
    BY <1>0, <1>2, <2>1, <2>3, <2>4
    DEF LocalOK, Refreshing, Calling, Frames, FindFile
  <2>6. QED
    BY <1>2, <1>a, <2>2, <2>5, LocalStep DEF FindFile, envVars, diskVars, historyVars
<1>3. CASE FindHostAgain(h)
  <2> DEFINE i == search_hosts(HostOf[x.url])
             y == [x EXCEPT !.node = i, !.after = "add",
                            !.addr = nodes[i].ip_address, !.fname = FileOf[x.url]]
  <2>1. i \in Matches(HostOf[x.url]) /\ HostOf[x.url] \notin Black
    BY <1>0, <1>3, SearchHosts DEF FindHostAgain, LocalOK
  <2>2. i \in 1..Len(nodes) /\ nodes[i] \in Nodes
    BY <1>a, <2>1 DEF Matches
  <2>3. Unlisted(nodes[i].ip_address)
    BY <1>0, <2>1, <2>2 DEF ListOK, Matches
  <2>4. Goto(h, "create", y) /\ y \in Frames /\ "create" \in States
    <3>1. i \in Nat /\ nodes[i].ip_address \in Strings /\ FileOf[x.url] \in Files
      BY <1>a, <2>2, ConstantsAssumption DEF Nodes
    <3>2. y \in Frames
      BY <1>0, <3>1 DEF Frames
    <3>3. QED
      BY <1>3, <3>2 DEF FindHostAgain, States
  <2>5. pc'[h] = "create" /\ frame'[h] = y
    BY <1>0, <2>4, GotoType
  <2>6. LocalOK(h)'
    BY <1>0, <2>1, <2>3, <2>5 DEF LocalOK, Refreshing, Calling, Frames
  <2>7. QED
    BY <1>3, <1>a, <2>4, <2>6, LocalStep
    DEF FindHostAgain, envVars, diskVars, historyVars
<1>4. CASE CheckAge(h)
  <2> DEFINE n == nodes[x.node]
             y == [x EXCEPT !.after = "stamp", !.addr = n.ip_address,
                            !.fname = n.filename]
  <2>1. /\ x.node \in 1..Len(nodes) /\ n.filename = FileOf[x.url]
        /\ HostOf[x.url] \notin Black /\ n \in Nodes
    BY <1>0, <1>a, <1>4 DEF CheckAge, LocalOK
  <2>2. CASE timestamp_difference(n.tv, timeout) = 0
    <3>1. Goto(h, "open", x) /\ "open" \in States
      BY <1>4, <2>2 DEF CheckAge, States
    <3>2. pc'[h] = "open" /\ frame'[h] = x /\ nodes' = nodes
      BY <1>0, <1>4, <3>1, GotoType DEF CheckAge
    <3>3. LocalOK(h)'
      BY <1>0, <2>1, <3>2 DEF LocalOK, Refreshing, Calling
    <3>4. QED
      BY <1>0, <1>4, <1>a, <3>1, <3>3, LocalStep
      DEF CheckAge, envVars, diskVars, historyVars
  <2>3. CASE timestamp_difference(n.tv, timeout) # 0
    <3>1. ~n.blacklisted
      BY <1>0, <1>a, <2>1, ConstantsAssumption DEF ListOK
    <3>2. Unlisted(n.ip_address)
      BY <1>0, <2>1, <3>1 DEF ListOK
    <3>3. y \in Frames
      <4>1. n.ip_address \in Strings /\ n.filename \in Files
        BY <1>a, <2>1, ConstantsAssumption DEF Nodes
      <4>2. QED
        BY <1>0, <4>1 DEF Frames
    <3>4. Goto(h, "create", y) /\ "create" \in States
      BY <1>4, <2>3 DEF CheckAge, States
    <3>5. pc'[h] = "create" /\ frame'[h] = y /\ nodes' = nodes
      BY <1>0, <1>4, <3>3, <3>4, GotoType DEF CheckAge
    <3>6. LocalOK(h)'
      BY <1>0, <2>1, <3>2, <3>5 DEF LocalOK, Refreshing, Calling, Frames
    <3>7. QED
      BY <1>4, <1>a, <3>3, <3>4, <3>6, LocalStep
      DEF CheckAge, envVars, diskVars, historyVars
  <2>4. QED
    BY <2>2, <2>3
<1>5. CASE Resolve(h)
  <2> DEFINE a == AddressOf[HostOf[x.url]]
  <2>1. a \in Names \cup {NoName} /\ HostOf[x.url] \notin Black
    BY <1>0, <1>a, <1>5, ConstantsAssumption DEF Resolve, LocalOK
  <2>2. CASE a = NoName
    BY <1>5, <1>a, <1>b, <2>2, CloseStep DEF Resolve, envVars, diskVars, historyVars
  <2>3. CASE a # NoName
    <3>1. Goto(h, "address", x) /\ hostent' = a /\ "address" \in States
      BY <1>5, <2>3 DEF Resolve, States
    <3>2. pc'[h] = "address" /\ frame'[h] = x
      BY <1>0, <3>1, GotoType
    <3>3. LocalOK(h)'
      BY <1>0, <2>1, <3>2 DEF LocalOK, Refreshing, Calling
    <3>4. QED
      BY <1>0, <1>5, <1>a, <2>1, <3>1, <3>3, LocalStep
      DEF Resolve, envVars, diskVars, historyVars
  <2>4. QED
    BY <2>2, <2>3
<1>6. CASE ReadAddress(h)
  <2> DEFINE y == [x EXCEPT !.addr = hostent]
  <2>1. Goto(h, "ip", y) /\ y \in Frames /\ "ip" \in States
    BY <1>6, <1>0, <1>a DEF ReadAddress, Frames, States, Strings
  <2>2. pc'[h] = "ip" /\ frame'[h] = y
    BY <1>0, <2>1, GotoType
  <2>3. LocalOK(h)'
    BY <1>0, <1>6, <2>2 DEF LocalOK, Refreshing, Calling, Frames, ReadAddress
  <2>4. QED
    BY <1>6, <1>a, <2>1, <2>3, LocalStep DEF ReadAddress, envVars, diskVars, historyVars
<1>7. CASE FindAddress(h)
  <2> DEFINE i == search_hosts(x.addr)
             y == [x EXCEPT !.node = i, !.after = "add", !.fname = FileOf[x.url]]
  <2>1. CASE i # 0 /\ nodes[i].blacklisted
    BY <1>7, <1>a, <1>b, <2>1, CloseStep
    DEF FindAddress, envVars, diskVars, historyVars
  <2>2. CASE ~(i # 0 /\ nodes[i].blacklisted)
    <3>1. x.addr \notin Black
      <4>1. CASE i = 0
        BY <1>0, <1>a, <4>1, SearchHostsNone, BlacklistFirst
      <4>2. CASE i # 0
        BY <1>0, <2>2, <4>2, BlacklistFirst
      <4>3. QED
        BY <4>1, <4>2
    <3>2. i \in Nat
      BY <1>a, SearchHostsType
    <3>3. y \in Frames
      BY <1>0, <1>a, <3>2, ConstantsAssumption DEF Frames
    <3>4. Goto(h, "create", y) /\ "create" \in States
      BY <1>7, <2>2 DEF FindAddress, States
    <3>5. pc'[h] = "create" /\ frame'[h] = y
      BY <1>0, <3>3, <3>4, GotoType
    <3>6. LocalOK(h)'
      BY <1>0, <1>7, <3>1, <3>5 DEF LocalOK, Unlisted, Refreshing, Calling, Frames, FindAddress
    <3>7. QED
      BY <1>7, <1>a, <3>3, <3>4, <3>6, LocalStep
      DEF FindAddress, envVars, diskVars, historyVars
  <2>3. QED
    BY <2>1, <2>2
<1>8. QED
  BY <1>1, <1>2, <1>3, <1>4, <1>5, <1>6, <1>7

\* A connection is accepted.
LEMMA AcceptInv ==
  ASSUME Inv, NEW h \in Handlers, AcceptOther(h) \/ \E u \in Urls : Accept(h, u)
  PROVE  Inv'
<1>0. TypeOK
  BY DEF Inv
<1>a. /\ accepted' \in 0..MaxConnections /\ hostent \in Names \cup {NoName}
      /\ [settled EXCEPT ![h] = FALSE] \in [Handlers -> BOOLEAN]
  BY <1>0, ConstantsAssumption DEF TypeOK, Accept, AcceptOther
<1>1. CASE AcceptOther(h)
  BY <1>1, <1>a, CloseStep
  DEF AcceptOther, Answers, envVars, diskVars, historyVars
<1>2. ASSUME NEW u \in Urls, Accept(h, u) PROVE Inv'
  <2>1. Cleared(u) \in Frames /\ Cleared(u).fname = FileOf[Cleared(u).url]
    BY ClearedType
  <2>2. Goto(h, "host", Cleared(u)) /\ "host" \in States
    BY <1>2 DEF Accept, States
  <2>3. pc'[h] = "host" /\ frame'[h] = Cleared(u)
    BY <1>0, <2>1, <2>2, GotoType
  <2>4. LocalOK(h)'
    BY <2>1, <2>3 DEF LocalOK, Refreshing, Calling
  <2>5. QED
    BY <1>2, <1>a, <2>1, <2>2, <2>4, LocalStep
    DEF Accept, envVars, diskVars, historyVars
<1>3. QED
  BY <1>1, <1>2

\* The chunks of a cached copy.
LEMMA ChunkType ==
  ASSUME TypeOK, NEW h \in Handlers, NEW k \in Nat \ {0}, NEW c \in ReadChunk(h, k)
  PROVE  c \in Bytes
<1>1. frame[h] \in Frames /\ Zeros \in Bytes
  BY DEF TypeOK, Bytes
<1>2. frame[h].fname \in Files /\ frame[h].copy \in Seq(Bytes)
  BY <1>1 DEF Frames
<1>3. file[frame[h].fname] \in Seq(Bytes)
  BY <1>2 DEF TypeOK
<1>4. \A i \in 1..Len(frame[h].copy) : frame[h].copy[i] \in Bytes
  BY <1>2
<1>5. k <= Len(file[frame[h].fname]) => file[frame[h].fname][k] \in Bytes
  BY <1>3
<1>6. QED
  BY <1>1, <1>4, <1>5 DEF ReadChunk

\* The steps that send the cached copy.
LEMMA SendInv ==
  ASSUME Inv, NEW h \in Handlers, OpenCached(h) \/ SendCached(h) \/ CloseCached(h)
  PROVE  Inv'
<1> DEFINE x == frame[h]
<1>0. TypeOK /\ LocalOK(h) /\ x \in Frames
  BY DEF Inv, TypeOK
<1>a. /\ accepted \in 0..MaxConnections /\ hostent \in Names \cup {NoName}
      /\ settled' \in [Handlers -> BOOLEAN] /\ nodes \in Seq(Nodes)
  BY <1>0 DEF TypeOK, OpenCached, SendCached, CloseCached, historyVars
<1>1. CASE OpenCached(h)
  <2> DEFINE f == nodes[x.node].filename
             y == [x EXCEPT !.fname = f, !.size = Len(file[f]),
                     !.copy = IF Len(file[f]) = 1 THEN file[f] ELSE <<>>]
  <2>1. CASE f \in present
    <3>1. f = FileOf[x.url] /\ f \in Files
      BY <1>0, <1>1, <2>1, ConstantsAssumption DEF OpenCached, LocalOK, TypeOK
    <3>2. y \in Frames
      <4>1. file[f] \in Seq(Bytes) /\ Len(file[f]) \in Nat
        BY <1>0, <3>1 DEF TypeOK
      <4>2. (IF Len(file[f]) = 1 THEN file[f] ELSE <<>>) \in Seq(Bytes)
        BY <4>1
      <4>3. \A n \in Nat, q \in Seq(Bytes) :
              [x EXCEPT !.fname = f, !.size = n, !.copy = q] \in Frames
        BY <1>0, <3>1 DEF Frames
      <4>4. QED
        BY <4>1, <4>2, <4>3
    <3>3. Goto(h, "send", y) /\ "send" \in States
      BY <1>1, <2>1 DEF OpenCached, States
    <3>4. pc'[h] = "send" /\ frame'[h] = y
      BY <1>0, <3>2, <3>3, GotoType
    <3>5. LocalOK(h)'
      BY <1>0, <1>1, <3>1, <3>4
      DEF LocalOK, Refreshing, Calling, Frames, OpenCached
    <3>6. QED
      BY <1>1, <1>a, <3>2, <3>3, <3>5, LocalStep
      DEF OpenCached, envVars, diskVars
  <2>2. CASE f \notin present
    BY <1>1, <1>a, <2>2, CloseStep DEF OpenCached, Answers, envVars, diskVars
  <2>3. QED
    BY <2>1, <2>2
<1>2. CASE SendCached(h)
  <2>1. Len(x.sent) + 1 \in Nat \ {0} /\ x.sent \in Seq(Bytes)
    BY <1>0 DEF Frames
  <2>2. PICK c \in ReadChunk(h, Len(x.sent) + 1) :
          Goto(h, "send", [x EXCEPT !.sent = Append(@, c)])
    BY <1>2 DEF SendCached
  <2> DEFINE y == [x EXCEPT !.sent = Append(@, c)]
  <2>3. y \in Frames
    <3>1. c \in Bytes
      BY <1>0, <2>1, ChunkType
    <3>2. Append(x.sent, c) \in Seq(Bytes)
      BY <2>1, <3>1
    <3>3. QED
      BY <1>0, <3>2 DEF Frames
  <2>4. pc'[h] = "send" /\ frame'[h] = y /\ "send" \in States
    BY <1>0, <2>2, <2>3, GotoType DEF States
  <2>5. LocalOK(h)'
    BY <1>0, <1>2, <2>4 DEF LocalOK, Refreshing, Calling, Frames, SendCached
  <2>6. QED
    BY <1>2, <1>a, <2>2, <2>3, <2>4, <2>5, LocalStep
    DEF SendCached, envVars, diskVars, historyVars
<1>3. CASE CloseCached(h)
  BY <1>3, <1>a, CloseStep DEF CloseCached, Answers, envVars, diskVars, historyVars
<1>4. QED
  BY <1>1, <1>2, <1>3

\* The steps of a transfer that leave the list alone.
LEMMA CreateInv ==
  ASSUME Inv, NEW h \in Handlers, Create(h) \/ CannotCreate(h)
  PROVE  Inv'
<1> DEFINE x == frame[h]
<1>0. TypeOK /\ LocalOK(h) /\ x \in Frames /\ x.fname \in Files
  BY DEF Inv, TypeOK, Frames
<1>1. CASE CannotCreate(h)
  BY <1>0, <1>1, CloseStep
  DEF CannotCreate, Answers, envVars, diskVars, historyVars, TypeOK
<1>2. CASE Create(h)
  <2>1. Goto(h, "connect", x) /\ "connect" \in States
    BY <1>2 DEF Create, States
  <2>2. /\ pc' \in [Handlers -> States] /\ frame' \in [Handlers -> Frames]
        /\ pc'[h] = "connect" /\ frame'[h] = x
        /\ \A k \in Handlers \ {h} : pc'[k] = pc[k] /\ frame'[k] = frame[k]
    BY <1>0, <2>1, GotoType
  <2>3. TypeOK'
    <3>1. file' \in [Files -> Seq(Bytes)]
      BY <1>0, <1>2 DEF Create, TypeOK
    <3>2. docs' \in [Files -> SUBSET Documents]
      BY <1>0, <1>2 DEF Create, TypeOK
    <3>3. settled' \in [Handlers -> BOOLEAN] /\ present' \in SUBSET Files
      BY <1>0, <1>2 DEF Create, TypeOK
    <3>4. QED
      BY <1>0, <1>2, <2>2, <3>1, <3>2, <3>3 DEF Create, TypeOK, envVars
  <2>4. Grows /\ nodes' \in Seq(Nodes) /\ present \subseteq present'
    BY <1>0, <1>2 DEF Create, Grows, TypeOK
  <2>5. \A k \in Handlers \ {h} : LocalOK(k)'
    BY <2>2, <2>4, OthersOK
  <2>6. LocalOK(h)'
    BY <1>0, <1>2, <2>2 DEF LocalOK, Refreshing, Calling, Create
  <2>7. ListOK' /\ FilesThere'
    BY <1>2, <2>4 DEF Inv, ListOK, FilesThere, FileBehindNode, NoneBeginsFile, Create
  <2>8. QED
    BY <2>3, <2>5, <2>6, <2>7 DEF Inv
<1>3. QED
  BY <1>1, <1>2

\* Chunks that are written to a file make a file.
LEMMA WrittenType ==
  ASSUME NEW q \in Seq(Bytes), NEW d \in Bytes, NEW i \in Nat, NEW j \in Nat
  PROVE  Written(q, d, i, j) \in Seq(Bytes)
<1>1. d \in Bytes /\ Zeros \in Bytes
  BY DEF Bytes
<1>2. CASE j < i
  BY <1>2 DEF Written
<1>3. CASE ~(j < i)
  <2> DEFINE n == IF j > Len(q) THEN j ELSE Len(q)
  <2>1. n \in Nat
    OBVIOUS
  <2>2. \A k \in 1..n : (IF k \in i..j THEN d ELSE IF k <= Len(q) THEN q[k] ELSE Zeros)
                           \in Bytes
    BY <1>1
  <2>3. QED
    BY <1>3, <2>1, <2>2 DEF Written
<1>4. QED
  BY <1>2, <1>3

\* A step that writes to the file of a handler keeps the invariant when it
\* keeps that of the handler.
LEMMA WriteStep ==
  ASSUME Inv, NEW h \in Handlers, NEW where \in States, NEW locals \in Frames,
         Goto(h, where, locals), LocalOK(h)', NEW q \in Seq(Bytes),
         file' = [file EXCEPT ![frame[h].fname] = q],
         UNCHANGED <<up, nodes, envVars, hostent, present, accepted, historyVars>>
  PROVE  Inv'
<1>0. TypeOK
  BY DEF Inv
<1>1. TypeOK'
  BY <1>0, GotoType DEF TypeOK, envVars, historyVars
<1>2. Grows /\ nodes' \in Seq(Nodes)
  BY <1>0 DEF Grows, TypeOK
<1>3. \A k \in Handlers \ {h} : LocalOK(k)'
  BY <1>0, <1>2, GotoType, OthersOK
<1>4. ListOK' /\ FilesThere'
  BY DEF Inv, ListOK, FilesThere, FileBehindNode, NoneBeginsFile
<1>5. QED
  BY <1>1, <1>3, <1>4 DEF Inv

LEMMA TransferInv ==
  ASSUME Inv, NEW h \in Handlers,
         Connect(h) \/ Fail(h) \/ Spin(h) \/ Receive(h) \/ EndTransfer(h)
  PROVE  Inv'
<1> DEFINE x == frame[h]
<1>0. TypeOK /\ LocalOK(h) /\ x \in Frames /\ x.fname \in Files /\ x.url \in Urls
  BY DEF Inv, TypeOK, Frames
<1>1. CASE Connect(h)
  <2> DEFINE d == [url |-> x.url, addr |-> x.addr, version |-> origin[x.url]]
             y == [x EXCEPT !.doc = d, !.got = 0, !.out = 0]
  <2>1. d \in Documents
    BY <1>0, <1>1 DEF Connect, TypeOK, Documents
  <2>2. Goto(h, "receive", y) /\ y \in Frames /\ "receive" \in States
    BY <1>0, <1>1, <2>1 DEF Connect, Frames, States, Bytes
  <2>3. /\ pc' \in [Handlers -> States] /\ frame' \in [Handlers -> Frames]
        /\ pc'[h] = "receive" /\ frame'[h] = y
        /\ \A k \in Handlers \ {h} : pc'[k] = pc[k] /\ frame'[k] = frame[k]
    BY <1>0, <2>2, GotoType
  <2>4. TypeOK'
    <3>1. docs' \in [Files -> SUBSET Documents]
      BY <1>0, <1>1, <2>1 DEF Connect, TypeOK
    <3>2. QED
      BY <1>0, <1>1, <2>3, <3>1 DEF Connect, TypeOK, envVars, diskVars
  <2>5. Grows /\ nodes' \in Seq(Nodes) /\ present \subseteq present'
    BY <1>0, <1>1 DEF Connect, Grows, TypeOK, diskVars
  <2>6. \A k \in Handlers \ {h} : LocalOK(k)'
    BY <2>3, <2>5, OthersOK
  <2>7. LocalOK(h)'
    BY <1>0, <1>1, <2>1, <2>3
    DEF LocalOK, Refreshing, Calling, Connect, Frames, diskVars
  <2>8. ListOK' /\ FilesThere'
    BY <1>1 DEF Inv, ListOK, FilesThere, FileBehindNode, NoneBeginsFile, Connect, diskVars
  <2>9. QED
    BY <2>4, <2>6, <2>7, <2>8 DEF Inv
<1>2. CASE Fail(h)
  <2>1. Goto(h, "spin", x) /\ "spin" \in States
    BY <1>2 DEF Fail, States
  <2>2. pc'[h] = "spin" /\ frame'[h] = x
    BY <1>0, <2>1, GotoType
  <2>3. LocalOK(h)'
    BY <1>0, <1>2, <2>2 DEF LocalOK, Refreshing, Calling, Fail
  <2>4. QED
    BY <1>0, <1>2, <2>1, <2>3, LocalStep
    DEF Fail, envVars, diskVars, historyVars, TypeOK
<1>3. CASE Receive(h)
  <2>1. PICK k \in x.out..(x.got + 1) :
          /\ file' = [file EXCEPT ![x.fname] = Written(@, x.doc, x.out + 1, k)]
          /\ Goto(h, "receive", [x EXCEPT !.got = @ + 1, !.out = k])
    BY <1>3 DEF Receive
  <2> DEFINE y == [x EXCEPT !.got = @ + 1, !.out = k]
  <2>2. x.out \in Nat /\ x.got \in Nat /\ k \in Nat
    BY <1>0 DEF Frames
  <2>3. Written(file[x.fname], x.doc, x.out + 1, k) \in Seq(Bytes)
    <3>1. x.doc \in Bytes /\ file[x.fname] \in Seq(Bytes) /\ x.out + 1 \in Nat
      <4>1. pc[h] = "receive"
        BY <1>3 DEF Receive
      <4>2. QED
        BY <1>0, <2>2, <4>1 DEF LocalOK, TypeOK, Bytes
    <3>2. QED
      BY <2>2, <3>1, WrittenType
  <2>4. y \in Frames /\ "receive" \in States
    <3>1. x.got + 1 \in Nat
      BY <2>2
    <3>2. QED
      BY <1>0, <2>2, <3>1 DEF Frames, States
  <2>5. pc'[h] = "receive" /\ frame'[h] = y
    BY <1>0, <2>1, <2>4, GotoType
  <2>6. LocalOK(h)'
    BY <1>0, <1>3, <2>5 DEF LocalOK, Refreshing, Calling, Receive, Frames
  <2>7. file' = [file EXCEPT ![x.fname] = Written(file[x.fname], x.doc, x.out + 1, k)]
    BY <2>1
  <2>8. QED
    BY <1>3, <2>1, <2>3, <2>4, <2>6, <2>7, WriteStep DEF Receive
<1>4. CASE EndTransfer(h)
  <2> DEFINE y == [x EXCEPT !.out = Chunks(x.doc)]
  <2>1. x.doc \in Documents /\ x.out \in Nat /\ Chunks(x.doc) \in Nat
    BY <1>0, <1>4, ConstantsAssumption
    DEF EndTransfer, LocalOK, Frames, Chunks, Documents
  <2>2. Flushed(file[x.fname], x) \in Seq(Bytes)
    <3>1. file[x.fname] \in Seq(Bytes) /\ x.out + 1 \in Nat
      BY <1>0, <2>1 DEF TypeOK
    <3>2. QED
      BY <2>1, <3>1, WrittenType DEF Flushed, Bytes
  <2>3. y \in Frames /\ x.after \in States /\ x.after \in {"stamp", "add"}
    BY <1>0, <2>1 DEF Frames, States
  <2>4. Goto(h, x.after, y)
    BY <1>4 DEF EndTransfer
  <2>5. pc'[h] = x.after /\ frame'[h] = y
    BY <1>0, <2>3, <2>4, GotoType
  <2>6. LocalOK(h)'
    BY <1>0, <1>4, <2>3, <2>5 DEF LocalOK, Refreshing, Calling, EndTransfer, Frames
  <2>7. file' = [file EXCEPT ![x.fname] = Flushed(file[x.fname], x)]
    BY <1>4 DEF EndTransfer
  <2>8. QED
    BY <1>4, <2>2, <2>3, <2>4, <2>6, <2>7, WriteStep DEF EndTransfer
<1>5. CASE Spin(h)
  <2> DEFINE y == [x EXCEPT !.out = @ + 1]
             q == Written(file[x.fname], Zeros, x.out + 1, x.out + 1)
  <2>1. x.out + 1 \in Nat
    BY <1>0 DEF Frames
  <2>2. q \in Seq(Bytes)
    <3>1. file[x.fname] \in Seq(Bytes) /\ Zeros \in Bytes
      BY <1>0 DEF TypeOK, Bytes
    <3>2. QED
      BY <2>1, <3>1, WrittenType
  <2>3. y \in Frames /\ "spin" \in States
    BY <1>0, <2>1 DEF Frames, States
  <2>4. Goto(h, "spin", y) /\ file' = [file EXCEPT ![x.fname] = q]
    BY <1>5 DEF Spin
  <2>5. pc'[h] = "spin" /\ frame'[h] = y
    BY <1>0, <2>3, <2>4, GotoType
  <2>6. LocalOK(h)'
    BY <1>0, <1>5, <2>5 DEF LocalOK, Refreshing, Calling, Spin, Frames
  <2> HIDE DEF q, y
  <2>7. QED
    BY <1>5, <2>2, <2>3, <2>4, <2>6, WriteStep DEF Spin
<1>6. QED
  BY <1>1, <1>2, <1>3, <1>4, <1>5

\* Closing with a longer or stamped list.
LEMMA CloseGrown ==
  ASSUME Inv, NEW h \in Handlers, Close(h, "fetched"),
         Grows, nodes' \in Seq(Nodes), ListOK', FilesThere',
         UNCHANGED <<up, envVars, hostent, diskVars, accepted, historyVars>>
  PROVE  Inv'
<1>0. TypeOK /\ "fetched" \in Answers /\ "free" \in States
  BY DEF Inv, Answers, States
<1>1. PICK locals \in Frames : Goto(h, "free", locals)
  BY <1>0, CloseOK
<1>2. LocalOK(h)'
  BY <1>0, CloseOK
<1>3. TypeOK'
  <2>1. nodes' # <<>>
    BY <1>0 DEF Grows, TypeOK
  <2>2. QED
    BY <1>0, <1>1, <2>1, GotoType DEF TypeOK, envVars, diskVars, historyVars
<1>4. \A k \in Handlers \ {h} : LocalOK(k)'
  BY <1>0, <1>1, GotoType, OthersOK DEF diskVars
<1>5. QED
  BY <1>2, <1>3, <1>4 DEF Inv

\* The list stays right when what is added to it is not blacklisted.
LEMMA ListGrows ==
  ASSUME TypeOK, ListOK, Grows, nodes' \in Seq(Nodes),
         \A i \in 1..Len(nodes') :
           \/ i \in 1..Len(nodes)
           \/ ~nodes'[i].blacklisted /\ Unlisted(nodes'[i].ip_address)
  PROVE  ListOK'
<1>0. Blacklist \in Seq(Names) /\ nodes \in Seq(Nodes)
  BY ConstantsAssumption DEF TypeOK
<1>1. Len(nodes') > Len(Blacklist)
  BY <1>0 DEF ListOK, Grows
<1>2. \A i \in 1..Len(Blacklist) : i + 1 \in 1..Len(nodes)
  BY <1>0 DEF ListOK
<1>3. \A i \in 1..Len(Blacklist) :
        nodes'[i + 1].hostname = Blacklist[i] /\ nodes'[i + 1].blacklisted
  BY <1>2 DEF ListOK, Grows
<1>4. 1 \in 1..Len(nodes)
  BY <1>0 DEF ListOK
<1>5. nodes'[1].hostname = NoName /\ nodes'[1].ip_address = NoName
  BY <1>4 DEF ListOK, Grows
<1>6. \A i \in 1..Len(nodes') :
        IF nodes'[i].blacklisted
          THEN /\ nodes'[i].hostname \in Black
               /\ nodes'[i].ip_address = nodes'[i].hostname
               /\ nodes'[i].filename = BlacklistFile
          ELSE Unlisted(nodes'[i].ip_address)
  BY DEF ListOK, Grows
<1>7. QED
  BY <1>1, <1>3, <1>5, <1>6 DEF ListOK

LEMMA ListInv ==
  ASSUME Inv, NEW h \in Handlers, Stamp(h) \/ Add(h)
  PROVE  Inv'
<1> DEFINE x == frame[h]
<1>0. /\ TypeOK /\ ListOK /\ FilesThere /\ LocalOK(h) /\ x \in Frames
      /\ x.url \in Urls /\ x.addr \in Strings
      /\ nodes \in Seq(Nodes) /\ Blacklist \in Seq(Names)
  BY ConstantsAssumption DEF Inv, TypeOK, Frames
<1>1. CASE Stamp(h)
  <2>1. x.node \in 1..Len(nodes)
    BY <1>0, <1>1 DEF Stamp, LocalOK, Refreshing
  <2>2. nodes' = [nodes EXCEPT ![x.node] = [@ EXCEPT !.tv = now]]
    BY <1>1 DEF Stamp, gettimeofday
  <2>3. [nodes[x.node] EXCEPT !.tv = now] \in Nodes
    <3>1. nodes[x.node] \in Nodes /\ now \in 0..MaxTime
      BY <1>0, <2>1 DEF TypeOK
    <3>2. QED
      BY <3>1 DEF Nodes
  <2>4. nodes' \in Seq(Nodes) /\ Len(nodes') = Len(nodes)
    BY <1>0, <2>1, <2>2, <2>3
  <2>5. \A i \in 1..Len(nodes) :
          /\ nodes'[i].hostname = nodes[i].hostname
          /\ nodes'[i].ip_address = nodes[i].ip_address
          /\ nodes'[i].filename = nodes[i].filename
          /\ nodes'[i].blacklisted = nodes[i].blacklisted
    <3> SUFFICES ASSUME NEW i \in 1..Len(nodes)
                 PROVE  /\ nodes'[i].hostname = nodes[i].hostname
                        /\ nodes'[i].ip_address = nodes[i].ip_address
                        /\ nodes'[i].filename = nodes[i].filename
                        /\ nodes'[i].blacklisted = nodes[i].blacklisted
      OBVIOUS
    <3>1. nodes[i] \in Nodes
      BY <1>0
    <3>2. nodes'[i] = IF i = x.node THEN [nodes[i] EXCEPT !.tv = now] ELSE nodes[i]
      BY <1>0, <2>1, <2>2
    <3>3. QED
      BY <3>1, <3>2 DEF Nodes
  <2>6. Grows
    BY <1>0, <2>4, <2>5 DEF Grows
  <2>7. ListOK'
    BY <1>0, <2>4, <2>6, ListGrows
  <2>8. FilesThere'
    BY <1>0, <1>1, <2>4, <2>5
    DEF FilesThere, FileBehindNode, NoneBeginsFile, Stamp, diskVars
  <2>9. QED
    BY <1>1, <2>4, <2>6, <2>7, <2>8, CloseGrown DEF Stamp
<1>2. CASE Add(h)
  <2>1. PICK s \in Copied(HostOf[x.url]), a \in Copied(x.addr), f \in Copied(FileOf[x.url]) :
          nodes' = Append(nodes, Node(s, a, f, now, FALSE))
    BY <1>2 DEF Add, add_host, gettimeofday
  <2> DEFINE n == Node(s, a, f, now, FALSE)
  <2>2. s \in Strings /\ a \in Strings /\ f \in Strings
    <3>1. HostOf[x.url] \in Strings /\ FileOf[x.url] \in Strings
      BY <1>0, ConstantsAssumption DEF Strings
    <3>2. \A q \in Strings : Copied(q) \subseteq Strings
      BY DEF Copied, Continued, Strings
    <3>3. QED
      BY <1>0, <2>1, <3>1, <3>2
  <2>3. n \in Nodes /\ n.ip_address = a /\ n.filename = f /\ ~n.blacklisted
    BY <1>0, <2>2 DEF Node, Nodes, TypeOK
  <2>a. nodes' = Append(nodes, n)
    BY <2>1
  <2> HIDE DEF n
  <2>4. nodes' \in Seq(Nodes) /\ Len(nodes') = Len(nodes) + 1
    BY <1>0, <2>a, <2>3
  <2>5. \A i \in 1..Len(nodes) : nodes'[i] = nodes[i]
    BY <1>0, <2>a, <2>3
  <2>6. nodes'[Len(nodes) + 1] = n
    BY <1>0, <2>a, <2>3
  <2>b. \A i \in 1..Len(nodes') : i \in 1..Len(nodes) \/ i = Len(nodes) + 1
    BY <1>0, <2>4
  <2>7. Unlisted(a)
    <3>1. Unlisted(x.addr) /\ x.addr \in Names
      BY <1>0, <1>2 DEF Add, LocalOK, Calling
    <3>2. QED
      BY <2>1, <3>1, CopiesUnlisted
  <2>8. Grows
    BY <1>0, <2>4, <2>5 DEF Grows
  <2>9. ListOK'
    BY <1>0, <2>3, <2>4, <2>6, <2>7, <2>8, <2>b, ListGrows
  <2>10. FilesThere'
    <3>1. NoneBeginsFile /\ f \in Files => f \in present
      <4>1. FileOf[x.url] \in Files /\ FileOf[x.url] \in present
        BY <1>0, <1>2, ConstantsAssumption DEF Add, LocalOK
      <4>2. QED
        BY <2>1, <4>1, CopiesThere
    <3>2. present' = present
      BY <1>2 DEF Add, diskVars
    <3>3. QED
      BY <1>0, <2>3, <2>5, <2>6, <2>b, <3>1, <3>2
      DEF FilesThere, FileBehindNode, NoneBeginsFile
  <2>11. QED
    BY <1>2, <2>4, <2>8, <2>9, <2>10, CloseGrown DEF Add
<1>3. QED
  BY <1>1, <1>2

\* The steps of the world around the proxy.
LEMMA WorldInv ==
  ASSUME Inv, \/ Tick \/ (\E u \in Urls : Publish(u))
              \/ (\E h \in Handlers : BrowserGone(h)) \/ UNCHANGED vars
  PROVE  Inv'
<1>0. TypeOK
  BY DEF Inv
<1>1. UNCHANGED <<nodes, file, present, pc, frame>>
  BY DEF Tick, Publish, BrowserGone, vars, envVars, diskVars
<1>2. TypeOK'
  <2>1. CASE Tick
    BY <1>0, <2>1, ConstantsAssumption DEF Tick, TypeOK, diskVars, historyVars
  <2>2. ASSUME NEW u \in Urls, Publish(u) PROVE TypeOK'
    BY <1>0, <2>2 DEF Publish, TypeOK, diskVars, historyVars
  <2>3. ASSUME NEW h \in Handlers, BrowserGone(h) PROVE TypeOK'
    BY <1>0, <2>3 DEF BrowserGone, TypeOK, envVars, diskVars, historyVars
  <2>4. CASE UNCHANGED vars
    BY <1>0, <2>4 DEF vars, TypeOK, envVars, diskVars, historyVars
  <2>5. QED
    BY <2>1, <2>2, <2>3, <2>4
<1>3. QED
  BY <1>1, <1>2 DEF Inv, ListOK, FilesThere, FileBehindNode, NoneBeginsFile, LocalOK, Refreshing, Matches

LEMMA NextInv == Inv /\ [Next]_vars => Inv'
<1> SUFFICES ASSUME Inv, [Next]_vars PROVE Inv'
  OBVIOUS
<1>1. ASSUME NEW h \in Handlers, Serve(h) PROVE Inv'
  BY <1>1, LookupInv, SendInv, CreateInv, TransferInv, ListInv DEF Serve
<1>2. ASSUME NEW h \in Handlers, AcceptOther(h) \/ \E u \in Urls : Accept(h, u)
      PROVE  Inv'
  BY <1>2, AcceptInv
<1>3. QED
  BY <1>1, <1>2, WorldInv DEF Next

LEMMA InitInv == Init => Inv
<1> SUFFICES ASSUME Init PROVE Inv
  OBVIOUS
<1> DEFINE b == [i \in 1..Len(Blacklist) |-> BlacklistNode(Blacklist[i])]
           n == Node(NoName, NoName, NoFile, 0, FALSE)
<1>0. Blacklist \in Seq(Names) /\ (CHOOSE u \in Urls : TRUE) \in Urls
  BY ConstantsAssumption
<1>1. n \in Nodes /\ \A i \in 1..Len(Blacklist) : BlacklistNode(Blacklist[i]) \in Nodes
  BY <1>0, ConstantsAssumption DEF Node, BlacklistNode, Nodes, Strings
<1>2. nodes = <<n>> \o b
  BY DEF Init
<1>3. /\ n.hostname = NoName /\ n.ip_address = NoName /\ n.filename = NoFile
      /\ ~n.blacklisted
  BY DEF Node
<1>4. /\ b \in Seq(Nodes) /\ Len(b) = Len(Blacklist)
      /\ \A i \in 1..Len(Blacklist) :
           /\ b[i].hostname = Blacklist[i] /\ b[i].blacklisted
           /\ b[i].ip_address = Blacklist[i] /\ b[i].filename = BlacklistFile
  BY <1>0, <1>1 DEF BlacklistNode, Node
<1> HIDE DEF n, b
<1>5. /\ nodes \in Seq(Nodes) /\ Len(nodes) = Len(Blacklist) + 1
      /\ nodes[1] = n
      /\ \A i \in 1..Len(Blacklist) : nodes[i + 1] = b[i]
  BY <1>0, <1>1, <1>2, <1>4
<1>6. \A i \in 1..Len(nodes) : i = 1 \/ \E j \in 1..Len(Blacklist) : i = j + 1
  <2>1. \A i \in 1..Len(nodes) : i # 1 => i - 1 \in 1..Len(Blacklist) /\ i = (i - 1) + 1
    BY <1>0, <1>5
  <2>2. QED
    BY <2>1
<1>7. TypeOK
  <2>1. nodes # <<>>
    BY <1>0, <1>5
  <2>2. frame \in [Handlers -> Frames] /\ pc \in [Handlers -> States]
    BY <1>0, ClearedType DEF Init, States
  <2>3. QED
    <3>1. /\ file \in [Files -> Seq(Bytes)] /\ docs \in [Files -> SUBSET Documents]
          /\ origin \in [Urls -> Versions] /\ settled \in [Handlers -> BOOLEAN]
      BY ConstantsAssumption DEF Init
    <3>2. now \in 0..MaxTime /\ accepted \in 0..MaxConnections
      BY ConstantsAssumption DEF Init
    <3>3. up \in BOOLEAN /\ hostent \in Names \cup {NoName} /\ present \in SUBSET Files
      BY DEF Init
    <3>4. QED
      BY <1>5, <2>1, <2>2, <3>1, <3>2, <3>3 DEF TypeOK
<1>8. ListOK
  <2>1. NoName \notin Black /\ \A j \in 1..Len(Blacklist) : Blacklist[j] \in Black
    BY <1>0, ConstantsAssumption DEF Black
  <2>2. \A j \in 1..Len(Blacklist) :
          /\ nodes[j + 1].hostname = Blacklist[j] /\ nodes[j + 1].blacklisted
          /\ nodes[j + 1].ip_address = Blacklist[j]
          /\ nodes[j + 1].filename = BlacklistFile
    BY <1>4, <1>5
  <2>3. \A i \in 1..Len(nodes) :
          IF nodes[i].blacklisted
            THEN /\ nodes[i].hostname \in Black
                 /\ nodes[i].ip_address = nodes[i].hostname
                 /\ nodes[i].filename = BlacklistFile
            ELSE Unlisted(nodes[i].ip_address)
    BY <1>3, <1>5, <1>6, <2>1, <2>2 DEF Unlisted
  <2>4. Len(nodes) > Len(Blacklist)
    BY <1>0, <1>5
  <2>5. QED
    BY <1>3, <1>5, <2>2, <2>3, <2>4 DEF ListOK
<1>9. FilesThere
  <2>1. \A j \in 1..Len(Blacklist) : nodes[j + 1].filename = BlacklistFile
    BY <1>4, <1>5
  <2>2. \A i \in 1..Len(nodes) : nodes[i].filename \in {NoFile, BlacklistFile}
    BY <1>3, <1>5, <1>6, <2>1
  <2>3. QED
    BY <2>2, ConstantsAssumption DEF FilesThere, FileBehindNode
<1>10. \A h \in Handlers : LocalOK(h)
  BY <1>0, ClearedType DEF Init, LocalOK, Refreshing, Calling
<1>11. QED
  BY <1>7, <1>8, <1>9, <1>10 DEF Inv

LEMMA SpecInv == Spec => []Inv
BY InitInv, NextInv, PTL DEF Spec

(***************************************************************************)
(* The variables of the proxy keep their types.                            *)
(***************************************************************************)
THEOREM TypeCorrect == Spec => []TypeOK
<1>1. Inv => TypeOK
  BY DEF Inv
<1>2. QED
  BY <1>1, SpecInv, PTL

(***************************************************************************)
(* A request for a blacklisted host is refused, whatever the copies of     *)
(* strings in the list have become.                                        *)
(***************************************************************************)
HostsRefused ==
  \A h \in Handlers : pc[h] \notin {"free", "host"} => HostOf[frame[h].url] \notin Black
THEOREM BlacklistedHostsRefused == Spec => []HostsRefused
<1>1. Inv => HostsRefused
  BY DEF Inv, HostsRefused, LocalOK
<1>2. QED
  BY <1>1, SpecInv, PTL

(***************************************************************************)
(* Where no name or address begins a blacklisted one, no blacklisted host  *)
(* is served and no blacklisted address connected to, whatever the threads *)
(* do to one another's lookups.                                            *)
(***************************************************************************)
THEOREM BlacklistHonoured ==
  ASSUME NoneBeginsListed
  PROVE  Spec => []NeverForbidden
<1>1. Inv => NeverForbidden
  BY DEF Inv, NeverForbidden, LocalOK, Unlisted
<1>2. QED
  BY <1>1, SpecInv, PTL

(***************************************************************************)
(* Where no file name begins another resource's, the file of every node in *)
(* the list exists.                                                        *)
(***************************************************************************)
THEOREM CachedFilesExist ==
  ASSUME NoneBeginsFile
  PROVE  Spec => []FileBehindNode
<1>1. Inv => FileBehindNode
  BY DEF Inv, FilesThere
<1>2. QED
  BY <1>1, SpecInv, PTL

-----------------------------------------------------------------------------
(***************************************************************************)
(* The cache files under any number of threads that fetch, truncate and    *)
(* send them at the same time.                                             *)
(***************************************************************************)
\* Chunk i of the file f is still to be written by somebody, or may be: a
\* thread that spins is never done with its file.
Pending(f, i) ==
  \E h \in Handlers : /\ h \in Writers(f)
                      /\ pc[h] \in {"connect", "spin"} \/ frame[h].out < i
Spinning(f) == \E h \in Writers(f) : pc[h] = "spin"

\* All that the file f holds is of d, and what is missing will be written.
Receiving(f, d) ==
  /\ Len(file[f]) <= Chunks(d) \/ Spinning(f)
  /\ \A i \in 1..Chunks(d) :
       (i <= Len(file[f]) /\ file[f][i] = d) \/ Pending(f, i)

\* The invariant of one file.
FileOK(f) ==
  /\ docs[f] = {} => file[f] = <<>> \/ Spinning(f)
  /\ \A d \in docs[f] : FileOf[d.url] = f
  /\ \A h \in Handlers :
       pc[h] = "receive" /\ frame[h].fname = f => frame[h].doc \in docs[f]
  /\ \A d \in docs[f] : docs[f] = {d} => Receiving(f, d)
FilesOK == \A f \in Files : FileOK(f)

\* What the chunks of a file are after some have been written.
LEMMA WrittenChunks ==
  ASSUME NEW q \in Seq(Bytes), NEW d \in Bytes,
         NEW i \in Nat \ {0}, NEW j \in Nat, NEW n \in Nat \ {0}
  PROVE  /\ Len(Written(q, d, i, j)) = IF j < i \/ j <= Len(q) THEN Len(q) ELSE j
         /\ n \in i..j => n <= Len(Written(q, d, i, j)) /\ Written(q, d, i, j)[n] = d
         /\ n \notin i..j /\ n <= Len(q) =>
              n <= Len(Written(q, d, i, j)) /\ Written(q, d, i, j)[n] = q[n]
<1>1. CASE j < i
  BY <1>1 DEF Written
<1>2. CASE ~(j < i)
  <2> DEFINE m == IF j > Len(q) THEN j ELSE Len(q)
             w == [k \in 1..m |->
                     IF k \in i..j THEN d ELSE IF k <= Len(q) THEN q[k] ELSE Zeros]
  <2>1. m \in Nat /\ m >= j /\ m >= Len(q)
    OBVIOUS
  <2>2. Written(q, d, i, j) = w
    BY <1>2 DEF Written
  <2>3. Len(w) = m
    <3> HIDE DEF m
    <3> QED
      BY <2>1
  <2>4. n \in i..j => n \in 1..m /\ w[n] = d
    BY <2>1
  <2>5. n \notin i..j /\ n <= Len(q) => n \in 1..m /\ w[n] = q[n]
    BY <2>1
  <2>6. QED
    BY <1>2, <2>1, <2>2, <2>3, <2>4, <2>5
<1>3. QED
  BY <1>1, <1>2

\* The types that are needed below.
LEMMA FileTypes ==
  ASSUME Inv, NEW f \in Files
  PROVE  /\ file[f] \in Seq(Bytes) /\ docs[f] \subseteq Documents
         /\ \A d \in docs[f] : d \in Documents /\ Chunks(d) \in Nat \ {0}
         /\ \A h \in Handlers : /\ frame[h] \in Frames
                                /\ frame[h].out \in Nat /\ frame[h].got \in Nat
                                /\ frame[h].fname = FileOf[frame[h].url]
                                /\ frame[h].fname \in Files
<1>1. TypeOK
  BY DEF Inv
<1>2. \A d \in Documents : Chunks(d) \in Nat \ {0}
  BY ConstantsAssumption DEF Documents, Chunks
<1>3. \A h \in Handlers : frame[h] \in Frames
  BY <1>1 DEF TypeOK
<1>4. QED
  BY <1>1, <1>2, <1>3 DEF TypeOK, Frames, Inv, LocalOK

\* A file that a step leaves alone stays as it is if its writers do, or
\* begin to spin.
LEMMA KeepFile ==
  ASSUME NEW f, FileOK(f), file'[f] = file[f], docs'[f] = docs[f],
         \A k \in Handlers :
           k \in Writers(f) =>
             k \in Writers(f)' /\ frame'[k] = frame[k] /\ pc'[k] \in {pc[k], "spin"},
         \A k \in Handlers : pc'[k] = "receive" =>
           pc[k] = "receive" /\ frame'[k].fname = frame[k].fname
                            /\ frame'[k].doc = frame[k].doc
  PROVE  FileOK(f)'
<1>1. \A i : Pending(f, i) => Pending(f, i)'
  BY DEF Pending
<1>2. Spinning(f) => Spinning(f)'
  BY DEF Spinning, Writers
<1>3. \A d : Receiving(f, d) => Receiving(f, d)'
  BY <1>1, <1>2 DEF Receiving, Chunks
<1>4. QED
  BY <1>2, <1>3 DEF FileOK

\* A step that neither touches the files nor makes or unmakes a writer.
Writing == {"connect", "receive", "spin"}
LEMMA NoWriteFiles ==
  ASSUME FilesOK, NEW h, pc[h] \notin Writing, pc'[h] \notin Writing,
         \A k \in Handlers \ {h} : pc'[k] = pc[k] /\ frame'[k] = frame[k],
         UNCHANGED <<file, docs>>
  PROVE  FilesOK'
<1> SUFFICES ASSUME NEW f \in Files PROVE FileOK(f)'
  BY DEF FilesOK
<1>1. FileOK(f)
  BY DEF FilesOK
<1>2. \A k \in Handlers : pc[k] \in Writing \/ pc'[k] \in Writing =>
                            pc'[k] = pc[k] /\ frame'[k] = frame[k]
  OBVIOUS
<1>3. QED
  BY <1>1, <1>2, KeepFile DEF Writers, Writing

\* The other files are left alone by a handler that writes to its own.
LEMMA OtherFiles ==
  ASSUME FilesOK, NEW h \in Handlers,
         \A k \in Handlers \ {h} : pc'[k] = pc[k] /\ frame'[k] = frame[k],
         frame'[h].fname = frame[h].fname,
         NEW f \in Files, f # frame[h].fname, file'[f] = file[f], docs'[f] = docs[f]
  PROVE  FileOK(f)'
<1>1. FileOK(f)
  BY DEF FilesOK
<1>2. \A k \in Handlers : frame[k].fname = f \/ frame'[k].fname = f => k # h
  OBVIOUS
<1>3. \A k \in Handlers : k \in Writers(f) =>
        k \in Writers(f)' /\ frame'[k] = frame[k] /\ pc'[k] = pc[k]
  BY <1>2 DEF Writers
<1>4. \A i : Pending(f, i) => Pending(f, i)'
  BY <1>3 DEF Pending
<1>5. Spinning(f) => Spinning(f)'
  BY <1>3 DEF Spinning, Writers
<1>6. \A d : Receiving(f, d) => Receiving(f, d)'
  BY <1>4, <1>5 DEF Receiving, Chunks
<1>7. \A k \in Handlers : pc'[k] = "receive" /\ frame'[k].fname = f =>
                            frame'[k].doc \in docs'[f]
  BY <1>1, <1>2 DEF FileOK
<1>8. QED
  BY <1>1, <1>5, <1>6, <1>7 DEF FileOK

LEMMA WriterFiles ==
  ASSUME Inv, FilesOK, NEW h \in Handlers,
         \/ Create(h) \/ Connect(h) \/ Fail(h) \/ Spin(h)
         \/ Receive(h) \/ EndTransfer(h)
  PROVE  FilesOK'
<1> DEFINE x == frame[h]
<1>0. PICK f \in Files : f = x.fname
  BY FileTypes DEF Inv, TypeOK, Frames
<1>1. /\ TypeOK /\ LocalOK(h) /\ x \in Frames /\ f = x.fname
      /\ x.out \in Nat /\ x.got \in Nat /\ f = FileOf[x.url]
      /\ file[f] \in Seq(Bytes) /\ docs[f] \subseteq Documents
      /\ \A d \in docs[f] : Chunks(d) \in Nat \ {0}
  BY <1>0, FileTypes DEF Inv, LocalOK
<1>2. FileOK(f)
  BY <1>1 DEF FilesOK
<1>3. ASSUME NEW where \in States, NEW y \in Frames, Goto(h, where, y)
      PROVE  /\ pc'[h] = where /\ frame'[h] = y
             /\ \A k \in Handlers \ {h} : pc'[k] = pc[k] /\ frame'[k] = frame[k]
  BY <1>1, <1>3, GotoType
<1>4. ASSUME pc[h] # "spin",
             \A k \in Handlers \ {h} : pc'[k] = pc[k] /\ frame'[k] = frame[k]
      PROVE  Spinning(f) => Spinning(f)'
  BY <1>4 DEF Spinning, Writers
<1>5. CASE Create(h)
  <2>1. /\ pc'[h] = "connect" /\ frame'[h] = x
        /\ \A k \in Handlers \ {h} : pc'[k] = pc[k] /\ frame'[k] = frame[k]
    BY <1>1, <1>3, <1>5 DEF Create, States
  <2>2. /\ pc[h] = "create" /\ file' = [file EXCEPT ![f] = <<>>]
        /\ docs' = [docs EXCEPT ![f] = IF Writers(f) = {} THEN {} ELSE @]
    BY <1>1, <1>5 DEF Create
  <2>3. file'[f] = <<>> /\ docs'[f] = IF Writers(f) = {} THEN {} ELSE docs[f]
    BY <1>1, <2>2 DEF TypeOK
  <2>4. \A i : Pending(f, i)'
    BY <1>0, <2>1 DEF Pending, Writers
  <2>5. \A d \in docs[f] : Receiving(f, d)'
    <3>1. Len(file'[f]) = 0
      BY <2>3
    <3>2. \A d \in docs[f] : Len(file'[f]) <= Chunks(d)
      BY <1>1, <3>1
    <3>3. QED
      BY <2>4, <3>2 DEF Receiving, Chunks
  <2>6. \A k \in Handlers : pc'[k] = "receive" /\ frame'[k].fname = f =>
          frame'[k].doc \in docs'[f]
    <3> SUFFICES ASSUME NEW k \in Handlers, pc'[k] = "receive", frame'[k].fname = f
                 PROVE  frame'[k].doc \in docs'[f]
      OBVIOUS
    <3>1. k # h /\ pc[k] = "receive" /\ frame[k] = frame'[k]
      BY <2>1
    <3>2. k \in Writers(f)
      BY <3>1 DEF Writers
    <3>3. QED
      BY <1>2, <2>3, <3>1, <3>2 DEF FileOK
  <2>7. FileOK(f)'
    BY <1>2, <2>3, <2>5, <2>6 DEF FileOK
  <2>8. \A g \in Files \ {f} : file'[g] = file[g] /\ docs'[g] = docs[g]
    BY <1>1, <2>2 DEF TypeOK
  <2>9. QED
    BY <1>0, <2>1, <2>7, <2>8, OtherFiles DEF FilesOK
<1>6. CASE Connect(h)
  <2>0. PICK d : d = [url |-> x.url, addr |-> x.addr, version |-> origin[x.url]]
    OBVIOUS
  <2> DEFINE y == [x EXCEPT !.doc = d, !.got = 0, !.out = 0]
  <2>1. d \in Documents /\ d.url = x.url
    BY <1>1, <1>6, <2>0 DEF Connect, TypeOK, Documents, Frames
  <2>2. y \in Frames /\ "receive" \in States /\ Goto(h, "receive", y)
    BY <1>1, <1>6, <2>0, <2>1 DEF Connect, Frames, States, Bytes
  <2>3. /\ pc[h] = "connect" /\ file' = file
        /\ docs' = [docs EXCEPT ![f] = @ \cup {d}]
    BY <1>1, <1>6, <2>0 DEF Connect, diskVars
  <2>4. /\ pc'[h] = "receive" /\ frame'[h] = y
        /\ \A k \in Handlers \ {h} : pc'[k] = pc[k] /\ frame'[k] = frame[k]
    BY <1>3, <2>2
  <2>5. y.doc = d /\ y.out = 0 /\ y.fname = f
    BY <1>1 DEF Frames
  <2> HIDE DEF y
  <2>6. docs'[f] = docs[f] \cup {d}
    BY <1>1, <2>3 DEF TypeOK
  <2>7. \A i \in Nat \ {0} : Pending(f, i)'
    BY <2>4, <2>5 DEF Pending, Writers
  <2>8. ASSUME docs'[f] = {d} PROVE Receiving(f, d)'
    <3>1. Chunks(d) \in Nat
      BY <2>1, ConstantsAssumption DEF Chunks, Documents
    <3>2. CASE docs[f] = {}
      <4>1. file[f] = <<>> \/ Spinning(f)
        BY <1>2, <3>2 DEF FileOK
      <4>2. Len(file'[f]) <= Chunks(d) \/ Spinning(f)'
        BY <1>4, <2>3, <2>4, <3>1, <4>1
      <4>3. QED
        BY <2>7, <3>1, <4>2 DEF Receiving, Chunks
    <3>3. CASE docs[f] = {d}
      <4>1. Len(file[f]) <= Chunks(d) \/ Spinning(f)
        BY <1>2, <3>3 DEF FileOK, Receiving
      <4>2. Len(file'[f]) <= Chunks(d) \/ Spinning(f)'
        BY <1>4, <2>3, <2>4, <4>1
      <4>3. QED
        BY <2>7, <3>1, <4>2 DEF Receiving, Chunks
    <3>4. QED
      BY <2>6, <2>8, <3>2, <3>3
  <2>9. \A k \in Handlers : pc'[k] = "receive" /\ frame'[k].fname = f =>
          frame'[k].doc \in docs'[f]
    BY <1>2, <2>4, <2>5, <2>6 DEF FileOK
  <2>10. FileOK(f)'
    BY <1>1, <1>2, <2>1, <2>6, <2>8, <2>9 DEF FileOK
  <2>11. \A g \in Files \ {f} : file'[g] = file[g] /\ docs'[g] = docs[g]
    BY <1>1, <2>3 DEF TypeOK
  <2>12. QED
    BY <1>0, <2>4, <2>5, <2>10, <2>11, OtherFiles DEF FilesOK
<1>7. CASE Fail(h)
  <2>1. /\ pc[h] \in {"connect", "receive"} /\ file' = file /\ docs' = docs
        /\ Goto(h, "spin", x) /\ "spin" \in States
    BY <1>7 DEF Fail, diskVars, historyVars, States
  <2>2. /\ pc'[h] = "spin" /\ frame'[h] = x
        /\ \A k \in Handlers \ {h} : pc'[k] = pc[k] /\ frame'[k] = frame[k]
    BY <1>1, <1>3, <2>1
  <2>3. \A k \in Handlers : /\ frame'[k] = frame[k] /\ pc'[k] \in {pc[k], "spin"}
                            /\ pc'[k] = "receive" => pc[k] = "receive"
    BY <2>1, <2>2
  <2>4. ASSUME NEW g \in Files PROVE FileOK(g)'
    <3>1. \A k \in Handlers : k \in Writers(g) => k \in Writers(g)'
      BY <2>3 DEF Writers
    <3>2. QED
      BY <2>1, <2>3, <3>1, KeepFile DEF FilesOK
  <2>5. QED
    BY <2>4 DEF FilesOK
<1>8. CASE Spin(h)
  <2> DEFINE y == [x EXCEPT !.out = @ + 1]
             q == Written(file[f], Zeros, x.out + 1, x.out + 1)
  <2>1. /\ pc[h] = "spin" /\ Goto(h, "spin", y) /\ y \in Frames /\ "spin" \in States
        /\ y.fname = f
    <3>1. x.out + 1 \in Nat
      BY <1>1
    <3>2. QED
      BY <1>1, <1>8, <3>1 DEF Spin, Frames, States
  <2>2. file' = [file EXCEPT ![f] = q] /\ docs' = docs
    BY <1>1, <1>8 DEF Spin, historyVars
  <2> HIDE DEF y, q
  <2>3. /\ pc'[h] = "spin" /\ frame'[h] = y
        /\ \A k \in Handlers \ {h} : pc'[k] = pc[k] /\ frame'[k] = frame[k]
    BY <1>3, <2>1
  <2>4. Spinning(f)' /\ \A i : Pending(f, i)'
    BY <2>1, <2>3 DEF Spinning, Pending, Writers
  <2>5. \A k \in Handlers : pc'[k] = "receive" /\ frame'[k].fname = f =>
          frame'[k].doc \in docs'[f]
    BY <1>2, <2>2, <2>3 DEF FileOK
  <2>6. FileOK(f)'
    BY <1>2, <2>2, <2>4, <2>5 DEF FileOK, Receiving
  <2>7. \A g \in Files \ {f} : file'[g] = file[g] /\ docs'[g] = docs[g]
    BY <1>1, <2>2 DEF TypeOK
  <2>8. QED
    BY <1>0, <2>1, <2>3, <2>6, <2>7, OtherFiles DEF FilesOK
\* The two steps that write chunks x.out + 1 to k, leaving what is after k to
\* a handler that is still receiving.
<1>9. ASSUME pc[h] = "receive", NEW y \in Frames, NEW where \in States,
             Goto(h, where, y), where # "spin",
             NEW k \in Nat, k <= Chunks(x.doc), y.fname = f, y.doc = x.doc,
             file' = [file EXCEPT ![f] = Written(file[f], x.doc, x.out + 1, k)],
             docs' = docs,
             k = Chunks(x.doc) \/ (where = "receive" /\ y.out = k)
      PROVE  FilesOK'
  <2>0. PICK d : d = x.doc
    OBVIOUS
  <2> DEFINE q == Written(file[f], d, x.out + 1, k)
  <2>1. /\ pc'[h] = where /\ frame'[h] = y
        /\ \A g \in Handlers \ {h} : pc'[g] = pc[g] /\ frame'[g] = frame[g]
    BY <1>3, <1>9
  <2>2. d \in docs[f] /\ d \in Bytes /\ Chunks(d) \in Nat \ {0}
    BY <1>1, <1>2, <1>9, <2>0 DEF FileOK, Bytes
  <2>3. file'[f] = q /\ docs'[f] = docs[f]
    BY <1>1, <1>9, <2>0 DEF TypeOK
  <2>4. ASSUME NEW n \in Nat \ {0}
        PROVE  /\ Len(q) = IF k < x.out + 1 \/ k <= Len(file[f]) THEN Len(file[f]) ELSE k
               /\ n \in (x.out + 1)..k => n <= Len(q) /\ q[n] = d
               /\ n \notin (x.out + 1)..k /\ n <= Len(file[f]) =>
                    n <= Len(q) /\ q[n] = file[f][n]
    <3>1. file[f] \in Seq(Bytes)
      BY <1>1
    <3>2. PICK i \in Nat \ {0} : i = x.out + 1
      BY <1>1
    <3>3. PICK r \in Seq(Bytes) : r = file[f]
      BY <3>1
    <3>4. q = Written(r, d, i, k)
      BY <3>2, <3>3
    <3> HIDE DEF q
    <3>5. QED
      BY <2>2, <3>2, <3>3, <3>4, WrittenChunks, SMTT(30)
  <2> HIDE DEF q
  <2>5. ASSUME docs[f] = {d} PROVE Receiving(f, d)'
    <3>0. Receiving(f, d)
      BY <1>2, <2>2, <2>5 DEF FileOK
    <3>1. Len(q) <= Chunks(d) \/ Spinning(f)'
      <4>1. Len(file[f]) <= Chunks(d) \/ Spinning(f)'
        BY <1>4, <1>9, <2>1, <3>0 DEF Receiving
      <4>2. Len(file[f]) \in Nat /\ k <= Chunks(d)
        BY <1>1, <1>9, <2>0
      <4>3. Len(q) \in {Len(file[f]), k}
        BY <2>4
      <4>4. QED
        BY <4>1, <4>2, <4>3
    <3>2. ASSUME NEW n \in 1..Chunks(d)
          PROVE  (n <= Len(q) /\ q[n] = d) \/ Pending(f, n)'
      <4>0. n \in Nat \ {0} /\ n <= Chunks(d)
        BY <2>2
      <4>1. CASE n \in (x.out + 1)..k
        BY <2>4, <4>0, <4>1
      <4>2. CASE n > k
        <5>1. where = "receive" /\ y.out = k
          BY <1>9, <2>0, <2>2, <4>0, <4>2
        <5>2. QED
          BY <1>9, <2>1, <4>2, <5>1 DEF Pending, Writers
      <4>3. CASE n <= x.out
        <5>1. n \notin (x.out + 1)..k
          BY <1>1, <1>9, <4>0, <4>3
        <5>2. CASE n <= Len(file[f]) /\ file[f][n] = d
          BY <2>4, <4>0, <5>1, <5>2
        <5>3. CASE Pending(f, n)
          <6>1. PICK g \in Handlers : /\ g \in Writers(f)
                                      /\ pc[g] \in {"connect", "spin"} \/ frame[g].out < n
            BY <5>3 DEF Pending
          <6>2. g # h
            BY <1>1, <1>9, <4>0, <4>3, <6>1
          <6>3. QED
            BY <2>1, <6>1, <6>2 DEF Pending, Writers
        <5>4. QED
          BY <3>0, <3>2, <5>2, <5>3 DEF Receiving
      <4>4. QED
        BY <1>1, <1>9, <4>0, <4>1, <4>2, <4>3
    <3>3. QED
      BY <2>3, <3>1, <3>2 DEF Receiving, Chunks
  <2>6. \A g \in Handlers : pc'[g] = "receive" /\ frame'[g].fname = f =>
          frame'[g].doc \in docs'[f]
    BY <1>2, <1>9, <2>0, <2>1, <2>2, <2>3 DEF FileOK
  <2>7. FileOK(f)'
    <3>1. \A e \in docs[f] : docs[f] = {e} => e = d
      BY <2>2
    <3>2. QED
      BY <1>2, <2>2, <2>3, <2>5, <2>6, <3>1 DEF FileOK
  <2>8. \A g \in Files \ {f} : file'[g] = file[g] /\ docs'[g] = docs[g]
    BY <1>1, <1>9 DEF TypeOK
  <2>9. QED
    BY <1>0, <1>9, <2>1, <2>7, <2>8, OtherFiles DEF FilesOK
<1>10. CASE Receive(h)
  <2>1. PICK k \in x.out..(x.got + 1) :
          /\ file' = [file EXCEPT ![f] = Written(@, x.doc, x.out + 1, k)]
          /\ Goto(h, "receive", [x EXCEPT !.got = @ + 1, !.out = k])
    BY <1>1, <1>10 DEF Receive
  <2> DEFINE y == [x EXCEPT !.got = @ + 1, !.out = k]
  <2>2. pc[h] = "receive" /\ x.got < Chunks(x.doc) /\ docs' = docs
    BY <1>10 DEF Receive, historyVars
  <2>3. k \in Nat /\ k <= Chunks(x.doc)
    <3>1. Chunks(x.doc) \in Nat
      BY <1>1, <1>2, <2>2 DEF FileOK
    <3>2. QED
      BY <1>1, <2>2, <3>1
  <2>4. x.got + 1 \in Nat
    BY <1>1
  <2>5. y \in Frames /\ y.fname = f /\ y.doc = x.doc /\ y.out = k
    BY <1>1, <2>3, <2>4 DEF Frames
  <2>6. file' = [file EXCEPT ![f] = Written(file[f], x.doc, x.out + 1, k)]
    BY <2>1
  <2>7. Goto(h, "receive", y) /\ "receive" \in States
    BY <2>1 DEF States
  <2> HIDE DEF y
  <2>8. QED
    BY <1>9, <2>2, <2>3, <2>5, <2>6, <2>7
<1>11. CASE EndTransfer(h)
  <2> DEFINE y == [x EXCEPT !.out = Chunks(x.doc)]
             n == Chunks(x.doc)
  <2>1. pc[h] = "receive" /\ docs' = docs
    BY <1>11 DEF EndTransfer, historyVars
  <2>2. n \in Nat
    BY <1>1, <1>2, <2>1 DEF FileOK
  <2>3. file' = [file EXCEPT ![f] = Written(file[f], x.doc, x.out + 1, n)]
    BY <1>1, <1>11 DEF EndTransfer, Flushed
  <2>4. y \in Frames /\ y.fname = f /\ y.doc = x.doc
    BY <1>1, <2>2 DEF Frames
  <2>5. Goto(h, x.after, y) /\ x.after \in States /\ x.after # "spin"
    BY <1>1, <1>11 DEF EndTransfer, Frames, States
  <2>6. n <= n /\ n = Chunks(x.doc)
    BY <2>2
  <2> HIDE DEF y, n
  <2>7. QED
    BY <1>9, <2>1, <2>2, <2>3, <2>4, <2>5, <2>6
<1>12. QED
  BY <1>5, <1>6, <1>7, <1>8, <1>10, <1>11

\* The other steps of a handler write no file.
LEMMA ReaderFiles ==
  ASSUME Inv, FilesOK, NEW h \in Handlers, NEW where, NEW y, Goto(h, where, y),
         pc[h] \notin Writing, where \notin Writing, UNCHANGED <<file, docs>>
  PROVE  FilesOK'
<1>1. /\ pc'[h] = where
      /\ \A k \in Handlers \ {h} : pc'[k] = pc[k] /\ frame'[k] = frame[k]
  BY DEF Inv, TypeOK, Goto
<1>2. QED
  BY <1>1, NoWriteFiles

LEMMA NextFiles == Inv /\ FilesOK /\ [Next]_vars => FilesOK'
<1> SUFFICES ASSUME Inv, FilesOK, [Next]_vars PROVE FilesOK'
  OBVIOUS
<1>1. ASSUME NEW h \in Handlers,
             \/ Create(h) \/ Connect(h) \/ Fail(h) \/ Spin(h)
             \/ Receive(h) \/ EndTransfer(h)
      PROVE  FilesOK'
  BY <1>1, WriterFiles
<1>2. ASSUME NEW h \in Handlers,
             \/ FindHost(h) \/ FindFile(h) \/ FindHostAgain(h) \/ CheckAge(h)
      PROVE  FilesOK'
  BY <1>2, ReaderFiles DEF FindHost, FindFile, FindHostAgain, CheckAge, Close,
                           Writing, diskVars, historyVars
<1>3. ASSUME NEW h \in Handlers,
             \/ SendCached(h) \/ CloseCached(h) \/ OpenCached(h)
      PROVE  FilesOK'
  <2>1. CASE SendCached(h)
    <3>1. PICK y : Goto(h, "send", y)
      BY <2>1 DEF SendCached
    <3>2. pc[h] = "send" /\ UNCHANGED <<file, docs>>
      BY <2>1 DEF SendCached, diskVars, historyVars
    <3>3. QED
      BY <3>1, <3>2, ReaderFiles DEF Writing
  <2>2. CASE CloseCached(h)
    BY <2>2, ReaderFiles DEF CloseCached, Close, Writing, diskVars, historyVars
  <2>3. CASE OpenCached(h)
    <3>1. PICK where, y : where \in {"free", "send"} /\ Goto(h, where, y)
      BY <2>3 DEF OpenCached, Close
    <3>2. pc[h] = "open" /\ UNCHANGED <<file, docs>>
      BY <2>3 DEF OpenCached, diskVars
    <3>3. QED
      BY <3>1, <3>2, ReaderFiles DEF Writing
  <2>4. QED
    BY <1>3, <2>1, <2>2, <2>3
<1>4. ASSUME NEW h \in Handlers,
             Resolve(h) \/ ReadAddress(h) \/ FindAddress(h) \/ CannotCreate(h)
      PROVE  FilesOK'
  BY <1>4, ReaderFiles DEF Resolve, ReadAddress, FindAddress, CannotCreate, Close,
                           Writing, diskVars, historyVars
<1>5. ASSUME NEW h \in Handlers,
             Stamp(h) \/ Add(h) \/ AcceptOther(h) \/ \E u \in Urls : Accept(h, u)
      PROVE  FilesOK'
  BY <1>5, ReaderFiles DEF Stamp, Add, Accept, AcceptOther, Close, Writing,
                           diskVars, historyVars
<1>6. ASSUME \/ Tick \/ (\E u \in Urls : Publish(u))
             \/ (\E h \in Handlers : BrowserGone(h)) \/ UNCHANGED vars
      PROVE  FilesOK'
  <2>1. UNCHANGED <<file, docs, pc, frame>>
    BY <1>6 DEF Tick, Publish, BrowserGone, vars, diskVars, historyVars
  <2>2. QED
    BY <2>1 DEF FilesOK, FileOK, Receiving, Pending, Spinning, Writers, Chunks
<1>7. QED
  BY <1>1, <1>2, <1>3, <1>4, <1>5, <1>6 DEF Next, Serve

LEMMA InitFiles == Init => FilesOK
BY DEF Init, FilesOK, FileOK

LEMMA SpecFiles == Spec => [](Inv /\ FilesOK)
<1>1. Init => Inv /\ FilesOK
  BY InitInv, InitFiles
<1>2. Inv /\ FilesOK /\ [Next]_vars => (Inv /\ FilesOK)'
  BY NextInv, NextFiles
<1>3. QED
  BY <1>1, <1>2, PTL DEF Spec

\* A file that nobody writes is the one document that was received for it.
LEMMA FileIsWhole ==
  ASSUME Inv, FilesOK, NEW f \in Files, Writers(f) = {},
         NEW d \in docs[f], docs[f] = {d}
  PROVE  file[f] = Whole(d)
<1>1. Receiving(f, d) /\ ~Spinning(f) /\ \A i : ~Pending(f, i)
  BY DEF FilesOK, FileOK, Spinning, Pending
<1>2. file[f] \in Seq(Bytes) /\ Chunks(d) \in Nat \ {0}
  BY FileTypes
<1>3. Len(file[f]) <= Chunks(d) /\ \A i \in 1..Chunks(d) : i <= Len(file[f]) /\ file[f][i] = d
  BY <1>1 DEF Receiving
<1>4. Len(file[f]) = Chunks(d)
  BY <1>2, <1>3
<1>5. file[f] = [i \in 1..Len(file[f]) |-> file[f][i]]
  BY <1>2
<1>6. QED
  BY <1>3, <1>4, <1>5 DEF Whole

(***************************************************************************)
(* However many threads fetch one document into one file at the same time, *)
(* in whatever order they truncate it, write to it and close it, the file  *)
(* is whole when they are done.                                            *)
(***************************************************************************)
THEOREM FilesEndWhole == Spec => []WholeWhenUnwritten
<1>1. Inv /\ FilesOK => WholeWhenUnwritten
  BY FileIsWhole DEF WholeWhenUnwritten
<1>2. QED
  BY <1>1, SpecFiles, PTL

-----------------------------------------------------------------------------
\* What a handler has sent of a cached copy.  Nobody writes the copy, or
\* settled[h] is FALSE.
Sending(h, d) ==
  /\ Writers(frame[h].fname) = {} /\ docs[frame[h].fname] = {d}
  /\ frame[h].size = Chunks(d) /\ Len(frame[h].sent) <= Chunks(d)
  /\ \A i \in 1..Len(frame[h].copy) : frame[h].copy[i] = d
  /\ \A i \in 1..Len(frame[h].sent) : frame[h].sent[i] = d
Answered(h) == \E d \in Documents : /\ frame[h].sent = Whole(d)
                                    /\ FileOf[d.url] = FileOf[frame[h].url]
CachedOK(h) ==
  /\ pc[h] \notin {"free", "send"} => frame[h].sent = <<>>
  /\ settled[h] /\ pc[h] = "send" => \E d \in Documents : Sending(h, d)
  /\ settled[h] /\ pc[h] = "free" /\ frame[h].answer = "cached" => Answered(h)
AnswersOK == \A h \in Handlers : CachedOK(h)

\* A handler that a step leaves alone.
LEMMA KeepAnswer ==
  ASSUME NEW k, CachedOK(k), pc'[k] = pc[k], frame'[k] = frame[k],
         settled'[k] => settled[k],
         settled'[k] /\ pc[k] = "send" /\ Writers(frame[k].fname) = {} =>
           Writers(frame[k].fname)' = {} /\ docs'[frame[k].fname] = docs[frame[k].fname]
  PROVE  CachedOK(k)'
<1>1. \A d : settled'[k] /\ pc[k] = "send" /\ Sending(k, d) => Sending(k, d)'
  BY DEF Sending, Chunks
<1>2. Answered(k) => Answered(k)'
  BY DEF Answered, Whole, Chunks
<1>3. QED
  BY <1>1, <1>2 DEF CachedOK

\* A step of h that sends nothing of a cached copy and makes no writer.
LEMMA QuietStep ==
  ASSUME Inv, AnswersOK, NEW h \in Handlers, NEW where, NEW y, Goto(h, where, y),
         pc[h] \notin {"free", "send"}, where # "send",
         where \in Writing => pc[h] \in Writing /\ y.fname = frame[h].fname,
         y.sent = frame[h].sent, where = "free" => y.answer # "cached",
         UNCHANGED settled,
         \A f \in Files : Writers(f) = {} => docs'[f] = docs[f]
  PROVE  AnswersOK'
<1>1. /\ pc'[h] = where /\ frame'[h] = y
      /\ \A k \in Handlers \ {h} : pc'[k] = pc[k] /\ frame'[k] = frame[k]
  BY DEF Inv, TypeOK, Goto
<1>2. CachedOK(h)'
  BY <1>1 DEF AnswersOK, CachedOK
<1>3. ASSUME NEW f \in Files, Writers(f) = {} PROVE Writers(f)' = {}
  BY <1>1, <1>3 DEF Writers, Writing
<1>4. ASSUME NEW k \in Handlers \ {h} PROVE CachedOK(k)'
  <2>1. frame[k].fname \in Files
    BY DEF Inv, TypeOK, Frames
  <2>2. QED
    BY <1>1, <1>3, <2>1, KeepAnswer DEF AnswersOK
<1>5. QED
  BY <1>2, <1>4 DEF AnswersOK

\* A step that keeps the files' documents and writers and changes the answer
\* of h alone.
LEMMA OwnStep ==
  ASSUME Inv, AnswersOK, NEW h \in Handlers, NEW where, NEW y, Goto(h, where, y),
         pc[h] \notin Writing, where \notin Writing, UNCHANGED docs,
         \A k \in Handlers \ {h} : settled'[k] = settled[k],
         CachedOK(h)'
  PROVE  AnswersOK'
<1>1. /\ pc'[h] = where
      /\ \A k \in Handlers \ {h} : pc'[k] = pc[k] /\ frame'[k] = frame[k]
  BY DEF Inv, TypeOK, Goto
<1>2. ASSUME NEW f, Writers(f) = {} PROVE Writers(f)' = {}
  BY <1>1, <1>2 DEF Writers, Writing
<1>3. ASSUME NEW k \in Handlers \ {h} PROVE CachedOK(k)'
  BY <1>1, <1>2, KeepAnswer DEF AnswersOK
<1>4. QED
  BY <1>3 DEF AnswersOK

LEMMA CreateAnswers ==
  ASSUME Inv, AnswersOK, NEW h \in Handlers, Create(h)
  PROVE  AnswersOK'
<1>0. PICK f \in Files : f = frame[h].fname
  BY DEF Inv, TypeOK, Frames
<1>1. /\ pc[h] = "create" /\ pc'[h] = "connect" /\ frame' = frame
      /\ \A k \in Handlers \ {h} : pc'[k] = pc[k]
  BY DEF Inv, TypeOK, Goto, Create
<1>2. \A g \in Files \ {f} : docs'[g] = docs[g] /\ (Writers(g) = {} => Writers(g)' = {})
  <2>1. \A g \in Files \ {f} : docs'[g] = docs[g]
    BY <1>0 DEF Create, Inv, TypeOK
  <2>2. QED
    BY <1>0, <1>1, <2>1 DEF Writers
<1>3. \A k \in Handlers :
        settled'[k] = (settled[k] /\ ~(pc[k] = "send" /\ frame[k].fname = f))
  BY <1>0 DEF Create
<1>4. ASSUME NEW k \in Handlers \ {h} PROVE CachedOK(k)'
  <2>1. frame[k].fname \in Files
    BY DEF Inv, TypeOK, Frames
  <2>2. QED
    BY <1>1, <1>2, <1>3, <2>1, KeepAnswer DEF AnswersOK
<1>5. CachedOK(h)'
  BY <1>1 DEF AnswersOK, CachedOK
<1>6. QED
  BY <1>4, <1>5 DEF AnswersOK

\* An answer that is not a cached copy.
LEMMA CloseQuiet ==
  ASSUME Inv, AnswersOK, NEW h \in Handlers, NEW how, how # "cached", Close(h, how),
         pc[h] \notin {"free", "send"}, UNCHANGED <<docs, settled>>
  PROVE  AnswersOK'
<1> DEFINE y == [Cleared(frame[h].url) EXCEPT !.sent = frame[h].sent, !.answer = how]
<1>1. Goto(h, "free", y) /\ y.sent = frame[h].sent /\ y.answer = how
  BY DEF Close, Cleared
<1> HIDE DEF y
<1>2. QED
  BY <1>1, QuietStep DEF Writing

\* The cached copy is opened: it is whole, if nobody writes it.
LEMMA OpenAnswers ==
  ASSUME Inv, FilesOK, AnswersOK, NEW h \in Handlers, OpenCached(h)
  PROVE  AnswersOK'
<1>0. PICK f : f = nodes[frame[h].node].filename
  OBVIOUS
<1>1. pc[h] = "open" /\ docs' = docs
  BY DEF OpenCached
<1>2. frame[h].sent = <<>> /\ frame[h] \in Frames
  BY <1>1 DEF AnswersOK, CachedOK, Inv, TypeOK
<1>3. CASE f \in present
  <2> DEFINE y == [frame[h] EXCEPT !.fname = f, !.size = Len(file[f]),
                     !.copy = IF Len(file[f]) = 1 THEN file[f] ELSE <<>>]
  <2>1. /\ Goto(h, "send", y)
        /\ settled' = [settled EXCEPT ![h] =
                          Writers(f) = {} /\ \E d \in docs[f] : docs[f] = {d}]
    BY <1>0, <1>3 DEF OpenCached
  <2>2. pc'[h] = "send" /\ frame'[h] = y
    BY <2>1 DEF Inv, TypeOK, Goto
  <2>3. /\ settled'[h] = (Writers(f) = {} /\ \E d \in docs[f] : docs[f] = {d})
        /\ \A k \in Handlers \ {h} : settled'[k] = settled[k]
    BY <2>1 DEF Inv, TypeOK
  <2>4. /\ y.fname = f /\ y.size = Len(file[f]) /\ y.sent = <<>>
        /\ y.copy = IF Len(file[f]) = 1 THEN file[f] ELSE <<>>
    BY <1>2 DEF Frames
  <2> HIDE DEF y
  <2>5. f \in Files
    BY <1>3 DEF Inv, TypeOK
  <2>6. Writers(f) = {} => Writers(f)' = {}
    BY <1>1, <2>1 DEF Writers, Goto, Inv, TypeOK
  <2>7. ASSUME settled'[h] PROVE \E d \in Documents : Sending(h, d)'
    <3>1. PICK d \in docs[f] : Writers(f) = {} /\ docs[f] = {d}
      BY <2>3, <2>7
    <3>2. file[f] = Whole(d) /\ d \in Documents /\ Chunks(d) \in Nat \ {0}
      BY <2>5, <3>1, FileIsWhole, FileTypes
    <3>3. Len(file[f]) = Chunks(d) /\ \A i \in 1..Len(file[f]) : file[f][i] = d
      BY <3>2 DEF Whole
    <3>4. Len(y.copy) \in {0, Len(file[f])} /\ \A i \in 1..Len(y.copy) : y.copy[i] = d
      BY <2>4, <3>3
    <3>5. Len(y.sent) = 0
      BY <2>4
    <3>6. Sending(h, d)'
      BY <1>1, <2>2, <2>4, <2>6, <3>1, <3>2, <3>3, <3>4, <3>5 DEF Sending, Chunks
    <3>7. QED
      BY <3>2, <3>6
  <2>8. CachedOK(h)'
    BY <2>2, <2>7 DEF CachedOK
  <2>9. QED
    BY <1>1, <2>1, <2>3, <2>8, OwnStep DEF Writing
<1>4. CASE f \notin present
  <2>1. Close(h, "500") /\ UNCHANGED settled
    BY <1>0, <1>4 DEF OpenCached
  <2>2. QED
    BY <1>1, <2>1, CloseQuiet
<1>5. QED
  BY <1>3, <1>4

\* A chunk is sent, or there is none left.
LEMMA SendAnswers ==
  ASSUME Inv, FilesOK, AnswersOK, NEW h \in Handlers, SendCached(h) \/ CloseCached(h)
  PROVE  AnswersOK'
<1>1. pc[h] = "send" /\ UNCHANGED <<docs, settled, file>>
  BY DEF SendCached, CloseCached, historyVars, diskVars
<1>2. PICK f \in Files : f = frame[h].fname
  BY DEF Inv, TypeOK, Frames
<1>3. frame[h] \in Frames /\ frame[h].sent \in Seq(Bytes) /\ frame[h].copy \in Seq(Bytes)
  BY DEF Inv, TypeOK, Frames
<1>4. ASSUME settled[h], NEW d \in Documents, Sending(h, d)
      PROVE  /\ Writers(f) = {} /\ docs[f] = {d} /\ file[f] = Whole(d)
             /\ Chunks(d) \in Nat \ {0} /\ FileOf[d.url] = f
  <2>1. Writers(f) = {} /\ docs[f] = {d}
    BY <1>2, <1>4 DEF Sending
  <2>2. QED
    BY <2>1, FileIsWhole, FileTypes DEF FilesOK, FileOK
<1>5. CASE SendCached(h)
  <2>1. PICK chunk \in ReadChunk(h, Len(frame[h].sent) + 1) :
          Goto(h, "send", [frame[h] EXCEPT !.sent = Append(@, chunk)])
    BY <1>5 DEF SendCached
  <2> DEFINE y == [frame[h] EXCEPT !.sent = Append(@, chunk)]
             n == Len(frame[h].sent)
  <2>2. /\ y.sent = Append(frame[h].sent, chunk) /\ y.fname = f
        /\ y.size = frame[h].size /\ y.copy = frame[h].copy
    BY <1>2, <1>3 DEF Frames
  <2>3. pc'[h] = "send" /\ frame'[h] = y
    BY <2>1 DEF Inv, TypeOK, Goto
  <2>4. Writers(f)' = {} \/ Writers(f) # {}
    BY <1>1, <2>1 DEF Writers, Goto, Inv, TypeOK
  <2> HIDE DEF y
  <2>5. ASSUME settled[h], NEW d \in Documents, Sending(h, d) PROVE Sending(h, d)'
    <3>1. n + 1 \in 1..Chunks(d) /\ n \in Nat
      <4>1. n # frame[h].size /\ n \in Nat
        BY <1>3, <1>5 DEF SendCached, AllSent
      <4>2. QED
        BY <1>4, <2>5, <4>1 DEF Sending
    <3>2. file[f] = Whole(d) /\ Len(file[f]) = Chunks(d) /\ file[f][n + 1] = d
      BY <1>4, <2>5, <3>1 DEF Whole
    <3>3. chunk = d
      <4>1. chunk \in {d} \cup {frame[h].copy[i] : i \in {n + 1} \cap (1..Len(frame[h].copy))}
        BY <1>2, <2>1, <3>1, <3>2 DEF ReadChunk
      <4>2. QED
        BY <2>5, <4>1 DEF Sending
    <3>4. /\ Len(y.sent) = n + 1
          /\ \A i \in 1..(n + 1) : y.sent[i] = IF i = n + 1 THEN chunk ELSE frame[h].sent[i]
      BY <1>3, <2>2
    <3>5. \A i \in 1..Len(y.sent) : y.sent[i] = d
      <4>1. \A i \in 1..n : frame[h].sent[i] = d
        BY <2>5 DEF Sending
      <4>2. \A i \in 1..(n + 1) : i = n + 1 \/ i \in 1..n
        BY <3>1
      <4>3. QED
        BY <3>3, <3>4, <4>1, <4>2
    <3>6. Len(y.sent) <= Chunks(d)
      BY <1>4, <2>5, <3>1, <3>4
    <3>7. QED
      BY <1>1, <1>2, <1>4, <2>2, <2>3, <2>4, <2>5, <3>5, <3>6 DEF Sending, Chunks
  <2>6. CachedOK(h)'
    BY <1>1, <2>3, <2>5 DEF CachedOK, AnswersOK
  <2>7. Goto(h, "send", y)
    BY <2>1 DEF y
  <2>8. QED
    BY <1>1, <2>6, <2>7, OwnStep DEF Writing
<1>6. CASE CloseCached(h)
  <2> DEFINE y == [Cleared(frame[h].url) EXCEPT !.sent = frame[h].sent,
                                                !.answer = "cached"]
  <2>1. Goto(h, "free", y) /\ y.sent = frame[h].sent /\ y.url = frame[h].url
    BY <1>6 DEF CloseCached, Close, Cleared
  <2>2. pc'[h] = "free" /\ frame'[h] = y
    BY <2>1 DEF Inv, TypeOK, Goto
  <2> HIDE DEF y
  <2>3. ASSUME settled[h], NEW d \in Documents, Sending(h, d) PROVE Answered(h)'
    <3>1. Len(frame[h].sent) = Chunks(d)
      BY <1>6, <2>3 DEF CloseCached, AllSent, Sending
    <3>2. frame[h].sent = [i \in 1..Len(frame[h].sent) |-> frame[h].sent[i]]
      BY <1>3
    <3>3. frame[h].sent = Whole(d)
      BY <2>3, <3>1, <3>2 DEF Sending, Whole
    <3>4. FileOf[d.url] = FileOf[frame[h].url]
      BY <1>2, <1>4, <2>3 DEF Inv, LocalOK
    <3>5. QED
      BY <2>1, <2>2, <3>3, <3>4 DEF Answered, Whole, Chunks
  <2>4. CachedOK(h)'
    BY <1>1, <2>2, <2>3 DEF CachedOK, AnswersOK
  <2>5. QED
    BY <1>1, <2>1, <2>4, OwnStep DEF Writing
<1>7. QED
  BY <1>5, <1>6

LEMMA NextAnswers == Inv /\ FilesOK /\ AnswersOK /\ [Next]_vars => AnswersOK'
<1> SUFFICES ASSUME Inv, FilesOK, AnswersOK, [Next]_vars PROVE AnswersOK'
  OBVIOUS
<1>1. ASSUME NEW h \in Handlers, Create(h) \/ OpenCached(h) \/ SendCached(h) \/ CloseCached(h)
      PROVE  AnswersOK'
  BY <1>1, CreateAnswers, OpenAnswers, SendAnswers
\* The steps that look something up, and those that answer an error.
<1>2. ASSUME NEW h \in Handlers,
             \/ FindHost(h) \/ FindFile(h) \/ FindHostAgain(h) \/ CheckAge(h)
             \/ Resolve(h) \/ ReadAddress(h) \/ FindAddress(h) \/ CannotCreate(h)
             \/ Stamp(h) \/ Add(h)
      PROVE  AnswersOK'
  <2>1. UNCHANGED <<docs, settled>> /\ pc[h] \notin {"free", "send"}
    BY <1>2 DEF FindHost, FindFile, FindHostAgain, CheckAge, Resolve, ReadAddress,
                FindAddress, CannotCreate, Stamp, Add, historyVars
  <2>2. \A y : y.sent = frame[h].sent =>
          \A where \in {"file", "again", "age", "open", "resolve", "address", "ip",
                       "create"} : Goto(h, where, y) => AnswersOK'
    BY <2>1, QuietStep DEF Writing
  <2>3. \A how \in {"403", "404", "500", "fetched"} : Close(h, how) => AnswersOK'
    BY <2>1, CloseQuiet
  <2>4. frame[h] \in Frames
    BY DEF Inv, TypeOK
  <2>5. CASE FindHost(h)
    <3> DEFINE i == search_hosts(HostOf[frame[h].url])
    <3>1. \/ Goto(h, "resolve", [frame[h] EXCEPT !.node = 0])
          \/ Goto(h, "file", [frame[h] EXCEPT !.node = i]) \/ Close(h, "403")
      BY <2>5 DEF FindHost
    <3> HIDE DEF i
    <3>2. /\ [frame[h] EXCEPT !.node = 0].sent = frame[h].sent
          /\ [frame[h] EXCEPT !.node = i].sent = frame[h].sent
      BY <2>4 DEF Frames
    <3>3. QED
      BY <2>2, <2>3, <3>1, <3>2
  <2>6. CASE FindFile(h)
    <3> DEFINE i == search_host_files(FileOf[frame[h].url])
    <3>1. \/ Goto(h, "again", [frame[h] EXCEPT !.node = i])
          \/ Goto(h, "age", [frame[h] EXCEPT !.node = i])
      BY <2>6 DEF FindFile
    <3> HIDE DEF i
    <3>2. [frame[h] EXCEPT !.node = i].sent = frame[h].sent
      BY <2>4 DEF Frames
    <3>3. QED
      BY <2>2, <3>1, <3>2
  <2>7. CASE FindHostAgain(h)
    <3> DEFINE y(i, a, f) == [frame[h] EXCEPT !.node = i, !.after = "add", !.addr = a,
                                              !.fname = f]
    <3>1. PICK i, a, f : Goto(h, "create", y(i, a, f))
      BY <2>7 DEF FindHostAgain
    <3>2. y(i, a, f).sent = frame[h].sent
      BY <2>4 DEF Frames
    <3>3. QED
      BY <2>2, <3>1, <3>2
  <2>8. CASE CheckAge(h)
    <3> DEFINE y(a, f) == [frame[h] EXCEPT !.after = "stamp", !.addr = a, !.fname = f]
    <3>1. Goto(h, "open", frame[h]) \/ \E a, f : Goto(h, "create", y(a, f))
      BY <2>8 DEF CheckAge
    <3>2. \A a, f : y(a, f).sent = frame[h].sent
      BY <2>4 DEF Frames
    <3> HIDE DEF y
    <3>3. QED
      BY <2>2, <3>1, <3>2
  <2>9. CASE Resolve(h) \/ ReadAddress(h)
    <3> DEFINE y(a) == [frame[h] EXCEPT !.addr = a]
    <3>1. \/ Close(h, "404") \/ Goto(h, "address", frame[h])
          \/ \E a : Goto(h, "ip", y(a))
      BY <2>9 DEF Resolve, ReadAddress
    <3>2. \A a : y(a).sent = frame[h].sent
      BY <2>4 DEF Frames
    <3> HIDE DEF y
    <3>3. QED
      BY <2>2, <2>3, <3>1, <3>2
  <2>10. CASE FindAddress(h)
    <3> DEFINE y(i, f) == [frame[h] EXCEPT !.node = i, !.after = "add", !.fname = f]
    <3>1. Close(h, "403") \/ \E i, f : Goto(h, "create", y(i, f))
      BY <2>10 DEF FindAddress
    <3>2. \A i, f : y(i, f).sent = frame[h].sent
      BY <2>4 DEF Frames
    <3> HIDE DEF y
    <3>3. QED
      BY <2>2, <2>3, <3>1, <3>2
  <2>11. CASE CannotCreate(h) \/ Stamp(h) \/ Add(h)
    BY <2>3, <2>11 DEF CannotCreate, Stamp, Add
  <2>12. QED
    BY <1>2, <2>5, <2>6, <2>7, <2>8, <2>9, <2>10, <2>11
\* The steps of a writer.
<1>3. ASSUME NEW h \in Handlers, Connect(h) \/ Fail(h) \/ Spin(h) \/ Receive(h) \/ EndTransfer(h)
      PROVE  AnswersOK'
  <2>1. frame[h] \in Frames /\ pc[h] \in Writing /\ UNCHANGED settled
    BY <1>3 DEF Inv, TypeOK, Writing, Connect, Fail, Spin, Receive, EndTransfer, historyVars
  <2>2. \A f \in Files : Writers(f) = {} => docs'[f] = docs[f]
    BY <1>3, <2>1 DEF Connect, Fail, Spin, Receive, EndTransfer, historyVars, Inv, TypeOK,
                      Writers, Writing, Frames
  <2>3. \A y : y.sent = frame[h].sent /\ y.fname = frame[h].fname =>
          \A where \in {"receive", "spin", "stamp", "add"} :
            Goto(h, where, y) => AnswersOK'
    BY <2>1, <2>2, QuietStep DEF Writing
  <2> DEFINE got(d)  == [frame[h] EXCEPT !.doc = d, !.got = 0, !.out = 0]
             spun    == [frame[h] EXCEPT !.out = @ + 1]
             read(k) == [frame[h] EXCEPT !.got = @ + 1, !.out = k]
             done    == [frame[h] EXCEPT !.out = Chunks(frame[h].doc)]
  <2>4. /\ \A d : got(d).sent = frame[h].sent /\ got(d).fname = frame[h].fname
        /\ spun.sent = frame[h].sent /\ spun.fname = frame[h].fname
        /\ \A k : read(k).sent = frame[h].sent /\ read(k).fname = frame[h].fname
        /\ done.sent = frame[h].sent /\ done.fname = frame[h].fname
    BY <2>1 DEF Frames
  <2>5. \/ \E d : Goto(h, "receive", got(d))
        \/ Goto(h, "spin", frame[h]) \/ Goto(h, "spin", spun)
        \/ \E k : Goto(h, "receive", read(k))
        \/ Goto(h, "stamp", done) \/ Goto(h, "add", done)
    <3>1. CASE Connect(h) \/ Fail(h)
      BY <3>1 DEF Connect, Fail
    <3>2. CASE Spin(h) \/ Receive(h)
      BY <3>2 DEF Spin, Receive
    <3>3. CASE EndTransfer(h)
      <4>1. frame[h].after \in {"stamp", "add"}
        BY <2>1 DEF Frames
      <4>2. Goto(h, frame[h].after, done)
        BY <3>3 DEF EndTransfer
      <4>3. QED
        BY <4>1, <4>2
    <3>4. QED
      BY <1>3, <3>1, <3>2, <3>3
  <2> HIDE DEF got, spun, read, done
  <2>6. QED
    BY <2>3, <2>4, <2>5
<1>4. ASSUME NEW h \in Handlers, AcceptOther(h) \/ \E u \in Urls : Accept(h, u)
      PROVE  AnswersOK'
  <2>1. pc[h] = "free" /\ docs' = docs /\ settled' = [settled EXCEPT ![h] = FALSE]
    BY <1>4 DEF Accept, AcceptOther
  <2>2. PICK where, y : /\ Goto(h, where, y) /\ where \in {"free", "host"}
                        /\ where = "host" => y.sent = <<>>
    <3>1. CASE AcceptOther(h)
      BY <3>1 DEF AcceptOther, Close
    <3>2. ASSUME NEW u \in Urls, Accept(h, u) PROVE Goto(h, "host", Cleared(u))
      BY <3>2 DEF Accept
    <3>3. \A u \in Urls : Cleared(u).sent = <<>>
      BY DEF Cleared
    <3>4. QED
      BY <1>4, <3>1, <3>2, <3>3
  <2>3. pc'[h] = where /\ frame'[h] = y /\ settled'[h] = FALSE
    BY <2>1, <2>2 DEF Goto, Inv, TypeOK
  <2>4. CachedOK(h)'
    BY <2>2, <2>3 DEF CachedOK
  <2>5. QED
    BY <2>1, <2>2, <2>4, OwnStep DEF Writing, Inv, TypeOK
<1>5. ASSUME \/ Tick \/ (\E u \in Urls : Publish(u))
             \/ (\E h \in Handlers : BrowserGone(h)) \/ UNCHANGED vars
      PROVE  AnswersOK'
  <2>1. UNCHANGED <<docs, settled, pc, frame>>
    BY <1>5 DEF Tick, Publish, BrowserGone, vars, historyVars
  <2>2. QED
    BY <2>1 DEF AnswersOK, CachedOK, Sending, Answered, Writers, Chunks, Whole
<1>6. QED
  BY <1>1, <1>2, <1>3, <1>4, <1>5 DEF Next, Serve

(***************************************************************************)
(* A cached copy that nobody writes while it is sent reaches the browser   *)
(* as one whole document of the file the request names.                    *)
(***************************************************************************)
THEOREM CachedAnswersAreWhole == Spec => []CachedAnswerWhole
<1>1. Init => AnswersOK
  BY DEF Init, AnswersOK, CachedOK, Cleared
<1>2. Inv /\ FilesOK /\ AnswersOK /\ [Next]_vars => AnswersOK'
  BY NextAnswers
<1>3. AnswersOK => CachedAnswerWhole
  BY DEF AnswersOK, CachedOK, Answered, CachedAnswerWhole
<1>4. QED
  BY <1>1, <1>2, <1>3, SpecFiles, PTL DEF Spec
=============================================================================
