---------------------------- MODULE WebserverProofs ----------------------------
(***************************************************************************)
(* What Webserver promises at every size of the files and of the buffer.    *)
(* A thread's state is related to its answer by Sent: the bytes sent and    *)
(* the bytes left are the length announced, and every byte sent is one of   *)
(* the file that was opened or a zero sent for one that is no longer there. *)
(***************************************************************************)
EXTENDS Webserver, SequenceTheorems, TLAPS

Headers == [status : {0, 200, 500}, type : Types \cup {Absent}, length : Nat]
Bytes == (Paths \cup {Absent}) \X Nat \X Nat

\* A byte of p at the position i, of a version that has existed since v; or
\* the zero that stands for it in a file that became shorter.
Right(b, p, i, v) ==
  \/ b = Zero /\ v < version[p]
  \/ \E w \in v..version[p] : b = <<p, w, i>>

\* What the answer of t is when it is at each place of echo.
Sent(t) ==
  /\ pc[t] \in {"read", "open", "header"} => answer[t] = Nothing /\ body[t] = <<>>
  /\ pc[t] \in {"header", "body"} =>
       /\ path[t] \in Stored /\ since[t] <= version[path[t]]
       /\ size[t] = SizeOf[path[t]][since[t]] /\ since[t] <= Len(SizeOf[path[t]])
  /\ pc[t] = "body" =>
       /\ answer[t].status = 200 /\ answer[t].length = size[t]
       /\ Len(body[t]) + left[t] = size[t]
       /\ OneBuffer(t) => body[t] = <<>>
  /\ pc[t] \in {"close", "free"} => Len(body[t]) = answer[t].length
  /\ \A i \in 1..Len(body[t]) :
       /\ path[t] \in Stored /\ since[t] <= version[path[t]]
       /\ Right(body[t][i], path[t], i, since[t])

IInv == TypeOK /\ \A t \in Threads : Sent(t)

\* A function on 1..n is a sequence of length n.
LEMMA IsSeq ==
  ASSUME NEW S, NEW n \in Nat, NEW f \in [1..n -> S]
  PROVE  f \in Seq(S) /\ Len(f) = n
<1>1. f \in Seq(S) BY SeqDef
<1>2. DOMAIN f = 1..Len(f) /\ Len(f) \in Nat BY <1>1, LenProperties
<1> QED BY <1>1, <1>2

\* A file's sizes are numbers.
LEMMA Sizes ==
  ASSUME NEW p \in Stored, NEW v \in 1..Len(SizeOf[p])
  PROVE  SizeOf[p][v] \in Nat
<1>1. SizeOf[p] \in Seq(Nat) BY SizeAssumption
<1> QED BY <1>1, ElementOfSeq

\* What fread puts into the buffer is a sequence of bytes of the length asked.
LEMMA ChunkIsBytes ==
  ASSUME TypeOK, NEW t \in Threads, path[t] \in Stored,
         NEW v \in since[t]..version[path[t]], NEW k \in Nat
  PROVE  /\ Chunk(t, v, k) \in Seq(Bytes) /\ Len(Chunk(t, v, k)) = k
         /\ \A j \in 1..k : Chunk(t, v, k)[j] = ByteOf(path[t], v, Len(body[t]) + j)
<1>1. Len(body[t]) \in Nat
  BY DEF TypeOK, Bytes
<1>2. v \in 1..Len(SizeOf[path[t]])
  BY DEF TypeOK
<1>3. ASSUME NEW j \in 1..k PROVE ByteOf(path[t], v, Len(body[t]) + j) \in Bytes
  <2>1. SizeOf[path[t]][v] \in Nat BY <1>2, Sizes
  <2>2. path[t] \in Paths BY UriAssumption
  <2> QED BY <1>1, <1>2, <2>1, <2>2 DEF ByteOf, Bytes, Zero
<1>4. Chunk(t, v, k) \in [1..k -> Bytes]
  BY <1>3 DEF Chunk
<1>5. Chunk(t, v, k) \in Seq(Bytes) /\ Len(Chunk(t, v, k)) = k
  BY <1>4, IsSeq
<1>6. \A j \in 1..k : Chunk(t, v, k)[j] = ByteOf(path[t], v, Len(body[t]) + j)
  BY DEF Chunk
<1> QED BY <1>5, <1>6

\* A chunk of at most the bytes that are left keeps the answer right.
LEMMA ChunkIsRight ==
  ASSUME IInv, NEW t \in Threads, pc[t] = "body", NEW k \in Nat, k <= left[t],
         NEW v \in since[t]..version[path[t]],
         NEW b, b = body[t] \o Chunk(t, v, k)
  PROVE  /\ b \in Seq(Bytes) /\ Len(b) = Len(body[t]) + k
         /\ \A i \in 1..Len(b) : Right(b[i], path[t], i, since[t])
<1> DEFINE c == Chunk(t, v, k)
<1>1. /\ path[t] \in Stored /\ since[t] <= version[path[t]]
      /\ size[t] = SizeOf[path[t]][since[t]] /\ since[t] <= Len(SizeOf[path[t]])
      /\ Len(body[t]) + left[t] = size[t]
  BY DEF IInv, Sent
<1>2. TypeOK BY DEF IInv
<1>3. /\ c \in Seq(Bytes) /\ Len(c) = k
      /\ \A j \in 1..k : c[j] = ByteOf(path[t], v, Len(body[t]) + j)
  BY <1>1, <1>2, ChunkIsBytes
<1>4. body[t] \in Seq(Bytes) BY <1>2 DEF TypeOK, Bytes
<1> HIDE DEF c
<1>5. /\ b \in Seq(Bytes) /\ Len(b) = Len(body[t]) + Len(c)
      /\ \A i \in 1..Len(b) : b[i] = IF i <= Len(body[t]) THEN body[t][i]
                                                          ELSE c[i - Len(body[t])]
  <2>1. b = body[t] \o c BY DEF c
  <2> HIDE DEF Bytes
  <2>2. /\ body[t] \o c \in Seq(Bytes)
        /\ Len(body[t] \o c) = Len(body[t]) + Len(c)
        /\ \A i \in 1..Len(body[t]) + Len(c) :
             (body[t] \o c)[i] = IF i <= Len(body[t]) THEN body[t][i] ELSE c[i - Len(body[t])]
    BY <1>3, <1>4, ConcatProperties
  <2> QED BY <2>1, <2>2
<1>6. ASSUME NEW i \in 1..Len(b) PROVE Right(b[i], path[t], i, since[t])
  <2>0. Len(body[t]) \in Nat /\ Len(c) \in Nat BY <1>3, <1>4
  <2>1. CASE i <= Len(body[t])
    <3>1. i \in 1..Len(body[t]) BY <1>5, <2>0, <2>1
    <3>2. b[i] = body[t][i] BY <1>5, <2>1
    <3> QED BY <3>1, <3>2 DEF IInv, Sent
  <2>2. CASE i > Len(body[t])
    <3> DEFINE j == i - Len(body[t])
    <3>1. j \in 1..k BY <1>3, <1>5, <2>0, <2>2
    <3>2. b[i] = c[j] BY <1>5, <2>0, <2>2
    <3>3. Len(body[t]) + j = i BY <2>0
    <3>4. b[i] = ByteOf(path[t], v, i) BY <1>3, <3>1, <3>2, <3>3
    <3>5. i <= size[t] /\ size[t] \in Nat /\ left[t] \in Nat
      BY <1>1, <1>2, <1>3, <1>5, <2>0 DEF TypeOK
    <3>6. CASE v = since[t]
      BY <1>1, <1>2, <3>4, <3>5, <3>6 DEF ByteOf, Right, TypeOK
    <3>7. CASE v # since[t]
      <4>1. b[i] = Zero \/ b[i] = <<path[t], v, i>> BY <3>4 DEF ByteOf
      <4>2. since[t] < version[path[t]] BY <1>1, <1>2, <3>7 DEF TypeOK
      <4> QED BY <4>1, <4>2 DEF Right
    <3> QED BY <3>6, <3>7
  <2> QED BY <2>0, <2>1, <2>2
<1> QED BY <1>3, <1>5, <1>6

-----------------------------------------------------------------------------
LEMMA InitType == Init => TypeOK
<1> SUFFICES ASSUME Init PROVE TypeOK
  OBVIOUS
<1>1. \A p \in Stored : 1 <= Len(SizeOf[p])
  <2> TAKE p \in Stored
  <2>1. SizeOf[p] \in Seq(Nat) /\ SizeOf[p] # <<>> BY SizeAssumption
  <2> QED BY <2>1, EmptySeq
<1>2. body \in [Threads -> Seq(Bytes)]
  <2>1. <<>> \in Seq(Bytes) BY EmptySeq
  <2> QED BY <2>1 DEF Init
<1> QED BY <1>1, <1>2 DEF Init, TypeOK, Types, States, Nothing, Bytes

\* The URIs found are URIs, or none.
LEMMA FoundType ==
  ASSUME TypeOK, NEW t \in Threads
  PROVE  Found(t) \subseteq Uris \cup {Absent}
<1>1. stack[t] \in Uris \cup {Absent} /\ request[t] \in Uris \cup {Absent}
  BY DEF TypeOK
<1>2. ASSUME arrived[t] = "part", request[t] \in Uris PROVE Found(t) \subseteq Uris \cup {Absent}
  <2>1. Joined[request[t]][stack[t]] \in (SUBSET (Uris \cup {Absent})) \ {{}}
    BY <1>1, <1>2, UriAssumption
  <2> QED BY <1>2, <2>1 DEF Found
<1>3. arrived[t] = "part" => request[t] \in Uris
  BY DEF TypeOK
<1>4. CASE arrived[t] # "part"
  BY <1>1, <1>4 DEF Found
<1> QED BY <1>2, <1>3, <1>4

\* Reading a request, whichever way it goes.
LEMMA ReadType == ASSUME TypeOK, NEW t \in Threads, Read(t) PROVE TypeOK'
<1>1. PICK u \in Found(t) :
        /\ \/ /\ u \in IndexUris
              /\ path' = [path EXCEPT ![t] = Index]
              /\ type' = [type EXCEPT ![t] = "text/html"]
           \/ /\ u \notin IndexUris /\ InBounds(u)
              /\ path' = [path EXCEPT ![t] = PathOf[u]]
              /\ type' = [type EXCEPT ![t] = TypeFor(Suffix[u])]
           \/ /\ u \notin IndexUris /\ ~InBounds(u)
              /\ path' = [path EXCEPT ![t] = IF u = Absent THEN Absent ELSE PathOf[u]]
              /\ \E any \in Types : type' = [type EXCEPT ![t] = any]
        /\ stack' = [stack EXCEPT ![t] = u]
  BY DEF Read
<1>0. u \in Uris \cup {Absent} BY FoundType
<1>2. stack' \in [Threads -> Uris \cup {Absent}] BY <1>0, <1>1 DEF TypeOK
<1>3. pc' \in [Threads -> States] BY DEF Read, Goto, TypeOK, States
<1>4. /\ path' \in [Threads -> Paths \cup {Absent}] /\ type' \in [Threads -> Types]
  <2>1. CASE u \in IndexUris
    <3>1. path' = [path EXCEPT ![t] = Index] /\ type' = [type EXCEPT ![t] = "text/html"]
      BY <1>1, <2>1
    <3> QED BY <3>1, UriAssumption DEF TypeOK, Types
  <2>2. CASE u \notin IndexUris /\ InBounds(u)
    <3>1. TypeFor(Suffix[u]) \in Types BY DEF TypeFor, Types
    <3>2. PathOf[u] \in Paths \cup {Absent}
      BY <1>0, <2>2, UriAssumption DEF InBounds
    <3>3. /\ path' = [path EXCEPT ![t] = PathOf[u]]
          /\ type' = [type EXCEPT ![t] = TypeFor(Suffix[u])]
      BY <1>1, <2>2
    <3> QED BY <3>1, <3>2, <3>3 DEF TypeOK
  <2>3. CASE u \notin IndexUris /\ ~InBounds(u)
    <3>1. (IF u = Absent THEN Absent ELSE PathOf[u]) \in Paths \cup {Absent}
      BY <1>0, UriAssumption
    <3>2. /\ path' = [path EXCEPT ![t] = IF u = Absent THEN Absent ELSE PathOf[u]]
          /\ \E any \in Types : type' = [type EXCEPT ![t] = any]
      BY <1>1, <2>3
    <3> QED BY <3>1, <3>2 DEF TypeOK
  <2> QED BY <2>1, <2>2, <2>3
<1>5. UNCHANGED <<alive, request, arrived, gone, size, left, since, answer, body, version, requests>>
  BY DEF Read, browserVars
<1> QED BY <1>2, <1>3, <1>4, <1>5 DEF TypeOK

\* Sending bytes of the file, in a chunk or in the last of them.
LEMMA SendType ==
  ASSUME TypeOK, NEW t \in Threads, path[t] \in Stored, NEW k \in Nat, SendBytes(t, k)
  PROVE  body' \in [Threads -> Seq(Bytes)]
<1>1. PICK v \in since[t]..version[path[t]] :
        body' = [body EXCEPT ![t] = body[t] \o Chunk(t, v, k)]
  BY DEF SendBytes
<1>2. Chunk(t, v, k) \in Seq(Bytes) BY <1>1, ChunkIsBytes
<1>3. body[t] \in Seq(Bytes) BY DEF TypeOK, Bytes
<1>4. body[t] \o Chunk(t, v, k) \in Seq(Bytes) BY <1>2, <1>3, ConcatProperties
<1> QED BY <1>1, <1>4 DEF TypeOK, Bytes

LEMMA StepType == IInv /\ [Next]_vars => TypeOK'
<1> SUFFICES ASSUME IInv, [Next]_vars PROVE TypeOK'
  OBVIOUS
<1>0. TypeOK BY DEF IInv
<1>w. Number \in Uris /\ \A p \in Stored : WordOf[p] \in Uris \cup {Absent}
  BY UriAssumption
<1>1. ASSUME NEW t \in Threads, Accept(t) PROVE TypeOK'
  <2>1. /\ request' \in [Threads -> Uris \cup {Absent}]
        /\ arrived' \in [Threads -> {"none", "part", "whole"}]
    BY <1>0, <1>1 DEF Accept, TypeOK
  <2>2. body' \in [Threads -> Seq((Paths \cup {Absent}) \X Nat \X Nat)]
    BY <1>0, <1>1 DEF Accept, TypeOK
  <2>3. answer' \in [Threads -> [status : {0, 200, 500}, type : Types \cup {Absent}, length : Nat]]
    BY <1>0, <1>1 DEF Accept, TypeOK, Nothing
  <2> QED BY <1>0, <1>1, <2>1, <2>2, <2>3 DEF Accept, Goto, TypeOK, States, threadVars
<1>2. ASSUME NEW t \in Threads, Read(t) PROVE TypeOK'
  BY <1>0, <1>2, ReadType
<1>3. ASSUME NEW t \in Threads, Overrun(t) \/ BrokenPipe(t) PROVE TypeOK'
  <2>1. alive' \in BOOLEAN BY <1>3 DEF Overrun, BrokenPipe
  <2>2. UNCHANGED <<pc, browserVars, threadVars, answer, body, version, requests>>
    BY <1>3 DEF Overrun, BrokenPipe
  <2> QED BY <1>0, <2>1, <2>2 DEF threadVars, browserVars, TypeOK
<1>4. ASSUME NEW t \in Threads, OpenFails(t) PROVE TypeOK'
  <2>1. answer' \in [Threads -> [status : {0, 200, 500}, type : Types \cup {Absent}, length : Nat]]
    <3>1. answer[t] \in Headers BY <1>0 DEF TypeOK, Headers
    <3>2. [answer[t] EXCEPT !.status = 500] \in Headers BY <3>1 DEF Headers
    <3>3. answer' = [answer EXCEPT ![t] = [answer[t] EXCEPT !.status = 500]]
      BY <1>4 DEF OpenFails
    <3>4. answer \in [Threads -> Headers] BY <1>0 DEF TypeOK, Headers
    <3> QED BY <3>2, <3>3, <3>4 DEF Headers
  <2> QED BY <1>0, <1>w, <1>4, <2>1 DEF OpenFails, Goto, browserVars, TypeOK, States
<1>5. ASSUME NEW t \in Threads, OpenFile(t) PROVE TypeOK'
  <2>1. version[path[t]] \in Nat \ {0} /\ SizeOf[path[t]][version[path[t]]] \in Nat
    BY <1>0, <1>5, Sizes DEF OpenFile, TypeOK
  <2> QED BY <1>0, <1>5, <2>1 DEF OpenFile, Goto, browserVars, TypeOK, States
<1>6. ASSUME NEW t \in Threads, SendHeader(t) PROVE TypeOK'
  <2>1. type[t] \in Types /\ size[t] \in Nat BY <1>0 DEF TypeOK
  <2>2. answer' \in [Threads -> [status : {0, 200, 500}, type : Types \cup {Absent}, length : Nat]]
    <3> DEFINE h == [status |-> 200, type |-> type[t], length |-> size[t]]
    <3>1. answer[t] \in Headers BY <1>0 DEF TypeOK, Headers
    <3>2. h \in Headers BY <2>1 DEF Headers
    <3>3. answer' = [answer EXCEPT ![t] = h]
      BY <1>6 DEF SendHeader
    <3>4. answer \in [Threads -> Headers] BY <1>0 DEF TypeOK, Headers
    <3> QED BY <3>2, <3>3, <3>4 DEF Headers
  <2> QED BY <1>0, <1>w, <1>6, <2>1, <2>2 DEF SendHeader, Goto, browserVars, TypeOK, States
<1>7. ASSUME NEW t \in Threads, SendChunk(t) PROVE TypeOK'
  <2>1. path[t] \in Stored BY <1>7 DEF IInv, Sent, SendChunk
  <2>2. body' \in [Threads -> Seq(Bytes)]
    BY <1>0, <1>7, <2>1, SendType, SizeAssumption DEF SendChunk
  <2>3. left[t] - MAXBUF \in Nat
    BY <1>0, <1>7, SizeAssumption DEF SendChunk, MoreThanABuffer, TypeOK
  <2> QED BY <1>0, <1>w, <1>7, <2>1, <2>2, <2>3 DEF SendChunk, browserVars, TypeOK, Bytes
<1>8. ASSUME NEW t \in Threads, SendLast(t) PROVE TypeOK'
  <2>1. path[t] \in Stored BY <1>8 DEF IInv, Sent, SendLast
  <2>2. LastBytes(t) \in Nat BY <1>0 DEF LastBytes, TypeOK
  <2>3. body' \in [Threads -> Seq(Bytes)]
    BY <1>0, <1>8, <2>1, <2>2, SendType DEF SendLast
  <2> QED BY <1>0, <1>w, <1>8, <2>1, <2>3 DEF SendLast, Goto, browserVars, TypeOK, States, Bytes
<1>9. ASSUME NEW t \in Threads, Close(t) \/ Leave(t) PROVE TypeOK'
  <2>1. /\ alive' = alive
        /\ UNCHANGED <<threadVars, answer, body, version, requests>>
    BY <1>9 DEF Close, Leave
  <2>2. /\ pc' \in [Threads -> States] /\ gone' \in [Threads -> BOOLEAN]
        /\ request' = request /\ arrived' = arrived
    <3>1. CASE Close(t)
      <4>1. pc' \in [Threads -> States] BY <1>0, <3>1 DEF Close, Goto, TypeOK, States
      <4>2. gone' = gone /\ request' = request /\ arrived' = arrived
        BY <3>1 DEF Close, browserVars
      <4> QED BY <1>0, <4>1, <4>2 DEF TypeOK
    <3>2. CASE Leave(t)
      <4>1. pc' = pc /\ request' = request /\ arrived' = arrived BY <3>2 DEF Leave
      <4>2. gone' \in [Threads -> BOOLEAN] BY <1>0, <3>2 DEF Leave, TypeOK
      <4> QED BY <1>0, <4>1, <4>2 DEF TypeOK
    <3> QED BY <1>9, <3>1, <3>2
  <2> QED BY <1>0, <2>1, <2>2 DEF threadVars, browserVars, TypeOK
<1>12. ASSUME NEW t \in Threads, Ask(t) PROVE TypeOK'
  <2>1. PICK u \in Uris, much \in {"part", "whole"} :
          request' = [request EXCEPT ![t] = u] /\ arrived' = [arrived EXCEPT ![t] = much]
    BY <1>12 DEF Ask
  <2>2. u # Absent BY UriAssumption
  <2>3. /\ request' \in [Threads -> Uris \cup {Absent}]
        /\ arrived' \in [Threads -> {"none", "part", "whole"}]
    BY <1>0, <2>1 DEF TypeOK
  <2>4. \A x \in Threads : arrived'[x] # "none" => request'[x] # Absent
    BY <1>0, <2>1, <2>2 DEF TypeOK
  <2> QED BY <1>0, <1>12, <2>3, <2>4 DEF Ask, threadVars, TypeOK
<1>13. ASSUME NEW t \in Threads, RestArrives(t) PROVE TypeOK'
  BY <1>0, <1>13 DEF RestArrives, threadVars, TypeOK
<1>10. ASSUME NEW p \in Stored, Edit(p) PROVE TypeOK'
  <2>1. Len(SizeOf[p]) \in Nat BY SizeAssumption
  <2> QED BY <1>0, <1>10, <2>1 DEF Edit, threadVars, browserVars, TypeOK
<1>11. CASE UNCHANGED vars
  BY <1>0, <1>11 DEF vars, threadVars, browserVars, TypeOK
<1> QED
  BY <1>1, <1>2, <1>3, <1>4, <1>5, <1>6, <1>7, <1>8, <1>9, <1>10, <1>11, <1>12, <1>13
     DEF Next, Serve

-----------------------------------------------------------------------------
\* A step that leaves a thread alone, though files may be replaced in it.
LEMMA Untouched ==
  ASSUME IInv, TypeOK', NEW u \in Threads, Sent(u),
         pc'[u] = pc[u], path'[u] = path[u], size'[u] = size[u], left'[u] = left[u],
         since'[u] = since[u], answer'[u] = answer[u], body'[u] = body[u],
         \A p \in Stored : version[p] <= version'[p]
  PROVE  Sent(u)'
<1>1. TypeOK BY DEF IInv
<1>2. ASSUME NEW p \in Stored
      PROVE  version[p] \in Nat /\ version'[p] \in Nat /\ version[p] <= version'[p]
             /\ since[u] \in Nat
  BY <1>1 DEF TypeOK
<1>3. (pc[u] \in {"read", "open", "header"} => answer[u] = Nothing /\ body[u] = <<>>)'
  BY DEF Sent, Nothing
<1>4. (pc[u] \in {"header", "body"} =>
         /\ path[u] \in Stored /\ since[u] <= version[path[u]]
         /\ size[u] = SizeOf[path[u]][since[u]] /\ since[u] <= Len(SizeOf[path[u]]))'
  BY <1>2 DEF Sent
<1>5. (pc[u] = "body" =>
         /\ answer[u].status = 200 /\ answer[u].length = size[u]
         /\ Len(body[u]) + left[u] = size[u]
         /\ OneBuffer(u) => body[u] = <<>>)'
  BY DEF Sent, OneBuffer
<1>6. (pc[u] \in {"close", "free"} => Len(body[u]) = answer[u].length)'
  BY DEF Sent
<1>7. ASSUME NEW i \in 1..Len(body[u])
      PROVE  /\ path[u] \in Stored /\ since[u] <= version'[path[u]]
             /\ Right(body[u][i], path[u], i, since[u])'
  <2>1. /\ path[u] \in Stored /\ since[u] <= version[path[u]]
        /\ Right(body[u][i], path[u], i, since[u])
    BY DEF Sent
  <2>2. CASE body[u][i] = Zero /\ since[u] < version[path[u]]
    BY <1>2, <2>1, <2>2 DEF Right
  <2>3. ASSUME NEW w \in since[u]..version[path[u]], body[u][i] = <<path[u], w, i>>
        PROVE  Right(body[u][i], path[u], i, since[u])'
    <3>1. w \in since[u]..version'[path[u]] BY <1>2, <2>1
    <3> QED BY <2>3, <3>1 DEF Right
  <2> QED BY <1>2, <2>1, <2>2, <2>3 DEF Right
<1> QED BY <1>3, <1>4, <1>5, <1>6, <1>7 DEF Sent

\* A thread's step is its own: the others' answers stay as they are.
LEMMA Others ==
  ASSUME IInv, TypeOK', NEW t \in Threads, NEW u \in Threads, u # t,
         Accept(t) \/ Ask(t) \/ RestArrives(t) \/ Serve(t) \/ Leave(t) \/ BrokenPipe(t)
  PROVE  Sent(u)'
<1>1. Sent(u) BY DEF IInv
<1>2. \A p \in Stored : version[p] \in Nat BY DEF IInv, TypeOK
<1> DEFINE Kept ==
       /\ pc'[u] = pc[u] /\ path'[u] = path[u] /\ size'[u] = size[u]
       /\ left'[u] = left[u] /\ since'[u] = since[u]
       /\ answer'[u] = answer[u] /\ body'[u] = body[u] /\ version' = version
<1>3. /\ DOMAIN pc = Threads /\ DOMAIN path = Threads /\ DOMAIN size = Threads
      /\ DOMAIN left = Threads /\ DOMAIN since = Threads /\ DOMAIN answer = Threads
      /\ pc = [x \in Threads |-> pc[x]] /\ path = [x \in Threads |-> path[x]]
      /\ size = [x \in Threads |-> size[x]] /\ left = [x \in Threads |-> left[x]]
      /\ since = [x \in Threads |-> since[x]] /\ answer = [x \in Threads |-> answer[x]]
      /\ body = [x \in Threads |-> body[x]] /\ DOMAIN body = Threads
  BY DEF IInv, TypeOK
<1>4. ASSUME Accept(t) PROVE Kept
  BY <1>3, <1>4 DEF Accept, Goto, threadVars
<1>16. ASSUME Ask(t) \/ RestArrives(t) PROVE Kept
  BY <1>3, <1>16 DEF Ask, RestArrives, threadVars
<1>5. ASSUME Read(t) PROVE Kept
  BY <1>3, <1>5 DEF Read, Goto
<1>6. ASSUME Overrun(t) PROVE Kept
  BY <1>3, <1>6 DEF Overrun, threadVars
<1>7. ASSUME OpenFails(t) PROVE Kept
  BY <1>3, <1>7 DEF OpenFails, Goto
<1>8. ASSUME OpenFile(t) PROVE Kept
  BY <1>3, <1>8 DEF OpenFile, Goto
<1>9. ASSUME SendHeader(t) PROVE Kept
  BY <1>3, <1>9 DEF SendHeader, Goto
<1>10. ASSUME SendChunk(t) PROVE Kept
  BY <1>3, <1>10 DEF SendChunk, SendBytes
<1>11. ASSUME SendLast(t) PROVE Kept
  BY <1>3, <1>11 DEF SendLast, SendBytes, Goto
<1>12. ASSUME Close(t) PROVE Kept
  BY <1>3, <1>12 DEF Close, Goto, threadVars
<1>13. ASSUME Leave(t) PROVE Kept
  BY <1>3, <1>13 DEF Leave, threadVars
<1>14. ASSUME BrokenPipe(t) PROVE Kept
  BY <1>3, <1>14 DEF BrokenPipe, threadVars
<1>15. Kept
  BY <1>4, <1>5, <1>6, <1>7, <1>8, <1>9, <1>10, <1>11, <1>12, <1>13, <1>14,
     <1>16 DEF Serve
<1> QED
  <2> HIDE DEF Kept
  <2>1. \A p \in Stored : version[p] <= version'[p]
    BY <1>2, <1>15 DEF Kept
  <2> QED BY <1>1, <1>15, <2>1, Untouched DEF Kept

\* The thread that steps.
LEMMA Own ==
  ASSUME IInv, TypeOK', NEW t \in Threads,
         Accept(t) \/ Ask(t) \/ RestArrives(t) \/ Serve(t) \/ Leave(t) \/ BrokenPipe(t)
  PROVE  Sent(t)'
<1>0. TypeOK /\ Sent(t) BY DEF IInv
<1>1. CASE Accept(t)
  <2>1. pc'[t] = "read" /\ answer'[t] = Nothing /\ body'[t] = <<>>
    BY <1>0, <1>1 DEF Accept, Goto, TypeOK
  <2> QED BY <2>1 DEF Sent, Nothing
<1>2. CASE Read(t)
  <2>1. pc[t] = "read" /\ pc'[t] = "open" /\ answer' = answer /\ body' = body
    BY <1>0, <1>2 DEF Read, Goto, TypeOK
  <2>2. answer[t] = Nothing /\ body[t] = <<>> BY <1>0, <2>1 DEF Sent
  <2> QED BY <2>1, <2>2 DEF Sent, Nothing
<1>3. CASE OpenFails(t)
  <2>1. /\ pc[t] = "open" /\ pc'[t] = "close" /\ body' = body
        /\ answer' = [answer EXCEPT ![t].status = 500]
    BY <1>0, <1>3 DEF OpenFails, Goto, TypeOK
  <2>2. answer[t] = Nothing /\ body[t] = <<>> BY <1>0, <2>1 DEF Sent
  <2>3. answer'[t].length = 0 BY <1>0, <2>1, <2>2 DEF Nothing, TypeOK
  <2> QED BY <2>1, <2>2, <2>3 DEF Sent
<1>4. CASE OpenFile(t)
  <2>1. /\ pc[t] = "open" /\ pc'[t] = "header" /\ path[t] \in Stored
        /\ answer' = answer /\ body' = body /\ path' = path /\ version' = version
        /\ since'[t] = version[path[t]] /\ size'[t] = SizeOf[path[t]][version[path[t]]]
    BY <1>0, <1>4 DEF OpenFile, Goto, TypeOK
  <2>2. answer[t] = Nothing /\ body[t] = <<>> BY <1>0, <2>1 DEF Sent
  <2>3. version[path[t]] \in Nat /\ version[path[t]] <= Len(SizeOf[path[t]])
    BY <1>0, <2>1 DEF TypeOK
  <2> QED BY <2>1, <2>2, <2>3 DEF Sent, Nothing
<1>5. CASE SendHeader(t)
  <2>1. /\ pc[t] = "header" /\ pc'[t] = "body" /\ left'[t] = size[t]
        /\ body' = body /\ path' = path /\ version' = version
        /\ since' = since /\ size' = size
        /\ answer'[t] = [status |-> 200, type |-> type[t], length |-> size[t]]
    BY <1>0, <1>5 DEF SendHeader, Goto, TypeOK
  <2>2. body[t] = <<>> BY <1>0, <2>1 DEF Sent
  <2>3. size[t] \in Nat BY <1>0 DEF TypeOK
  <2> QED BY <1>0, <2>1, <2>2, <2>3 DEF Sent, OneBuffer
<1>6. CASE SendChunk(t)
  <2>1. /\ pc[t] = "body" /\ ~OneBuffer(t) /\ left[t] > MAXBUF /\ SendBytes(t, MAXBUF)
        /\ pc' = pc /\ answer' = answer /\ path' = path /\ version' = version
        /\ since' = since /\ size' = size /\ left'[t] = left[t] - MAXBUF
    BY <1>0, <1>6 DEF SendChunk, MoreThanABuffer, TypeOK
  <2>2. PICK v \in since[t]..version[path[t]] :
          body' = [body EXCEPT ![t] = body[t] \o Chunk(t, v, MAXBUF)]
    BY <2>1 DEF SendBytes
  <2>3. body'[t] = body[t] \o Chunk(t, v, MAXBUF)
    <3>1. DOMAIN body = Threads BY <1>0 DEF TypeOK
    <3> QED BY <2>2, <3>1
  <2>4. MAXBUF \in Nat /\ left[t] \in Nat /\ size[t] \in Nat /\ Len(body[t]) \in Nat
    BY <1>0, SizeAssumption DEF TypeOK
  <2>5. /\ Len(body'[t]) = Len(body[t]) + MAXBUF
        /\ \A i \in 1..Len(body'[t]) : Right(body'[t][i], path[t], i, since[t])
    <3>1. MAXBUF <= left[t] BY <2>1, <2>4
    <3> QED BY <2>1, <2>3, <2>4, <3>1, ChunkIsRight
  <2>6. \A i \in 1..Len(body'[t]) : Right(body[t][i], path[t], i, since[t])'
    BY <2>1, <2>5 DEF Right
  <2>7. (/\ path[t] \in Stored /\ since[t] <= version[path[t]]
         /\ size[t] = SizeOf[path[t]][since[t]] /\ since[t] <= Len(SizeOf[path[t]])
         /\ answer[t].status = 200 /\ answer[t].length = size[t])'
    BY <1>0, <2>1 DEF Sent
  <2>8. Len(body'[t]) + left'[t] = size'[t] BY <1>0, <2>1, <2>4, <2>5 DEF Sent
  <2>9. ~OneBuffer(t)' BY <2>1 DEF OneBuffer
  <2> QED BY <2>1, <2>6, <2>7, <2>8, <2>9 DEF Sent
<1>7. CASE SendLast(t)
  <2>1. /\ pc[t] = "body" /\ pc'[t] = "close" /\ SendBytes(t, left[t])
        /\ answer' = answer /\ path' = path /\ version' = version /\ since' = since
    BY <1>0, <1>7 DEF SendLast, LastBytes, Goto, TypeOK
  <2>2. PICK v \in since[t]..version[path[t]] :
          body' = [body EXCEPT ![t] = body[t] \o Chunk(t, v, left[t])]
    BY <2>1 DEF SendBytes
  <2>3. body'[t] = body[t] \o Chunk(t, v, left[t])
    <3>1. DOMAIN body = Threads BY <1>0 DEF TypeOK
    <3> QED BY <2>2, <3>1
  <2>4. left[t] \in Nat /\ left[t] <= left[t] BY <1>0 DEF TypeOK
  <2>5. /\ Len(body'[t]) = Len(body[t]) + left[t]
        /\ \A i \in 1..Len(body'[t]) : Right(body'[t][i], path[t], i, since[t])
    BY <2>1, <2>3, <2>4, ChunkIsRight
  <2>6. \A i \in 1..Len(body'[t]) : Right(body[t][i], path[t], i, since[t])'
    BY <2>1, <2>5 DEF Right
  <2>7. (path[t] \in Stored /\ since[t] <= version[path[t]])'
    BY <1>0, <2>1 DEF Sent
  <2>8. Len(body'[t]) = answer'[t].length BY <1>0, <2>1, <2>5 DEF Sent
  <2> QED BY <2>1, <2>6, <2>7, <2>8 DEF Sent
<1>8. CASE Close(t)
  <2>1. /\ pc[t] = "close" /\ pc'[t] = "free"
        /\ UNCHANGED <<threadVars, answer, body, version>>
    BY <1>0, <1>8 DEF Close, Goto, TypeOK
  <2> QED BY <1>0, <2>1 DEF Sent, Right, threadVars
<1>9. CASE Ask(t) \/ RestArrives(t) \/ Overrun(t) \/ Leave(t) \/ BrokenPipe(t)
  <2>1. UNCHANGED <<pc, threadVars, answer, body, version>>
    BY <1>9 DEF Ask, RestArrives, Overrun, Leave, BrokenPipe
  <2> QED BY <1>0, <2>1 DEF Sent, Right, OneBuffer, Nothing, threadVars
<1> QED BY <1>1, <1>2, <1>3, <1>4, <1>5, <1>6, <1>7, <1>8, <1>9 DEF Serve

LEMMA Inductive == IInv /\ [Next]_vars => IInv'
<1> SUFFICES ASSUME IInv, [Next]_vars PROVE IInv'
  OBVIOUS
<1>1. TypeOK' BY StepType
<1>2. ASSUME NEW t \in Threads, Accept(t) \/ Ask(t) \/ RestArrives(t) \/ Serve(t) \/ Leave(t) \/ BrokenPipe(t)
      PROVE  \A u \in Threads : Sent(u)'
  <2> TAKE u \in Threads
  <2>1. CASE u = t BY <1>1, <1>2, <2>1, Own
  <2>2. CASE u # t BY <1>1, <1>2, <2>2, Others
  <2> QED BY <2>1, <2>2
<1>3. ASSUME NEW q \in Stored, Edit(q) PROVE \A u \in Threads : Sent(u)'
  <2> TAKE u \in Threads
  <2>1. \A p \in Stored : version[p] <= version'[p]
    BY <1>3 DEF Edit, IInv, TypeOK
  <2>2. UNCHANGED <<pc, threadVars, answer, body>> BY <1>3 DEF Edit
  <2> QED BY <1>1, <2>1, <2>2, Untouched DEF threadVars, IInv
<1>4. ASSUME UNCHANGED vars PROVE \A u \in Threads : Sent(u)'
  <2> TAKE u \in Threads
  <2>1. \A p \in Stored : version[p] <= version'[p]
    BY <1>4 DEF vars, IInv, TypeOK
  <2>2. UNCHANGED <<pc, threadVars, answer, body>> BY <1>4 DEF vars
  <2> QED BY <1>1, <2>1, <2>2, Untouched DEF threadVars, IInv
<1>5. \A u \in Threads : Sent(u)'
  BY <1>2, <1>3, <1>4 DEF Next
<1> QED BY <1>1, <1>5 DEF IInv

LEMMA Holds == Spec => []IInv
<1>1. Init => IInv
  BY InitType DEF Init, IInv, Sent, Nothing
<1>2. IInv /\ [Next]_vars => IInv'
  BY Inductive
<1> QED BY <1>1, <1>2, PTL DEF Spec

(***************************************************************************)
(* The variables have their types, however many threads, requests and      *)
(* versions there are.                                                     *)
(***************************************************************************)
THEOREM TypeCorrect == Spec => []TypeOK
<1>1. IInv => TypeOK BY DEF IInv
<1> QED BY <1>1, Holds, PTL

(***************************************************************************)
(* A page arrives as it is, at every size of the file, of the buffer and   *)
(* of the header: as many bytes follow as Content-Length says, each in its  *)
(* place, and of one version unless the file was replaced meanwhile.       *)
(***************************************************************************)
THEOREM PagesArriveIntact == Spec => []PageIntact
<1>1. IInv => LengthKept
  BY DEF IInv, Sent, LengthKept, Answered
<1>2. IInv => BytesInPlace
  <2> SUFFICES ASSUME IInv, NEW t \in Threads, NEW i \in DOMAIN body[t]
               PROVE  LET b == body[t][i]
                      IN  IF b = Zero THEN since[t] < version[path[t]]
                          ELSE /\ b[1] = path[t] /\ b[3] = i
                               /\ since[t] = version[path[t]] => b[2] = since[t]
    BY DEF BytesInPlace
  <2>1. i \in 1..Len(body[t]) BY DEF IInv, TypeOK
  <2>2. /\ path[t] \in Stored /\ since[t] <= version[path[t]]
        /\ Right(body[t][i], path[t], i, since[t])
    BY <2>1 DEF IInv, Sent
  <2>3. version[path[t]] \in Nat /\ since[t] \in Nat BY <2>2 DEF IInv, TypeOK
  <2>4. CASE body[t][i] = Zero /\ since[t] < version[path[t]]
    BY <2>4
  <2>5. ASSUME NEW w \in since[t]..version[path[t]], body[t][i] = <<path[t], w, i>>
        PROVE  LET b == body[t][i]
               IN  IF b = Zero THEN since[t] < version[path[t]]
                   ELSE /\ b[1] = path[t] /\ b[3] = i
                        /\ since[t] = version[path[t]] => b[2] = since[t]
    <3>1. body[t][i] # Zero BY <2>2, <2>5, UriAssumption DEF Zero
    <3>2. since[t] = version[path[t]] => w = since[t] BY <2>3
    <3> QED BY <2>5, <3>1, <3>2
  <2> QED BY <2>2, <2>4, <2>5 DEF Right
<1>3. IInv => PageIntact
  BY <1>1, <1>2 DEF PageIntact
<1> QED BY <1>3, Holds, PTL

-----------------------------------------------------------------------------
\* The first letters of the suffixes that are looked for.
LEMMA TypesFor ==
  /\ TypeFor(<<"h", "t", "m", "l">>) = "text/html"
  /\ TypeFor(<<"p", "n", "g">>) = "image/png"
  /\ TypeFor(<<"t", "x", "t">>) = "text/plain"
  /\ TypeFor(<<"j", "s">>) = "application/javascript"
<1>1. TypeFor(<<"h", "t", "m", "l">>) = "text/html"
  <2>1. Begins(<<"h", "t", "m", "l">>, <<"h", "t", "m", "l">>) BY DEF Begins
  <2>2. ~Begins(<<"h", "t", "m", "l">>, <<"p", "n", "g">>) BY DEF Begins
  <2>3. ~Begins(<<"h", "t", "m", "l">>, <<"g", "i", "f">>) BY DEF Begins
  <2>4. ~Begins(<<"h", "t", "m", "l">>, <<"j", "p", "g">>) BY DEF Begins
  <2>5. ~Begins(<<"h", "t", "m", "l">>, <<"c", "s", "s">>) BY DEF Begins
  <2>6. ~Begins(<<"h", "t", "m", "l">>, <<"j", "s">>) BY DEF Begins
  <2> QED BY <2>1, <2>2, <2>3, <2>4, <2>5, <2>6 DEF TypeFor
<1>2. TypeFor(<<"p", "n", "g">>) = "image/png"
  <2>1. ~Begins(<<"p", "n", "g">>, <<"h", "t", "m", "l">>) BY DEF Begins
  <2>2. Begins(<<"p", "n", "g">>, <<"p", "n", "g">>) BY DEF Begins
  <2>3. ~Begins(<<"p", "n", "g">>, <<"g", "i", "f">>) BY DEF Begins
  <2>4. ~Begins(<<"p", "n", "g">>, <<"j", "p", "g">>) BY DEF Begins
  <2>5. ~Begins(<<"p", "n", "g">>, <<"c", "s", "s">>) BY DEF Begins
  <2>6. ~Begins(<<"p", "n", "g">>, <<"j", "s">>) BY DEF Begins
  <2> QED BY <2>1, <2>2, <2>3, <2>4, <2>5, <2>6 DEF TypeFor
<1>3. TypeFor(<<"t", "x", "t">>) = "text/plain"
  <2>1. ~Begins(<<"t", "x", "t">>, <<"h", "t", "m", "l">>) BY DEF Begins
  <2>2. ~Begins(<<"t", "x", "t">>, <<"p", "n", "g">>) BY DEF Begins
  <2>3. ~Begins(<<"t", "x", "t">>, <<"g", "i", "f">>) BY DEF Begins
  <2>4. ~Begins(<<"t", "x", "t">>, <<"j", "p", "g">>) BY DEF Begins
  <2>5. ~Begins(<<"t", "x", "t">>, <<"c", "s", "s">>) BY DEF Begins
  <2>6. ~Begins(<<"t", "x", "t">>, <<"j", "s">>) BY DEF Begins
  <2> QED BY <2>1, <2>2, <2>3, <2>4, <2>5, <2>6 DEF TypeFor
<1>4. TypeFor(<<"j", "s">>) = "application/javascript"
  <2>1. ~Begins(<<"j", "s">>, <<"h", "t", "m", "l">>) BY DEF Begins
  <2>2. ~Begins(<<"j", "s">>, <<"p", "n", "g">>) BY DEF Begins
  <2>3. ~Begins(<<"j", "s">>, <<"g", "i", "f">>) BY DEF Begins
  <2>4. ~Begins(<<"j", "s">>, <<"j", "p", "g">>) BY DEF Begins
  <2>5. ~Begins(<<"j", "s">>, <<"c", "s", "s">>) BY DEF Begins
  <2>6. Begins(<<"j", "s">>, <<"j", "s">>) BY DEF Begins
  <2> QED BY <2>1, <2>2, <2>3, <2>4, <2>5, <2>6 DEF TypeFor
<1> QED BY <1>1, <1>2, <1>3, <1>4

\* The type that u should be announced with.
Typed(u, ty) == u # Absent => \A m \in DOMAIN Mime : Suffix[u] = Mime[m] => ty = TypeOf[m]

\* What the thread t has made of the request that was sent to it, and what it
\* leaves in buf.
Asked(t) ==
  /\ pc[t] \in {"free", "read", "body", "close"} => stack[t] \in OwnWords
  /\ pc[t] # "read" =>
       \E u \in MayMean(t) : path[t] = Wanted(u) /\ Typed(u, type[t])
  /\ pc[t] \in {"header", "body"} => path[t] \in Stored
  /\ pc[t] = "body" => answer[t].status = 200 /\ answer[t].type = type[t]
  /\ pc[t] = "close" \/ Answered(t) =>
       IF path[t] \in Stored THEN answer[t].status = 200 /\ answer[t].type = type[t]
                             ELSE answer[t].status = 500

\* The URIs found are those that the request may mean.
LEMMA FoundIsMeant ==
  ASSUME TypeOK, NEW t \in Threads, stack[t] \in OwnWords
  PROVE  Found(t) \subseteq MayMean(t)
<1>1. arrived[t] \in {"none", "part", "whole"} BY DEF TypeOK
<1>2. CASE arrived[t] = "part"
  BY <1>2 DEF Found, MayMean
<1>3. CASE arrived[t] # "part"
  BY <1>1, <1>3 DEF Found, MayMean
<1> QED BY <1>2, <1>3

\* The URI found decides the path and the type.
LEMMA ReadAsked ==
  ASSUME TypeOK, NEW t \in Threads, stack[t] \in OwnWords, Read(t)
  PROVE  \E u \in MayMean(t) : path'[t] = Wanted(u) /\ Typed(u, type'[t])
<1>p. PICK u \in Found(t) :
        \/ /\ u \in IndexUris
           /\ path' = [path EXCEPT ![t] = Index]
           /\ type' = [type EXCEPT ![t] = "text/html"]
        \/ /\ u \notin IndexUris /\ InBounds(u)
           /\ path' = [path EXCEPT ![t] = PathOf[u]]
           /\ type' = [type EXCEPT ![t] = TypeFor(Suffix[u])]
        \/ /\ u \notin IndexUris /\ ~InBounds(u)
           /\ path' = [path EXCEPT ![t] = IF u = Absent THEN Absent ELSE PathOf[u]]
           /\ \E any \in Types : type' = [type EXCEPT ![t] = any]
  BY DEF Read
<1>1. u \in Uris \cup {Absent} /\ u \in MayMean(t) BY FoundType, FoundIsMeant
<1>2. /\ DOMAIN path = Threads /\ DOMAIN type = Threads
      /\ path = [x \in Threads |-> path[x]] /\ type = [x \in Threads |-> type[x]]
  BY DEF TypeOK
<1> SUFFICES path'[t] = Wanted(u) /\ Typed(u, type'[t])
  BY <1>1
<1>5. CASE u = Absent
  <2>1. u \notin IndexUris /\ ~InBounds(u) BY <1>5, UriAssumption DEF InBounds
  <2>2. path'[t] = Absent BY <1>p, <1>2, <1>5, <2>1
  <2> QED BY <1>5, <2>1, <2>2 DEF Wanted, Typed
<1>3. CASE u \in IndexUris
  <2>1. path'[t] = Index /\ type'[t] = "text/html" BY <1>p, <1>2, <1>3
  <2>2. Suffix[u] \in {NoPeriod, <<"h", "t", "m", "l">>} BY <1>3, SuffixAssumption
  <2>3. ASSUME NEW m \in DOMAIN Mime, Suffix[u] = Mime[m] PROVE TypeOf[m] = "text/html"
    <3>1. Mime[m] = <<"h", "t", "m", "l">> BY <2>2, <2>3, SuffixAssumption DEF Mime
    <3>2. m = "html" BY <3>1 DEF Mime
    <3> QED BY <3>2 DEF TypeOf
  <2> QED BY <1>3, <2>1, <2>3 DEF Wanted, Typed
<1>4. CASE u \notin IndexUris /\ u # Absent
  <2>1. path'[t] = PathOf[u]
    BY <1>p, <1>2, <1>4, UriAssumption
  <2>2. ASSUME NEW m \in DOMAIN Mime, Suffix[u] = Mime[m] PROVE type'[t] = TypeOf[m]
    <3>1. InBounds(u)
      <4>1. u # Absent BY <1>4
      <4>2. Mime[m] # NoPeriod /\ Len(Mime[m]) <= 4
        <5>1. CASE m = "html" BY <5>1, SuffixAssumption DEF Mime
        <5>2. CASE m = "png" BY <5>2, SuffixAssumption DEF Mime
        <5>3. CASE m = "txt" BY <5>3, SuffixAssumption DEF Mime
        <5>4. CASE m = "js" BY <5>4, SuffixAssumption DEF Mime
        <5> QED BY <5>1, <5>2, <5>3, <5>4 DEF Mime
      <4> QED BY <2>2, <4>1, <4>2 DEF InBounds
    <3>2. type'[t] = TypeFor(Suffix[u]) BY <1>p, <1>2, <1>4, <3>1
    <3>3. TypeFor(Mime[m]) = TypeOf[m] BY TypesFor DEF Mime, TypeOf
    <3> QED BY <2>2, <3>2, <3>3
  <2> QED BY <1>4, <2>1, <2>2 DEF Wanted, Typed
<1> QED BY <1>3, <1>4, <1>5

LEMMA AskedStep ==
  ASSUME IInv, \A t \in Threads : Asked(t), [Next]_vars
  PROVE  \A t \in Threads : Asked(t)'
<1>0. TypeOK BY DEF IInv
<1>d. /\ DOMAIN pc = Threads /\ DOMAIN path = Threads /\ DOMAIN type = Threads
      /\ DOMAIN request = Threads /\ DOMAIN answer = Threads
      /\ DOMAIN stack = Threads /\ DOMAIN arrived = Threads
      /\ pc = [x \in Threads |-> pc[x]] /\ path = [x \in Threads |-> path[x]]
      /\ type = [x \in Threads |-> type[x]] /\ answer = [x \in Threads |-> answer[x]]
      /\ request = [x \in Threads |-> request[x]] /\ stack = [x \in Threads |-> stack[x]]
      /\ arrived = [x \in Threads |-> arrived[x]]
  BY <1>0 DEF TypeOK
<1>w. Number \in OwnWords /\ \A p \in Stored : WordOf[p] \in OwnWords
  BY DEF OwnWords
<1> DEFINE Meant(u) == request'[u] = request[u] /\ arrived'[u] = arrived[u]
           Kept(u) == /\ pc'[u] = pc[u] /\ path'[u] = path[u] /\ type'[u] = type[u]
                      /\ answer'[u] = answer[u] /\ Meant(u)
                      /\ \/ stack'[u] = stack[u]
                         \/ pc[u] = "body" /\ stack'[u] \in OwnWords
<1>m. ASSUME NEW u \in Threads, Meant(u) PROVE MayMean(u)' = MayMean(u)
  BY <1>m DEF MayMean, OwnWords
<1>k. ASSUME NEW u \in Threads, Kept(u) PROVE Asked(u)'
  <2>1. MayMean(u)' = MayMean(u) BY <1>k, <1>m
  <2>2. Answered(u)' = Answered(u) BY <1>k DEF Answered
  <2>3. (pc[u] # "read" =>
           \E w \in MayMean(u) : path[u] = Wanted(w) /\ Typed(w, type[u]))'
    BY <1>k, <2>1 DEF Asked, Wanted, Typed
  <2> QED BY <1>k, <2>2, <2>3 DEF Asked, OwnWords
<1>j. ASSUME NEW u \in Threads, Meant(u), path'[u] = path[u], type'[u] = type[u],
             pc[u] # "read"
      PROVE  (\E w \in MayMean(u) : path[u] = Wanted(w) /\ Typed(w, type[u]))'
  BY <1>j, <1>m DEF Asked, Wanted, Typed
<1> HIDE DEF Kept, Meant
<1>1. ASSUME NEW t \in Threads, Accept(t) PROVE \A u \in Threads : Asked(u)'
  <2>1. pc[t] = "free" /\ pc'[t] = "read" /\ stack' = stack
    BY <1>d, <1>1 DEF Accept, Goto, threadVars
  <2>2. Asked(t)' BY <2>1 DEF Asked, Answered, OwnWords
  <2>3. \A u \in Threads : u # t => Kept(u)
    BY <1>d, <1>1 DEF Accept, Goto, Kept, Meant, threadVars
  <2> QED BY <1>k, <2>2, <2>3
<1>2. ASSUME NEW t \in Threads, Read(t) PROVE \A u \in Threads : Asked(u)'
  <2>1. /\ pc[t] = "read" /\ pc'[t] = "open" /\ request' = request /\ arrived' = arrived
    BY <1>d, <1>2 DEF Read, Goto, browserVars
  <2>2. stack[t] \in OwnWords BY <2>1 DEF Asked
  <2>3. \E u \in MayMean(t) : path'[t] = Wanted(u) /\ Typed(u, type'[t])
    BY <1>0, <1>2, <2>2, ReadAsked
  <2>4. MayMean(t)' = MayMean(t) BY <1>m, <2>1 DEF Meant
  <2>5. (\E u \in MayMean(t) : path[t] = Wanted(u) /\ Typed(u, type[t]))'
    BY <2>3, <2>4 DEF Wanted, Typed
  <2>6. Asked(t)' BY <2>1, <2>5 DEF Asked, Answered
  <2>7. \A u \in Threads : u # t => Kept(u)
    BY <1>d, <1>2 DEF Read, Goto, Kept, Meant, browserVars
  <2> QED BY <1>k, <2>6, <2>7
<1>3. ASSUME NEW t \in Threads, OpenFails(t) PROVE \A u \in Threads : Asked(u)'
  <2>1. /\ pc[t] = "open" /\ path[t] \notin Stored /\ pc'[t] = "close"
        /\ stack'[t] = Number /\ UNCHANGED <<request, arrived, path, type>>
    BY <1>d, <1>3 DEF OpenFails, Goto, browserVars
  <2>2. answer'[t].status = 500 BY <1>0, <1>3 DEF OpenFails, TypeOK
  <2>3. Asked(t)' BY <1>j, <1>w, <2>1, <2>2 DEF Asked, Answered, Meant, OwnWords
  <2>4. \A u \in Threads : u # t => Kept(u)
    BY <1>d, <1>3 DEF OpenFails, Goto, Kept, Meant, browserVars
  <2> QED BY <1>k, <2>3, <2>4
<1>4. ASSUME NEW t \in Threads, OpenFile(t) PROVE \A u \in Threads : Asked(u)'
  <2>1. /\ pc[t] = "open" /\ path[t] \in Stored /\ pc'[t] = "header"
        /\ UNCHANGED <<request, arrived, path, type, answer>>
    BY <1>d, <1>4 DEF OpenFile, Goto, browserVars
  <2>2. Asked(t)' BY <1>j, <2>1 DEF Asked, Answered, Meant
  <2>3. \A u \in Threads : u # t => Kept(u)
    BY <1>d, <1>4 DEF OpenFile, Goto, Kept, Meant, browserVars
  <2> QED BY <1>k, <2>2, <2>3
<1>5. ASSUME NEW t \in Threads, SendHeader(t) PROVE \A u \in Threads : Asked(u)'
  <2>1. /\ pc[t] = "header" /\ pc'[t] = "body"
        /\ stack'[t] = Number /\ UNCHANGED <<request, arrived, path, type>>
        /\ answer'[t] = [status |-> 200, type |-> type[t], length |-> size[t]]
    BY <1>d, <1>5 DEF SendHeader, Goto, browserVars
  <2>2. Asked(t)' BY <1>j, <1>w, <2>1 DEF Asked, Answered, Meant, OwnWords
  <2>3. \A u \in Threads : u # t => Kept(u)
    BY <1>d, <1>5 DEF SendHeader, Goto, Kept, Meant, browserVars
  <2> QED BY <1>k, <2>2, <2>3
<1>6. ASSUME NEW t \in Threads, SendLast(t) PROVE \A u \in Threads : Asked(u)'
  <2>1. /\ pc[t] = "body" /\ pc'[t] = "close"
        /\ UNCHANGED <<request, arrived, path, type, answer>>
    BY <1>d, <1>6 DEF SendLast, Goto, browserVars
  <2>2. path[t] \in Stored /\ stack[t] \in OwnWords BY <2>1 DEF Asked
  <2>3. stack'[t] \in OwnWords BY <1>d, <1>w, <1>6, <2>2 DEF SendLast
  <2>4. Asked(t)' BY <1>j, <2>1, <2>3 DEF Asked, Answered, Meant, OwnWords
  <2>5. \A u \in Threads : u # t => Kept(u)
    BY <1>d, <1>6 DEF SendLast, Goto, Kept, Meant, browserVars
  <2> QED BY <1>k, <2>4, <2>5
<1>7. ASSUME NEW t \in Threads, Close(t) PROVE \A u \in Threads : Asked(u)'
  <2>1. /\ pc[t] = "close" /\ pc'[t] = "free"
        /\ UNCHANGED <<request, arrived, path, type, stack, answer>>
    BY <1>d, <1>7 DEF Close, Goto, threadVars, browserVars
  <2>2. Asked(t)' BY <1>j, <2>1 DEF Asked, Answered, Meant, OwnWords
  <2>3. \A u \in Threads : u # t => Kept(u)
    BY <1>d, <1>7 DEF Close, Goto, threadVars, Kept, Meant, browserVars
  <2> QED BY <1>k, <2>2, <2>3
<1>8. ASSUME NEW t \in Threads, SendChunk(t) PROVE \A u \in Threads : Asked(u)'
  <2>1. /\ pc[t] = "body" /\ UNCHANGED <<pc, path, type, request, arrived, answer>>
        /\ stack' = [stack EXCEPT ![t] = WordOf[path[t]]]
    BY <1>8 DEF SendChunk, browserVars
  <2>2. path[t] \in Stored BY <2>1 DEF Asked
  <2> QED BY <1>d, <1>k, <1>w, <2>1, <2>2 DEF Kept, Meant
<1>12. ASSUME NEW t \in Threads, Overrun(t) \/ Leave(t) \/ BrokenPipe(t)
      PROVE  \A u \in Threads : Asked(u)'
  <2>1. UNCHANGED <<pc, path, type, request, arrived, stack, answer>>
    BY <1>12 DEF Overrun, Leave, BrokenPipe, threadVars, browserVars
  <2> QED BY <1>k, <2>1 DEF Kept, Meant
<1>11. ASSUME NEW t \in Threads, Ask(t) \/ RestArrives(t) PROVE \A u \in Threads : Asked(u)'
  <2>1. pc[t] = "read" /\ UNCHANGED <<pc, path, type, stack, answer>>
    BY <1>11 DEF Ask, RestArrives, threadVars
  <2>2. Asked(t)' BY <2>1 DEF Asked, Answered, OwnWords
  <2>3. \A u \in Threads : u # t => Kept(u)
    BY <1>d, <1>11, <2>1 DEF Ask, RestArrives, Kept, Meant
  <2> QED BY <1>k, <2>2, <2>3
<1>9. ASSUME NEW p \in Stored, Edit(p) PROVE \A u \in Threads : Asked(u)'
  BY <1>k, <1>9 DEF Edit, browserVars, threadVars, Kept, Meant
<1>10. ASSUME UNCHANGED vars PROVE \A u \in Threads : Asked(u)'
  BY <1>k, <1>10 DEF vars, browserVars, threadVars, Kept, Meant
<1> QED
  BY <1>1, <1>2, <1>3, <1>4, <1>5, <1>6, <1>7, <1>8, <1>9, <1>10, <1>11, <1>12
     DEF Next, Serve

(***************************************************************************)
(* A request that is there whole is answered as asked, whatever earlier     *)
(* connections have left in buf; one that is not is completed only by text  *)
(* that the server itself has put there (webserver.c:78-185).               *)
(***************************************************************************)
THEOREM AnswersWhatWasAsked == Spec => []AnswersRequest
<1> DEFINE Inv == IInv /\ \A t \in Threads : Asked(t)
<1>1. Init => Inv
  <2> SUFFICES ASSUME Init, NEW t \in Threads PROVE Asked(t)
    BY InitType DEF Init, IInv, Sent, Nothing
  <2>1. /\ pc[t] = "free" /\ stack[t] = Absent /\ path[t] = Absent
        /\ arrived[t] = "none" /\ answer[t].status = 0
    BY DEF Init, Nothing
  <2>2. Absent \in MayMean(t) BY <2>1 DEF MayMean, OwnWords
  <2>3. Wanted(Absent) = Absent BY UriAssumption DEF Wanted
  <2> QED BY <2>1, <2>2, <2>3 DEF Asked, Typed, Answered, OwnWords
<1>2. Inv /\ [Next]_vars => Inv'
  BY Inductive, AskedStep
<1>3. Inv => AnswersRequest
  <2> SUFFICES ASSUME Inv, NEW t \in Threads, Answered(t)
               PROVE  \E u \in MayMean(t) : AnsweredAs(t, u)
    BY DEF AnswersRequest
  <2>1. PICK u \in MayMean(t) : path[t] = Wanted(u) /\ Typed(u, type[t])
    BY DEF Asked, Answered
  <2>2. Wanted(u) \in Stored => u # Absent BY UriAssumption DEF Wanted
  <2> QED BY <2>1, <2>2 DEF Asked, Typed, AnsweredAs
<1> QED BY <1>1, <1>2, <1>3, PTL DEF Spec
=============================================================================
