------------------------------ MODULE Webserver ------------------------------
(***************************************************************************)
(* The web server (webserver.c): a thread per connection reads a request,  *)
(* makes a path and a content type of its URI, and sends the file in one    *)
(* buffer or in chunks.  Threads share the process, the files and, one      *)
(* after the other, their stacks.                                           *)
(***************************************************************************)
EXTENDS Integers, Sequences

CONSTANTS
  Threads,
  Uris,         \* second words of requests
  IndexUris,    \* those that mean the index page: "/" and "index.html"
  Index,        \* its path, "index.html"
  PathOf,       \* PathOf[u]: the path that u names, its first character dropped
  Suffix,       \* Suffix[u]: the letters after its last period, or NoPeriod
  NoPeriod,
  Number,       \* second word of the server's own first line, "200" or "500"
  Absent,       \* no word; no request; a path that cannot be opened
  Joined,       \* Joined[u][w]: the URIs sscanf may find once a part of a request
                \* for u has been read over text whose second word was w
  Paths,
  Stored,       \* the paths of the files that exist
  SizeOf,       \* SizeOf[p]: the sizes of the versions of the file p
  WordOf,       \* WordOf[p]: second word of what its last chunk reads like
  MAXBUF,
  HEADER,       \* header_size
  MaxRequests   \* connections (a bound)

ASSUME UriAssumption ==
  /\ Number \in Uris /\ Suffix[Number] = NoPeriod
  /\ IndexUris \subseteq Uris /\ Index \in Stored /\ Stored \subseteq Paths
  /\ PathOf \in [Uris -> Paths \cup {Absent}]
  /\ Absent \notin Uris \cup Paths
  /\ WordOf \in [Stored -> Uris \cup {Absent}]
  /\ Joined \in [Uris -> [Uris \cup {Absent} -> (SUBSET (Uris \cup {Absent})) \ {{}}]]
ASSUME SuffixAssumption ==
  /\ \A u \in IndexUris : Suffix[u] \in {NoPeriod, <<"h", "t", "m", "l">>}
  /\ NoPeriod \notin {<<"h", "t", "m", "l">>, <<"p", "n", "g">>, <<"t", "x", "t">>, <<"j", "s">>}
ASSUME SizeAssumption ==
  /\ MAXBUF \in Nat \ {0} /\ HEADER \in Nat
  /\ SizeOf \in [Stored -> Seq(Nat)] /\ \A p \in Stored : SizeOf[p] # <<>>

VARIABLES
  alive,     \* the process is up
  pc,        \* place in echo
  request,   \* the URI of the browser's request, Absent if it has sent nothing
  arrived,   \* how much of the request there is to read: "none", "part", "whole"
  gone,      \* the browser has closed the connection
  stack,     \* the URI sscanf finds in buf as it is
  path,      \* file_path
  type,      \* content_type
  size,      \* file_length
  left,      \* bytes_left
  since,     \* version of the file when it was opened
  answer,    \* header that has been written to the browser
  body,      \* and what has been written after it
  version,   \* version[p]: the version of the file now
  requests   \* connections so far (for the bound)

browserVars == <<request, arrived, gone>>
threadVars == <<stack, path, type, size, left, since>>
vars == <<alive, pc, browserVars, threadVars, answer, body, version, requests>>

Types == {"text/html", "text/plain", "image/png", "image/gif", "image/jpg",
          "text/css", "application/javascript"}
States == {"free", "read", "open", "header", "body", "close"}
\* A byte of a file is <<path, version, position>>; this one bzero has cleared.
Zero == <<Absent, 0, 0>>
Nothing == [status |-> 0, type |-> Absent, length |-> 0]

Init ==
  /\ alive = TRUE
  /\ pc = [t \in Threads |-> "free"]
  /\ request = [t \in Threads |-> Absent]
  /\ arrived = [t \in Threads |-> "none"]
  /\ gone = [t \in Threads |-> FALSE]
  /\ stack = [t \in Threads |-> Absent]
  /\ path = [t \in Threads |-> Absent]
  /\ type = [t \in Threads |-> "text/plain"]
  /\ size = [t \in Threads |-> 0]
  /\ left = [t \in Threads |-> 0]
  /\ since = [t \in Threads |-> 1]
  /\ answer = [t \in Threads |-> Nothing]
  /\ body = [t \in Threads |-> <<>>]
  /\ version = [p \in Stored |-> 1]
  /\ requests = 0

Goto(t, there) == pc' = [pc EXCEPT ![t] = there]

-----------------------------------------------------------------------------
\* Lines 37-40: a connection and a thread for it, on a stack that is not
\* cleared.
Accept(t) ==
  /\ alive /\ pc[t] = "free" /\ requests < MaxRequests
  /\ Goto(t, "read")
  /\ request' = [request EXCEPT ![t] = Absent]
  /\ arrived' = [arrived EXCEPT ![t] = "none"]
  /\ gone' = [gone EXCEPT ![t] = FALSE]
  /\ answer' = [answer EXCEPT ![t] = Nothing]
  /\ body' = [body EXCEPT ![t] = <<>>]
  /\ requests' = requests + 1
  /\ UNCHANGED <<alive, threadVars, version>>

\* The browser sends its request, of which the network may deliver a part
\* first; it may also send nothing.  "whole": the URI and what ends it are there.
Ask(t) ==
  /\ alive /\ pc[t] = "read" /\ ~gone[t] /\ request[t] = Absent
  /\ \E u \in Uris : request' = [request EXCEPT ![t] = u]
  /\ \E much \in {"part", "whole"} : arrived' = [arrived EXCEPT ![t] = much]
  /\ UNCHANGED <<alive, pc, gone, threadVars, answer, body, version, requests>>
RestArrives(t) ==
  /\ alive /\ pc[t] = "read" /\ arrived[t] = "part"
  /\ arrived' = [arrived EXCEPT ![t] = "whole"]
  /\ UNCHANGED <<alive, pc, request, gone, threadVars, answer, body, version, requests>>

\* Line 78: read waits for the first bytes or the end of the connection.
ReadReturns(t) == arrived[t] # "none" \/ gone[t]

\* Lines 78-85: the URIs sscanf may find.  buf is not cleared and what is read
\* not terminated: what an earlier connection left there completes a request
\* that has come in part, and stands for one that has not come.
Found(t) ==
  CASE arrived[t] = "whole" -> {request[t]}
    [] arrived[t] = "part" -> Joined[request[t]][stack[t]]
    [] OTHER -> {stack[t]}

Begins(word, w) == Len(w) <= Len(word) /\ \A i \in 1..Len(w) : word[i] = w[i]
\* Lines 113-129: the first of the names that file_type begins with.
TypeFor(s) ==
  CASE Begins(s, <<"h", "t", "m", "l">>) -> "text/html"
    [] Begins(s, <<"p", "n", "g">>) -> "image/png"
    [] Begins(s, <<"g", "i", "f">>) -> "image/gif"
    [] Begins(s, <<"j", "p", "g">>) -> "image/jpg"
    [] Begins(s, <<"c", "s", "s">>) -> "text/css"
    [] Begins(s, <<"j", "s">>) -> "application/javascript"
    [] OTHER -> "text/plain"

\* The search of line 106 ends inside request_uri, and what line 110 copies
\* fits the four bytes of file_type.
InBounds(u) == /\ u # Absent /\ Suffix[u] # NoPeriod /\ Len(Suffix[u]) <= 4

\* Lines 78-131, for the URI u.
Read(t) ==
  /\ alive /\ pc[t] = "read" /\ ReadReturns(t)
  /\ \E u \in Found(t) :
       /\ \/ /\ u \in IndexUris
             /\ path' = [path EXCEPT ![t] = Index]
             /\ type' = [type EXCEPT ![t] = "text/html"]
          \/ /\ u \notin IndexUris /\ InBounds(u)
             /\ path' = [path EXCEPT ![t] = PathOf[u]]
             /\ type' = [type EXCEPT ![t] = TypeFor(Suffix[u])]
          \* Bytes below request_uri are copied over those behind file_type.
          \* If the process survives it, any name may match.
          \/ /\ u \notin IndexUris /\ ~InBounds(u)
             /\ path' = [path EXCEPT ![t] = IF u = Absent THEN Absent ELSE PathOf[u]]
             /\ \E any \in Types : type' = [type EXCEPT ![t] = any]
       /\ stack' = [stack EXCEPT ![t] = u]
  /\ Goto(t, "open")
  /\ UNCHANGED <<alive, browserVars, size, left, since, answer, body, version, requests>>
\* And if it does not, all connections end with it.
Overrun(t) ==
  /\ alive /\ pc[t] = "read" /\ ReadReturns(t)
  /\ \E u \in Found(t) : u \notin IndexUris /\ ~InBounds(u)
  /\ alive' = FALSE
  /\ UNCHANGED <<pc, browserVars, threadVars, answer, body, version, requests>>

\* Lines 135-139.
\* Mutant: the file is waited for.
OpenFails_Waits(t) ==
  /\ alive /\ pc[t] = "open" /\ path[t] \notin Stored
  /\ UNCHANGED vars
OpenFails(t) ==
  /\ alive /\ pc[t] = "open" /\ path[t] \notin Stored
  /\ answer' = [answer EXCEPT ![t].status = 500]
  /\ stack' = [stack EXCEPT ![t] = Number]
  /\ Goto(t, "close")
  /\ UNCHANGED <<alive, browserVars, path, type, size, left, since, body, version, requests>>
\* Lines 141-146: the size is taken when the file is opened.
OpenFile(t) ==
  /\ alive /\ pc[t] = "open" /\ path[t] \in Stored
  /\ since' = [since EXCEPT ![t] = version[path[t]]]
  /\ size' = [size EXCEPT ![t] = SizeOf[path[t]][version[path[t]]]]
  /\ Goto(t, "header")
  /\ UNCHANGED <<alive, browserVars, stack, path, type, left, answer, body, version, requests>>

\* Lines 147-151 and 164-168: the header goes in a write of its own.
OneBuffer(t) == size[t] + HEADER <= MAXBUF
\* Mutant: the header is sent from header_buf, and buf keeps the request.
SendHeader_KeepsBuf(t) ==
  /\ alive /\ pc[t] = "header"
  /\ answer' = [answer EXCEPT ![t] = [status |-> 200, type |-> type[t], length |-> size[t]]]
  /\ left' = [left EXCEPT ![t] = size[t]]
  /\ Goto(t, "body")
  /\ UNCHANGED <<alive, browserVars, stack, path, type, size, since, body, version, requests>>
SendHeader(t) ==
  /\ alive /\ pc[t] = "header"
  /\ answer' = [answer EXCEPT ![t] = [status |-> 200, type |-> type[t], length |-> size[t]]]
  /\ left' = [left EXCEPT ![t] = size[t]]
  /\ stack' = [stack EXCEPT ![t] = Number]
  /\ Goto(t, "body")
  /\ UNCHANGED <<alive, browserVars, path, type, size, since, body, version, requests>>

\* What fread puts into the cleared buffer: bytes of the version v from the
\* position that the answer has reached, then zeros.
ByteOf(p, v, i) == IF i <= SizeOf[p][v] THEN <<p, v, i>> ELSE Zero
Chunk(t, v, k) == [i \in 1..k |-> ByteOf(path[t], v, Len(body[t]) + i)]
\* The file may be replaced while it is sent, and stdio may have read ahead.
SendBytes(t, k) ==
  \E v \in since[t]..version[path[t]] : body' = [body EXCEPT ![t] = @ \o Chunk(t, v, k)]

MoreThanABuffer(n) == n > MAXBUF
\* Lines 169-176.
SendChunk(t) ==
  /\ alive /\ pc[t] = "body" /\ ~OneBuffer(t) /\ MoreThanABuffer(left[t])
  /\ SendBytes(t, MAXBUF)
  /\ left' = [left EXCEPT ![t] = @ - MAXBUF]
  /\ stack' = [stack EXCEPT ![t] = WordOf[path[t]]]
  /\ UNCHANGED <<alive, pc, browserVars, path, type, size, since, answer, version, requests>>
\* Lines 153-158 and 178-185: one buffer, or the last of them.
\* Mutant: the buffer is sent whole.
LastBytes_Buffer(t) == MAXBUF
LastBytes(t) == left[t]
SendLast(t) ==
  /\ alive /\ pc[t] = "body" /\ (OneBuffer(t) \/ ~MoreThanABuffer(left[t]))
  /\ SendBytes(t, LastBytes(t))
  /\ stack' = IF OneBuffer(t) THEN stack ELSE [stack EXCEPT ![t] = WordOf[path[t]]]
  /\ Goto(t, "close")
  /\ UNCHANGED <<alive, browserVars, path, type, size, left, since, answer, version, requests>>

\* Line 53.
Close(t) ==
  /\ alive /\ pc[t] = "close"
  /\ Goto(t, "free")
  /\ UNCHANGED <<alive, browserVars, threadVars, answer, body, version, requests>>

\* The browser closes the connection; the second write after that is SIGPIPE,
\* which ends the process.
Leave(t) ==
  /\ alive /\ pc[t] # "free" /\ ~gone[t]
  /\ gone' = [gone EXCEPT ![t] = TRUE]
  /\ UNCHANGED <<alive, pc, request, arrived, threadVars, answer, body, version, requests>>
BrokenPipe(t) ==
  /\ alive /\ gone[t] /\ pc[t] = "body"
  /\ alive' = FALSE
  /\ UNCHANGED <<pc, browserVars, threadVars, answer, body, version, requests>>

\* Someone writes a new version of a file in place.
Edit(p) ==
  /\ alive /\ version[p] < Len(SizeOf[p])
  /\ version' = [version EXCEPT ![p] = @ + 1]
  /\ UNCHANGED <<alive, pc, browserVars, threadVars, answer, body, requests>>

Serve(t) == \/ Read(t) \/ Overrun(t) \/ OpenFails(t) \/ OpenFile(t)
            \/ SendHeader(t) \/ SendChunk(t) \/ SendLast(t) \/ Close(t)
Next == \/ \E t \in Threads : \/ Accept(t) \/ Ask(t) \/ RestArrives(t) \/ Serve(t)
                               \/ Leave(t) \/ BrokenPipe(t)
        \/ \E p \in Stored : Edit(p)

Spec == Init /\ [][Next]_vars
\* Threads run; browsers and authors owe nothing.  A write is taken to end: a
\* browser that neither reads nor closes is not modelled.
FairSpec == Spec /\ \A t \in Threads : WF_vars(Serve(t))

-----------------------------------------------------------------------------
TypeOK ==
  /\ alive \in BOOLEAN /\ pc \in [Threads -> States]
  /\ request \in [Threads -> Uris \cup {Absent}]
  /\ arrived \in [Threads -> {"none", "part", "whole"}] /\ gone \in [Threads -> BOOLEAN]
  /\ \A t \in Threads : arrived[t] # "none" => request[t] # Absent
  /\ stack \in [Threads -> Uris \cup {Absent}]
  /\ path \in [Threads -> Paths \cup {Absent}] /\ type \in [Threads -> Types]
  /\ size \in [Threads -> Nat] /\ left \in [Threads -> Nat]
  /\ since \in [Threads -> Nat \ {0}]
  /\ answer \in [Threads -> [status : {0, 200, 500}, type : Types \cup {Absent}, length : Nat]]
  /\ body \in [Threads -> Seq((Paths \cup {Absent}) \X Nat \X Nat)]
  /\ version \in [Stored -> Nat \ {0}]
  /\ \A p \in Stored : version[p] <= Len(SizeOf[p])
  /\ requests \in Nat

\* The thread has answered and not yet taken another connection.
Answered(t) == pc[t] = "free" /\ answer[t].status # 0

(***************************************************************************)
(* Content-Length counts the bytes that follow, at every size around       *)
(* MAXBUF and also when the file becomes longer or shorter while it is      *)
(* sent: the browser knows where the page ends.                            *)
(***************************************************************************)
LengthKept == \A t \in Threads : Answered(t) => Len(body[t]) = answer[t].length

(***************************************************************************)
(* The bytes sent are those of the file, each in its place, of one version *)
(* if the file was not replaced in the meantime.                           *)
(***************************************************************************)
BytesInPlace ==
  \A t \in Threads : \A i \in DOMAIN body[t] :
    LET b == body[t][i]
    IN  IF b = Zero THEN since[t] < version[path[t]]
        ELSE /\ b[1] = path[t] /\ b[3] = i
             /\ since[t] = version[path[t]] => b[2] = since[t]

(***************************************************************************)
(* A page arrives as it is: as long as announced, its bytes in place.      *)
(***************************************************************************)
PageIntact == LengthKept /\ BytesInPlace

(***************************************************************************)
(* A browser whose request is there when the thread reads gets the file it *)
(* asked for under the type of its suffix, or an error if there is none,    *)
(* whatever earlier connections have left in buf.  One whose request came   *)
(* in part, or not at all, gets what it makes with text the server itself   *)
(* has put there: what another browser asked for is never answered to it    *)
(* (webserver.c:78-185).                                                   *)
(***************************************************************************)
Mime == [html |-> <<"h", "t", "m", "l">>, png |-> <<"p", "n", "g">>,
         txt |-> <<"t", "x", "t">>, js |-> <<"j", "s">>]
TypeOf == [html |-> "text/html", png |-> "image/png", txt |-> "text/plain",
           js |-> "application/javascript"]
Wanted(u) == IF u \in IndexUris THEN Index
             ELSE IF u = Absent THEN Absent ELSE PathOf[u]
AnsweredAs(t, u) ==
  IF Wanted(u) \in Stored
    THEN /\ answer[t].status = 200 /\ path[t] = Wanted(u)
         /\ \A m \in DOMAIN Mime : Suffix[u] = Mime[m] => answer[t].type = TypeOf[m]
    ELSE answer[t].status = 500

\* Nothing, the server's own first line, the end of a file.
OwnWords == {Absent, Number} \cup {WordOf[p] : p \in Stored}
MayMean(t) ==
  CASE arrived[t] = "whole" -> {request[t]}
    [] arrived[t] = "part" -> UNION {Joined[request[t]][w] : w \in OwnWords}
    [] OTHER -> OwnWords
AnswersRequest ==
  \A t \in Threads : Answered(t) => \E u \in MayMean(t) : AnsweredAs(t, u)

(***************************************************************************)
(* "retrieve the file the client requests and send it back with the correct *)
(* http header" (www/readme.txt:4): whatever the network makes of the       *)
(* request.  One that comes in two pieces is answered as if it ended with   *)
(* what an earlier connection left behind it (webserver.c:78-85).           *)
(***************************************************************************)
AnswersEveryRequest ==
  \A t \in Threads : Answered(t) /\ request[t] # Absent => AnsweredAs(t, request[t])

(***************************************************************************)
(* A connection whose browser has sent something, or has gone, is answered *)
(* and closed, or the process has ended.  A browser that does neither holds *)
(* its thread at read (webserver.c:78).                                    *)
(***************************************************************************)
RequestsEnd ==
  \A t \in Threads :
    pc[t] = "read" /\ ReadReturns(t) ~> pc[t] = "free" \/ ~alive
=============================================================================
