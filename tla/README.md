# Verification of NetworkSystemsProjects

TLA+ models of the programs in this repository, TLC configurations that check
them on small instances, and theorems about them that TLAPS proves for every
value of the constants.

The repository holds four network programs written in C for a course: a
distributed file system (DFS), a caching HTTP proxy, a UDP file store and a
small web server. They share no code. What they have in common is what makes
them hard to test: threads over one directory or one list without a lock that
lasts long enough, sockets whose other end may be gone, stack and heap memory
that still holds what the connection before left in it.

Source paths below are relative to `src/`; `S` is
`DistributedFileSystem/server/DFS_server.c`, `C` is
`DistributedFileSystem/client/DFS_client.c`, `X` is
`ProxyServer/proxyserver_with_cache.c`, `E` and `N` are `proxyserver.c` and
`proxyserver_no_cache.c` beside it, `W` is `TCPWebserver/www/webserver.c`, `US` and
`UC` are `udp_server.c` and `udp_client.c` of `UDPFileStorageServerAndClient`.

## 1. Inventory

| Component | State it keeps | Operations | Hard behaviour | What makes it correct |
|---|---|---|---|---|
| **DFS server** (`S`) | one directory tree per server, `user/` and `user/sub/` with files `.name.part`; per thread the stack variables of `handle_request` | accept, login, scan for the user's directory and make it, `list`, `put`, `get`, `MKDIR`; a thread per connection, no lock | threads of one user over the same files; `exit(0)` and SIGPIPE end every connection; reads at the end of a stream; a kill between `fopen` and `fclose`; reads that return part of a write or of several | parts are stored whole, under their number and their user; answers can be cut back into parts; the process stays up; threads end |
| **DFS client** (`C`) | the socket and login of the current server, `pair_to_send`, the parts still wanted, four heap buffers, the last header, open descriptors | for each typed command a loop over the four servers: connect, login, command, parts or answers | servers that are down, die or refuse; variables that keep what an earlier part or command left; no acknowledgement of a put; buffers freed on some paths and not on others; sockets never closed | a file survives one outage; what get writes is a file somebody put; only memory in use is freed; commands end |
| **DFS placement** (`C` 266-342, `get_md5_mod`) | none | sizes of the parts, digest to pair, wrapping of the pair | wraps and remainders | any three servers hold all parts |
| DFS configuration files | none | two text files read at the start | none | their result are constants here |
| **Proxy with cache** (`X`) | a linked list of nodes under a semaphore; one cache file per resource; the process's `gethostbyname` structure; per thread the stack of `proxyGet` | look up host and file, compare the age, send the cached copy, resolve, check the blacklist, fetch while storing, renew the timestamp or add a node | the semaphore covers single list operations; files have no lock; `gethostbyname` has one result for all threads; nodes come from uncleared memory; `read` that returns -1 | blacklisted hosts are never fetched; one node per file; whole files; whole answers; requests end |
| **Proxy, earlier versions** (`N`, `E`) | `N`: the lookup structure; `E`: also a list with one node per host, and the cache files | relay; or look up the file's node, compare its age, send the copy, or fetch, store and renew the *host's* node | as above; a node stands for one resource but is renewed by all of its host | a browser gets the page it asked for from the host it named; requests end |
| Linked list test program | a list | single-threaded insert and search | none | none of its own |
| **UDP file store** (`US`, `UC`) | server: its files, `store_command`, `store_filename`; client: the same two and one reply at a time | `get`, `put` (two datagrams), `ls`, `delete`, `exit` | a file is told from a command only by when it arrives; no sequence numbers, acknowledgements or timeouts; words `sscanf` does not find keep their values | a lone client's files are what it put; an answer belongs to its question; the server ends only on `exit` |
| UDP echo skeleton | none | echo | none | the unchanged hand-out |
| **Web server** (`W`) | per thread the stack of `echo`; the files | one request per thread: parse, find the suffix, open, send the header and the file in one buffer or in chunks | a stack that holds an earlier request; a search without bounds; sizes around MAXBUF; a file replaced while it is sent; SIGPIPE | the length announced is the length sent; the bytes are the file's; the answer is to the request; connections end |
| Snippets, drafts, static pages | none | none | none | not programs that run |

How they interact: a DFS client talks to one server at a time over a new TCP
connection per server and command; the four servers know nothing of each other.
Handler threads of one server meet only in the directory tree and in the process
they all end with. Proxy threads meet in the list, the cache files and
libc's lookup structure. UDP clients meet in the server's two command variables
and its files. Threads of the web server meet in the files they read and in the
process a broken pipe ends; a thread also meets the one that had its stack before.

The hazards, each at its line with the properties that cover it, are in
`PROJECT.json`; a hazard without a property has a note that says why.

## 2. Modules

| Module | Role |
|---|---|
| `DFSPlacement` | the pure part of put: `part_size`, `get_md5_mod`, the pair for each server |
| `DFSServer` | the servers: every step of `handle_request`, `main`'s accept loop, faults; extends `DFSPlacement` |
| `DFSServerOpen` | `DFSServer` under any clients that speak the protocol |
| `DFSCommand` | the variables of a client's command and what it writes to each server |
| `DFS` | `DFSServer` composed with the clients' command loops |
| `DFSInvariants` | the inductive invariants of `DFS`, with the parts they are conjunctions of |
| `FileStore` | the abstract promise: a path holds the last content put, get copies it |
| `PartStream` | the bytes of one DFS connection, with reads that return any number of them |
| `ProxyCache` | the caching proxy, its browsers and the origin servers |
| `ProxyEarlier` | the relay and the proxy with one node per host |
| `UDPStore` | the UDP server, its clients and the network |
| `Webserver` | the threads of the web server, the browsers and whoever edits the pages |
| `MCServer`, `MCDFS`, `MCPart`, `MCProxy`, `MCEarlier`, `MCUDP`, `MCWeb` | values for the constants |
| `DFSServerProofs`, `DFSServerOpenProofs`, `DFSProofs`, `PartStreamProofs`, `ProxyCacheProofs`, `ProxyEarlierProofs`, `UDPStoreProofs`, `WebserverProofs` | theorems |

An operator named `X_Something` next to `X` is a mutant: `X` as a plausible slip
of the programmer would have it. Every property of every passing run is violated
when one of them takes the place of the definition it stands beside, so no
property holds merely because the model cannot break it.

### DFSServer

`inbox[h]` and `reply[h]` are the two directions of a connection, one message per
`write`; `pc[h]` is the place in `handle_request`; `frame[h]` its locals; `disk`
and `dirs` the trees; `status[s]` whether the process is up, killed or has
called `exit`. The actions, in the order of the code:

| Action | `S` | |
|---|---|---|
| `Accept` | 103-118 | a thread for a new connection, what the client will write in its inbox |
| `Authenticate` | 147-172 | compares the pair with the accounts and answers |
| `ScanForDirectory`, `MakeUserDirectory`, `UserDirectoryExists` | 174-200 | `opendir`/`readdir` is one step, `mkdir` another; a failing `mkdir` is `exit(0)` |
| `ReadCommand` | 199-218 | at the end of the stream the variables keep what the stack holds |
| `List`, `ListUnopened` | 219-239 | the names and part numbers, or nothing |
| `OpenPart`, `WritePart`, `Spin` | 252-288 | header, `fopen("w")` (truncates), data, `fclose` |
| `ReadRequest`, `ServeHeader`, `SendPart`, `ServeNothing`, `ServeUnopened` | 291-396 | at most two parts per connection |
| `BrokenPipe`, `Crash`, `Restart` | 366-376, 102-108 | SIGPIPE; kill and restart over the same tree |

A stack that is not cleared matters here: a thread's stack is the one a finished
thread left behind, so a `sscanf` that assigns nothing leaves the command of the
connection that used it before. `cmd[h]` therefore survives the connection, and
`AsCommand` chooses from it at the end of the stream.

A piece of a file or of a stream is abstracted to *a whole part of a content*, *the front of
one*, *n zero bytes*, or *n bytes of mixed origin*, together with `good`, the number of bytes at
its beginning that are of the content and part it names. stdio writes a part to the file in
blocks (`Block`), each thread at its own place in the file: `out` in the frame is the number of
bytes of the part that are there, `WritePart` the write of one block more, the last of
them at `fclose`. `Overwritten` says what a block makes of what the file holds by then: a front grows
when a block of the same part comes at or before its end, a block of another part
leaves a mixture. `ReadBack` says what a read of a file changed meanwhile yields.

### DFSServerOpen

A session is everything one connection will carry; `Dial` opens one, `HangUp` one whose
client goes away after any prefix of it. `overlapped` is history: the files that were opened
last while another thread was writing them. `WholeWhenQuiet` is what a file is when nobody
writes it: whole, unless threads wrote it at a time; then whole only where all puts of it have
one size and fit in one block. `StoresPieces` is the same without the exception, which is what the readme
leads one to expect and the code does not do. `OwnParts` is about a handler
whose client left after the login: it carries out the command it finds on its stack
(`S:206`), which must not touch a part that no session of that user was to put.

### DFS

One action per step of a command: `Enter` (the user types), `Connect`,
`ServerOffline`, `LoginAccepted`, `LoginRefused`, `Write`, `WriteBroken`,
`ReadListing`, `NoMoreParts`, `ReadHeader`, `ReadGarbage`, `ReadBytes`,
`SpinClient`, `Finish`, `Kill`, and `PutUnopened` for a file that is not there. `job[c]` holds the variables of one command;
`last[c]` those that a command leaves to the next one (`arg1`, `arg2`). The
history variables `latest` and `missed` record the last content put and the
servers that put did not reach; no action reads them.

Two resources of the process outlive a command. `heap[c]` is what each of the four
pointers of `file_bufs` holds: `unset` (the stack's garbage, then whatever it was),
`live`, `freed`. `Malloc` and `FreeAll` change it as the code does: put frees all four at
its end even if the file could not be opened (`C:351`), get frees them only when it found
every part. `open[c]` counts descriptors: put, get and MKDIR close none of their
sockets (`C:282`), a server that cannot be connected costs one too, and at `MaxFiles`
(the process's limit) `socket` fails and every server looks offline.

`ImplementsFileStore` is the refinement: with `stored <- latest` and the client's
file read as a content, every step of the system is a step of `FileStore` or a
stutter.

### PartStream

`DFSServer` and `DFS` let one `read` take what one `write` sent. TCP promises less, and
`PartStream` is about that difference alone: two parts cross a connection, as the
numbers of bytes `sent` and `taken`, towards the loop of the server (`S:253-288`) or that
of the client (`C:408-449`), which differ: the server writes a whole buffer at its own
position whatever a read returned, the client copies a whole buffer and advances by
what it read. `ReadHeader`, `ReadBlock`, `ReadRest` and their likes return any number of
bytes from 1 to what has come and was asked for, 0 at the end. `short` records which
kinds of reads returned less. A receiver that has read a header from the wrong
place is `lost`: what it makes of it is not followed, only that it happened and why.

### ProxyCache

A document is a sequence of chunks of one version of one resource, a chunk being
what one `read` moves. `nodes` is the list, the blacklist at its front as `main`
builds it. Since `search_hosts`, `search_host_files` and `add_host` hold the
semaphore to their end, each is one step; nothing is held between them, so the
steps in `Serve` interleave freely with those of the other threads.

- A file being written has on disk what stdio has flushed: `Receive` lets any
  number of the chunks read reach the disk, `EndTransfer` (`fclose`) the rest.
  `fopen("w")` truncates under other writers, whose next flush goes to their own
  offset and leaves a hole of zeros: `Written`.
- A copy that is being sent may have had its first buffer read when its size was
  taken (`fseek` reads a block in glibc): `copy` in the frame, used by `ReadChunk`.
- `malloc` may hand out used memory (`Recycled`), and strings are copied into a
  node without their final zero (`X:488-491`), so what follows them there may make of one any
  other that it begins (`Prefixed` says which) or a string that is none of the run's (`Garbled`):
  `Continued`, `Copied`. The blacklist's nodes are made first, in memory that is still zero.
- `hostent` is `gethostbyname`'s structure; `Resolve`, `ReadAddress` and
  `FindAddress` are three steps because the code reads it after the call.
- When the connection or a read fails, `read` returns -1 for ever: `Fail` leads to
  `Spin`, a loop that writes blocks of zeros (`fwrite` with a size of -1).
- `BrowserGone` is SIGPIPE; it ends the process.

### ProxyEarlier

Both stages in one module, told apart by `build`: `relay` is `N`, `cache` is `E`. Their
threads look a resource up, connect, transfer and answer as in `ProxyCache`; what is new
is how `E` uses the list. A resource is found by its file (`E:228`), but after a transfer
the node of the *host* is renewed (`E:320-323`), and only a host without a node gets one.
`FreshHost` is the guarantee that leaves, `FreshCopy` the one the comment at `E:233` asks
for. `recorded` and `overtaken` are history.

Files are not locked and a page is fetched into the very file others send it from. Of a file
the model keeps what it consists of: the pages, or zeros, whose bytes were written to it since it was
truncated, and whether it is one page from beginning to end (`whole`); where each piece lies is in
`ProxyCache`. `Create` truncates it under whoever writes it (`intact` says who has not been), `Receive` and
`EndTransfer` write pieces and the last of them, `FillWithZeros` is the loop on a read that returned -1 (`E:309-316`),
`SendSome` and `SendLast` send a copy piece by piece, `Mixed` with whatever is in the file by then.
Strings are copied as in `ProxyCache` (`E:418-421`).

### Webserver

One action per step of `echo`: `Read` (the request, the path and the type), `Overrun`,
`OpenFails`, `OpenFile`, `SendHeader`, `SendChunk`, `SendLast`, `Close`. A connection begins
with nothing sent. `Ask` is the browser's request, of which all or a first piece is there
to be read, `RestArrives` the rest of it; `read` returns when something is there or the browser
has gone (`ReadReturns`) and is called once (`W:78`). `stack[t]` is the URI that `sscanf` would
find in `buf` if nothing were read into it. Since `buf` is neither cleared nor terminated, a
request read in part is completed by that text: `Joined[u][w]` are the URIs the two can make.
The search for a period in a URI that has none leaves the array (`W:105`); `Overrun` is the
process that does not survive what is copied then, and the third disjunct of `Read` the one
that does, with any type.
A byte of a file is its path, version and position, so `BytesInPlace` can say which file,
which version and where. `Edit` replaces a file while it is sent; stdio may have read
ahead, so `SendBytes` takes any version since the file was opened, and what `fread` does
not fill is zeros.

### UDPStore

A datagram is a line the user typed or the bytes of a file. `Words` is what
`sscanf` makes of either: a file may read like `exit`. The server's `phase` says
which `recvfrom` it waits in; after a `put` it takes the next datagram for the file,
whoever sent it. `DisturbRequests` and `DisturbReplies` lose, duplicate or reorder
a datagram, `LookupFails` is the `gethostbyaddr` error that ends the server. `mine`
is the store as it would be if a lone client's commands took effect when typed.

## 3. Runs

Passing runs exhaust their state space. The counts are distinct states.

| Run | Instance | Shows |
|---|---|---|
| `server_shared` (531,127) | a user with a directory and one without, two threads, contents with parts of equal sizes, one part of two blocks; put, get, MKDIR or a subdirectory that is missing, a password tried on the other's account | files nobody writes are whole unless long writers overlapped, answers are framed, each user's parts stay under its name, directories are there when needed |
| `server_faults` (20,681) | one connection at a time that may stop after any prefix, kills and restarts, parts of different sizes and larger than MAXBUF, one name a prefix of the other | parts keep their numbers; nothing is stored that no session was to put, also when a command is an earlier connection's; a thread ends or is in the endless loop |
| `dfs_outage` (164,640) | four servers, one client that waits for its puts, one server down at any time between commands; a get before the put and one after it, or a list | get and list give the file in spite of one outage; the client reads what it put, is not refused, frees only what it allocated, and its commands end |
| `dfs_crash` (94,185) | gets, a put and MKDIR, a server killed at any step, ctrl-c, parts larger than MAXBUF, five descriptors | the stream stays in step until it ends; commands end or spin |
| `dfs_versions` (56,357) | four servers, a file put again with a content whose digest names the same pair | the system implements `FileStore` |
| `part_stream` (60,016) | two parts of sizes around a buffer of 3 bytes, a header of 3, reads of any length, a sender that may hang up, both receivers | full reads store what was sent; the client mends short blocks; the server pads and never moves a byte; a receiver is lost only after a short header or rest; loops end |
| `proxy_cache` (1,262,845) | two threads, three requests for a page that changes once and a blacklisted advertisement whose file cannot be created, one tick, recycled memory in which the page's address may become another harmless one, failing servers | the blacklist, nodes have files, files end whole, undisturbed cached answers are whole, requests end or spin |
| `earlier_proxies` (2,856,606) | both builds, two threads, three requests for two resources of one host, one of a host at the same address, one that cannot be written, an unknown host; one tick, used memory, failing servers | what is sent is of the page asked for unless a look-up was overtaken; files nobody writes are whole; a copy is fresh only through its own host |
| `udp_store` (976,843) | two clients, two names, three commands, one lost, duplicated, reordered datagram or failed look-up, files that read like `exit` or like nothing | a lone client's files are what it put and the server ends only on exit, whatever happens to replies; without faults its answers match and come |
| `web_files` (468,985) | two threads, two connections; a page of one buffer, a picture of 9 bytes that becomes one of 4 = MAXBUF, a URI without a period, one that is the server's own text; requests whole, in two pieces or missing; browsers that leave | lengths and bytes are right, answers are to the request made or to what a piece of it makes with the server's own text, connections end or the process has |
| `server_race` (violation) | two threads, a user without a directory | `NeverExits` fails |
| `dfs_mixed` (violation) | a file put again with a digest of another class | `OneVersion` fails |

Why the bounds are enough. Two threads, since every hazard of shared files, lists
and lookups takes one thread that acts between two steps of another. All four
servers in `DFS`, because the wrap of the pairs needs them; one user at a time there,
since users never share a path (`server_shared` has two). Two contents, so that a mixture can be told from
a copy; lengths 9 and 17 give parts 2,2,2,3 and 4,4,4,5, 3 gives parts of no
bytes, and MAXBUF = 2 makes 3 the size that is too large for a buffer. stdio's blocks are of 2
bytes in `server_shared` and `MCServerOverlap`, where a part of 3 takes two writes and one of 2 a single one; elsewhere
every part fits (Block = 4096), since one thread writes a file there. In the
proxy a document of two chunks that becomes a shorter one of a single chunk
leaves a tail if a truncation is missed; three connections let a third request
meet what two others left; one tick exceeds the timeout of 0. In the UDP store three
commands are the least that let a stale word be left, picked up and noticed.
In `PartStream` the sizes run from 0 to over two buffers, so that a part is none, part of, one, and
more than a buffer; two parts show what the first leaves to the second. The picture
of the web server goes from 9 bytes (two buffers and one byte) to 4 (one full buffer) with
MAXBUF = 4, and its second connection runs beside the first or meets the stack it left. Five
descriptors are the standard three and two for sockets: the second command runs out.
Counters that would grow without end are bounded by constants: `MaxDown`, `MaxFiles` (in
the other runs 20, more than their commands use),
`MaxTime`, `MaxConnections`, `MaxRequests`, `MaxSpin`, `MaxCommands`, `MaxFaults`, and the
command sequences `Plans` and `Sessions`.

Deadlock checking is off in the runs marked `CHECK_DEADLOCK FALSE`: there users stop typing,
processes exit, and a stopped system is a legal end.

### Disagreements between the code and its documents

Two runs are expected to find a violation.

- `server_race`: two first connections of one new user end the server, `S:192`.
- `dfs_mixed`: a file put again with a digest of another class leaves parts of the old
  content where the new put does not go; get takes them, `C:278`.

TLC finds a violation in these further configurations too. They are kept because
they show that a condition of a passing run is needed, or what the code does where a run looks away:

| Configuration | Property | What it shows |
|---|---|---|
| `MCServerHangUp` | `NeverExits` | a client that leaves while it is answered ends the server (SIGPIPE, `S:366`) |
| `MCServerOverlap` | `StoresPieces` | two puts of one name at a time, in parts of two blocks, leave blocks of both in a part that nobody writes (`S:271`) |
| `MCServerPrefix` | `DirectoryReady` | `strncmp` with the length of the name takes the directory of *annabel* for that of *ann*, whose own is not made (`S:179`) |
| `MCDFSAsync` | `ReadsOwnPut` | a user who does not wait reads before the put is carried out |
| `MCDFSMidGet` | `OnlyWholeParts` | a server that dies during a get leaves a damaged part that counts as found |
| `MCDFSRefused` | `RefusedOnlyIfInvalid` | a server that dies before it answers looks like a refused login |
| `MCDFSGreedy` | `AvailableIsRetrieved` | a file put twice, each time with another server down: a server with more than two parts sends two and is not asked again (`C:408`), though get is to retrieve "all 4 parts" "from each server" (`DistributedFileSystem/readme.txt:26`) |
| `MCDFSMissing` | `FreesWhatItAllocated` | a put of a file that is not there frees pointers of the stack or of the command before (`C:351`) |
| `MCDFSSockets` | `OfflineOnlyIfDown` | descriptors run out in a long session and servers that are up are reported offline (`C:282`) |
| `MCPartShort` | `StoredAsSent` | one short read in a put leaves zeros in the server's file and shifts what follows (`S:275`) |
| `MCProxyTwice` | `OneNodePerFile` | two concurrent misses add two nodes for one file (`X:337`) |
| `MCProxyPrefix` | `NeverForbidden` | an address copied without its end reads on into a blacklisted one, is found as known and connected to unchecked (`X:489`) |
| `MCProxyNofile` | `FileBehindNode` | a file name copied without its end becomes that of another resource, whose file was never made (`X:490`) |
| `MCEarlierPrefix` | `FreshHost` | a host name copied without its end becomes another's, whose transfers then renew the node (`E:419`) |
| `MCEarlierTorn` | `CopiesComplete` | a copy is sent out of a file that has just been truncated or is being filled with zeros (`E:300`) |
| `MCEarlierFresh` | `FreshCopy` | an old copy passes for a fresh one because another resource of its host was fetched (`E:323`) |
| `MCEarlierOneFile` | `PageAsked` | two URIs that differ in a period and an underscore share a file, and one is answered with the other's page (`E:210`, likewise `X:223`) |
| `MCWebPieces` | `AnswersEveryRequest` | a request that comes in two pieces is answered as if what the buffer held behind the first were its end (`W:78`) |

Two smaller ones are visible without a run: the proxy's readme promises 500 for a host
that does not resolve and `X:400` sends 404; a UDP listing is cut at 300 bytes (`UC:217`).

## 4. Fairness

Weak fairness on the steps of threads and processes that are not blocked: the
kernel schedules every runnable thread (`Step`, `HandlerStep`, `ClientStep`, `Serve`, `Client`,
`Server`; in `PartStream` the receiver's reads and the sender's writes). Nothing is asked of
users, authors, outages, restarts, ctrl-c, hang-ups,
network faults, browsers or the clock. A thread of the web server whose browser neither
sends nor leaves waits at `read`, which is no step it could take (`ReadReturns`), and the
liveness property is not about it; that a write to a browser ends is assumed. In the proxies a step that waits for an origin
server is among the fair ones, because a server answers or its connection fails;
one that keeps a connection open and silent for ever is outside the model, and the
code, which sets no timeout on its sockets, would wait with it.
No strong fairness is used.

The liveness properties name the loops that do not end. `CommandsFinish` holds where no stream ends early; where it may, the weaker
`...OrSpin` forms say that the endless loop at `S:271` or `C:433` is the only way not
to finish. `RequestsEnd` does the same for the proxies and the web server: a thread spins
on a failed connection, or the process has ended (for `ProxyEarlier` it is checked with two requests by
`MCEarlierEnds`, 84,240 states, which passes and is kept beside the listed runs); `TransferEnds` for a single connection.

## 5. Proofs

All theorems are for arbitrary sets of threads, users, names, contents, URLs and
sessions, under the named assumptions of the modules that declare the constants
(types, and that the special values are distinct from the ordinary ones).

**Placement** (in `DFSServerProofs`). `SplitIsExact`: the parts of a file of any
length add up to it, the first three are equal and the fourth is no smaller. `DigestGivesPair`: a digest
always names a pair. `AnyThreeServersHoldTheFile`: after a put that reached all four
servers, any three of them have all parts, whatever the first pair. `TheOthersHaveAll`
extends the last to puts that skipped a server.

**Servers** (`DFSServerProofs` for a server whatever its clients are: the steps of its
handlers, its streams as they are read at the other end, a command that reaches it whole;
`DFSServerOpenProofs` for the specification `OpenSpec`). The inductive invariant is `TypeOK /\ OnlyAccounts`: type
correctness needs `OnlyAccounts`, because a handler past its login indexes
the tree with its user, and a login read from a closed stream is no user at all.
From it:

- `TypeCorrect`: for any sessions, with hang-ups, kills and restarts.
- `DirectoriesReady`: if no user name is a prefix of another, a handler that has
  reached a command finds the directories it needs. Directories are only ever added
  (`DirectoriesStay`), so what one thread has established no other undoes. The
  hypothesis is exactly what `MCServerPrefix` refutes without it.
- `KnownUsersAreSafe`: if all users have directories from the start and no client
  goes away, no interleaving of any number of threads ends a server. Both hypotheses
  are needed: `MCServerRace` and `MCServerHangUp`.
- `PartsKeepTheirNumber` (`OwnNumber`), `FilesStayWithTheirUser` (`OwnFiles`): each thread
  `Serves` one session. What it has still to read is the rest of what that session
  sends: the bytes of a part come right behind its header, in a stream that a hang-up
  cuts off as well. So what reaches a file is of the number and the user in its name.
- `AnswersAreFramed` (`ReplyFramed`): `Answers` adds that the parts sent are no longer among
  those a thread looks for, and that a header with bytes to come is the last message
  only until they are sent. The size is read once, so a file truncated in between
  changes the bytes but not their number.
- `FilesAreWholeWhenQuiet` (`WholeWhenQuiet`), for any number of threads in one file. `AllRead`
  says exactly what a thread has still to read, hence that the bytes a header announces
  come. For a thread that has its file to itself the file is the front of its part as far as it has
  written (`out`); threads that overlap leave a whole part each time if each writes a part
  of the one size in one block; in between the file is empty with a writer. The hypotheses
  are those without which even a lone put may be left half done: with users known from the start no
  lost race at `S:192` ends a server that is writing, with clients that stay no write waits
  for ever, and with servers that are not killed no writer disappears. The exception for
  writers that overlap in longer parts is in the property, and `MCServerOverlap` shows it is needed.

**Clients and servers** (`DFSProofs`, for `Spec` of `DFS`: any number of clients over the four
servers, with handlers of any number under them). The theorems need six layers
of invariant, each inductive over the one below; they are defined in `DFSInvariants`.

- `TypeInv` is the servers' `TypeOK` and the clients', with what they rest on: the session of
  each client (`SessionOK`: its connection is of the server whose turn it is, and that
  connection's client is this one) and that every header on its way is for a part
  (`Announces`), since the client indexes its arrays with what it reads. It gives `TypesCorrect`.
- `StepInv` says for each place of a handler which answers can be under way to its client: a verdict,
  a listing, headers with their bytes behind them, and nothing once the connection is new.
  What goes wrong without it is a client that takes the bytes of a part for a header. A handler
  of another client of the same server leaves all of that alone, except that it may change a
  file between the size in the header and the bytes; `ReadBack` keeps to the size.
  It gives `StaysInStep` (`InStep`), with kills, ctrl-c and any outages.
- `HeapInv` counts: the sockets the rest of a command may still open and what the
  commands after it will, never reach `MaxFiles`; which of the four buffers are live is fixed by
  the command and the parts found. It gives `FreesOnlyItsOwn` (`FreesWhatItAllocated`) and
  the action property `OfflineMeansDown` (`OfflineOnlyIfDown`). The hypothesis
  `FilesAndDescriptors`, files to put exist and four descriptors per command are left, is what
  `MCDFSMissing` and `MCDFSSockets` refute the two properties without.
- `AccountsAreServed` (`RefusedOnlyIfInvalid`). The client says "Invalid Username/Password"
  whenever the first answer is not the word of acceptance, an end of the stream included. So a
  client with an account is safe only if its handler *owes* it the verdict (`HandlerOwes`) until the
  verdict is on its way (`VerdictGiven`), and the server does not die meanwhile. `CalmServers`
  says no server calls `exit(0)`: a handler reaches `S:192` or a write to a closed socket
  only with a user without a directory or a client that left. `OwedNext` shows that each step of a handler
  passes on what it owes, `InsiderUntouched` that the steps of others leave it alone.
  The hypothesis `Calm` (directories there, no ctrl-c, servers killed only between commands,
  `FilesAndDescriptors`) is met by the run `dfs_outage`; a server that dies while it serves
  is what `MCDFSRefused` shows.
- `WholePartsOnly` (`OnlyWholeParts`) and `GetFindsThePut` (`ReadsOwnPut`) are about the
  contents of files, and need to know who may write them. Their hypothesis `Alone` adds to
  `Calm` that each client has an account of its own and waits for the servers before its
  next command, as in the run `dfs_outage`; `MCDFSAsync` refutes the properties
  for a client that does not wait. The inductive invariant `AloneInv` is
  `CalmInv` and, for each client: `Serving` (its handlers are the one of its session and
  those a put or mkdir has left behind, one on each server at most, each still with
  its own rest of the command to carry out); `Placed` (the pair put counts for the next server is a
  function of the digest and of the servers it skipped, so a handler left behind
  knows its pair although the client has counted on); `Files`, that is `WholeFiles` (a file of
  the account is a whole part, or the front of one while such a handler writes it, as long as that handler has
  written), `PutStored` (the
  servers the put is done with hold their two parts of it) and `Held` (a server the last put of a file
  reached holds a part of it); `Answering` (the headers and bytes on their way to a get are of files
  as they are, and a refusal means that no wanted part is there); and `BufsFrom` (a part
  taken is whole). None of them is inductive alone: what a get reads is whole because no handler writes
  the client's files meanwhile, that is so because the handlers left behind are a put's, and the put
  has been waited for. One client's steps leave the others' part of the invariant as it is
  (`AloneOthers`, `HandlerOfAnother`), since no file has two owners.
- `OutageIsSurvived` (`SurvivesOneOutage`) and `FileStoreIsImplemented` (`ImplementsFileStore`) say
  which content a file is of. They add the hypothesis `Settled`: a file is put once, or its contents
  have digests of one class and no server is ever missing. The code removes nothing, so a put that
  takes parts to other servers than the last one, or cannot reach a server that has some, leaves old
  parts for the next get (the run `dfs_mixed`). `dfs_outage` meets the hypothesis in the first
  way, `dfs_versions` in the second. `SettledInv` is `AloneInv` and, for each client and file of its
  account: `InPlace` (every part on a server is one that the last put, under way or done, takes there: what
  earlier puts left lies in the places it will write to), `Current` (between puts the parts there are the
  last content's, and the servers the put reached have all of theirs), `Puts` (no put to come takes
  a file elsewhere), `Gathered` and `Seen` (what get has taken and list has merged is all there was
  on the servers behind it) and `Halfway` (get leaves a server only when it has taken both its parts or was told
  there are none). At the end of a command `TheOthersHaveAll`
  counts: at most one server was skipped by the put or now, and the pairs put deals to the
  others are then consecutive, so each part is on one of them. The refinement needs nothing more:
  `Gathered` makes a get's buffers the last content, and `ContentTold` that content is the only
  one they can be read as, if no two different contents are empty (`OneEmpty`).

**Proxy** (`ProxyCacheProofs`). The inductive invariant `Inv` is `TypeOK`, `ListOK` (the
blacklist is at the front of the list, behind head, and no other node has a
blacklisted address, if no string begins one), `FileBehindNode` (if no string begins a file name), and `LocalOK` for each handler (its file is
that of its URL, its node is in the list, its host and address have passed the
blacklist). `ListOK` is needed because a search returns the *first* match: a
blacklisted name must be found at its blacklist node, not at a later node
(`BlacklistFirst`); it is kept because the list only grows at its end (`Grows`). From it:
`TypeCorrect`; `BlacklistedHostsRefused` (no thread passes the check of a blacklisted host, whatever
has become of the strings in the list); and, under the hypotheses on the strings that `MCProxyPrefix`
and `MCProxyNofile` refute them without, `BlacklistHonoured` (`NeverForbidden`) and `CachedFilesExist`
(`FileBehindNode`).

**Cache files** (in the same module). `FilesOK` says of a file whose writers all fetch one document
that each of its chunks is the document's, or is still to be written by one of them
(`Pending`), and that it is no longer than the document unless a thread spins on it. It gives `FilesEndWhole`: threads that truncate
and overwrite each other's file leave it whole when the last is done, for any
number of threads and chunks. `AnswersOK` adds that a copy being sent agrees with the
file as long as nobody has written it since, and gives `CachedAnswersAreWhole`.

**Earlier proxies** (`ProxyEarlierProofs`). The inductive invariant `IInv` is `TypeOK` and
`Knows`: what a thread knows at its place (its node is in the list and holds its file, or its
host; its address is one). It rests on `NodesKeep`: a node keeps its place, host,
address and file. Over it stand these arguments.

- `CopiesAgeWithTheirHost` (`FreshHost`): every node is `Born` for some resource and no later
  than a transfer `Recorded` for that resource's host. Renewing a node keeps it so because
  the node found has the thread's host as its name: it cannot have matched by address,
  which is the theorem's first hypothesis (no URI names its host by its address), nor by a string
  that has become the host's name, which is the second (`NoneBegins`, refuted without by
  `MCEarlierPrefix`). The third, that files of different hosts
  differ, is what makes the node found by file one of the thread's host.
- `BrowsersGetTheirPage` (`PageAsked`): until a look-up is overtaken each file consists of the page
  of the resource it is named for, and zeros, whoever truncates and writes it (`PagesOwn`), and so does what
  is sent of it (`AnswersOwn`). The hypothesis, no two resources with one
  file name, is what `MCEarlierOneFile` refutes without it.
- `QuietFilesAreWhole` (`FilesWhole`), under the same hypothesis: a file is whole, or a thread spins on it, or
  the thread that truncated it last is still to write the rest (`FilesHeld`). Such a thread is
  `intact`, and only what truncates the file again takes that from it.

**Byte stream** (`PartStreamProofs`). `ReadsStayBehind`: the reader's counter stays
behind the writer's, the writer's within the two parts (`Bounded`), and a reader in step
takes nothing of the next part (`NeverAhead`). `StaysInStep`: the receiver's counters (`left`, `offset`, `taken`) agree with the
stream's as long as no header or rest of a part was read short. On it rest
`FullReadsSuffice` (everything stored is what was sent, for all sizes, when reads are
full), `ClientTakesPieces` (the client's store is right up to where it counted, and what lies
beyond is overwritten) and `CopiesStayInside` (it never copies past the end of its buffer).
`ServerPads` (`ServerOnlyPads`) is about the server, which does not mend: a file is its part with
zeros in between (`Pads`), and each buffer put behind such a file makes a longer one (`PadsGrow`).

**UDP store** (`UDPStoreProofs`). `Leads(q, s, e)`: the datagrams `q`, taken in turn by a server in
state `s`, are each what it then expects, a line or a file, and bring it to state `e`. The
invariant `OnCourse` says of a lone client that what it has on its way leads the server to
where the client thinks it is (`AsTold`): waiting for a file if the client is about to send
one, ended if the client has told it to, with the files of `mine`. A datagram sent makes the road
longer (`LeadsAppend`), one received makes it shorter (`LeadsTail`), and at its end stand
`StoreHoldsWhatWasPut` (`StoreIsMine`) and `ServerEndsWhenTold` (`EndsOnExit`). A fault in the requests
breaks the road, one in the replies does not, which is why these two hold with lost and
doubled replies. `AnswersFitQuestions` (`AnswersMatch`) adds `OneQuestion`: a question is the last
thing on its way and its answer the only one.

**Web server** (`WebserverProofs`). `Sent` relates a thread to its answer: bytes sent and
bytes left are the length announced, and each byte sent is `Right`: of the file and
version opened or a later one, in its place, or a zero for one that is gone.
`ChunkIsRight` is the step that matters: a chunk no longer than what is left keeps it, at
any size. It gives `PagesArriveIntact`. `AnswersWhatWasAsked` (`AnswersRequest`) rests on `Asked`: what lies in `buf`
when a connection begins is text the server itself wrote there (`OwnWords`). A thread that has read
all of its request answers it, and one that has read a part answers something the part can
mean with the server's own text behind it, never what another browser asked.

### Only model-checked

Liveness (`CommandsFinish`, `RequestsEnd`, `TransferEnds`, `Answered` and the `...OrSpin`
forms): the prover has no `ENABLED`, so nothing under fairness can be proved. `OwnParts` too is only model-checked. Every other invariant, action
property and refinement that a passing run checks is also a theorem, in some cases under hypotheses on the
constants.
`OneNodePerFile` and the other expected violations are false, and their conditional
forms are not stated.

## 6. What is abstracted

- *DFS streams.* In `DFSServer` and `DFS` one `write` is read by one `read`; what TCP may do
  instead is in `PartStream`, for one connection and two parts. There a header read from
  the wrong place ends the story (`lost`), and `read` does not fail with -1.
- *Parts* are read whole before their blocks are written; when a block's bytes come in several reads is in `PartStream`.
- *A digest* is the one hexadecimal digit that decides the pair.
- *Configuration files* of the DFS: their result is constants.
- *Proxy strings*: how a URL is taken apart, and whether strings fit their arrays. In
  `ProxyCache` no run has two URLs share a file; in `ProxyEarlier` `MCEarlierOneFile` does.
- *Proxy heap*: that a node's strings come from used memory is modelled, leaks are not.
- *Earlier proxies*: a file is what it consists of, without the places (see section 2).
- *Web server*: a URI is a path and a suffix. Of what an overrun copies over the stack the
  outcomes kept are an end of the process and a wrong type.
- *UDP*: the uninitialised `store_command` is taken to hold no command's word and the
  uninitialised `store_filename` to name no file that can be opened; listings leave
  out the entries every directory has; lines fit their arrays.

### Not modelled

- `Project3Extras/linked_list.c`: a single-threaded test of the list; the list is in the
  proxies' modules.
- `UDPFileStorageServerAndClient/udp/`: the echo program of the course, unchanged, that the
  store starts from.
- `TCPWebserver/httpechosrv.c` and `iteration.c`: the course's echo server and a draft of the web
  server that was given up; the `www` directory holds static pages. The second
  `webserver.c` is a byte-for-byte copy of the first.
- `project4snippets.c`: fragments no program compiles.

## 7. Plan

Done, in order of importance: `DFSPlacement`, `DFSServer`, `DFSServerOpen`, `DFS` with
`FileStore` and the client's heap and sockets, `ProxyCache`, `UDPStore`, `PartStream`,
`Webserver`, `ProxyEarlier`, and the theorems above.

To prove more: what a second put of a file keeps when a server is missing (the servers it reached are
current), which would let `Settled` be weakened.

To model more: a run of `ProxyCache` in which a changing document and a shared file name
meet, and `DFS` over the streams of `PartStream`, once a smaller abstraction of
the latter is found.

## 8. How to run

    tlc -config MCServerShared.cfg MCServer.tla     # and so on: <module><run>.cfg
    tlapm DFSProofs.tla
