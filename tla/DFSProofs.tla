------------------------------ MODULE DFSProofs ------------------------------
(***************************************************************************)
(* What holds of the distributed file system for any sets of clients,      *)
(* users, names, contents and commands.                                    *)
(*                                                                         *)
(* Each part rests on the invariant of the one before it:                  *)
(*   TypeInv     types and sessions                 TypesCorrect           *)
(*   StepInv     answers as the client cuts them    StaysInStep            *)
(*   HeapInv     buffers and descriptors            FreesOnlyItsOwn,       *)
(*                                                  OfflineMeansDown       *)
(*   CalmInv     verdicts                           AccountsAreServed      *)
(*   AloneInv    files under one writer             WholePartsOnly,        *)
(*                                                  GetFindsThePut         *)
(*   SettledInv  files in their places              OutageIsSurvived,      *)
(*                                                  FileStoreIsImplemented *)
(***************************************************************************)
EXTENDS DFSInvariants

-----------------------------------------------------------------------------
\* The next answer is a message, and a header names a part.
LEMMA AnswerType ==
  ASSUME TypeInv, NEW c \in Clients, sess[c] \in Handlers
  PROVE  /\ Answer(c) \in Messages
         /\ Answer(c).tag = "header" =>
              Answer(c).body \in Headers /\ Answer(c).body.part \in Parts
         /\ Answer(c).tag = "listing" =>
              Answer(c).body \in SUBSET (Names \X (0..4))
<1>1. reply[sess[c]] \in Seq(Messages) /\ Announces(reply[sess[c]])
  BY DEF TypeInv, Inv, TypeOK
<1>2. Answer(c) \in Messages
  BY <1>1, MessageTypes DEF Answer
<1>3. Answer(c).tag = "header" => Answer(c).body.part \in Parts
  <2>1. CASE reply[sess[c]] = <<>>
    BY <2>1 DEF Answer, EOF, Message
  <2>2. CASE reply[sess[c]] # <<>>
    BY <1>1, <2>2, TailItems DEF Answer, Announces
  <2>3. QED
    BY <2>1, <2>2
<1>4. QED
  BY <1>2, <1>3 DEF Messages
LEMMA TakeAnswerType ==
  ASSUME TypeInv, NEW c \in Clients, sess[c] \in Handlers, TakeAnswer(c)
  PROVE  /\ reply' \in [Handlers -> Seq(Messages)]
         /\ \A h \in Handlers : Announces(reply'[h])
         /\ \A h \in Handlers \ {sess[c]} : reply'[h] = reply[h]
<1> DEFINE q == reply[sess[c]]
           rest == IF q # <<>> THEN Tail(q) ELSE q
<1>1. q \in Seq(Messages) /\ Announces(q)
  BY DEF TypeInv, Inv, TypeOK
<1>2. rest \in Seq(Messages) /\ Announces(rest)
  BY <1>1, TailItems, AnnouncesTail
<1>3. reply' = [reply EXCEPT ![sess[c]] = rest]
  BY DEF TakeAnswer
<1> HIDE DEF rest, q
<1>4. QED
  BY <1>2, <1>3 DEF TypeInv, Inv, TypeOK

\* The commands start with typed variables.
LEMMA NewJobType ==
  ASSUME NEW task \in TaskTypes, task.op = "put" => task.content # None
  PROVE  NewJob(task) \in Jobs
<1>1. NoBufs \in [Parts -> Pieces]
  BY PieceTypes DEF NoBufs
<1>2. task.op = "put" => get_md5_mod(Digest[task.content]) \in 0..4
  <2>1. task.op = "put" => task.content \in Contents
    BY DEF TaskTypes
  <2>2. QED
    BY <2>1, DigestGivesPair, ClientAssumption DEF Pairs
<1>3. 1 \in 1..(MAXSERVERS + 1) /\ {} \in SUBSET Servers
  BY DEF MAXSERVERS
<1>4. QED
  BY <1>1, <1>2, <1>3 DEF NewJob, Jobs

-----------------------------------------------------------------------------
\* Where the building blocks of the client's steps lead.
LEMMA StepType ==
  ASSUME TypeInv, NEW c \in Clients, NEW where \in ClientStates, NEW j \in Jobs,
         Step(c, where, j)
  PROVE  /\ cpc' \in [Clients -> ClientStates] /\ job' \in [Clients -> Jobs]
         /\ cpc'[c] = where /\ job'[c] = j
         /\ \A d \in Clients \ {c} : cpc'[d] = cpc[d] /\ job'[d] = job[d]
  BY DEF Step, TypeInv, ClientTypeOK

LEMMA NextServerType ==
  ASSUME TypeInv, NEW c \in Clients, NEW j \in Jobs, j.turn <= MAXSERVERS,
         NextServer(c, j)
  PROVE  /\ cpc' \in [Clients -> ClientStates] /\ job' \in [Clients -> Jobs]
         /\ sess' \in [Clients -> Handlers \cup {None}]
         /\ cpc'[c] = "connect" /\ sess'[c] = None
         /\ job'[c] = [j EXCEPT !.turn = @ + 1, !.round = 1] /\ job'[c] \in Jobs
         /\ job'[c].turn = j.turn + 1 /\ job'[c].round = 1
         /\ job'[c].task = j.task /\ job'[c].pair = j.pair
         /\ job'[c].want = j.want /\ job'[c].bufs = j.bufs
         /\ job'[c].seen = j.seen /\ job'[c].lost = j.lost
         /\ job'[c].offline = j.offline
         /\ \A d \in Clients \ {c} : /\ cpc'[d] = cpc[d] /\ job'[d] = job[d]
                                     /\ sess'[d] = sess[d]
<1> DEFINE k == [j EXCEPT !.turn = @ + 1, !.round = 1]
<1>1. j.turn \in 1..MAXSERVERS
  BY DEF Jobs, MAXSERVERS
<1>2. /\ k \in Jobs /\ k.turn = j.turn + 1 /\ k.round = 1
      /\ k.task = j.task /\ k.pair = j.pair /\ k.want = j.want
      /\ k.bufs = j.bufs /\ k.seen = j.seen /\ k.lost = j.lost
      /\ k.offline = j.offline
  <2>1. j.turn + 1 \in 1..(MAXSERVERS + 1) /\ 1 \in 1..2
    BY <1>1 DEF MAXSERVERS
  <2>2. QED
    BY <2>1 DEF Jobs
<1>3. Step(c, "connect", k) /\ "connect" \in ClientStates
  BY DEF NextServer, ClientStates
<1>4. k = [j EXCEPT !.turn = @ + 1, !.round = 1]
  OBVIOUS
<1> HIDE DEF k
<1>5. /\ cpc' \in [Clients -> ClientStates] /\ job' \in [Clients -> Jobs]
      /\ cpc'[c] = "connect" /\ job'[c] = k
      /\ \A d \in Clients \ {c} : cpc'[d] = cpc[d] /\ job'[d] = job[d]
  BY <1>2, <1>3, StepType
<1>6. /\ sess' \in [Clients -> Handlers \cup {None}] /\ sess'[c] = None
      /\ \A d \in Clients \ {c} : sess'[d] = sess[d]
  BY DEF NextServer, TypeInv, ClientTypeOK
<1>7. QED
  BY <1>2, <1>4, <1>5, <1>6

LEMMA NextAnswerType ==
  ASSUME TypeInv, NEW c \in Clients, NEW j \in Jobs, j.turn <= MAXSERVERS,
         NextAnswer(c, j)
  PROVE  /\ cpc' \in [Clients -> ClientStates] /\ job' \in [Clients -> Jobs]
         /\ sess' \in [Clients -> Handlers \cup {None}]
         /\ job'[c].task = j.task /\ job'[c].pair = j.pair
         /\ job'[c].want = j.want /\ job'[c].bufs = j.bufs
         /\ job'[c].seen = j.seen /\ job'[c].lost = j.lost
         /\ job'[c].offline = j.offline
         /\ \/ /\ j.round = 1 /\ cpc'[c] = "answer" /\ sess' = sess
               /\ job'[c].turn = j.turn /\ job'[c].round = 2
            \/ /\ j.round = 2 /\ cpc'[c] = "connect" /\ sess'[c] = None
               /\ job'[c].turn = j.turn + 1 /\ job'[c].round = 1
         /\ \A d \in Clients \ {c} : /\ cpc'[d] = cpc[d] /\ job'[d] = job[d]
                                     /\ sess'[d] = sess[d]
<1>1. CASE j.round = 1
  <2> DEFINE k == [j EXCEPT !.round = 2]
  <2>1. /\ k \in Jobs /\ k.turn = j.turn /\ k.round = 2
        /\ k.task = j.task /\ k.pair = j.pair /\ k.want = j.want
        /\ k.bufs = j.bufs /\ k.seen = j.seen /\ k.lost = j.lost
        /\ k.offline = j.offline
    BY DEF Jobs
  <2>2. Step(c, "answer", k) /\ "answer" \in ClientStates /\ sess' = sess
    BY <1>1 DEF NextAnswer, ClientStates
  <2> HIDE DEF k
  <2>3. /\ cpc' \in [Clients -> ClientStates] /\ job' \in [Clients -> Jobs]
        /\ cpc'[c] = "answer" /\ job'[c] = k
        /\ \A d \in Clients \ {c} : cpc'[d] = cpc[d] /\ job'[d] = job[d]
    BY <2>1, <2>2, StepType
  <2>4. QED
    BY <1>1, <2>1, <2>2, <2>3 DEF TypeInv, ClientTypeOK
<1>2. CASE j.round = 2
  <2>1. NextServer(c, j)
    BY <1>2 DEF NextAnswer
  <2>2. QED
    BY <1>2, <2>1, NextServerType
<1>3. QED
  BY <1>1, <1>2 DEF Jobs

\* A session is a connection to one of the four servers.
LEMMA SessionTurn ==
  ASSUME TypeInv, NEW c \in Clients
  PROVE  /\ job[c] \in Jobs /\ job[c].task \in TaskTypes
         /\ InSession(c) => /\ sess[c] \in Handlers /\ job[c].turn \in Servers
                            /\ job[c].turn \in 1..MAXSERVERS
         /\ cpc[c] = "connect" /\ ~LoopEnds(c) =>
              job[c].turn \in Servers /\ job[c].turn \in 1..MAXSERVERS
<1>1. job[c] \in Jobs
  BY DEF TypeInv, ClientTypeOK
<1>2. InSession(c) => sess[c] \in Handlers /\ ServerOf(sess[c]) = job[c].turn
  BY DEF TypeInv, SessionOK
<1>3. \A h \in Handlers : ServerOf(h) \in Servers
  BY DEF Handlers, ServerOf
<1>4. job[c].turn \in 1..(MAXSERVERS + 1) /\ job[c].task \in TaskTypes
  BY <1>1 DEF Jobs
<1>5. QED
  BY <1>1, <1>2, <1>3, <1>4, ClientAssumption DEF LoopEnds, MAXSERVERS

(***************************************************************************)
(* What one client does leaves the others and their connections alone.     *)
(***************************************************************************)
UserStep(c) == Enter(c) \/ PutUnopened(c) \/ ClientStep(c) \/ Kill(c)
SameClient(d) ==
  /\ cpc'[d] = cpc[d] /\ job'[d] = job[d] /\ sess'[d] = sess[d]
  /\ outbox'[d] = outbox[d] /\ last'[d] = last[d] /\ heap'[d] = heap[d]
  /\ open'[d] = open[d] /\ file'[d] = file[d] /\ listed'[d] = listed[d]
  /\ todo'[d] = todo[d]
SameConnection(h) ==
  /\ pc'[h] = pc[h] /\ frame'[h] = frame[h] /\ cmd'[h] = cmd[h]
  /\ inbox'[h] = inbox[h] /\ reply'[h] = reply[h] /\ gone'[h] = gone[h]
  /\ peer'[h] = peer[h]

LEMMA ExitOthers ==
  ASSUME gone \in [Handlers -> BOOLEAN], NEW c, NEW h \in Handlers,
         gone' = [k \in Handlers |-> gone[k] \/ peer[k] = c]
  PROVE  /\ gone' \in [Handlers -> BOOLEAN]
         /\ peer[h] # c => gone'[h] = gone[h]
<1>1. gone[h] \in BOOLEAN
  OBVIOUS
<1>2. gone'[h] = (gone[h] \/ peer[h] = c)
  OBVIOUS
<1>3. \A k \in Handlers : (gone[k] \/ peer[k] = c) \in BOOLEAN
  OBVIOUS
<1>4. gone' \in [Handlers -> BOOLEAN]
  BY <1>3
<1>5. QED
  BY <1>1, <1>2, <1>4

LEMMA OtherClients ==
  ASSUME TypeInv, NEW c \in Clients, UserStep(c), NEW d \in Clients \ {c}
  PROVE  SameClient(d) /\ (InSession(d) => SameConnection(sess[d]))
<1> USE DEF TypeInv, Inv, TypeOK, ClientTypeOK, SameClient
<1>d. InSession(d) => sess[d] \in Handlers /\ peer[sess[d]] = d
  BY DEF SessionOK
<1>c. InSession(c) => sess[c] \in Handlers /\ peer[sess[c]] = c
  BY DEF SessionOK
<1>1. CASE Connect(c)
  <2>1. PICK h \in Handlers :
          /\ \A k \in Clients : sess[k] # h
          /\ Accept(h, <<Message("login", Login[c])>>, FALSE)
          /\ sess' = [sess EXCEPT ![c] = h]
          /\ peer' = [peer EXCEPT ![h] = c]
    BY <1>1 DEF Connect
  <2>2. SameClient(d)
    BY <1>1, <2>1 DEF Connect, Step
  <2>3. sess[d] # h
    BY <2>1
  <2>4. QED
    BY <1>1, <1>d, <2>1, <2>2, <2>3 DEF Connect, Accept, Goto, SameConnection
<1>2. CASE Enter(c) \/ ServerOffline(c) \/ SpinClient(c) \/ Finish(c)
  <2>1. UNCHANGED <<serverVars, peer>>
    BY <1>2 DEF Enter, ServerOffline, SpinClient, Finish
  <2>2. SameClient(d)
    BY <1>2 DEF Enter, ServerOffline, SpinClient, Finish, Step, NextServer,
       Malloc, FreeAll
  <2>3. QED
    BY <2>1, <2>2 DEF SameConnection, serverVars
<1>3. CASE PutUnopened(c)
  <2>1. SameClient(d)
    BY <1>3 DEF PutUnopened, FreeAll
  <2>2. InSession(d) => gone'[sess[d]] = gone[sess[d]]
    <3>1. gone' = gone \/ gone' = [h \in Handlers |-> gone[h] \/ peer[h] = c]
      BY <1>3 DEF PutUnopened
    <3>2. QED
      BY <1>d, <3>1, ExitOthers
  <2>3. QED
    BY <1>3, <2>1, <2>2 DEF PutUnopened, SameConnection
<1>4. ASSUME ExitClient(c) PROVE SameClient(d) /\ (InSession(d) => SameConnection(sess[d]))
  BY <1>4, <1>d DEF ExitClient, SameConnection
<1>5. CASE LoginAccepted(c)
  BY <1>5, <1>d, <1>c DEF LoginAccepted, InSession, Step, TakeAnswer, SameConnection
<1>6. CASE Write(c)
  <2> DEFINE j == [job[c] EXCEPT !.lost = @ \/ Closed(sess[c])]
  <2>1. cpc'[d] = cpc[d] /\ job'[d] = job[d] /\ sess'[d] = sess[d]
    <3>1. AfterWriting(c, j) \/ (Step(c, "write", j) /\ UNCHANGED sess)
      BY <1>6 DEF Write
    <3>2. j.task.op \in {"list", "get", "put", "MKDIR"}
      BY DEF Jobs, TaskTypes, Ops
    <3> HIDE DEF j
    <3>3. QED
      BY <3>1, <3>2 DEF AfterWriting, Step, NextServer
  <2>2. SameClient(d)
    BY <1>6, <2>1 DEF Write
  <2>3. InSession(d) => SameConnection(sess[d])
    BY <1>6, <1>d, <1>c DEF Write, InSession, SameConnection
  <2>4. QED
    BY <2>2, <2>3
<1>7. CASE ReadListing(c)
  BY <1>7, <1>d, <1>c DEF ReadListing, InSession, NextServer, Step, TakeAnswer,
     SameConnection
<1>8. CASE NoMoreParts(c)
  BY <1>8, <1>d, <1>c DEF NoMoreParts, InSession, NextServer, Step, TakeAnswer,
     SameConnection
<1>9. CASE ReadHeader(c)
  BY <1>9, <1>d, <1>c DEF ReadHeader, InSession, NextAnswer, NextServer, Step,
     TakeAnswer, Malloc, SameConnection
<1>10. CASE ReadBytes(c)
  BY <1>10, <1>d, <1>c DEF ReadBytes, InSession, NextAnswer, NextServer, Step,
     TakeAnswer, SameConnection
<1>11. CASE ReadGarbage(c)
  <2>1. CASE ExitClient(c)
    BY <1>4, <2>1
  <2>2. CASE ~ExitClient(c)
    BY <1>11, <2>2 DEF ReadGarbage, NextAnswer, NextServer, Step, serverVars,
       SameConnection
  <2>3. QED
    BY <2>1, <2>2
<1>12. CASE LoginRefused(c) \/ WriteBroken(c) \/ Kill(c)
  BY <1>4, <1>12 DEF LoginRefused, WriteBroken, Kill
<1>13. QED
  BY <1>1, <1>2, <1>3, <1>5, <1>6, <1>7, <1>8, <1>9, <1>10, <1>11, <1>12
  DEF UserStep, ClientStep

LEMMA OtherSessions ==
  ASSUME TypeInv, NEW c \in Clients, UserStep(c)
  PROVE  \A d \in Clients \ {c} : SessionOK(d)'
<1> SUFFICES ASSUME NEW d \in Clients \ {c} PROVE SessionOK(d)'
  OBVIOUS
<1>1. SameClient(d) /\ (InSession(d) => SameConnection(sess[d])) /\ SessionOK(d)
  BY OtherClients DEF TypeInv
<1>2. QED
  BY <1>1 DEF SameClient, SameConnection, SessionOK, InSession

\* The end of a client process.
LEMMA ExitType ==
  ASSUME TypeInv, NEW c \in Clients, ExitClient(c)
  PROVE  Inv' /\ ClientTypeOK' /\ SessionOK(c)'
<1>1. gone' \in [Handlers -> BOOLEAN]
  BY ExitOthers DEF ExitClient, TypeInv, Inv, TypeOK
<1>2. Inv'
  BY <1>1, ClientKeepsInv DEF ExitClient, TypeInv, Inv, TypeOK
<1>3. ClientTypeOK'
  BY DEF ExitClient, TypeInv, ClientTypeOK, ClientStates, historyVars
<1>4. SessionOK(c)'
  BY DEF ExitClient, TypeInv, ClientTypeOK, SessionOK, InSession
<1>5. QED
  BY <1>2, <1>3, <1>4

\* The session of a client that goes on, or that is between sessions.
LEMMA SessionGoesOn ==
  ASSUME TypeInv, NEW c \in Clients,
         job'[c].task.op = "put" => job'[c].task.content # None,
         last'[c] # None => last'[c].part \in Parts
  PROVE  /\ cpc'[c] \in {"idle", "connect", "exited"} => SessionOK(c)'
         /\ /\ InSession(c) /\ cpc'[c] \in {"write", "listing", "answer", "bytes", "spin"}
            /\ sess'[c] = sess[c] /\ peer' = peer /\ gone' = gone /\ open' = open
            /\ job'[c].turn = job[c].turn
            /\ cpc'[c] = "write" => outbox'[c] # <<>>
            /\ cpc'[c] \in {"bytes", "spin"} => last'[c] # None
            => SessionOK(c)'
  BY DEF TypeInv, SessionOK, InSession

(***************************************************************************)
(* Every step of a client keeps the types.                                 *)
(***************************************************************************)
LEMMA UserTypes ==
  ASSUME TypeInv, NEW c \in Clients, UserStep(c)
  PROVE  TypeInv'
<1> DEFINE Mine == Inv' /\ ClientTypeOK' /\ SessionOK(c)'
                   /\ \A h \in Handlers : Announces(reply'[h])
<1>a. ASSUME Mine PROVE TypeInv'
  BY <1>a, OtherSessions DEF TypeInv
<1>j. /\ job[c] \in Jobs /\ job[c].task \in TaskTypes
      /\ job[c].task.op = "put" => job[c].task.content # None
      /\ last[c] # None => last[c].part \in Parts
      /\ last[c] \in Headers \cup {None}
      /\ InSession(c) => job[c].turn <= MAXSERVERS /\ sess[c] \in Handlers
  BY SessionTurn DEF TypeInv, SessionOK, ClientTypeOK
<1>i. /\ Inv /\ ClientTypeOK
      /\ inbox \in [Handlers -> Seq(Messages)] /\ reply \in [Handlers -> Seq(Messages)]
      /\ gone \in [Handlers -> BOOLEAN]
      /\ \A h \in Handlers : Announces(reply[h])
  BY DEF TypeInv, Inv, TypeOK
<1>f. \A h \in [Parts -> Pointers] : Freed(h) \in [Parts -> Pointers]
  BY DEF Freed, Pointers
<1>m. \A ps \in SUBSET Parts : Malloc(c, ps) => heap' \in [Clients -> [Parts -> Pointers]]
  <2> SUFFICES ASSUME NEW ps \in SUBSET Parts, Malloc(c, ps)
               PROVE  heap' \in [Clients -> [Parts -> Pointers]]
    OBVIOUS
  <2>1. heap[c] \in [Parts -> Pointers]
    BY <1>i DEF ClientTypeOK
  <2>2. [p \in Parts |-> IF p \in ps THEN "live" ELSE heap[c][p]] \in [Parts -> Pointers]
    BY <2>1 DEF Pointers
  <2>3. QED
    BY <1>i, <2>2 DEF Malloc, ClientTypeOK
<1>e. FreeAll(c) => heap' \in [Clients -> [Parts -> Pointers]]
  BY <1>f, <1>i DEF FreeAll, ClientTypeOK
<1>1. CASE Enter(c)
  <2> DEFINE task == Head(todo[c])
  <2>1. task \in TaskTypes /\ Tail(todo[c]) \in Seq(TaskTypes)
    BY <1>1, <1>i DEF Enter, ClientTypeOK
  <2>2. task.op = "put" => task.content # None
    BY <1>1 DEF Enter, Sendable
  <2>3. NewJob(task) \in Jobs /\ NewJob(task).task = task
    BY <2>1, <2>2, NewJobType DEF NewJob
  <2>4. Step(c, "connect", NewJob(task)) /\ "connect" \in ClientStates
    BY <1>1 DEF Enter, ClientStates
  <2>5. /\ cpc' \in [Clients -> ClientStates] /\ job' \in [Clients -> Jobs]
        /\ cpc'[c] = "connect" /\ job'[c] = NewJob(task)
    BY <2>3, <2>4, StepType
  <2>6. heap' \in [Clients -> [Parts -> Pointers]]
    <3>1. Malloc(c, Parts) \/ heap' = heap
      BY <1>1 DEF Enter
    <3>2. QED
      BY <1>i, <1>m, <3>1 DEF ClientTypeOK
  <2>7. todo' \in [Clients -> Seq(TaskTypes)]
    BY <1>1, <1>i, <2>1 DEF Enter, ClientTypeOK
  <2>8. Inv' /\ reply' = reply
    BY <1>1, <1>i, ClientKeepsInv DEF Enter, serverVars, storeVars
  <2>9. ClientTypeOK'
    BY <1>1, <1>i, <2>5, <2>6, <2>7 DEF Enter, ClientTypeOK, historyVars
  <2>10. SessionOK(c)'
    BY <1>1, <1>j, <2>2, <2>3, <2>5, SessionGoesOn DEF Enter
  <2>11. QED
    BY <1>a, <1>i, <2>8, <2>9, <2>10
<1>2. CASE PutUnopened(c)
  <2>1. gone' \in [Handlers -> BOOLEAN]
    <3>1. gone' = gone \/ gone' = [h \in Handlers |-> gone[h] \/ peer[h] = c]
      BY <1>2 DEF PutUnopened
    <3>2. CASE gone' = [h \in Handlers |-> gone[h] \/ peer[h] = c]
      BY <1>i, <3>2
    <3>3. QED
      BY <1>i, <3>1, <3>2
  <2>2. Inv' /\ reply' = reply
    BY <1>2, <1>i, <2>1, ClientKeepsInv DEF PutUnopened
  <2>3. cpc' = cpc \/ cpc' = [cpc EXCEPT ![c] = "exited"]
    BY <1>2 DEF PutUnopened
  <2>4. cpc[c] = "idle" /\ cpc' \in [Clients -> ClientStates] /\ cpc'[c] \in {"idle", "exited"}
    BY <1>2, <1>i, <2>3 DEF PutUnopened, ClientTypeOK, ClientStates
  <2>5. todo' \in [Clients -> Seq(TaskTypes)]
    BY <1>2, <1>i DEF PutUnopened, ClientTypeOK
  <2>6. ClientTypeOK'
    BY <1>2, <1>i, <1>e, <2>4, <2>5 DEF PutUnopened, ClientTypeOK, historyVars
  <2>7. SessionOK(c)'
    BY <1>2, <1>j, <2>4, SessionGoesOn DEF PutUnopened
  <2>8. QED
    BY <1>a, <1>i, <2>2, <2>6, <2>7
<1>3. CASE Connect(c)
  <2>1. PICK h \in Handlers :
          /\ ServerOf(h) = job[c].turn
          /\ Accept(h, <<Message("login", Login[c])>>, FALSE)
          /\ sess' = [sess EXCEPT ![c] = h]
          /\ peer' = [peer EXCEPT ![h] = c]
    BY <1>3 DEF Connect
  <2>2. <<Message("login", Login[c])>> \in Seq(Messages)
    <3>1. Login[c] \in Logins
      BY ClientAssumption DEF Logins
    <3>2. QED
      BY <3>1, MessageTypes
  <2>3. Inv'
    BY <1>i, <2>1, <2>2, AcceptInv
  <2>4. gone'[h] = FALSE /\ \A k \in Handlers : reply'[k] = reply[k] \/ reply'[k] = <<>>
    BY <1>i, <2>1 DEF Accept
  <2>5. \A k \in Handlers : Announces(reply'[k])
    BY <1>i, <2>4 DEF Announces
  <2> DEFINE j == [job[c] EXCEPT !.lost = FALSE]
  <2>6. j \in Jobs /\ j.turn = job[c].turn /\ j.task = job[c].task
    BY <1>j DEF Jobs
  <2>7. Step(c, "verdict", j) /\ "verdict" \in ClientStates
    BY <1>3 DEF Connect, ClientStates
  <2> HIDE DEF j
  <2>8. /\ cpc' \in [Clients -> ClientStates] /\ job' \in [Clients -> Jobs]
        /\ cpc'[c] = "verdict" /\ job'[c] = j
    BY <2>6, <2>7, StepType
  <2>9. open' \in [Clients -> 0..MaxFiles] /\ open'[c] > 0
    BY <1>3, <1>i, ClientAssumption DEF Connect, Descriptor, ClientTypeOK
  <2>10. ClientTypeOK'
    BY <1>3, <1>i, <2>1, <2>8, <2>9 DEF Connect, ClientTypeOK, historyVars
  <2>11. sess'[c] = h /\ peer'[h] = c /\ last'[c] = last[c]
    BY <1>3, <1>i, <2>1 DEF ClientTypeOK, Connect
  <2>12. SessionOK(c)'
    BY <1>j, <2>1, <2>4, <2>6, <2>8, <2>9, <2>11 DEF SessionOK, InSession
  <2>13. QED
    BY <1>a, <2>3, <2>5, <2>10, <2>12
<1>4. CASE ServerOffline(c)
  <2> DEFINE j == [job[c] EXCEPT !.offline = @ \cup {job[c].turn}]
  <2>1. job[c].turn \in Servers /\ job[c].turn <= MAXSERVERS
    BY <1>4, SessionTurn DEF ServerOffline
  <2>2. j \in Jobs /\ j.turn = job[c].turn /\ j.task = job[c].task
    BY <1>j, <2>1 DEF Jobs
  <2>3. NextServer(c, j)
    BY <1>4 DEF ServerOffline
  <2> HIDE DEF j
  <2>4. /\ cpc' \in [Clients -> ClientStates] /\ job' \in [Clients -> Jobs]
        /\ sess' \in [Clients -> Handlers \cup {None}]
        /\ cpc'[c] = "connect" /\ job'[c].task = job[c].task
    BY <2>1, <2>2, <2>3, NextServerType
  <2>5. open' \in [Clients -> 0..MaxFiles]
    BY <1>4, <1>i, ClientAssumption DEF ServerOffline, Descriptor, ClientTypeOK
  <2>6. ClientTypeOK'
    BY <1>4, <1>i, <2>4, <2>5 DEF ServerOffline, ClientTypeOK, historyVars
  <2>7. SessionOK(c)'
    BY <1>4, <1>j, <2>4, SessionGoesOn DEF ServerOffline
  <2>8. Inv' /\ reply' = reply
    BY <1>4, <1>i, ClientKeepsInv DEF ServerOffline, serverVars, storeVars
  <2>9. QED
    BY <1>a, <1>i, <2>6, <2>7, <2>8
<1>5. CASE LoginAccepted(c)
  <2>1. InSession(c)
    BY <1>5 DEF LoginAccepted, InSession
  <2>2. reply' \in [Handlers -> Seq(Messages)] /\ \A h \in Handlers : Announces(reply'[h])
    BY <1>5, <1>j, <2>1, TakeAnswerType DEF LoginAccepted
  <2>3. Inv'
    BY <1>5, <1>i, <2>2, ClientKeepsInv DEF LoginAccepted
  <2>4. Step(c, "write", job[c]) /\ "write" \in ClientStates
    BY <1>5 DEF LoginAccepted, ClientStates
  <2>5. /\ cpc' \in [Clients -> ClientStates] /\ job' \in [Clients -> Jobs]
        /\ cpc'[c] = "write" /\ job'[c] = job[c]
    BY <1>j, <2>4, StepType
  <2>6. outbox' \in [Clients -> Seq(Messages)] /\ outbox'[c] # <<>>
    BY <1>5, <1>i, <1>j, ScriptType DEF LoginAccepted, ClientTypeOK
  <2>7. ClientTypeOK'
    BY <1>5, <1>i, <2>5, <2>6 DEF LoginAccepted, ClientTypeOK, historyVars
  <2>8. SessionOK(c)'
    BY <1>5, <1>j, <2>1, <2>5, <2>6, SessionGoesOn DEF LoginAccepted
  <2>9. QED
    BY <1>a, <2>2, <2>3, <2>7, <2>8
<1>6. CASE Write(c)
  <2> DEFINE h == sess[c]
             j == [job[c] EXCEPT !.lost = @ \/ Closed(h)]
  <2>1. InSession(c) /\ cpc[c] = "write" /\ outbox[c] # <<>>
    BY <1>6 DEF Write, InSession, TypeInv, SessionOK
  <2>2. /\ outbox[c] \in Seq(Messages)
        /\ Tail(outbox[c]) \in Seq(Messages) /\ Head(outbox[c]) \in Messages
        /\ Len(outbox[c]) # 1 => Tail(outbox[c]) # <<>>
    <3>1. outbox[c] \in Seq(Messages)
      BY <1>i DEF ClientTypeOK
    <3>2. QED
      BY <2>1, <3>1, TailItems
  <2>3. inbox' \in [Handlers -> Seq(Messages)]
    <3>1. Append(inbox[h], Head(outbox[c])) \in Seq(Messages)
      BY <1>i, <1>j, <2>1, <2>2
    <3>2. QED
      BY <1>6, <1>i, <3>1 DEF Write
  <2>4. Inv' /\ reply' = reply
    BY <1>6, <1>i, <2>3, ClientKeepsInv DEF Write
  <2>5. /\ j \in Jobs /\ j.turn = job[c].turn /\ j.task = job[c].task
        /\ j.task.op \in {"list", "get", "put", "MKDIR"}
    BY <1>j DEF Jobs, TaskTypes, Ops, Closed
  <2>6. outbox' \in [Clients -> Seq(Messages)] /\ outbox'[c] = Tail(outbox[c])
    BY <1>6, <1>i, <2>2 DEF Write, ClientTypeOK
  <2>7. IF Len(outbox[c]) = 1 THEN AfterWriting(c, j)
                              ELSE Step(c, "write", j) /\ UNCHANGED sess
    BY <1>6 DEF Write
  <2>8. last' = last /\ peer' = peer /\ gone' = gone /\ open' = open
    BY <1>6 DEF Write
  <2> HIDE DEF j
  <2>9. /\ cpc' \in [Clients -> ClientStates] /\ job' \in [Clients -> Jobs]
        /\ sess' \in [Clients -> Handlers \cup {None}] /\ SessionOK(c)'
    <3> DEFINE wrapped == [j EXCEPT !.pair = WrapPair(@) + 1]
    <3>1. CASE Len(outbox[c]) # 1 \/ j.task.op \in {"list", "get"}
      <4>1. PICK w \in {"write", "listing", "answer"} :
              /\ Step(c, w, j) /\ sess' = sess
              /\ w = "write" => Len(outbox[c]) # 1
        BY <2>7, <3>1 DEF AfterWriting
      <4>2. w \in ClientStates
        BY DEF ClientStates
      <4>3. /\ cpc' \in [Clients -> ClientStates] /\ job' \in [Clients -> Jobs]
            /\ cpc'[c] = w /\ job'[c] = j
        BY <2>5, <4>1, <4>2, StepType
      <4>4. SessionOK(c)'
        BY <1>j, <2>1, <2>2, <2>5, <2>6, <2>8, <4>1, <4>3, SessionGoesOn
      <4>5. QED
        BY <1>i, <4>1, <4>3, <4>4 DEF ClientTypeOK
    <3>2. CASE Len(outbox[c]) = 1 /\ j.task.op \in {"put", "MKDIR"}
      <4>1. wrapped \in Jobs /\ wrapped.turn = j.turn /\ wrapped.task = j.task
        BY <2>5 DEF Jobs, WrapPair
      <4>2. NextServer(c, wrapped) \/ NextServer(c, j)
        BY <2>7, <3>2 DEF AfterWriting
      <4> HIDE DEF wrapped
      <4>3. PICK k \in {j, wrapped} : NextServer(c, k)
        BY <4>2
      <4>4. k \in Jobs /\ k.turn <= MAXSERVERS /\ k.task = job[c].task
        BY <1>j, <2>1, <2>5, <4>1, <4>3
      <4>5. /\ cpc' \in [Clients -> ClientStates] /\ job' \in [Clients -> Jobs]
            /\ sess' \in [Clients -> Handlers \cup {None}]
            /\ cpc'[c] = "connect" /\ job'[c].task = job[c].task
        BY <4>3, <4>4, NextServerType
      <4>6. QED
        BY <1>j, <2>8, <4>5, SessionGoesOn
    <3>3. QED
      BY <2>5, <3>1, <3>2
  <2>10. ClientTypeOK'
    BY <1>6, <1>i, <2>6, <2>9 DEF Write, ClientTypeOK, historyVars
  <2>11. QED
    BY <1>a, <1>i, <2>4, <2>9, <2>10
<1>7. CASE ReadListing(c)
  <2> DEFINE names == IF Answer(c).tag = "listing" THEN Answer(c).body ELSE {}
             j == [job[c] EXCEPT !.seen = @ \cup names]
  <2>1. InSession(c) /\ open[c] > 0
    BY <1>7 DEF ReadListing, InSession, TypeInv, SessionOK
  <2>2. reply' \in [Handlers -> Seq(Messages)] /\ \A h \in Handlers : Announces(reply'[h])
    BY <1>7, <1>j, <2>1, TakeAnswerType DEF ReadListing
  <2>3. names \in SUBSET (Names \X (0..4))
    BY <1>j, <2>1, AnswerType
  <2>4. NextServer(c, j)
    BY <1>7 DEF ReadListing
  <2> HIDE DEF names
  <2>5. j \in Jobs /\ j.turn = job[c].turn /\ j.task = job[c].task
    BY <1>j, <2>3 DEF Jobs
  <2> HIDE DEF j
  <2>6. /\ cpc' \in [Clients -> ClientStates] /\ job' \in [Clients -> Jobs]
        /\ sess' \in [Clients -> Handlers \cup {None}]
        /\ cpc'[c] = "connect" /\ job'[c].task = job[c].task
    BY <1>j, <2>1, <2>4, <2>5, NextServerType
  <2>7. gone' \in [Handlers -> BOOLEAN]
    BY <1>7, <1>i DEF ReadListing
  <2>8. Inv'
    BY <1>7, <1>i, <2>2, <2>7, ClientKeepsInv DEF ReadListing
  <2>9. open' \in [Clients -> 0..MaxFiles]
    BY <1>7, <1>i, <2>1, ClientAssumption DEF ReadListing, ClientTypeOK
  <2>10. ClientTypeOK'
    BY <1>7, <1>i, <2>6, <2>9 DEF ReadListing, ClientTypeOK, historyVars
  <2>11. SessionOK(c)'
    BY <1>7, <1>j, <2>6, SessionGoesOn DEF ReadListing
  <2>12. QED
    BY <1>a, <2>2, <2>8, <2>10, <2>11
<1>8. CASE NoMoreParts(c)
  <2>1. InSession(c)
    BY <1>8 DEF NoMoreParts, InSession
  <2>2. reply' \in [Handlers -> Seq(Messages)] /\ \A h \in Handlers : Announces(reply'[h])
    BY <1>8, <1>j, <2>1, TakeAnswerType DEF NoMoreParts
  <2>3. /\ cpc' \in [Clients -> ClientStates] /\ job' \in [Clients -> Jobs]
        /\ sess' \in [Clients -> Handlers \cup {None}]
        /\ cpc'[c] = "connect" /\ job'[c].task = job[c].task
    BY <1>8, <1>j, <2>1, NextServerType DEF NoMoreParts
  <2>4. Inv'
    BY <1>8, <1>i, <2>2, ClientKeepsInv DEF NoMoreParts
  <2>5. ClientTypeOK'
    BY <1>8, <1>i, <2>3 DEF NoMoreParts, ClientTypeOK, historyVars
  <2>6. SessionOK(c)'
    BY <1>8, <1>j, <2>3, SessionGoesOn DEF NoMoreParts
  <2>7. QED
    BY <1>a, <2>2, <2>4, <2>5, <2>6
<1>9. CASE ReadHeader(c)
  <2> DEFINE hd == HeaderOf(c, Answer(c))
             j == [job[c] EXCEPT !.want = @ \ {hd.part}, !.bufs[hd.part] = Zeros(0)]
  <2>1. InSession(c) /\ cpc[c] = "answer"
    BY <1>9 DEF ReadHeader, InSession
  <2>2. reply' \in [Handlers -> Seq(Messages)] /\ \A h \in Handlers : Announces(reply'[h])
    BY <1>9, <1>j, <2>1, TakeAnswerType DEF ReadHeader
  <2>3. hd \in Headers /\ hd # None /\ hd.part \in Parts
    <3>1. hd # None
      BY <1>9 DEF ReadHeader
    <3>2. QED
      BY <1>j, <2>1, <3>1, AnswerType DEF HeaderOf
  <2>4. /\ last' = [last EXCEPT ![c] = hd] /\ Malloc(c, {hd.part})
        /\ IF hd.size = 0 THEN NextAnswer(c, j) ELSE Step(c, "bytes", j) /\ sess' = sess
        /\ peer' = peer /\ gone' = gone /\ open' = open
    BY <1>9 DEF ReadHeader
  <2> HIDE DEF hd
  <2>5. j \in Jobs /\ j.turn = job[c].turn /\ j.task = job[c].task
    <3>1. Zeros(0) \in Pieces
      BY PieceTypes
    <3>2. QED
      BY <1>j, <2>3, <3>1 DEF Jobs
  <2> HIDE DEF j
  <2>6. last' \in [Clients -> Headers \cup {None}] /\ last'[c] = hd
    BY <1>i, <2>3, <2>4 DEF ClientTypeOK
  <2>7. heap' \in [Clients -> [Parts -> Pointers]]
    BY <1>m, <2>3, <2>4
  <2>8. /\ cpc' \in [Clients -> ClientStates] /\ job' \in [Clients -> Jobs]
        /\ sess' \in [Clients -> Handlers \cup {None}] /\ SessionOK(c)'
    <3>1. CASE hd.size = 0
      <4>1. NextAnswer(c, j)
        BY <2>4, <3>1
      <4>2. QED
        BY <1>j, <2>1, <2>3, <2>4, <2>5, <2>6, <4>1, NextAnswerType, SessionGoesOn
    <3>2. CASE hd.size # 0
      <4>1. Step(c, "bytes", j) /\ sess' = sess /\ "bytes" \in ClientStates
        BY <2>4, <3>2 DEF ClientStates
      <4>2. /\ cpc' \in [Clients -> ClientStates] /\ job' \in [Clients -> Jobs]
            /\ cpc'[c] = "bytes" /\ job'[c] = j
        BY <2>5, <4>1, StepType
      <4>3. SessionOK(c)'
        BY <1>j, <2>1, <2>3, <2>4, <2>5, <2>6, <4>1, <4>2, SessionGoesOn
      <4>4. QED
        BY <1>i, <4>1, <4>2, <4>3 DEF ClientTypeOK
    <3>3. QED
      BY <3>1, <3>2
  <2>9. Inv'
    BY <1>9, <1>i, <2>2, ClientKeepsInv DEF ReadHeader
  <2>10. ClientTypeOK'
    BY <1>9, <1>i, <2>6, <2>7, <2>8 DEF ReadHeader, ClientTypeOK, historyVars
  <2>11. QED
    BY <1>a, <2>2, <2>8, <2>9, <2>10
<1>10. CASE ReadGarbage(c)
  <2>1. CASE ExitClient(c)
    <3>1. reply' = reply
      BY <2>1 DEF ExitClient
    <3>2. QED
      BY <1>a, <1>i, <2>1, <3>1, ExitType
  <2>2. CASE ~ExitClient(c)
    <3>1. InSession(c) /\ cpc[c] = "answer"
      BY <1>10 DEF ReadGarbage, InSession
    <3>2. NextAnswer(c, job[c]) /\ last' = last /\ peer' = peer /\ open' = open
      BY <1>10, <2>2 DEF ReadGarbage
    <3>3. gone' = gone /\ reply' = reply
      BY <1>10, <2>2 DEF ReadGarbage, serverVars
    <3>4. /\ cpc' \in [Clients -> ClientStates] /\ job' \in [Clients -> Jobs]
          /\ sess' \in [Clients -> Handlers \cup {None}] /\ SessionOK(c)'
      BY <1>j, <3>1, <3>2, <3>3, NextAnswerType, SessionGoesOn
    <3>5. Inv'
      BY <1>10, <1>i, <2>2, ClientKeepsInv DEF ReadGarbage, serverVars, storeVars
    <3>6. ClientTypeOK'
      BY <1>10, <1>i, <2>2, <3>4 DEF ReadGarbage, ClientTypeOK, historyVars
    <3>7. QED
      BY <1>a, <1>i, <3>3, <3>4, <3>5, <3>6
  <2>3. QED
    BY <2>1, <2>2
<1>11. CASE ReadBytes(c)
  <2> DEFINE j == [job[c] EXCEPT !.bufs[last[c].part] =
                     AsData(Answer(c), last[c].size)]
  <2>1. InSession(c) /\ cpc[c] = "bytes" /\ last[c] # None
    BY <1>11 DEF ReadBytes, InSession, TypeInv, SessionOK
  <2>2. reply' \in [Handlers -> Seq(Messages)] /\ \A h \in Handlers : Announces(reply'[h])
    BY <1>11, <1>j, <2>1, TakeAnswerType DEF ReadBytes
  <2>3. AsData(Answer(c), last[c].size) \in Pieces
    <3>1. last[c].size \in Nat
      BY <1>j, <2>1 DEF Headers
    <3>2. QED
      BY <1>j, <2>1, <3>1, AnswerType, ParseTypes
  <2>4. j \in Jobs /\ j.turn = job[c].turn /\ j.task = job[c].task
    BY <1>j, <2>1, <2>3 DEF Jobs
  <2>5. NextAnswer(c, j) /\ last' = last /\ peer' = peer /\ gone' = gone /\ open' = open
    BY <1>11 DEF ReadBytes
  <2> HIDE DEF j
  <2>6. /\ cpc' \in [Clients -> ClientStates] /\ job' \in [Clients -> Jobs]
        /\ sess' \in [Clients -> Handlers \cup {None}] /\ SessionOK(c)'
    BY <1>j, <2>1, <2>4, <2>5, NextAnswerType, SessionGoesOn
  <2>7. Inv'
    BY <1>11, <1>i, <2>2, ClientKeepsInv DEF ReadBytes
  <2>8. ClientTypeOK'
    BY <1>11, <1>i, <2>6 DEF ReadBytes, ClientTypeOK, historyVars
  <2>9. QED
    BY <1>a, <2>2, <2>6, <2>7, <2>8
<1>12. CASE SpinClient(c)
  <2>1. InSession(c) /\ cpc[c] = "bytes" /\ last[c] # None
    BY <1>12 DEF SpinClient, InSession, TypeInv, SessionOK
  <2>2. Step(c, "spin", job[c]) /\ "spin" \in ClientStates
    BY <1>12 DEF SpinClient, ClientStates
  <2>3. /\ cpc' \in [Clients -> ClientStates] /\ job' \in [Clients -> Jobs]
        /\ cpc'[c] = "spin" /\ job'[c] = job[c]
    BY <1>j, <2>2, StepType
  <2>4. gone' = gone /\ reply' = reply
    BY <1>12 DEF SpinClient, serverVars
  <2>5. SessionOK(c)'
    BY <1>12, <1>j, <2>1, <2>3, <2>4, SessionGoesOn DEF SpinClient
  <2>6. Inv'
    BY <1>12, <1>i, ClientKeepsInv DEF SpinClient, serverVars, storeVars
  <2>7. ClientTypeOK'
    BY <1>12, <1>i, <2>3 DEF SpinClient, ClientTypeOK, historyVars
  <2>8. QED
    BY <1>a, <1>i, <2>4, <2>5, <2>6, <2>7
<1>13. CASE Finish(c)
  <2>1. Step(c, "idle", job[c]) /\ "idle" \in ClientStates
    BY <1>13 DEF Finish, ClientStates
  <2>2. /\ cpc' \in [Clients -> ClientStates] /\ job' \in [Clients -> Jobs]
        /\ cpc'[c] = "idle" /\ job'[c] = job[c]
    BY <1>j, <2>1, StepType
  <2>3. heap' \in [Clients -> [Parts -> Pointers]]
    BY <1>13, <1>i, <1>e DEF Finish, ClientTypeOK
  <2>4. file' \in [Clients -> [Parts -> Pieces]]
    BY <1>13, <1>i, <1>j DEF Finish, ClientTypeOK, Jobs
  <2>5. listed' \in [Clients -> SUBSET Names]
    BY <1>13, <1>i DEF Finish, ClientTypeOK
  <2>6. /\ latest' \in [Paths -> Contents \cup {None}]
        /\ missed' \in [Paths -> SUBSET Servers]
    <3>1. job[c].task.content \in Contents \cup {None} /\ job[c].offline \in SUBSET Servers
      BY <1>j DEF Jobs, TaskTypes
    <3>2. QED
      BY <1>13, <1>i, <3>1 DEF Finish, ClientTypeOK
  <2>7. Inv' /\ reply' = reply
    BY <1>13, <1>i, ClientKeepsInv DEF Finish, serverVars, storeVars
  <2>8. ClientTypeOK'
    BY <1>13, <1>i, <2>2, <2>3, <2>4, <2>5, <2>6 DEF Finish, ClientTypeOK
  <2>9. SessionOK(c)'
    BY <1>13, <1>j, <2>2, SessionGoesOn DEF Finish
  <2>10. QED
    BY <1>a, <1>i, <2>7, <2>8, <2>9
<1>14. CASE LoginRefused(c) \/ WriteBroken(c) \/ Kill(c)
  <2>1. ExitClient(c)
    BY <1>14 DEF LoginRefused, WriteBroken, Kill
  <2>2. reply' = reply
    BY <2>1 DEF ExitClient
  <2>3. QED
    BY <1>a, <1>i, <2>1, <2>2, ExitType
<1>15. QED
  BY <1>1, <1>2, <1>3, <1>4, <1>5, <1>6, <1>7, <1>8, <1>9, <1>10, <1>11, <1>12,
     <1>13, <1>14 DEF UserStep, ClientStep

\* The servers, running or failing, leave the clients alone.
LEMMA ServersLeaveClients ==
  ASSUME TypeInv,
         \/ \E h \in Handlers : ServerStep(h)
         \/ \E s \in Servers : Outage(s)
  PROVE  UNCHANGED <<clientVars, historyVars, gone>>
<1>1. ASSUME NEW h \in Handlers, HandlerStep(h) PROVE gone' = gone
  BY <1>1 DEF HandlerStep, Authenticate, ScanForDirectory, MakeUserDirectory,
     UserDirectoryExists, ReadCommand, List, ListUnopened, OpenPart, WritePart,
     Spin, ReadRequest, ServeHeader, SendPart, ServeNothing, ServeUnopened, Halt
<1>2. ASSUME NEW h \in Handlers, BrokenPipe(h) PROVE gone' = gone
  BY <1>2 DEF BrokenPipe, Halt
<1>3. ASSUME NEW s \in Servers, Outage(s) PROVE gone' = gone
  BY <1>3 DEF Outage, Crash, Halt, Restart
<1>4. QED
  BY <1>1, <1>2, <1>3 DEF ServerStep, Outage

LEMMA ServerTypes ==
  ASSUME TypeInv,
         \/ \E h \in Handlers : ServerStep(h)
         \/ \E s \in Servers : Outage(s)
  PROVE  TypeInv'
<1>1. UNCHANGED <<clientVars, historyVars, gone>>
  BY ServersLeaveClients
<1>2. Inv' /\ \A k \in Handlers : Announces(reply'[k])
  <2>1. ASSUME NEW h \in Handlers, HandlerStep(h)
        PROVE  Inv' /\ \A k \in Handlers : Announces(reply'[k])
    BY <2>1, HandlerInv, HandlerAnnounces DEF TypeInv
  <2>2. ASSUME \/ \E h \in Handlers : BrokenPipe(h)
               \/ \E s \in Servers : Crash(s) \/ Restart(s)
        PROVE  Inv' /\ \A k \in Handlers : Announces(reply'[k])
    BY <2>2, FaultsSilent DEF TypeInv
  <2>3. QED
    BY <2>1, <2>2 DEF ServerStep, Outage
<1>3. ClientTypeOK'
  BY <1>1 DEF clientVars, historyVars, TypeInv, ClientTypeOK
<1>4. \A c \in Clients : SessionOK(c)'
  BY <1>1 DEF clientVars, TypeInv, SessionOK, InSession
<1>5. QED
  BY <1>2, <1>3, <1>4 DEF TypeInv

LEMMA InitTypes == Init => TypeInv
<1> SUFFICES ASSUME Init PROVE TypeInv
  OBVIOUS
<1> DEFINE first == [op |-> "MKDIR", name |-> CHOOSE n \in Names : TRUE,
                     dir |-> Base, content |-> None]
<1>1. first \in TaskTypes /\ first.op = "MKDIR"
  BY ConstantsAssumption DEF TaskTypes, Ops, Dirs
<1> HIDE DEF first
<1>2. NewJob(first) \in Jobs /\ NewJob(first).task = first
  BY <1>1, NewJobType DEF NewJob
<1>3. job = [c \in Clients |-> NewJob(first)]
  BY DEF Init, first
<1>4. disk \in [Servers -> [Slots -> Pieces]]
  <2>1. ASSUME NEW s \in Servers, NEW f \in Slots PROVE disk[s][f] \in Pieces
    <3> DEFINE x == Stored[<<f[1], f[2], f[3]>>]
               kept == x # None /\ f[4] \in PairParts(Layout(get_md5_mod(Digest[x]))[s])
    <3>1. <<f[1], f[2], f[3]>> \in Paths /\ f[4] \in 0..4
      BY DEF Slots, Paths
    <3>2. x \in Contents \cup {None}
      BY <3>1, PlansAssumption
    <3>3. disk[s][f] = IF kept THEN Cut(x, f[4]) ELSE Absent
      BY DEF Init, StoredDisk
    <3> HIDE DEF x
    <3>4. CASE ~kept
      BY <3>3, <3>4, PieceTypes
    <3>5. CASE kept
      <4>1. x \in Contents
        BY <3>2, <3>5
      <4>2. get_md5_mod(Digest[x]) \in Pairs /\ s \in 1..MAXSERVERS
        BY <4>1, DigestGivesPair, ClientAssumption
      <4>3. PairParts(Layout(get_md5_mod(Digest[x]))[s]) \subseteq Parts
        BY <4>2, LayoutParts
      <4>4. QED
        BY <3>3, <3>5, <4>1, <4>3, CutType
    <3>6. QED
      BY <3>4, <3>5
  <2>2. QED
    BY <2>1 DEF Init, StoredDisk
<1>5. Inv
  <2>1. Cleared \in Frames
    BY ClearedType
  <2>2. NoCommand(CHOOSE n \in Names : TRUE) \in Commands
    BY ConstantsAssumption DEF NoCommand, Commands, Ops, Dirs
  <2>3. KnownUsers \X {Base} \in SUBSET (Users \X Dirs)
    BY ConstantsAssumption DEF Dirs
  <2>4. <<>> \in Seq(Messages)
    OBVIOUS
  <2>5. TypeOK
    BY <1>4, <2>1, <2>2, <2>3, <2>4 DEF Init, ServerInit, TypeOK, States
  <2>6. QED
    BY <2>5 DEF Init, ServerInit, OnlyAccounts, Inv
<1>6. ClientTypeOK
  <2>1. NoBufs \in [Parts -> Pieces]
    BY PieceTypes DEF NoBufs
  <2>2. todo \in [Clients -> Seq(TaskTypes)]
    BY PlansAssumption DEF Init
  <2>3. latest \in [Paths -> Contents \cup {None}]
    BY PlansAssumption DEF Init
  <2>4. QED
    BY <1>2, <1>3, <2>1, <2>2, <2>3, ClientAssumption
    DEF Init, ClientTypeOK, ClientStates, Pointers
<1>7. \A c \in Clients : SessionOK(c)
  BY <1>1, <1>2, <1>3 DEF Init, SessionOK, InSession
<1>8. \A h \in Handlers : Announces(reply[h])
  BY DEF Init, ServerInit, Announces
<1>9. QED
  BY <1>5, <1>6, <1>7, <1>8 DEF TypeInv

LEMMA NextTypes == TypeInv /\ [Next]_vars => TypeInv'
<1> SUFFICES ASSUME TypeInv, [Next]_vars PROVE TypeInv'
  OBVIOUS
<1>1. ASSUME NEW c \in Clients, UserStep(c) PROVE TypeInv'
  BY <1>1, UserTypes
<1>2. CASE \/ \E h \in Handlers : ServerStep(h)
           \/ \E s \in Servers : Outage(s)
  BY <1>2, ServerTypes
<1>3. CASE UNCHANGED vars
  BY <1>3 DEF vars, serverVars, clientVars, historyVars, TypeInv, Inv, TypeOK,
     OnlyAccounts, ClientTypeOK, SessionOK, InSession
<1>4. QED
  BY <1>1, <1>2, <1>3 DEF Next, UserStep

(***************************************************************************)
(* Every variable of the servers and of the clients keeps its type, for    *)
(* any clients, users, files and commands, servers that die and clients    *)
(* that are stopped included.                                              *)
(***************************************************************************)
THEOREM TypesCorrect == Spec => []TypesOK
<1>1. TypeInv => TypesOK
  BY DEF TypeInv, Inv, TypesOK
<1>2. QED
  BY <1>1, InitTypes, NextTypes, PTL DEF Spec

-----------------------------------------------------------------------------

\* What the client has still to read grows with what the handler sends.
LEMMA AheadMore ==
  ASSUME TypeInv, NEW c \in Clients, InSession(c),
         cpc' = cpc, last' = last, sess' = sess
  PROVE  /\ Ahead(c) \in Seq(Messages)
         /\ reply'[sess[c]] = reply[sess[c]] => Ahead(c)' = Ahead(c)
         /\ \A m \in Messages : reply'[sess[c]] = Append(reply[sess[c]], m) =>
               Ahead(c)' = Append(Ahead(c), m)
<1>1. reply[sess[c]] \in Seq(Messages)
  BY SessionTurn DEF TypeInv, Inv, TypeOK
<1>2. cpc[c] = "bytes" => Message("header", last[c]) \in Messages
  BY MessageTypes DEF TypeInv, ClientTypeOK, SessionOK
<1>3. CASE cpc[c] = "bytes"
  <2> DEFINE m == Message("header", last[c])
  <2>1. m \in Messages
    BY <1>2, <1>3
  <2>2. Ahead(c) = <<m>> \o reply[sess[c]] /\ Ahead(c)' = <<m>> \o reply'[sess[c]]
    BY <1>3 DEF Ahead, Announced
  <2> HIDE DEF m
  <2>3. Ahead(c) \in Seq(Messages)
    BY <1>1, <2>1, <2>2, Prepended
  <2>4. ASSUME NEW x \in Messages, reply'[sess[c]] = Append(reply[sess[c]], x)
        PROVE  Ahead(c)' = Append(Ahead(c), x)
    <3>1. Append(<<m>> \o reply[sess[c]], x) = <<m>> \o Append(reply[sess[c]], x)
      BY <1>1, <2>1, <2>4, AppendedToMany
    <3>2. QED
      BY <2>2, <2>4, <3>1
  <2>5. QED
    BY <2>2, <2>3, <2>4
<1>4. CASE cpc[c] # "bytes"
  BY <1>1, <1>4 DEF Ahead
<1>5. QED
  BY <1>3, <1>4
\* What the handler of a client that waits for parts does, it does for its get.
LEMMA HandlerServes ==
  ASSUME StepInv, NEW c \in Clients, HandlerStep(sess[c]),
         UNCHANGED <<clientVars, gone>>,
         cpc[c] \in {"write", "answer", "bytes"}, job[c].task.op = "get"
  PROVE  AwaitsParts(c)'
<1> DEFINE h == sess[c]
           r == frame[h].round
           q == Ahead(c)
<1>c. /\ UNCHANGED <<cpc, job, sess, last, outbox>>
      /\ InSession(c) /\ h \in Handlers /\ gone[h] = FALSE
      /\ TypeInv /\ Inv /\ TypeOK
  BY DEF clientVars, StepInv, TypeInv, SessionOK, InSession, Inv, TypeOK
<1>h. /\ frame[h] \in Frames /\ r \in 1..2 /\ frame[h].hdr \in Headers
      /\ inbox[h] \in Seq(Messages) /\ reply[h] \in Seq(Messages)
      /\ pc \in [Handlers -> States] /\ frame \in [Handlers -> Frames]
      /\ reply \in [Handlers -> Seq(Messages)] /\ inbox \in [Handlers -> Seq(Messages)]
      /\ q \in Seq(Messages)
  BY <1>c, AheadMore DEF TypeOK, Frames
<1>w. /\ CanBeCut(pc[h], frame[h], q)
      /\ pc[h] \in BeforeCommand \cup {"request", "serve", "send", "free"}
      /\ pc[h] \in BeforeCommand =>
           \/ inbox[h] # <<>> /\ IsGet(Head(inbox[h]))
           \/ inbox[h] = <<>> /\ cpc[c] = "write" /\ IsGet(Head(outbox[c]))
  BY DEF StepInv, StepOK, AwaitsParts, CanBeCut
<1>k. reply'[h] = reply[h] => Ahead(c)' = q
  BY <1>c, AheadMore
<1>m. \A m \in Messages : Send(h, m) => Ahead(c)' = Append(q, m)
  BY <1>c, <1>h, AheadMore DEF Send
<1>g. ASSUME CanBeCut(pc'[h], frame'[h], Ahead(c)'),
             pc'[h] \in BeforeCommand => pc[h] \in BeforeCommand /\ inbox'[h] = inbox[h]
      PROVE  AwaitsParts(c)'
  BY <1>c, <1>w, <1>g DEF AwaitsParts
\* The end of a round, of which one is left in the first.
<1>n. ASSUME NEW locals \in Frames, locals.round = r, NextRound(h, "serve", locals),
             \E n \in 0..r : Units(Ahead(c)', n, <<>>)
      PROVE  CanBeCut(pc'[h], frame'[h], Ahead(c)') /\ pc'[h] \notin BeforeCommand
  <2>1. CASE r = 1
    <3>1. pc'[h] = "serve" /\ frame'[h] = [locals EXCEPT !.round = 2]
      BY <1>c, <1>h, <1>n, <2>1 DEF NextRound, Goto
    <3>2. frame'[h].round - 1 = r
      BY <2>1, <3>1, <1>n DEF Frames
    <3>3. QED
      BY <1>n, <3>1, <3>2 DEF CanBeCut, BeforeCommand
  <2>2. CASE r = 2
    <3>1. pc'[h] = "free" /\ frame'[h] = Cleared
      BY <1>c, <1>h, <1>n, <2>2 DEF NextRound, Close, Goto
    <3>2. QED
      BY <1>n, <2>2, <3>1 DEF CanBeCut, BeforeCommand
  <2>3. QED
    BY <1>h, <2>1, <2>2
<1>1. CASE ScanForDirectory(h) \/ MakeUserDirectory(h)
  <2>1. /\ pc[h] \in BeforeCommand /\ pc'[h] \in BeforeCommand /\ frame'[h] = frame[h]
        /\ inbox'[h] = inbox[h] /\ reply'[h] = reply[h]
    BY <1>1, <1>c, <1>h DEF ScanForDirectory, MakeUserDirectory, Goto, BeforeCommand
  <2>2. CanBeCut(pc'[h], frame'[h], q)
    BY <1>w, <2>1 DEF CanBeCut, BeforeCommand
  <2>3. QED
    BY <1>g, <1>k, <2>1, <2>2
<1>2. CASE UserDirectoryExists(h)
  <2>1. pc'[h] = "free" /\ frame'[h] = Cleared /\ reply'[h] = reply[h]
    BY <1>2, <1>c DEF UserDirectoryExists, Halt
  <2>2. CanBeCut("free", Cleared, q)
    BY <1>w, <1>h, CutShort
  <2>3. QED
    BY <1>g, <1>k, <2>1, <2>2 DEF BeforeCommand
<1>3. CASE ReadCommand(h)
  <2>1. inbox[h] # <<>> /\ IsGet(Head(inbox[h])) /\ Incoming(h) = Head(inbox[h])
    BY <1>3, <1>c, <1>w DEF ReadCommand, Readable, Incoming, BeforeCommand
  <2>2. AsCommand(Incoming(h), cmd[h]) = {Incoming(h).body} /\ Incoming(h).body.op = "get"
    BY <2>1 DEF AsCommand, IsGet
  <2>3. FirstState("get") = "request"
    BY DEF FirstState
  <2>4. Goto(h, "request", frame[h]) /\ reply' = reply /\ pc[h] = "command"
    BY <1>3, <2>2, <2>3 DEF ReadCommand
  <2>5. pc'[h] = "request" /\ frame'[h] = frame[h]
    BY <1>c, <1>h, <2>4 DEF Goto
  <2>6. CanBeCut("request", frame[h], q)
    BY <1>w, <2>4 DEF CanBeCut, BeforeCommand
  <2>7. QED
    BY <1>g, <1>k, <2>4, <2>5, <2>6 DEF BeforeCommand
<1>4. CASE ReadRequest(h)
  <2> DEFINE locals == [frame[h] EXCEPT !.ask = AsRequest(Incoming(h))]
  <2>1. locals.round = r
    BY <1>h DEF Frames
  <2>2. Goto(h, "serve", locals) /\ reply' = reply /\ pc[h] = "request"
    BY <1>4 DEF ReadRequest
  <2> HIDE DEF locals
  <2>3. pc'[h] = "serve" /\ frame'[h] = locals
    BY <1>c, <1>h, <2>2 DEF Goto
  <2>4. CanBeCut("serve", locals, q)
    <3>1. q = <<>> /\ r = 1
      BY <1>w, <2>2 DEF CanBeCut
    <3>2. 0 \in 0..(locals.round - 1) /\ Units(q, 0, <<>>)
      BY <2>1, <3>1 DEF Units
    <3>3. QED
      BY <3>2 DEF CanBeCut, BeforeCommand
  <2>5. QED
    BY <1>g, <1>k, <2>2, <2>3, <2>4 DEF BeforeCommand
<1>5. CASE ServeHeader(h)
  <2>1. PICK p \in Found(h) :
          LET head == [size |-> FileAt(h, p).size, part |-> p]
              locals == [frame[h] EXCEPT !.hdr = head, !.ask = @ \ {p},
                                         !.copy = FileAt(h, p)]
          IN  /\ Send(h, Message("header", head))
              /\ IF head.size # 0 THEN Goto(h, "send", locals)
                                  ELSE NextRound(h, "serve", locals)
    BY <1>5 DEF ServeHeader
  <2> DEFINE head == [size |-> FileAt(h, p).size, part |-> p]
             locals == [frame[h] EXCEPT !.hdr = head, !.ask = @ \ {p},
                                        !.copy = FileAt(h, p)]
             m == Message("header", head)
  <2>2. pc[h] = "serve" /\ p \in 0..4 /\ FileAt(h, p) \in Pieces
    <3>1. pc[h] = "serve"
      BY <1>5 DEF ServeHeader
    <3>2. User(h) \in Users
      BY <1>c, <3>1, UserType
    <3>3. p \in 0..4
      BY <1>h, <2>1 DEF Found, Frames, Parts
    <3>4. QED
      BY <1>c, <3>1, <3>2, <3>3, PieceTypes, DiskType
  <2>3. head \in Headers
    BY <2>2 DEF Headers, Pieces
  <2>4. locals \in Frames /\ locals.round = r /\ locals.hdr = head
    BY <1>h, <2>2, <2>3 DEF Frames
  <2>5. m \in Messages
    BY <2>3, MessageTypes
  <2>6. PICK n \in 0..(r - 1) : Units(q, n, <<>>)
    BY <1>w, <2>2 DEF CanBeCut
  <2>7. Ahead(c)' = Append(q, m)
    BY <1>m, <2>1, <2>5
  <2>8. CASE head.size # 0
    <3>1. Goto(h, "send", locals)
      BY <2>1, <2>8
    <3> HIDE DEF locals
    <3>2. pc'[h] = "send" /\ frame'[h] = locals
      BY <1>c, <1>h, <3>1 DEF Goto
    <3>3. Units(Append(q, m), n, Announced(head))
      BY <1>h, <2>5, <2>6, PartStarts DEF Announced
    <3> HIDE DEF m, head
    <3>4. CanBeCut("send", locals, Append(q, m))
      BY <2>4, <2>6, <2>8, <3>3 DEF CanBeCut, BeforeCommand
    <3>5. QED
      BY <1>g, <2>7, <3>2, <3>4 DEF BeforeCommand
  <2>9. CASE head.size = 0
    <3>1. NextRound(h, "serve", locals)
      BY <2>1, <2>9
    <3>2. n \in 0..1 /\ n + 1 \in 0..r
      BY <1>h, <2>6
    <3>3. Units(Append(q, m), n + 1, <<>>)
      BY <1>h, <2>3, <2>6, <2>9, <3>2, EmptyPart
    <3> HIDE DEF m, head, locals
    <3>4. QED
      BY <1>n, <1>g, <2>4, <2>7, <3>1, <3>2, <3>3
  <2>10. QED
    BY <2>8, <2>9
<1>6. CASE SendPart(h)
  <2> DEFINE hd == frame[h].hdr
             locals == [frame[h] EXCEPT !.copy = Absent]
  <2>1. PICK now \in {FileAt(h, hd.part), frame[h].copy} :
          Send(h, Message("data", ReadBack(now, hd.size)))
    BY <1>6 DEF SendPart
  <2> DEFINE piece == ReadBack(now, hd.size)
             m == Message("data", piece)
  <2>2. pc[h] = "send" /\ NextRound(h, "serve", locals)
    BY <1>6 DEF SendPart
  <2>3. piece \in Pieces /\ piece.size = hd.size
    <3>1. User(h) \in Users /\ hd.part \in 0..4 /\ hd.size \in Nat
      BY <1>c, <1>h, <2>2, UserType DEF Headers
    <3>2. FileAt(h, hd.part) \in Pieces
      BY <1>c, <3>1, PieceTypes, DiskType
    <3>3. now \in Pieces
      BY <1>h, <2>1, <3>2 DEF Frames
    <3>4. QED
      BY <3>1, <3>3, PieceTypes DEF ReadBack, Zeros, Mixed, Torn, Piece
  <2>4. locals \in Frames /\ locals.round = r
    BY <1>h, PieceTypes DEF Frames
  <2>5. PICK n \in 0..(r - 1) : Units(q, n, Announced(hd))
    BY <1>w, <2>2 DEF CanBeCut
  <2>6. hd.size # 0
    BY <1>w, <2>2 DEF CanBeCut
  <2> HIDE DEF piece, locals
  <2>7. m \in Messages
    BY <2>3, MessageTypes
  <2>8. Ahead(c)' = Append(q, m)
    BY <1>m, <2>1, <2>7 DEF piece
  <2>9. n \in 0..1 /\ n + 1 \in 0..r
    BY <1>h, <2>5
  <2>10. Units(Append(q, m), n + 1, <<>>)
    BY <1>h, <2>3, <2>5, <2>6, <2>9, PartDone
  <2> HIDE DEF m
  <2>11. QED
    BY <1>n, <1>g, <2>2, <2>4, <2>8, <2>9, <2>10
<1>7. CASE ServeNothing(h)
  <2> DEFINE m == Message("nothing", None)
  <2>1. /\ pc[h] = "serve" /\ Send(h, m) /\ Close(h)
    BY <1>7 DEF ServeNothing
  <2>2. m \in Messages
    BY MessageTypes
  <2>3. PICK n \in 0..(r - 1) : Units(q, n, <<>>)
    BY <1>w, <2>1 DEF CanBeCut
  <2>4. n \in 0..2 /\ Units(Append(q, m), n, NothingMore)
    BY <1>h, <2>2, <2>3, PartStarts DEF NothingMore
  <2> HIDE DEF m
  <2>5. Ahead(c)' = Append(q, m)
    BY <1>m, <2>1, <2>2
  <2>6. pc'[h] = "free" /\ frame'[h] = Cleared
    BY <1>c, <1>h, <2>1 DEF Close, Goto
  <2>7. CanBeCut("free", Cleared, Append(q, m))
    BY <2>4 DEF CanBeCut, BeforeCommand
  <2>8. QED
    BY <1>g, <2>5, <2>6, <2>7 DEF BeforeCommand
<1>8. CASE ServeUnopened(h)
  <2>1. pc[h] = "serve" /\ NextRound(h, "serve", frame[h]) /\ reply' = reply
    BY <1>8 DEF ServeUnopened
  <2>2. PICK n \in 0..(r - 1) : Units(q, n, <<>>)
    BY <1>w, <2>1 DEF CanBeCut
  <2>3. n \in 0..r /\ Ahead(c)' = q
    BY <1>h, <1>k, <2>1, <2>2
  <2>4. QED
    BY <1>n, <1>g, <1>h, <2>1, <2>2, <2>3
<1>9. QED
  BY <1>w, <1>1, <1>2, <1>3, <1>4, <1>5, <1>6, <1>7, <1>8
  DEF HandlerStep, Authenticate, List, ListUnopened, OpenPart, WritePart, Spin,
      BeforeCommand

\* Until the command arrives the handler sends the verdict and nothing else.
LEMMA HandlerDecides ==
  ASSUME StepInv, NEW c \in Clients, HandlerStep(sess[c]),
         UNCHANGED <<clientVars, gone>>, cpc[c] = "verdict"
  PROVE  AwaitsVerdict(sess[c])'
<1> DEFINE h == sess[c]
<1>c. /\ UNCHANGED sess /\ h \in Handlers /\ gone[h] = FALSE /\ AwaitsVerdict(h)
      /\ TypeOK
  BY DEF clientVars, StepInv, StepOK, TypeInv, SessionOK, InSession, Inv, TypeOK
<1>h. /\ frame[h] \in Frames /\ Cleared.round = 1
      /\ inbox[h] \in Seq(Messages) /\ reply[h] \in Seq(Messages)
      /\ pc \in [Handlers -> States] /\ frame \in [Handlers -> Frames]
      /\ reply \in [Handlers -> Seq(Messages)] /\ inbox \in [Handlers -> Seq(Messages)]
  BY <1>c DEF TypeOK, Cleared
<1>1. CASE Authenticate(h)
  <2>1. pc[h] = "auth" /\ reply[h] = <<>> /\ Len(inbox[h]) = 1 /\ frame[h].round = 1
    BY <1>1, <1>c DEF Authenticate, AwaitsVerdict
  <2>2. inbox'[h] = <<>>
    <3>1. inbox[h] # <<>> /\ Tail(inbox[h]) = <<>>
      BY <1>h, <2>1, OnlyItem
    <3>2. QED
      BY <1>1, <1>h, <1>c, <3>1 DEF Authenticate, Consume
  <2>3. Len(reply'[h]) <= 1
    BY <1>1, <1>h, <1>c, <2>1 DEF Authenticate, Send
  <2>4. pc'[h] \in {"scan", "free"} /\ (pc'[h] = "scan" => frame'[h].round = 1)
    BY <1>1, <1>h, <1>c, <2>1 DEF Authenticate, Goto, Close, Frames
  <2>5. QED
    BY <1>c, <2>2, <2>3, <2>4 DEF AwaitsVerdict, BeforeCommand
<1>2. CASE ScanForDirectory(h) \/ MakeUserDirectory(h)
  <2>1. /\ pc[h] \in BeforeCommand /\ pc'[h] \in BeforeCommand /\ frame'[h] = frame[h]
        /\ inbox'[h] = inbox[h] /\ reply'[h] = reply[h]
    BY <1>2, <1>c, <1>h DEF ScanForDirectory, MakeUserDirectory, Goto, BeforeCommand
  <2>2. QED
    BY <1>c, <2>1 DEF AwaitsVerdict, BeforeCommand
<1>3. CASE UserDirectoryExists(h)
  <2>1. pc'[h] = "free" /\ reply'[h] = reply[h]
    BY <1>3, <1>c DEF UserDirectoryExists, Halt
  <2>2. QED
    BY <1>c, <2>1 DEF AwaitsVerdict, BeforeCommand
<1>4. CASE ReadCommand(h)
  BY <1>4, <1>c DEF ReadCommand, Readable, AwaitsVerdict, BeforeCommand
<1>5. QED
  BY <1>c, <1>1, <1>2, <1>3, <1>4
  DEF AwaitsVerdict, HandlerStep, List, ListUnopened, OpenPart, WritePart, Spin,
      ReadRequest, ServeHeader, SendPart, ServeNothing, ServeUnopened, BeforeCommand
\* A handler that is killed while its client waits.
LEMMA HaltedOK ==
  ASSUME StepInv, NEW c \in Clients, InSession(c), UNCHANGED clientVars,
         LET h == sess[c]
         IN  pc'[h] = "free" /\ frame'[h] = Cleared /\ reply'[h] = reply[h]
  PROVE  StepOK(c)'
<1>1. StepOK(c) /\ UNCHANGED <<cpc, job, sess, last, outbox>> /\ sess[c] \in Handlers
      /\ frame[sess[c]] \in Frames
  BY SessionTurn DEF StepInv, clientVars, TypeInv, Inv, TypeOK
<1>2. AwaitsVerdict(sess[c]) => AwaitsVerdict(sess[c])'
  BY <1>1 DEF AwaitsVerdict, BeforeCommand
<1>3. AwaitsParts(c) => AwaitsParts(c)'
  <2>1. SUFFICES ASSUME AwaitsParts(c) PROVE AwaitsParts(c)'
    OBVIOUS
  <2>2. CanBeCut("free", Cleared, Ahead(c))
    BY <1>1, <2>1, CutShort DEF AwaitsParts
  <2>3. Ahead(c)' = Ahead(c)
    BY <1>1 DEF Ahead
  <2>4. QED
    BY <1>1, <2>2, <2>3 DEF AwaitsParts, BeforeCommand
<1>4. QED
  BY <1>1, <1>2, <1>3 DEF StepOK

\* Nothing changes for a client whose connection is left alone.
LEMMA UntouchedOK ==
  ASSUME StepInv, NEW c \in Clients, SameClient(c),
         InSession(c) => SameConnection(sess[c])
  PROVE  StepOK(c)'
<1>1. StepOK(c)
  BY DEF StepInv
<1>2. CASE ~InSession(c)
  BY <1>1, <1>2 DEF StepOK, InSession, SameClient
<1>3. CASE InSession(c)
  <2>1. Ahead(c)' = Ahead(c)
    BY <1>3 DEF Ahead, SameClient, SameConnection
  <2>2. QED
    BY <1>1, <1>3, <2>1 DEF StepOK, SameClient, SameConnection, AwaitsVerdict, AwaitsParts
<1>4. QED
  BY <1>2, <1>3

LEMMA ServersStayInStep ==
  ASSUME StepInv,
         \/ \E h \in Handlers : ServerStep(h)
         \/ \E s \in Servers : Outage(s)
  PROVE  \A c \in Clients : StepOK(c)'
<1> SUFFICES ASSUME NEW c \in Clients PROVE StepOK(c)'
  OBVIOUS
<1>t. TypeInv /\ Inv /\ TypeOK /\ StepOK(c)
  BY DEF StepInv, TypeInv, Inv
<1>u. UNCHANGED <<clientVars, gone>>
  BY <1>t, ServersLeaveClients
<1>c. UNCHANGED <<cpc, job, sess, peer, outbox, last, heap, open, file, listed, todo>>
  BY <1>u DEF clientVars
<1>1. CASE ~InSession(c)
  BY <1>t, <1>c, <1>1 DEF StepOK, InSession
<1>2. ASSUME InSession(c), NEW h \in Handlers, HandlerStep(h) PROVE StepOK(c)'
  <2>1. CASE h = sess[c]
    <3>1. cpc[c] = "verdict" => AwaitsVerdict(sess[c])'
      BY <1>2, <1>u, <2>1, HandlerDecides
    <3>2. cpc[c] \in {"write", "answer", "bytes"} /\ job[c].task.op = "get" => AwaitsParts(c)'
      BY <1>2, <1>u, <2>1, HandlerServes
    <3>3. QED
      BY <1>t, <1>c, <3>1, <3>2 DEF StepOK
  <2>2. CASE h # sess[c]
    <3> DEFINE k == sess[c]
    <3>1. k \in Handlers \ {h}
      BY <1>t, <1>2, <2>2, SessionTurn
    <3>2. inbox'[k] = inbox[k] /\ reply'[k] = reply[k]
      BY <1>t, <1>2, <3>1, OwnStreams DEF Inv
    <3>3. CASE UserDirectoryExists(h) \/ ListUnopened(h)
      <4>1. \/ pc'[k] = "free" /\ frame'[k] = Cleared
            \/ pc'[k] = pc[k] /\ frame'[k] = frame[k] /\ cmd'[k] = cmd[k]
        BY <1>t, <3>1, <3>3 DEF UserDirectoryExists, ListUnopened, Halt
      <4>2. QED
        BY <1>2, <1>u, <1>c, <3>2, <4>1, HaltedOK, UntouchedOK DEF SameClient, SameConnection
    <3>4. CASE ~(UserDirectoryExists(h) \/ ListUnopened(h))
      <4>1. pc'[k] = pc[k] /\ frame'[k] = frame[k] /\ cmd'[k] = cmd[k]
        BY <1>t, <1>2, <3>1, <3>4, OthersStay
      <4>2. QED
        BY <1>u, <1>c, <3>2, <4>1, UntouchedOK DEF SameClient, SameConnection
    <3>5. QED
      BY <3>3, <3>4
  <2>3. QED
    BY <2>1, <2>2
<1>3. ASSUME InSession(c), NEW s \in Servers, NEW how, Halt(s, how) PROVE StepOK(c)'
  <2> DEFINE k == sess[c]
  <2>1. k \in Handlers
    BY <1>t, <1>3, SessionTurn
  <2>2. /\ inbox'[k] = inbox[k] /\ reply'[k] = reply[k]
        /\ \/ pc'[k] = "free" /\ frame'[k] = Cleared
           \/ pc'[k] = pc[k] /\ frame'[k] = frame[k] /\ cmd'[k] = cmd[k]
    BY <1>t, <1>3, <2>1 DEF Halt
  <2>3. QED
    BY <1>3, <1>u, <1>c, <2>2, HaltedOK, UntouchedOK DEF SameClient, SameConnection
<1>4. ASSUME InSession(c), NEW s \in Servers, Restart(s) PROVE StepOK(c)'
  BY <1>4, <1>u, <1>c, UntouchedOK DEF Restart, SameClient, SameConnection
<1>5. \A h \in Handlers : ServerOf(h) \in Servers
  BY DEF Handlers, ServerOf
<1>6. QED
  BY <1>1, <1>2, <1>3, <1>4, <1>5 DEF ServerStep, Outage, BrokenPipe, Crash
\* What a client that reads takes off its stream.
LEMMA TakesAnswer ==
  ASSUME TypeInv, NEW c \in Clients, InSession(c), TakeAnswer(c)
  PROVE  LET h == sess[c]
         IN  /\ reply[h] \in Seq(Messages)
             /\ reply[h] # <<>> => reply'[h] = Tail(reply[h]) /\ Answer(c) = Head(reply[h])
             /\ reply[h] = <<>> => reply'[h] = <<>> /\ Answer(c) = EOF
  BY SessionTurn DEF TypeInv, Inv, TypeOK, TakeAnswer, Answer

(***************************************************************************)
(* A client that takes a header, or the bytes of a part, takes all of it:  *)
(* what is left can be cut again.                                          *)
(***************************************************************************)
LEMMA ClientCuts ==
  ASSUME StepInv, NEW c \in Clients, ReadHeader(c) \/ ReadBytes(c)
  PROVE  StepOK(c)'
<1> DEFINE h == sess[c]
           q == Ahead(c)
           hd == HeaderOf(c, Answer(c))
<1>c. /\ TypeInv /\ InSession(c) /\ h \in Handlers /\ cpc[c] \in {"answer", "bytes"}
      /\ job[c] \in Jobs /\ job[c].turn <= MAXSERVERS
  BY SessionTurn DEF StepInv, ReadHeader, ReadBytes, InSession
<1>s. /\ job[c].task.op = "get" /\ CanBeCut(pc[h], frame[h], q)
      /\ pc[h] \in BeforeCommand => inbox[h] # <<>> /\ IsGet(Head(inbox[h]))
  <2>1. StepOK(c)
    BY <1>c DEF StepInv
  <2>2. job[c].task.op = "get" /\ AwaitsParts(c)
    BY <1>c, <2>1 DEF StepOK
  <2>3. cpc[c] # "write"
    BY <1>c
  <2>4. QED
    BY <2>2, <2>3 DEF AwaitsParts
<1>u. UNCHANGED <<pc, frame, inbox, gone, peer>> /\ TakeAnswer(c)
  BY DEF ReadHeader, ReadBytes
<1>t. /\ reply[h] \in Seq(Messages) /\ frame[h] \in Frames /\ q \in Seq(Messages)
      /\ reply[h] # <<>> => reply'[h] = Tail(reply[h]) /\ Answer(c) = Head(reply[h])
      /\ reply[h] = <<>> => reply'[h] = <<>> /\ Answer(c) = EOF /\ pc[h] = "free"
  <2>1. Answered(c)
    BY DEF ReadHeader, ReadBytes
  <2>2. /\ cpc[c] = "bytes" => Message("header", last[c]) \in Messages
        /\ reply[h] \in Seq(Messages)
    BY <1>c, MessageTypes DEF TypeInv, ClientTypeOK, SessionOK, Inv, TypeOK
  <2>3. q \in Seq(Messages)
    BY <2>2, Prepended DEF Ahead, Announced
  <2>4. QED
    BY <1>c, <1>u, <2>1, <2>3, TakesAnswer DEF Answered, Closed, TypeInv, Inv, TypeOK
<1>n. reply[h] = <<>> => CanBeCut("free", frame[h], <<>>)
  BY DEF CanBeCut, Units, BeforeCommand
<1>l. \A k : StartsWithUnit(Announced(k)) /\ k.size # 0 => FALSE
  <2> SUFFICES ASSUME NEW k, StartsWithUnit(Announced(k)), k.size # 0 PROVE FALSE
    OBVIOUS
  <2> DEFINE m == Message("header", k)
  <2>1. m.body = k
    BY DEF Message
  <2> HIDE DEF m
  <2>2. Head(<<m>>) = m /\ Tail(<<m>>) = <<>>
    OBVIOUS
  <2>3. QED
    BY <2>1, <2>2 DEF StartsWithUnit, Announced, m
\* The next state of the client, if what it has still to read can be cut.
<1>g. ASSUME NEW j \in Jobs, j.turn = job[c].turn, j.task = job[c].task,
             \/ NextAnswer(c, j) /\ CanBeCut(pc[h], frame[h], reply'[h])
             \/ /\ Step(c, "bytes", j) /\ sess' = sess /\ last'[c].size # 0
                /\ CanBeCut(pc[h], frame[h], Announced(last'[c]) \o reply'[h])
      PROVE  StepOK(c)'
  <2>1. CASE NextAnswer(c, j) /\ CanBeCut(pc[h], frame[h], reply'[h])
    <3>1. /\ job'[c].task = job[c].task
          /\ \/ cpc'[c] = "answer" /\ sess' = sess
             \/ cpc'[c] = "connect"
      BY <1>c, <1>g, <2>1, NextAnswerType
    <3>2. cpc'[c] = "answer" => AwaitsParts(c)'
      BY <1>s, <1>u, <2>1, <3>1 DEF AwaitsParts, Ahead
    <3>3. QED
      BY <1>s, <3>1, <3>2 DEF StepOK
  <2>2. CASE /\ Step(c, "bytes", j) /\ sess' = sess /\ last'[c].size # 0
             /\ CanBeCut(pc[h], frame[h], Announced(last'[c]) \o reply'[h])
    <3>1. cpc'[c] = "bytes" /\ job'[c] = j
      BY <1>c, <1>g, <2>2, StepType DEF ClientStates
    <3>2. AwaitsParts(c)'
      BY <1>s, <1>u, <2>2, <3>1 DEF AwaitsParts, Ahead
    <3>3. QED
      BY <1>s, <1>g, <2>2, <3>1, <3>2 DEF StepOK
  <2>3. QED
    BY <1>g, <2>1, <2>2
<1>1. CASE ReadHeader(c)
  <2> DEFINE j == [job[c] EXCEPT !.want = @ \ {hd.part}, !.bufs[hd.part] = Zeros(0)]
  <2>1. cpc[c] = "answer" /\ q = reply[h] /\ Answer(c).tag # "nothing" /\ hd # None
    BY <1>1 DEF ReadHeader, Ahead
  <2>2. hd \in Headers /\ hd.part \in Parts
    BY <1>c, <2>1, AnswerType DEF HeaderOf, TypeInv, SessionOK, ClientTypeOK
  <2>3. IF hd.size = 0 THEN NextAnswer(c, j) ELSE Step(c, "bytes", j) /\ sess' = sess
    BY <1>1 DEF ReadHeader
  <2>4. last'[c] = hd
    BY <1>1, <1>c DEF ReadHeader, TypeInv, ClientTypeOK
  <2>5. j \in Jobs /\ j.turn = job[c].turn /\ j.task = job[c].task
    <3>1. Zeros(0) \in Pieces
      BY PieceTypes
    <3> HIDE DEF hd
    <3>2. QED
      BY <1>c, <2>2, <3>1 DEF Jobs
  <2>6. CASE reply[h] = <<>>
    <3>1. reply'[h] = <<>> /\ pc[h] = "free"
      BY <1>t, <2>6
    <3>2. hd.size # 0 => CanBeCut(pc[h], frame[h], Announced(hd) \o reply'[h])
      <4>1. Announced(hd) \o <<>> = Announced(hd)
        BY <2>2, MessageTypes, ConcatEmptySeq DEF Announced
      <4>2. hd.size # 0 => Units(Announced(hd), 0, Announced(hd))
        BY DEF Units
      <4> HIDE DEF hd
      <4>3. QED
        BY <2>2, <3>1, <4>1, <4>2 DEF CanBeCut, BeforeCommand
    <3> HIDE DEF j, hd
    <3>3. QED
      BY <1>g, <1>n, <2>3, <2>4, <2>5, <2>6, <3>1, <3>2
  <2>7. CASE reply[h] # <<>>
    <3>1. Answer(c) = Head(q) /\ reply'[h] = Tail(q)
      BY <1>t, <2>1, <2>7
    <3>2. \/ StartsWithUnit(q) /\ CanBeCut(pc[h], frame[h], AfterUnit(q))
          \/ \E k \in Headers : k.size # 0 /\ q = Announced(k)
      <4>1. Head(NothingMore).tag = "nothing"
        BY DEF NothingMore, Message
      <4>2. QED
        BY <1>s, <1>t, <2>1, <2>7, <3>1, <4>1, NextOfStream
    <3>3. Head(q).tag = "header" /\ hd = Head(q).body
      <4>1. \A k : Head(Announced(k)).tag = "header"
        BY DEF Announced, Message
      <4>2. Head(q).tag = "header"
        BY <3>2, <4>1 DEF StartsWithUnit
      <4>3. QED
        BY <3>1, <4>2 DEF HeaderOf
    <3>4. q = Announced(hd) \o Tail(q)
      <4>1. Head(q) = Message("header", hd)
        <5>1. Head(q) \in Messages
          BY <1>t, <2>1, <2>7, TailItems
        <5> HIDE DEF hd
        <5>2. QED
          BY <3>3, <5>1 DEF Messages, Message
      <4>2. Tail(q) \in Seq(Messages) /\ q # <<>>
        BY <1>t, <2>1, <2>7, TailItems
      <4>3. q = <<Head(q)>> \o Tail(q)
        BY <1>t, <4>2, HeadAndTail
      <4>4. QED
        BY <4>1, <4>3 DEF Announced
    <3>5. CASE hd.size = 0
      <4>1. CanBeCut(pc[h], frame[h], Tail(q))
        <5>1. \A k : Head(Announced(k)).body = k
          BY DEF Announced, Message
        <5>2. QED
          BY <3>2, <3>3, <3>5, <5>1 DEF AfterUnit
      <4>2. NextAnswer(c, j)
        BY <2>3, <3>5
      <4> HIDE DEF j, hd
      <4>3. QED
        BY <1>g, <2>5, <3>1, <4>1, <4>2
    <3>6. CASE hd.size # 0
      <4>1. Step(c, "bytes", j) /\ sess' = sess
        BY <2>3, <3>6
      <4> HIDE DEF j, hd
      <4>2. QED
        BY <1>g, <1>s, <2>4, <2>5, <3>1, <3>4, <3>6, <4>1
    <3>7. QED
      BY <3>5, <3>6
  <2>8. QED
    BY <2>6, <2>7
<1>2. CASE ReadBytes(c)
  <2> DEFINE piece == AsData(Answer(c), last[c].size)
             j == [job[c] EXCEPT !.bufs[last[c].part] = piece]
             m == Message("header", last[c])
  <2>1. /\ cpc[c] = "bytes" /\ last[c] \in Headers /\ last[c].part \in Parts
        /\ NextAnswer(c, j) /\ last[c].size # 0
    BY <1>2, <1>c DEF ReadBytes, StepInv, TypeInv, SessionOK, ClientTypeOK, StepOK
  <2>2. piece \in Pieces
    BY <1>c, <2>1, AnswerType, ParseTypes DEF Headers
  <2>3. j \in Jobs /\ j.turn = job[c].turn /\ j.task = job[c].task
    <3> HIDE DEF piece
    <3>1. QED
      BY <1>c, <2>1, <2>2 DEF Jobs
  <2>4. m \in Messages /\ m.tag = "header" /\ m.body = last[c]
    BY <2>1, MessageTypes DEF Message
  <2>5. q = <<m>> \o reply[h] /\ q # <<>> /\ Head(q) = m /\ Tail(q) = reply[h]
    <3>1. q = <<m>> \o reply[h]
      BY <2>1 DEF Ahead, Announced
    <3> HIDE DEF m
    <3>2. QED
      BY <1>t, <2>4, <3>1, Prepended
  <2>6. CanBeCut(pc[h], frame[h], reply'[h])
    <3>1. CASE reply[h] = <<>>
      BY <1>n, <1>t, <3>1
    <3>2. CASE reply[h] # <<>>
      <4>1. StartsWithUnit(q) /\ CanBeCut(pc[h], frame[h], AfterUnit(q))
        <5>1. Head(NothingMore).tag = "nothing"
          BY DEF NothingMore, Message
        <5>2. \A k : Tail(Announced(k)) = <<>>
          BY DEF Announced
        <5> HIDE DEF m
        <5>3. QED
          BY <1>s, <1>t, <2>4, <2>5, <3>2, <5>1, <5>2, NextOfStream
      <4> HIDE DEF m
      <4>2. AfterUnit(q) = reply'[h]
        BY <1>t, <2>1, <2>4, <2>5, <3>2 DEF AfterUnit
      <4>3. QED
        BY <4>1, <4>2
    <3>3. QED
      BY <3>1, <3>2
  <2> HIDE DEF j
  <2>7. QED
    BY <1>g, <2>1, <2>3, <2>6
<1>3. QED
  BY <1>1, <1>2

LEMMA ClientsStayInStep ==
  ASSUME StepInv, NEW c \in Clients, UserStep(c)
  PROVE  StepOK(c)'
<1>t. /\ TypeInv /\ StepOK(c) /\ job[c] \in Jobs /\ job[c].task \in TaskTypes
      /\ InSession(c) => sess[c] \in Handlers /\ job[c].turn <= MAXSERVERS
      /\ cpc \in [Clients -> ClientStates] /\ job \in [Clients -> Jobs]
      /\ inbox \in [Handlers -> Seq(Messages)] /\ reply \in [Handlers -> Seq(Messages)]
  BY SessionTurn DEF StepInv, TypeInv, ClientTypeOK, Inv, TypeOK
<1>e. ASSUME ExitClient(c) PROVE StepOK(c)'
  BY <1>t, <1>e DEF ExitClient, StepOK
<1>b. ASSUME cpc'[c] \in {"idle", "connect", "exited", "listing", "spin"} PROVE StepOK(c)'
  BY <1>b DEF StepOK
<1>1. CASE Enter(c) \/ ServerOffline(c) \/ SpinClient(c) \/ Finish(c)
  BY <1>1, <1>b, <1>t DEF Enter, ServerOffline, SpinClient, Finish, NextServer, Step
<1>2. CASE PutUnopened(c)
  BY <1>2, <1>b, <1>t DEF PutUnopened
<1>3. CASE Connect(c)
  <2>1. PICK h \in Handlers :
          /\ Accept(h, <<Message("login", Login[c])>>, FALSE)
          /\ sess' = [sess EXCEPT ![c] = h]
    BY <1>3 DEF Connect
  <2>2. cpc'[c] = "verdict" /\ sess'[c] = h
    BY <1>3, <1>t, <2>1 DEF Connect, Step, TypeInv, ClientTypeOK
  <2>3. /\ pc'[h] = "auth" /\ frame'[h] = Cleared /\ reply'[h] = <<>>
        /\ inbox'[h] = <<Message("login", Login[c])>>
    BY <1>t, <2>1 DEF Accept, Goto, TypeInv, Inv, TypeOK
  <2>4. AwaitsVerdict(h)'
    <3>1. Len(inbox'[h]) = 1 /\ Len(reply'[h]) = 0
      BY <2>3
    <3>2. QED
      BY <2>3, <3>1 DEF AwaitsVerdict, BeforeCommand, Cleared
  <2>5. QED
    BY <2>2, <2>4 DEF StepOK
<1>4. CASE LoginAccepted(c)
  <2> DEFINE h == sess[c]
  <2>1. /\ cpc[c] = "verdict" /\ InSession(c) /\ h \in Handlers /\ AwaitsVerdict(h)
        /\ TakeAnswer(c) /\ UNCHANGED <<pc, frame, inbox, sess>>
        /\ reply[h] # <<>>
    BY <1>4, <1>t DEF LoginAccepted, InSession, StepOK, Refused, Answer, EOF, Message
  <2>2. cpc'[c] = "write" /\ job'[c] = job[c] /\ outbox'[c] = Script(job[c])
    BY <1>4, <1>t DEF LoginAccepted, Step, TypeInv, ClientTypeOK
  <2>3. reply'[h] = <<>>
    <3>1. reply[h] \in Seq(Messages)
      BY <1>t, <2>1 DEF TypeInv, Inv, TypeOK
    <3>2. Len(reply[h]) \in Nat /\ Len(reply[h]) > 0
      BY <2>1, <3>1, TailItems
    <3>3. Len(reply[h]) = 1
      <4>1. Len(reply[h]) <= 1
        BY <2>1 DEF AwaitsVerdict
      <4> DEFINE n == Len(reply[h])
      <4>2. n \in Nat /\ n > 0 /\ n <= 1
        BY <3>2, <4>1
      <4> HIDE DEF n
      <4>3. n = 1
        BY <4>2
      <4>4. QED
        BY <4>3 DEF n
    <3>4. QED
      BY <1>t, <2>1, <3>1, <3>3, OnlyItem, TakesAnswer
  <2>4. job[c].task.op = "get" => IsGet(Head(outbox'[c]))
    <3> DEFINE m == Message("command", [op |-> job[c].task.op, name |-> job[c].task.name,
                                        dir |-> job[c].task.dir])
    <3>1. job[c].task.op = "get" =>
            Script(job[c]) = <<m>> \o <<Message("request", job[c].want)>>
      BY DEF Script
    <3>2. m \in Messages /\ Message("request", job[c].want) \in Messages
      <4>1. [op |-> job[c].task.op, name |-> job[c].task.name,
             dir |-> job[c].task.dir] \in Commands
        BY <1>t DEF TaskTypes, Commands
      <4>2. job[c].want \in SUBSET Parts
        BY <1>t DEF Jobs
      <4>3. QED
        BY <4>1, <4>2, MessageTypes
    <3>3. job[c].task.op = "get" => IsGet(m)
      BY DEF IsGet, Message
    <3>4. <<Message("request", job[c].want)>> \in Seq(Messages)
      BY <3>2
    <3> HIDE DEF m
    <3>5. job[c].task.op = "get" => Head(Script(job[c])) = m
      BY <3>1, <3>2, <3>4, Prepended
    <3>6. QED
      BY <2>2, <3>3, <3>5
  <2>5. job[c].task.op = "get" => AwaitsParts(c)'
    <3>1. Ahead(c)' = <<>>
      BY <2>1, <2>2, <2>3 DEF Ahead
    <3>2. CanBeCut(pc[h], frame[h], <<>>)
      <4>1. pc[h] \in BeforeCommand \cup {"free"} /\ (pc[h] # "free" => frame[h].round = 1)
        <5>1. pc[h] # "auth"
          BY <2>1 DEF AwaitsVerdict
        <5>2. QED
          BY <2>1, <5>1 DEF AwaitsVerdict
      <4>2. QED
        BY <4>1 DEF CanBeCut, Units, BeforeCommand
    <3>3. pc[h] \in BeforeCommand => inbox[h] = <<>>
      BY <2>1 DEF AwaitsVerdict
    <3>4. QED
      BY <2>1, <2>2, <2>4, <3>1, <3>2, <3>3 DEF AwaitsParts
  <2>6. QED
    BY <2>2, <2>5 DEF StepOK
<1>5. CASE Write(c)
  <2> DEFINE h == sess[c]
             j == [job[c] EXCEPT !.lost = @ \/ Closed(h)]
  <2>1. /\ cpc[c] = "write" /\ InSession(c) /\ h \in Handlers
        /\ UNCHANGED <<pc, frame, reply>>
    BY <1>5, <1>t DEF Write, InSession
  <2>2. j \in Jobs /\ j.task = job[c].task /\ j.task.op \in {"list", "get", "put", "MKDIR"}
    BY <1>t DEF Jobs, TaskTypes, Ops, Closed
  <2>3. IF Len(outbox[c]) = 1 THEN AfterWriting(c, j)
                              ELSE Step(c, "write", j) /\ UNCHANGED sess
    BY <1>5 DEF Write
  <2>4. inbox' = IF Closed(h) THEN inbox
                 ELSE [inbox EXCEPT ![h] = Append(@, Head(outbox[c]))]
    BY <1>5 DEF Write
  <2> HIDE DEF j
  <2>5. CASE job[c].task.op # "get"
    <3>1. cpc'[c] \in {"write", "listing", "connect"} /\ job'[c].task.op # "get"
      <4>1. \/ Step(c, "write", j) \/ Step(c, "listing", j)
            \/ NextServer(c, j) \/ NextServer(c, [j EXCEPT !.pair = WrapPair(@) + 1])
        BY <2>2, <2>3, <2>5 DEF AfterWriting
      <4>2. \A k : [k EXCEPT !.turn = @ + 1, !.round = 1].task = k.task
                    \/ k \notin Jobs
        BY DEF Jobs
      <4>3. [j EXCEPT !.pair = WrapPair(@) + 1] \in Jobs
            /\ [j EXCEPT !.pair = WrapPair(@) + 1].task = j.task
        BY <2>2 DEF Jobs, WrapPair
      <4>4. QED
        BY <1>t, <2>2, <2>5, <4>1, <4>2, <4>3 DEF Step, NextServer
    <3>2. QED
      BY <3>1 DEF StepOK
  <2>6. CASE job[c].task.op = "get"
    <3>1. PICK w \in {"write", "answer"} :
            Step(c, w, j) /\ UNCHANGED sess
      BY <2>2, <2>3, <2>6 DEF AfterWriting
    <3>2. cpc'[c] = w /\ job'[c] = j
      BY <1>t, <3>1 DEF Step
    <3>3. AwaitsParts(c)
      BY <1>t, <2>1, <2>6 DEF StepOK
    <3>4. CanBeCut(pc'[h], frame'[h], Ahead(c)')
      BY <2>1, <3>1, <3>2, <3>3 DEF AwaitsParts, Ahead
    <3>5. pc[h] \in BeforeCommand => inbox'[h] # <<>> /\ IsGet(Head(inbox'[h]))
      <4> SUFFICES ASSUME pc[h] \in BeforeCommand
                   PROVE  inbox'[h] # <<>> /\ IsGet(Head(inbox'[h]))
        OBVIOUS
      <4>1. inbox'[h] = Append(inbox[h], Head(outbox[c]))
        BY <1>t, <2>1, <2>4 DEF Closed, BeforeCommand
      <4>2. inbox[h] \in Seq(Messages) /\ Head(outbox[c]) \in Messages
        BY <1>t, <2>1, TailItems DEF TypeInv, ClientTypeOK, SessionOK
      <4>3. /\ inbox'[h] # <<>>
            /\ Head(inbox'[h]) = IF inbox[h] = <<>> THEN Head(outbox[c]) ELSE Head(inbox[h])
        BY <4>1, <4>2, AppendItems, HeadTailAppend
      <4>4. QED
        BY <3>3, <4>3 DEF AwaitsParts
    <3>6. AwaitsParts(c)'
      BY <2>1, <3>1, <3>4, <3>5 DEF AwaitsParts
    <3>7. QED
      BY <2>2, <3>2, <3>6, <2>6 DEF StepOK
  <2>7. QED
    BY <2>5, <2>6
<1>6. CASE ReadListing(c) \/ NoMoreParts(c)
  BY <1>6, <1>b, <1>t DEF ReadListing, NoMoreParts, NextServer, Step
<1>7. CASE ReadHeader(c) \/ ReadBytes(c)
  BY <1>7, ClientCuts
<1>8. CASE ReadGarbage(c)
  <2>1. CASE ExitClient(c)
    BY <1>e, <2>1
  <2>2. CASE ~ExitClient(c)
    <3>1. /\ cpc[c] = "answer" /\ NextAnswer(c, job[c]) /\ UNCHANGED serverVars
          /\ last' = last /\ InSession(c)
      BY <1>8, <2>2 DEF ReadGarbage, InSession
    <3>2. /\ job'[c].task = job[c].task
          /\ (cpc'[c] = "answer" /\ sess' = sess) \/ cpc'[c] = "connect"
      BY <1>t, <3>1, NextAnswerType
    <3>3. cpc'[c] = "answer" => AwaitsParts(c)'
      BY <1>t, <3>1, <3>2 DEF StepOK, AwaitsParts, Ahead, serverVars
    <3>4. QED
      BY <1>t, <3>1, <3>2, <3>3 DEF StepOK
  <2>3. QED
    BY <2>1, <2>2
<1>9. CASE LoginRefused(c) \/ WriteBroken(c) \/ Kill(c)
  BY <1>e, <1>9 DEF LoginRefused, WriteBroken, Kill
<1>10. QED
  BY <1>1, <1>2, <1>3, <1>4, <1>5, <1>6, <1>7, <1>8, <1>9 DEF UserStep, ClientStep

LEMMA NextStepInv == StepInv /\ [Next]_vars => StepInv'
<1> SUFFICES ASSUME StepInv, [Next]_vars PROVE StepInv'
  OBVIOUS
<1>1. TypeInv'
  BY NextTypes DEF StepInv
<1>2. ASSUME NEW c \in Clients, UserStep(c), NEW d \in Clients PROVE StepOK(d)'
  BY <1>2, ClientsStayInStep, OtherClients, UntouchedOK DEF StepInv
<1>3. CASE \/ \E h \in Handlers : ServerStep(h)
           \/ \E s \in Servers : Outage(s)
  BY <1>1, <1>3, ServersStayInStep DEF StepInv
<1>4. CASE UNCHANGED vars
  <2>1. ASSUME NEW c \in Clients PROVE StepOK(c)'
    <3>1. SameClient(c) /\ SameConnection(sess[c])
      BY <1>4 DEF vars, serverVars, clientVars, SameClient, SameConnection
    <3>2. QED
      BY <3>1, UntouchedOK
  <2>2. QED
    BY <1>1, <2>1 DEF StepInv
<1>5. QED
  BY <1>1, <1>2, <1>3, <1>4 DEF Next, UserStep, StepInv

(***************************************************************************)
(* The stream a get reads can be cut as the client cuts it, for any number *)
(* of clients, whatever they do at the same time, when servers die and     *)
(* come back and when other clients are stopped.                           *)
(***************************************************************************)
THEOREM StaysInStep == Spec => []InStep
<1>1. Init => StepInv
  <2>1. Init => \A c \in Clients : StepOK(c)
    BY DEF Init, StepOK
  <2>2. QED
    BY <2>1, InitTypes DEF StepInv
<1>2. StepInv => InStep
  <2> SUFFICES ASSUME StepInv, NEW c \in Clients, cpc[c] \in {"answer", "bytes"},
                      reply[sess[c]] # <<>>
               PROVE  IF cpc[c] = "bytes" THEN /\ Answer(c).tag = "data"
                                               /\ Answer(c).body.size = last[c].size
                      ELSE Answer(c).tag \in {"header", "nothing"}
    BY DEF InStep
  <2> DEFINE h == sess[c]
             q == Ahead(c)
  <2>1. /\ TypeInv /\ InSession(c) /\ h \in Handlers /\ frame[h] \in Frames
        /\ reply[h] \in Seq(Messages) /\ CanBeCut(pc[h], frame[h], q)
        /\ Answer(c) = Head(reply[h])
    BY SessionTurn DEF StepInv, StepOK, AwaitsParts, TypeInv, Inv, TypeOK, InSession, Answer
  <2>2. /\ Head(NothingMore).tag = "nothing"
        /\ \A k : Head(Announced(k)).tag = "header" /\ Tail(Announced(k)) = <<>>
    BY DEF NothingMore, Announced, Message
  <2>3. CASE cpc[c] = "bytes"
    <3> DEFINE m == Message("header", last[c])
    <3>1. m \in Messages /\ m.tag = "header" /\ m.body = last[c]
      BY <2>1, <2>3, MessageTypes DEF TypeInv, SessionOK, ClientTypeOK, Message
    <3>2. q = <<m>> \o reply[h] /\ last[c].size # 0
      BY <2>3 DEF Ahead, Announced, StepInv, StepOK
    <3> HIDE DEF m
    <3>3. q \in Seq(Messages) /\ q # <<>> /\ Head(q) = m /\ Tail(q) = reply[h]
      BY <2>1, <3>1, <3>2, Prepended
    <3>4. StartsWithUnit(q)
      BY <2>1, <2>2, <3>1, <3>3, NextOfStream
    <3>5. QED
      BY <2>1, <2>3, <3>1, <3>2, <3>3, <3>4 DEF StartsWithUnit
  <2>4. CASE cpc[c] = "answer"
    <3>1. q = reply[h]
      BY <2>4 DEF Ahead
    <3>2. QED
      BY <2>1, <2>2, <2>4, <3>1, NextOfStream DEF StartsWithUnit
  <2>5. QED
    BY <2>3, <2>4
<1>3. QED
  BY <1>1, <1>2, NextStepInv, PTL DEF Spec

-----------------------------------------------------------------------------
\* A step of a client that has a connection ends it, or is one of the session,
\* or goes on to the next server.
LEMMA SessionMoves ==
  ASSUME TypeInv, NEW c \in Clients, UserStep(c), InSession(c)
  PROVE  \/ ExitClient(c)
         \/ /\ job'[c].task = job[c].task /\ job'[c].offline = job[c].offline
            /\ UNCHANGED <<todo, file, listed, historyVars>>
            /\ open'[c] <= open[c]
            /\ \/ /\ cpc'[c] \in {"write", "listing", "answer", "bytes", "spin"}
                  /\ job'[c].turn = job[c].turn /\ sess'[c] = sess[c]
               \/ /\ cpc'[c] = "connect" /\ job'[c].turn = job[c].turn + 1
                  /\ sess'[c] = None
<1>t. /\ job[c] \in Jobs /\ job[c].task \in TaskTypes /\ sess[c] \in Handlers
      /\ job[c].turn <= MAXSERVERS /\ open[c] \in 0..MaxFiles /\ MaxFiles \in Nat
  BY SessionTurn, ClientAssumption DEF TypeInv, ClientTypeOK
<1>u. /\ cpc \in [Clients -> ClientStates] /\ job \in [Clients -> Jobs]
      /\ sess \in [Clients -> Handlers \cup {None}]
      /\ last[c] \in Headers \cup {None}
      /\ last[c] # None => last[c].part \in Parts
      /\ cpc[c] \in {"bytes", "spin"} => last[c] # None
      /\ open \in [Clients -> 0..MaxFiles]
  BY DEF TypeInv, ClientTypeOK, SessionOK
<1>n. ASSUME NEW k \in Jobs, NextServer(c, k), k.turn = job[c].turn,
             k.task = job[c].task, k.offline = job[c].offline
      PROVE  /\ job'[c].task = job[c].task /\ job'[c].offline = job[c].offline
             /\ cpc'[c] = "connect" /\ job'[c].turn = job[c].turn + 1 /\ sess'[c] = None
  <2>1. k.turn <= MAXSERVERS
    BY <1>n, <1>t
  <2>2. /\ job'[c].task = k.task /\ job'[c].offline = k.offline
        /\ cpc'[c] = "connect" /\ job'[c].turn = k.turn + 1 /\ sess'[c] = None
    BY <1>n, <2>1, NextServerType, Zenon
  <2>3. QED
    BY <1>n, <2>2
<1>1. CASE LoginRefused(c) \/ WriteBroken(c) \/ Kill(c)
  BY <1>1 DEF LoginRefused, WriteBroken, Kill
<1>2. CASE LoginAccepted(c)
  BY <1>2, <1>t, <1>u DEF LoginAccepted, Step, historyVars
<1>3. CASE Write(c)
  <2> DEFINE j == [job[c] EXCEPT !.lost = @ \/ Closed(sess[c])]
             wrapped == [j EXCEPT !.pair = WrapPair(@) + 1]
  <2>1. /\ j.turn = job[c].turn /\ j.task = job[c].task /\ j.offline = job[c].offline
        /\ j.task.op \in {"list", "get", "put", "MKDIR"}
        /\ j \in Jobs
    BY <1>t DEF Jobs, TaskTypes, Ops, Closed
  <2>2. /\ UNCHANGED <<todo, file, listed, historyVars, open>>
        /\ IF Len(outbox[c]) = 1 THEN AfterWriting(c, j)
                                 ELSE Step(c, "write", j) /\ UNCHANGED sess
    BY <1>3 DEF Write, historyVars
  <2> HIDE DEF j
  <2>w. /\ wrapped.turn = j.turn /\ wrapped.task = j.task /\ wrapped.offline = j.offline
        /\ wrapped \in Jobs
    BY <2>1 DEF Jobs, WrapPair
  <2>3. \/ \E w \in {"write", "listing", "answer"} : Step(c, w, j) /\ sess' = sess
        \/ \E k \in {j, wrapped} : NextServer(c, k)
    BY <2>1, <2>2 DEF AfterWriting
  <2> HIDE DEF wrapped
  <2>4. CASE \E w \in {"write", "listing", "answer"} : Step(c, w, j) /\ sess' = sess
    BY <1>t, <1>u, <2>1, <2>2, <2>4 DEF Step
  <2>5. CASE \E k \in {j, wrapped} : NextServer(c, k)
    <3>1. PICK k \in {j, wrapped} : NextServer(c, k)
      BY <2>5
    <3>2. k \in Jobs /\ k.turn = job[c].turn /\ k.task = job[c].task /\ k.offline = job[c].offline
      BY <2>1, <2>w, <3>1
    <3>3. QED
      BY <1>n, <1>t, <2>2, <3>1, <3>2
  <2>6. QED
    BY <2>3, <2>4, <2>5
<1>4. CASE ReadListing(c)
  <2> DEFINE names == IF Answer(c).tag = "listing" THEN Answer(c).body ELSE {}
             j == [job[c] EXCEPT !.seen = @ \cup names]
  <2>1. names \in SUBSET (Names \X (0..4))
    BY <1>t, AnswerType
  <2>2. /\ NextServer(c, j) /\ UNCHANGED <<todo, file, listed, historyVars>>
        /\ open' = [open EXCEPT ![c] = @ - 1]
    BY <1>4 DEF ReadListing, historyVars
  <2> HIDE DEF names
  <2>3. j \in Jobs /\ j.turn = job[c].turn /\ j.task = job[c].task /\ j.offline = job[c].offline
    BY <1>t, <2>1 DEF Jobs
  <2> HIDE DEF j
  <2>4. open'[c] <= open[c]
    BY <1>t, <1>u, <2>2
  <2>5. QED
    BY <1>n, <1>t, <2>2, <2>3, <2>4
<1>5. CASE NoMoreParts(c)
  <2>1. NextServer(c, job[c]) /\ UNCHANGED <<todo, file, listed, historyVars, open>>
    BY <1>5 DEF NoMoreParts, historyVars
  <2>2. QED
    BY <1>n, <1>t, <2>1
<1>6. CASE ReadHeader(c)
  <2> DEFINE hd == HeaderOf(c, Answer(c))
             j == [job[c] EXCEPT !.want = @ \ {hd.part}, !.bufs[hd.part] = Zeros(0)]
  <2>1. hd \in Headers /\ hd.part \in Parts
    <3>1. hd # None
      BY <1>6 DEF ReadHeader
    <3>2. QED
      BY <1>t, <1>u, <3>1, AnswerType DEF HeaderOf
  <2>2. /\ UNCHANGED <<todo, file, listed, historyVars, open>>
        /\ IF hd.size = 0 THEN NextAnswer(c, j) ELSE Step(c, "bytes", j) /\ sess' = sess
    BY <1>6 DEF ReadHeader, historyVars
  <2> HIDE DEF hd
  <2>3. j \in Jobs /\ j.turn = job[c].turn /\ j.task = job[c].task /\ j.offline = job[c].offline
    <3>1. Zeros(0) \in Pieces
      BY PieceTypes
    <3>2. QED
      BY <1>t, <2>1, <3>1 DEF Jobs
  <2> HIDE DEF j
  <2>4. CASE NextAnswer(c, j)
    BY <1>t, <2>2, <2>3, <2>4, NextAnswerType
  <2>5. CASE Step(c, "bytes", j) /\ sess' = sess
    BY <1>t, <1>u, <2>2, <2>3, <2>5 DEF Step
  <2>6. QED
    BY <2>2, <2>4, <2>5
<1>7. CASE ReadGarbage(c)
  <2>1. CASE ~ExitClient(c)
    <3>1. NextAnswer(c, job[c]) /\ UNCHANGED <<todo, file, listed, historyVars, open>>
      BY <1>7, <2>1 DEF ReadGarbage, historyVars
    <3>2. QED
      BY <1>t, <3>1, NextAnswerType
  <2>2. QED
    BY <2>1
<1>8. CASE ReadBytes(c)
  <2> DEFINE j == [job[c] EXCEPT !.bufs[last[c].part] = AsData(Answer(c), last[c].size)]
  <2>1. NextAnswer(c, j) /\ UNCHANGED <<todo, file, listed, historyVars, open>>
        /\ cpc[c] = "bytes"
    BY <1>8 DEF ReadBytes, historyVars
  <2>2. AsData(Answer(c), last[c].size) \in Pieces
    <3>1. last[c].size \in Nat
      BY <1>u, <2>1 DEF Headers
    <3>2. QED
      BY <1>t, <3>1, AnswerType, ParseTypes
  <2>3. j \in Jobs /\ j.turn = job[c].turn /\ j.task = job[c].task /\ j.offline = job[c].offline
    BY <1>t, <1>u, <2>1, <2>2 DEF Jobs
  <2> HIDE DEF j
  <2>4. QED
    BY <1>t, <2>1, <2>3, NextAnswerType
<1>9. CASE SpinClient(c)
  BY <1>9, <1>t, <1>u DEF SpinClient, Step, historyVars
<1>10. CASE Enter(c) \/ PutUnopened(c) \/ Connect(c) \/ ServerOffline(c) \/ Finish(c)
  BY <1>10 DEF Enter, PutUnopened, Connect, ServerOffline, Finish, InSession
<1>11. QED
  BY <1>1, <1>2, <1>3, <1>4, <1>5, <1>6, <1>7, <1>8, <1>9, <1>10
  DEF UserStep, ClientStep

\* Within a session only a header changes the buffers and what is missing.
LEMMA SessionKeepsBuffers ==
  ASSUME TypeInv, NEW c \in Clients, UserStep(c), InSession(c), ~ExitClient(c),
         ~ReadHeader(c)
  PROVE  heap' = heap /\ job'[c].want = job[c].want /\ last' = last
<1>t. /\ job[c] \in Jobs /\ sess[c] \in Handlers /\ job[c].turn <= MAXSERVERS
  BY SessionTurn
<1>u. /\ cpc \in [Clients -> ClientStates] /\ job \in [Clients -> Jobs]
      /\ last[c] \in Headers \cup {None}
      /\ last[c] # None => last[c].part \in Parts
      /\ cpc[c] \in {"bytes", "spin"} => last[c] # None
  BY DEF TypeInv, ClientTypeOK, SessionOK
<1>n. ASSUME NEW k \in Jobs, NextServer(c, k), k.turn = job[c].turn, k.want = job[c].want
      PROVE  job'[c].want = job[c].want
  <2>1. k.turn <= MAXSERVERS
    BY <1>n, <1>t
  <2>2. job'[c].want = k.want
    BY <1>n, <2>1, NextServerType, Zenon
  <2>3. QED
    BY <1>n, <2>2
<1>1. CASE LoginAccepted(c)
  BY <1>1, <1>u DEF LoginAccepted, Step
<1>2. CASE Write(c)
  <2> DEFINE j == [job[c] EXCEPT !.lost = @ \/ Closed(sess[c])]
             wrapped == [j EXCEPT !.pair = WrapPair(@) + 1]
  <2>1. /\ j.turn = job[c].turn /\ j.want = job[c].want /\ j \in Jobs
        /\ j.task.op \in {"list", "get", "put", "MKDIR"}
    BY <1>t DEF Jobs, TaskTypes, Ops, Closed
  <2>2. /\ heap' = heap /\ last' = last
        /\ IF Len(outbox[c]) = 1 THEN AfterWriting(c, j)
                                 ELSE Step(c, "write", j) /\ UNCHANGED sess
    BY <1>2 DEF Write
  <2> HIDE DEF j
  <2>3. wrapped.turn = j.turn /\ wrapped.want = j.want /\ wrapped \in Jobs
    BY <2>1 DEF Jobs, WrapPair
  <2>4. \/ \E w \in {"write", "listing", "answer"} : Step(c, w, j) /\ sess' = sess
        \/ \E k \in {j, wrapped} : NextServer(c, k)
    BY <2>1, <2>2 DEF AfterWriting
  <2> HIDE DEF wrapped
  <2>5. CASE \E w \in {"write", "listing", "answer"} : Step(c, w, j) /\ sess' = sess
    BY <1>u, <2>1, <2>2, <2>5 DEF Step
  <2>6. CASE \E k \in {j, wrapped} : NextServer(c, k)
    <3>1. PICK k \in {j, wrapped} : NextServer(c, k)
      BY <2>6
    <3>2. k \in Jobs /\ k.turn = job[c].turn /\ k.want = job[c].want
      BY <2>1, <2>3, <3>1
    <3>3. QED
      BY <1>n, <2>2, <3>1, <3>2
  <2>7. QED
    BY <2>4, <2>5, <2>6
<1>3. CASE ReadListing(c)
  <2> DEFINE names == IF Answer(c).tag = "listing" THEN Answer(c).body ELSE {}
             j == [job[c] EXCEPT !.seen = @ \cup names]
  <2>1. names \in SUBSET (Names \X (0..4))
    BY <1>t, AnswerType
  <2>2. NextServer(c, j) /\ heap' = heap /\ last' = last
    BY <1>3 DEF ReadListing
  <2> HIDE DEF names
  <2>3. j \in Jobs /\ j.turn = job[c].turn /\ j.want = job[c].want
    BY <1>t, <2>1 DEF Jobs
  <2> HIDE DEF j
  <2>4. QED
    BY <1>n, <2>2, <2>3
<1>4. CASE NoMoreParts(c)
  <2>1. NextServer(c, job[c]) /\ heap' = heap /\ last' = last
    BY <1>4 DEF NoMoreParts
  <2>2. QED
    BY <1>n, <1>t, <2>1
<1>5. CASE ReadGarbage(c)
  <2>1. NextAnswer(c, job[c]) /\ heap' = heap /\ last' = last
    BY <1>5 DEF ReadGarbage
  <2>2. QED
    BY <1>t, <2>1, NextAnswerType
<1>6. CASE ReadBytes(c)
  <2> DEFINE j == [job[c] EXCEPT !.bufs[last[c].part] = AsData(Answer(c), last[c].size)]
  <2>1. NextAnswer(c, j) /\ heap' = heap /\ last' = last /\ cpc[c] = "bytes"
    BY <1>6 DEF ReadBytes
  <2>2. AsData(Answer(c), last[c].size) \in Pieces
    <3>1. last[c].size \in Nat
      BY <1>u, <2>1 DEF Headers
    <3>2. QED
      BY <1>t, <3>1, AnswerType, ParseTypes
  <2>3. j \in Jobs /\ j.turn = job[c].turn /\ j.want = job[c].want
    BY <1>t, <1>u, <2>1, <2>2 DEF Jobs
  <2> HIDE DEF j
  <2>4. QED
    BY <1>t, <2>1, <2>3, NextAnswerType
<1>7. CASE SpinClient(c)
  BY <1>7, <1>u DEF SpinClient, Step
<1>8. CASE Enter(c) \/ PutUnopened(c) \/ Connect(c) \/ ServerOffline(c) \/ Finish(c)
  BY <1>8 DEF Enter, PutUnopened, Connect, ServerOffline, Finish, InSession
<1>9. CASE LoginRefused(c) \/ WriteBroken(c) \/ Kill(c)
  BY <1>9 DEF LoginRefused, WriteBroken, Kill
<1>10. QED
  BY <1>1, <1>2, <1>3, <1>4, <1>5, <1>6, <1>7, <1>8, <1>9 DEF UserStep, ClientStep

-----------------------------------------------------------------------------
(***************************************************************************)
(* What a session of commands needs: the files to put exist, and there are *)
(* descriptors for a socket per server and command, none of which put, get *)
(* and MKDIR close, and one more for the file.                             *)
(***************************************************************************)
FilesAndDescriptors ==
  \A c \in Clients : \A plan \in Plans[c] :
    /\ \A i \in 1..Len(plan) : plan[i].op = "put" => plan[i].content # None
    /\ 4 * Len(plan) < MaxFiles

\* The file to put is there and can be opened.
LEMMA PutsCanBeSent ==
  ASSUME HeapInv, NEW c \in Clients, cpc[c] = "idle", todo[c] # <<>>
  PROVE  Sendable(c, Head(todo[c])) /\ ~PutUnopened(c) /\ Descriptor(c)
<1>1. /\ todo[c] \in Seq(TaskTypes) /\ open[c] \in 0..MaxFiles /\ MaxFiles \in Nat
      /\ HeapOK(c)
  BY ClientAssumption DEF HeapInv, TypeInv, ClientTypeOK
<1>2. Head(todo[c]) = todo[c][1] /\ 1 \in 1..Len(todo[c]) /\ Len(todo[c]) \in Nat
  BY <1>1, TailItems
<1>3. open[c] + 4 * Len(todo[c]) + 0 < MaxFiles
  BY <1>1 DEF HeapOK, Remaining
<1>4. Descriptor(c)
  BY <1>1, <1>2, <1>3 DEF Descriptor
<1>5. Sendable(c, Head(todo[c]))
  BY <1>1, <1>2, <1>4 DEF Sendable, HeapOK
<1>6. QED
  BY <1>4, <1>5 DEF PutUnopened

LEMMA UserHeap ==
  ASSUME HeapInv, NEW c \in Clients, UserStep(c)
  PROVE  HeapOK(c)'
<1>t. /\ TypeInv /\ HeapOK(c) /\ MaxFiles \in Nat /\ open[c] \in 0..MaxFiles
      /\ todo[c] \in Seq(TaskTypes) /\ Len(todo[c]) \in Nat
      /\ job[c] \in Jobs /\ job[c].turn \in 1..5 /\ heap[c] \in [Parts -> Pointers]
      /\ cpc[c] \in ClientStates
      /\ InSession(c) => job[c].turn \in 1..4
  BY SessionTurn, ClientAssumption DEF HeapInv, TypeInv, ClientTypeOK, Jobs, MAXSERVERS
<1>u. /\ cpc \in [Clients -> ClientStates] /\ job \in [Clients -> Jobs]
      /\ open \in [Clients -> 0..MaxFiles] /\ todo \in [Clients -> Seq(TaskTypes)]
      /\ heap \in [Clients -> [Parts -> Pointers]]
  BY <1>t DEF TypeInv, ClientTypeOK
<1>1. CASE Enter(c)
  <2> DEFINE task == Head(todo[c])
  <2>1. /\ todo[c] # <<>> /\ cpc[c] = "idle" /\ todo'[c] = Tail(todo[c]) /\ open'[c] = open[c]
        /\ cpc'[c] = "connect" /\ job'[c] = NewJob(task)
        /\ heap' = heap \/ Malloc(c, Parts)
        /\ task.op = "put" => Malloc(c, Parts)
    BY <1>1, <1>u DEF Enter, Step
  <2>2. /\ Len(todo'[c]) = Len(todo[c]) - 1
        /\ \A i \in 1..Len(todo'[c]) : i + 1 \in 1..Len(todo[c]) /\ todo'[c][i] = todo[c][i + 1]
    BY <1>t, <2>1, TailItems
  <2>3. job'[c].turn = 1 /\ job'[c].want = Parts /\ job'[c].task = task
    BY <2>1 DEF NewJob
  <2>4. Malloc(c, Parts) => \A p \in Parts : heap'[c][p] = "live"
    BY <1>u DEF Malloc
  <2>5. open[c] + 4 * Len(todo[c]) + 0 < MaxFiles
    BY <1>t, <2>1 DEF HeapOK, Remaining
  <2>6. open'[c] + 4 * Len(todo'[c]) + Remaining(c)' < MaxFiles
    BY <1>t, <2>1, <2>2, <2>3, <2>5 DEF Remaining
  <2>7. \A p \in Parts : heap'[c][p] # "wild"
    BY <1>t, <2>1, <2>4 DEF HeapOK
  <2> HIDE DEF task
  <2>8. QED
    BY <1>t, <2>1, <2>2, <2>3, <2>4, <2>6, <2>7 DEF HeapOK
<1>2. CASE PutUnopened(c)
  <2>1. cpc[c] = "idle" /\ todo[c] # <<>>
    BY <1>2 DEF PutUnopened
  <2>2. QED
    BY <1>2, <2>1, PutsCanBeSent
<1>3. CASE Connect(c)
  <2>1. /\ cpc[c] = "connect" /\ cpc'[c] = "verdict" /\ open'[c] = open[c] + 1
        /\ job'[c].turn = job[c].turn /\ job'[c].task = job[c].task /\ job'[c].want = job[c].want
        /\ heap' = heap /\ todo' = todo
    BY <1>3, <1>t, <1>u DEF Connect, Step, Jobs
  <2>2. Remaining(c) = 5 - job[c].turn /\ Remaining(c)' = 4 - job[c].turn
    BY <2>1 DEF Remaining
  <2>3. open'[c] + 4 * Len(todo'[c]) + Remaining(c)' < MaxFiles
    <3>1. open[c] + 4 * Len(todo[c]) + Remaining(c) < MaxFiles
      BY <1>t, <2>1 DEF HeapOK
    <3>2. open'[c] + Remaining(c)' = open[c] + Remaining(c)
      BY <1>t, <2>1, <2>2
    <3>3. Remaining(c)' \in Int /\ Remaining(c) \in Int /\ open'[c] \in Int
      BY <1>t, <2>1, <2>2
    <3>4. todo'[c] = todo[c] /\ Len(todo[c]) \in Int /\ open[c] \in Int
      BY <1>t, <2>1
    <3> DEFINE a == open'[c]
               b == Remaining(c)'
               d == open[c]
               e == Remaining(c)
               l == Len(todo[c])
    <3>5. /\ a \in Int /\ b \in Int /\ d \in Int /\ e \in Int /\ l \in Int
          /\ a + b = d + e /\ d + 4 * l + e < MaxFiles
      BY <3>1, <3>2, <3>3, <3>4
    <3> HIDE DEF a, b, d, e, l
    <3>6. a + 4 * l + b < MaxFiles
      BY <1>t, <3>5
    <3>7. QED
      BY <3>4, <3>6 DEF a, b, l
  <2>4. QED
    BY <1>t, <2>1, <2>3 DEF HeapOK
<1>4. CASE ServerOffline(c)
  <2> DEFINE j == [job[c] EXCEPT !.offline = @ \cup {job[c].turn}]
  <2>1. job[c].turn \in Servers /\ job[c].turn <= MAXSERVERS
    BY <1>4, SessionTurn, <1>t DEF ServerOffline
  <2>2. j \in Jobs /\ j.turn = job[c].turn /\ j.task = job[c].task /\ j.want = job[c].want
    BY <1>t, <2>1 DEF Jobs
  <2>3. /\ NextServer(c, j) /\ cpc[c] = "connect" /\ heap' = heap /\ todo' = todo
        /\ open'[c] = IF Descriptor(c) THEN open[c] + 1 ELSE open[c]
    BY <1>4, <1>u DEF ServerOffline
  <2> HIDE DEF j
  <2>4. /\ cpc'[c] = "connect" /\ job'[c].turn = job[c].turn + 1
        /\ job'[c].task = job[c].task /\ job'[c].want = job[c].want
    <3>1. j.turn <= MAXSERVERS
      BY <2>1, <2>2
    <3>2. /\ cpc'[c] = "connect" /\ job'[c].turn = j.turn + 1
          /\ job'[c].task = j.task /\ job'[c].want = j.want
      BY <1>t, <2>2, <2>3, <3>1, NextServerType, Zenon
    <3>3. QED
      BY <2>2, <3>2
  <2>5. Remaining(c) = 5 - job[c].turn /\ Remaining(c)' = 5 - (job[c].turn + 1)
    BY <2>3, <2>4 DEF Remaining
  <2>6. open'[c] + 4 * Len(todo'[c]) + Remaining(c)' < MaxFiles
    <3>1. open[c] + 4 * Len(todo[c]) + Remaining(c) < MaxFiles
      BY <1>t, <2>3 DEF HeapOK
    <3>2. open'[c] + Remaining(c)' <= open[c] + Remaining(c)
      BY <1>t, <2>3, <2>5
    <3>3. Remaining(c)' \in Int /\ Remaining(c) \in Int /\ open'[c] \in Int
      BY <1>t, <2>3, <2>5
    <3>4. todo'[c] = todo[c] /\ Len(todo[c]) \in Nat /\ open[c] \in Int /\ MaxFiles \in Int
      BY <1>t, <2>3
    <3>5. QED
      BY <3>1, <3>2, <3>3, <3>4
  <2>7. QED
    BY <1>t, <2>3, <2>4, <2>6 DEF HeapOK
<1>5. CASE InSession(c)
  <2>1. CASE ExitClient(c)
    BY <1>t, <1>u, <2>1 DEF ExitClient, HeapOK
  <2>2. CASE ~ExitClient(c)
    <3>1. /\ job'[c].task = job[c].task /\ todo' = todo /\ open'[c] <= open[c]
          /\ \/ cpc'[c] \in {"write", "listing", "answer", "bytes", "spin"}
                /\ job'[c].turn = job[c].turn
             \/ cpc'[c] = "connect" /\ job'[c].turn = job[c].turn + 1
      BY <1>t, <1>5, <2>2, SessionMoves
    <3>2. cpc[c] \notin {"idle", "exited", "connect"} /\ cpc'[c] \notin {"idle", "exited"}
      BY <1>5, <3>1 DEF InSession
    <3>3. Remaining(c)' = Remaining(c) /\ Remaining(c) \in Nat
      BY <1>t, <1>5, <3>1, <3>2 DEF Remaining
    <3>4. \/ heap' = heap /\ job'[c].want = job[c].want
          \/ \E p \in Parts : Malloc(c, {p}) /\ job'[c].want = job[c].want \ {p}
      <4>1. CASE ReadHeader(c)
        <5> DEFINE hd == HeaderOf(c, Answer(c))
                   j == [job[c] EXCEPT !.want = @ \ {hd.part}, !.bufs[hd.part] = Zeros(0)]
        <5>1. hd.part \in Parts
          <6>1. /\ hd # None /\ sess[c] \in Handlers
                /\ last[c] # None => last[c].part \in Parts
            BY <4>1, <1>t, <1>5, SessionTurn DEF ReadHeader, TypeInv, SessionOK
          <6>2. QED
            BY <1>t, <6>1, AnswerType DEF HeaderOf
        <5>2. Malloc(c, {hd.part})
              /\ IF hd.size = 0 THEN NextAnswer(c, j) ELSE Step(c, "bytes", j) /\ sess' = sess
          BY <4>1 DEF ReadHeader
        <5> HIDE DEF hd
        <5>3. j \in Jobs /\ j.turn = job[c].turn /\ j.want = job[c].want \ {hd.part}
          <6>1. Zeros(0) \in Pieces
            BY PieceTypes
          <6>2. QED
            BY <1>t, <5>1, <6>1 DEF Jobs
        <5> HIDE DEF j
        <5>4. job'[c].want = j.want
          <6>1. j.turn <= MAXSERVERS
            BY <1>t, <1>5, <5>3 DEF MAXSERVERS
          <6>2. CASE NextAnswer(c, j)
            BY <1>t, <5>3, <6>1, <6>2, NextAnswerType
          <6>3. CASE Step(c, "bytes", j)
            BY <1>u, <6>3 DEF Step
          <6>4. QED
            BY <5>2, <6>2, <6>3
        <5>5. QED
          BY <5>1, <5>2, <5>3, <5>4
      <4>2. CASE ~ReadHeader(c)
        BY <1>t, <1>5, <2>2, <4>2, SessionKeepsBuffers
      <4>3. QED
        BY <4>1, <4>2
    <3>5. \A p \in Parts : Malloc(c, {p}) =>
            \A q \in Parts : heap'[c][q] = IF q = p THEN "live" ELSE heap[c][q]
      BY <1>u DEF Malloc
    <3>6. \A p \in Parts : /\ heap'[c][p] = heap[c][p] \/ heap'[c][p] = "live"
                           /\ p \in job[c].want \ job'[c].want => heap'[c][p] = "live"
      <4>1. CASE heap' = heap /\ job'[c].want = job[c].want
        BY <4>1
      <4>2. CASE \E p \in Parts : Malloc(c, {p}) /\ job'[c].want = job[c].want \ {p}
        <5>1. PICK p \in Parts : Malloc(c, {p}) /\ job'[c].want = job[c].want \ {p}
          BY <4>2
        <5>2. \A q \in Parts : heap'[c][q] = IF q = p THEN "live" ELSE heap[c][q]
          BY <3>5, <5>1
        <5>3. QED
          BY <5>1, <5>2
      <4>3. QED
        BY <3>4, <4>1, <4>2
    <3>7. open'[c] + 4 * Len(todo'[c]) + Remaining(c)' < MaxFiles
      <4>1. open'[c] \in Nat
        BY <1>t, UserTypes, ClientAssumption DEF TypeInv, ClientTypeOK
      <4>2. open[c] + 4 * Len(todo[c]) + Remaining(c) < MaxFiles
        BY <1>t, <3>2 DEF HeapOK
      <4>3. QED
        BY <1>t, <3>1, <3>3, <4>1, <4>2
    <3>8. QED
      BY <1>t, <3>1, <3>2, <3>6, <3>7 DEF HeapOK
  <2>3. QED
    BY <2>1, <2>2
<1>6. CASE Finish(c)
  <2>1. /\ cpc[c] = "connect" /\ cpc'[c] = "idle" /\ todo' = todo /\ open' = open
        /\ heap' = heap \/ (FreeAll(c) /\ Frees(c))
    BY <1>6, <1>u DEF Finish, Step
  <2>2. FreeAll(c) /\ Frees(c) => \A p \in Parts : heap'[c][p] # "wild"
    <3> SUFFICES ASSUME FreeAll(c), Frees(c), NEW p \in Parts PROVE heap'[c][p] # "wild"
      OBVIOUS
    <3>1. heap[c][p] = "live"
      BY <1>t, <2>1 DEF Frees, HeapOK
    <3>2. heap'[c][p] = "freed"
      BY <1>u, <3>1 DEF FreeAll, Freed
    <3>3. QED
      BY <3>2
  <2>3. Remaining(c) \in Nat /\ Remaining(c)' = 0
    BY <1>t, <2>1 DEF Remaining
  <2>4. QED
    BY <1>t, <2>1, <2>2, <2>3 DEF HeapOK
<1>7. CASE Kill(c)
  BY <1>7, <1>t, <1>u DEF Kill, ExitClient, HeapOK
<1>8. InSession(c) \/ cpc[c] \notin {"verdict", "write", "listing", "answer", "bytes", "spin"}
  BY DEF InSession
<1>9. QED
  BY <1>1, <1>2, <1>3, <1>4, <1>5, <1>6, <1>7, <1>8
  DEF UserStep, ClientStep, LoginAccepted, LoginRefused, Write, WriteBroken, ReadListing,
      NoMoreParts, ReadHeader, ReadGarbage, ReadBytes, SpinClient

LEMMA NextHeapInv == HeapInv /\ [Next]_vars => HeapInv'
<1> SUFFICES ASSUME HeapInv, [Next]_vars PROVE HeapInv'
  OBVIOUS
<1>1. TypeInv /\ TypeInv'
  BY NextTypes DEF HeapInv
<1>2. ASSUME NEW c \in Clients, SameClient(c) PROVE HeapOK(c)'
  BY <1>2 DEF HeapInv, HeapOK, Remaining, SameClient
<1>3. ASSUME NEW c \in Clients, UserStep(c) PROVE HeapInv'
  BY <1>1, <1>2, <1>3, UserHeap, OtherClients DEF HeapInv
<1>4. CASE \/ \E h \in Handlers : ServerStep(h)
           \/ \E s \in Servers : Outage(s)
           \/ UNCHANGED vars
  <2>1. UNCHANGED clientVars
    BY <1>1, <1>4, ServersLeaveClients DEF vars
  <2>2. \A c \in Clients : SameClient(c)
    BY <2>1 DEF clientVars, SameClient
  <2>3. QED
    BY <1>1, <1>2, <2>2 DEF HeapInv
<1>5. QED
  BY <1>3, <1>4 DEF Next, UserStep

LEMMA InitHeapInv ==
  ASSUME FilesAndDescriptors
  PROVE  Init => HeapInv
<1> SUFFICES ASSUME Init, NEW c \in Clients PROVE HeapOK(c)
  BY InitTypes DEF HeapInv
<1>1. /\ cpc[c] = "idle" /\ open[c] = 0 /\ todo[c] \in Plans[c]
      /\ heap[c] = [p \in Parts |-> "unset"]
  BY DEF Init
<1>2. /\ 4 * Len(todo[c]) < MaxFiles
      /\ \A i \in 1..Len(todo[c]) : todo[c][i].op = "put" => todo[c][i].content # None
  BY <1>1 DEF FilesAndDescriptors
<1>3. Len(todo[c]) \in Nat /\ Remaining(c) = 0
  BY <1>1, InitTypes DEF TypeInv, ClientTypeOK, Remaining
<1>4. QED
  BY <1>1, <1>2, <1>3 DEF HeapOK

(***************************************************************************)
(* A client whose files exist and who does not run out of descriptors only *)
(* frees buffers it has allocated, whatever the sequence of commands and   *)
(* whichever servers are missing (DFS_client.c:351-354, 463).              *)
(***************************************************************************)
THEOREM FreesOnlyItsOwn ==
  ASSUME FilesAndDescriptors
  PROVE  Spec => []FreesWhatItAllocated
<1>1. HeapInv => FreesWhatItAllocated
  BY DEF HeapInv, HeapOK, FreesWhatItAllocated
<1>2. QED
  BY <1>1, InitHeapInv, NextHeapInv, PTL DEF Spec

(***************************************************************************)
(* A client that has the descriptors it needs calls no server offline that *)
(* is running (DFS_client.c:135, 285, 378, 484).                           *)
(***************************************************************************)
THEOREM OfflineMeansDown ==
  ASSUME FilesAndDescriptors
  PROVE  Spec => OfflineOnlyIfDown
<1>1. ASSUME HeapInv, [Next]_vars, NEW c \in Clients, NEW s \in Servers,
             cpc[c] = "connect", s \in job'[c].offline \ job[c].offline
      PROVE  status[s] # "up"
  <2>t. TypeInv /\ HeapOK(c) /\ job[c] \in Jobs /\ job \in [Clients -> Jobs]
        /\ open[c] \in Nat /\ MaxFiles \in Nat /\ Len(todo[c]) \in Nat
    BY <1>1, ClientAssumption DEF HeapInv, TypeInv, ClientTypeOK
  <2>1. job'[c] # job[c]
    BY <1>1
  <2>2. UserStep(c)
    <3>1. \A d \in Clients \ {c} : ~UserStep(d)
      BY <2>t, <2>1, OtherClients DEF SameClient
    <3>2. /\ ~\E h \in Handlers : ServerStep(h)
          /\ ~\E r \in Servers : Outage(r)
      BY <2>t, <2>1, ServersLeaveClients DEF clientVars
    <3>3. job' # job
      BY <2>1
    <3>4. QED
      BY <1>1, <3>1, <3>2, <3>3 DEF Next, UserStep, vars, clientVars
  <2>3. ServerOffline(c)
    <3>1. Connect(c) => job'[c].offline = job[c].offline
      BY <2>t DEF Connect, Step, Jobs
    <3>2. ~Finish(c) /\ ~Kill(c)
      BY <2>t, <2>1 DEF Finish, Step, Kill, ExitClient
    <3>3. QED
      BY <1>1, <2>2, <3>1, <3>2 DEF UserStep, ClientStep, Enter, PutUnopened, LoginAccepted,
         LoginRefused, Write, WriteBroken, ReadListing, NoMoreParts, ReadHeader,
         ReadGarbage, ReadBytes, SpinClient
  <2>4. Descriptor(c)
    <3>1. open[c] + 4 * Len(todo[c]) + Remaining(c) < MaxFiles
      BY <1>1, <2>t DEF HeapOK
    <3>2. Remaining(c) = 5 - job[c].turn /\ job[c].turn \in 1..4
      BY <1>1, <2>t, <2>3, SessionTurn DEF Remaining, ServerOffline, MAXSERVERS
    <3>3. open[c] < MaxFiles
      BY <2>t, <3>1, <3>2
    <3>4. QED
      BY <3>3 DEF Descriptor
  <2>5. s = job[c].turn
    <3> DEFINE j == [job[c] EXCEPT !.offline = @ \cup {job[c].turn}]
    <3>1. job[c].turn \in Servers /\ job[c].turn <= MAXSERVERS
      BY <2>t, <2>3, SessionTurn DEF ServerOffline, Jobs, MAXSERVERS
    <3>2. j \in Jobs /\ j.turn = job[c].turn /\ j.offline = job[c].offline \cup {job[c].turn}
          /\ NextServer(c, j)
      BY <2>t, <2>3, <3>1 DEF ServerOffline, Jobs
    <3> HIDE DEF j
    <3>3. job'[c].offline = j.offline
      BY <2>t, <3>1, <3>2, NextServerType
    <3>4. QED
      BY <1>1, <3>2, <3>3
  <2>6. QED
    BY <2>3, <2>4, <2>5 DEF ServerOffline
<1>2. HeapInv /\ [Next]_vars =>
        [\A c \in Clients, s \in Servers :
           cpc[c] = "connect" /\ s \in job'[c].offline \ job[c].offline => status[s] # "up"]_vars
  BY <1>1
<1>3. QED
  BY <1>2, InitHeapInv, NextHeapInv, PTL DEF Spec, OfflineOnlyIfDown

-----------------------------------------------------------------------------
(***************************************************************************)
(* Accounts are never refused: what a handler does for a client connected  *)
(* to it is determined (CarriesOut and Owed).                              *)
(*                                                                         *)
(* The conditions: the directories of the users are there, nobody presses  *)
(* ctrl-c, servers are killed only between commands, the files to put      *)
(* exist and there are descriptors enough.                                 *)
(***************************************************************************)
Calm == /\ KnownUsers = Users /\ ~MayKill /\ Outages # "any"
        /\ FilesAndDescriptors

\* A client that does nothing, whose connection is left alone.
LEMMA InsiderUntouched ==
  ASSUME NEW c \in Clients, Insider(c), SameClient(c),
         InSession(c) => SameConnection(sess[c])
  PROVE  Insider(c)'
<1>1. CASE ~InSession(c)
  BY <1>1 DEF Insider, InSession, SameClient
<1>2. CASE InSession(c)
  <2>1. SameConnection(sess[c]) /\ sess'[c] = sess[c] /\ cpc'[c] = cpc[c]
        /\ job'[c] = job[c] /\ outbox'[c] = outbox[c] /\ last'[c] = last[c]
    BY <1>2 DEF SameClient
  <2>2. Stream(c)' = Stream(c) /\ Ahead(c)' = Ahead(c) /\ InSession(c)'
    BY <1>2, <2>1 DEF Stream, Unsent, Ahead, SameConnection, InSession
  <2>3. Welcomed(c) => Welcomed(c)'
    BY <2>1 DEF Welcomed, SameConnection
  <2>4. AtWork(c) => AtWork(c)'
    BY <2>1, <2>2 DEF AtWork, SameConnection
  <2>5. QED
    BY <1>2, <2>1, <2>2, <2>3, <2>4 DEF Insider
<1>3. QED
  BY <1>1, <1>2

\* What the step of a handler keeps of the servers and the other handlers.
LEMMA CalmStep ==
  ASSUME CalmInv, NEW k \in Handlers, HandlerStep(k)
  PROVE  /\ TypeInv /\ Inv /\ TypeOK /\ DirectoryReady
         /\ UNCHANGED gone /\ CalmServers'
         /\ pc[k] # "free" /\ ~gone[k] /\ pc'[k] # "mkdir"
         /\ \A h \in Handlers \ {k} :
              /\ pc'[h] = pc[h] /\ frame'[h] = frame[h] /\ cmd'[h] = cmd[h]
              /\ inbox'[h] = inbox[h] /\ reply'[h] = reply[h]
<1>1. /\ TypeInv /\ Inv /\ TypeOK /\ DirectoryReady /\ pc[k] # "mkdir"
      /\ \A s \in Servers : Users \X {Base} \subseteq dirs[s]
      /\ \A h \in Handlers : pc[h] # "mkdir" /\ (gone[h] => pc[h] = "free")
  BY DEF CalmInv, StepInv, TypeInv, Inv, CalmServers
<1>2. /\ UNCHANGED gone /\ DirectoryReady' /\ pc'[k] # "mkdir"
      /\ \A s \in Servers : Users \X {Base} \subseteq dirs'[s]
      /\ \A h \in Handlers \ {k} :
           pc'[h] = pc[h] /\ frame'[h] = frame[h] /\ cmd'[h] = cmd[h]
  BY <1>1, SettledStep
<1>3. \A h \in Handlers \ {k} : inbox'[h] = inbox[h] /\ reply'[h] = reply[h]
  BY <1>1, OwnStreams
<1>4. pc[k] # "free"
  <2>1. Authenticate(k) => pc[k] # "free"
    BY DEF Authenticate
  <2>2. QED
    BY <1>1, <2>1, OwnMove
<1>5. CalmServers'
  BY <1>1, <1>2, <1>4 DEF CalmServers
<1>6. QED
  BY <1>1, <1>2, <1>3, <1>4, <1>5

\* The verdict of the handler of an account.
LEMMA VerdictGiven ==
  ASSUME CalmInv, NEW c \in Clients, Login[c] \in Accounts, Insider(c),
         cpc[c] = "verdict", HandlerStep(sess[c]), UNCHANGED clientVars
  PROVE  Welcomed(c)'
<1> DEFINE h == sess[c]
<1>t. /\ h \in Handlers /\ Welcomed(c) /\ UNCHANGED <<sess, job>>
      /\ TypeInv /\ Inv /\ TypeOK /\ ~gone[h] /\ pc'[h] # "mkdir"
      /\ frame[h] \in Frames
      /\ pc \in [Handlers -> States] /\ frame \in [Handlers -> Frames]
      /\ inbox \in [Handlers -> Seq(Messages)] /\ reply \in [Handlers -> Seq(Messages)]
  <2>1. TypeInv /\ InSession(c)
    BY DEF CalmInv, StepInv, InSession
  <2>2. h \in Handlers
    BY <2>1, SessionTurn
  <2>3. QED
    BY <2>1, <2>2, CalmStep DEF Insider, clientVars, TypeOK
<1>1. CASE pc[h] = "auth"
  <2> DEFINE login == Login[c]
             m == Message("login", login)
  <2>1. Authenticate(h)
    BY <1>t, <1>1, OwnMove
  <2>2. inbox[h] = <<m>> /\ reply[h] = <<>> /\ frame[h].round = 1 /\ job[c].round = 1
    BY <1>t, <1>1 DEF Welcomed
  <2>3. m.tag = "login" /\ m.body = login
    BY DEF Message
  <2> HIDE DEF m
  <2>4. inbox[h] # <<>> /\ Head(inbox[h]) = m /\ Tail(inbox[h]) = <<>>
    BY <2>2
  <2>5. Incoming(h) = m /\ AsLogin(Incoming(h)) = login
    BY <2>3, <2>4 DEF Incoming, AsLogin
  <2>6. inbox'[h] = <<>>
    BY <1>t, <2>1, <2>4 DEF Authenticate, Consume
  <2>7. Valid(login) = TRUE
    BY DEF Valid
  <2>8. reply'[h] = <<Message("verdict", TRUE)>>
    <3>1. Send(h, Message("verdict", TRUE))
      BY <2>1, <2>5, <2>7 DEF Authenticate
    <3> HIDE DEF Message
    <3>2. reply'[h] = Append(<<>>, Message("verdict", TRUE))
      BY <1>t, <2>2, <3>1 DEF Send
    <3>3. QED
      BY <3>2
  <2>9. pc'[h] = "scan" /\ frame'[h].cred = login /\ frame'[h].round = 1
    <3>1. Goto(h, "scan", [frame[h] EXCEPT !.cred = login])
      BY <2>1, <2>5, <2>7 DEF Authenticate
    <3>2. QED
      BY <1>t, <2>2, <3>1 DEF Goto, Frames
  <2>10. QED
    BY <1>t, <2>2, <2>6, <2>8, <2>9 DEF Welcomed
<1>2. CASE pc[h] # "auth"
  <2>1. /\ pc[h] \in {"scan", "command"} /\ frame[h].cred = Login[c]
        /\ inbox[h] = <<>> /\ reply[h] = <<Message("verdict", TRUE)>>
        /\ frame[h].round = 1 /\ job[c].round = 1
    BY <1>t, <1>2 DEF Welcomed
  <2>2. ScanForDirectory(h)
    <3>1. ~ReadCommand(h)
      BY <1>t, <2>1 DEF ReadCommand, Readable
    <3>2. QED
      BY <1>t, <2>1, <3>1, StepAt
  <2>3. /\ pc'[h] = "command" /\ frame'[h] = frame[h]
        /\ inbox'[h] = inbox[h] /\ reply'[h] = reply[h]
    BY <1>t, <2>2 DEF ScanForDirectory, Goto
  <2>4. QED
    BY <1>t, <2>1, <2>3 DEF Welcomed
<1>3. QED
  BY <1>1, <1>2

\* The command of an account, carried out and answered.
LEMMA WorkGoesOn ==
  ASSUME CalmInv, NEW c \in Clients, Insider(c), InSession(c), cpc[c] # "verdict",
         HandlerStep(sess[c]), UNCHANGED clientVars
  PROVE  AtWork(c)'
<1> DEFINE h == sess[c]
           j == job[c]
           o == Unsent(c)
           q == Ahead(c)
<1>t. /\ h \in Handlers /\ AtWork(c) /\ UNCHANGED <<sess, job, cpc, outbox, last>>
      /\ TypeInv /\ Inv /\ TypeOK /\ DirectoryReady /\ gone' = gone
      /\ ~gone[h] /\ pc[h] # "mkdir" /\ pc'[h] # "mkdir"
      /\ j \in Jobs /\ (j.task.op = "put" => j.task.content # None)
      /\ o \in Seq(Messages)
  <2>1. TypeInv /\ CalmServers
    BY DEF CalmInv, StepInv
  <2>2. h \in Handlers /\ j \in Jobs
    BY <2>1, SessionTurn
  <2>3. (j.task.op = "put" => j.task.content # None) /\ o \in Seq(Messages)
    BY <2>1 DEF TypeInv, SessionOK, ClientTypeOK, Unsent
  <2>4. QED
    BY <2>1, <2>2, <2>3, CalmStep DEF Insider, clientVars, CalmServers
<1>w. /\ CarriesOut(pc[h], frame[h], cmd[h], Login[c], j, inbox[h] \o o)
      /\ cpc[c] \in {"write", "listing", "answer", "bytes"}
      /\ cpc[c] = "listing" => j.task.op = "list"
      /\ pc[h] \in Silent => q = <<>> /\ j.round = 1
      /\ j.task.op = "get" => Owed(pc[h], frame[h], j.round, q)
      /\ pc[h] \in Places(j.task.op)
      /\ pc[h] = "request" => frame[h].round = 1
  BY <1>t DEF AtWork, Stream, CarriesOut
<1>p. pc[h] # "auth" /\ ~Authenticate(h)
  BY <1>t, <1>w, PlaceOfCommand DEF Authenticate
<1>1. /\ CarriesOut(pc'[h], frame'[h], cmd'[h], Login[c], j, inbox'[h] \o o)
      /\ ReadCommand(h) => pc'[h] = FirstState(j.task.op)
  BY <1>t, <1>w, CarriesOn
<1>2. Stream(c)' = inbox'[h] \o o
  BY <1>t DEF Stream, Unsent
<1>3. /\ q \in Seq(Messages)
      /\ reply'[h] = reply[h] => Ahead(c)' = q
      /\ \A m \in Messages : reply'[h] = Append(reply[h], m) => Ahead(c)' = Append(q, m)
  BY <1>t, AheadMore
<1>4. pc'[h] \in Silent => Ahead(c)' = <<>> /\ j.round = 1
  BY <1>t, <1>w, <1>p, <1>3, StaysSilent
<1>5. j.task.op = "get" => Owed(pc'[h], frame'[h], j.round, Ahead(c)')
  <2> SUFFICES ASSUME j.task.op = "get" PROVE Owed(pc'[h], frame'[h], j.round, Ahead(c)')
    OBVIOUS
  <2> DEFINE p == Ahead(c)'
             k == j.round
  <2>1. \A m \in Messages : Send(h, m) => p = Append(q, m)
    BY <1>t, <1>3 DEF Send, TypeOK
  <2>2. k \in 1..2
    BY <1>t DEF Jobs
  <2>3. p \in Seq(Messages)
    <3>1. reply'[h] \in Seq(Messages)
      BY <1>t, HandlerInv DEF Inv, TypeOK
    <3>2. cpc[c] = "bytes" => Message("header", last[c]) \in Messages
      BY <1>t, MessageTypes DEF TypeInv, ClientTypeOK, SessionOK
    <3>3. p = IF cpc[c] = "bytes" THEN <<Message("header", last[c])>> \o reply'[h]
                                  ELSE reply'[h]
      BY <1>t DEF Ahead, Announced
    <3> HIDE DEF p
    <3>4. QED
      BY <3>1, <3>2, <3>3, Prepended
  <2>4. ReadCommand(h) => pc'[h] = "request"
    BY <1>1 DEF FirstState
  <2> HIDE DEF p, q, k
  <2>5. QED
    BY <1>t, <1>w, <1>3, <2>1, <2>2, <2>3, <2>4, HandlerOwes DEF p, q, k
<1>6. QED
  BY <1>t, <1>w, <1>1, <1>2, <1>4, <1>5 DEF AtWork

\* The refusal of a client without an account.
LEMMA OutsiderRefused ==
  ASSUME CalmInv, NEW c \in Clients, Login[c] \notin Accounts, Outsider(c),
         NEW k \in Handlers, HandlerStep(k), UNCHANGED clientVars
  PROVE  Outsider(c)'
<1>t. /\ UNCHANGED <<cpc, sess, peer>> /\ TypeOK /\ Inv /\ pc[k] # "free" /\ ~gone[k]
      /\ \A h \in Handlers \ {k} : /\ pc'[h] = pc[h] /\ inbox'[h] = inbox[h]
                                   /\ reply'[h] = reply[h]
      /\ cpc[c] = "verdict" => sess[c] \in Handlers
      /\ pc \in [Handlers -> States] /\ reply \in [Handlers -> Seq(Messages)]
  BY CalmStep, SessionTurn DEF clientVars, InSession, TypeOK
<1>1. \A h \in Handlers : peer'[h] = c /\ pc'[h] # "free" =>
        cpc'[c] = "verdict" /\ h = sess'[c]
  BY <1>t DEF Outsider
<1>2. ASSUME cpc[c] = "verdict", k = sess[c]
      PROVE  pc'[k] = "free" /\ reply'[k] = <<Message("verdict", FALSE)>>
  <2> DEFINE login == Login[c]
             m == Message("login", login)
             no == Message("verdict", FALSE)
  <2>1. pc[k] = "auth" /\ reply[k] = <<>> /\ inbox[k] = <<m>>
    BY <1>t, <1>2 DEF Outsider
  <2>2. Authenticate(k)
    BY <1>t, <2>1, OwnMove
  <2>3. m.tag = "login" /\ m.body = login
    BY DEF Message
  <2> HIDE DEF m
  <2>4. inbox[k] # <<>> /\ Head(inbox[k]) = m
    BY <2>1
  <2>5. AsLogin(Incoming(k)) = login
    BY <2>3, <2>4 DEF Incoming, AsLogin
  <2>6. Valid(login) = FALSE
    BY DEF Valid
  <2>7. Send(k, no) /\ Close(k)
    BY <2>2, <2>5, <2>6 DEF Authenticate
  <2> HIDE DEF no
  <2>8. reply'[k] = Append(<<>>, no) /\ pc'[k] = "free"
    BY <1>t, <2>1, <2>7 DEF Send, Close, Goto
  <2>9. QED
    BY <2>8 DEF no
<1>3. QED
  BY <1>t, <1>1, <1>2 DEF Outsider

\* The servers, while they run and when they are killed.
LEMMA CalmHandlers ==
  ASSUME CalmInv, NEW k \in Handlers, HandlerStep(k), UNCHANGED clientVars
  PROVE  CalmServers' /\ \A c \in Clients : ClientOK(c)'
<1>1. CalmServers'
  BY CalmStep
<1>2. ASSUME NEW c \in Clients, Login[c] \in Accounts PROVE Insider(c)'
  <2>1. Insider(c) /\ TypeInv /\ UNCHANGED <<cpc, job, sess, peer, gone>> /\ SameClient(c)
    BY <1>2, CalmStep DEF CalmInv, ClientOK, clientVars, SameClient
  <2>2. CASE InSession(c) /\ k = sess[c]
    <3>1. CASE cpc[c] = "verdict"
      BY <1>2, <2>1, <2>2, <3>1, VerdictGiven DEF Insider
    <3>2. CASE cpc[c] # "verdict"
      BY <2>1, <2>2, <3>2, WorkGoesOn DEF Insider
    <3>3. QED
      BY <3>1, <3>2
  <2>3. CASE InSession(c) /\ k # sess[c]
    <3>1. sess[c] \in Handlers \ {k}
      BY <2>1, <2>3, SessionTurn
    <3>2. SameConnection(sess[c])
      BY <2>1, <3>1, CalmStep DEF SameConnection
    <3>3. QED
      BY <2>1, <3>2, InsiderUntouched
  <2>4. CASE ~InSession(c)
    BY <2>1, <2>4, InsiderUntouched
  <2>5. QED
    BY <2>2, <2>3, <2>4
<1>3. ASSUME NEW c \in Clients, Login[c] \notin Accounts PROVE Outsider(c)'
  BY <1>3, OutsiderRefused DEF CalmInv, ClientOK
<1>4. QED
  BY <1>1, <1>2, <1>3 DEF ClientOK

LEMMA CalmFaults ==
  ASSUME CalmInv, Outages # "any", NEW s \in Servers, Outage(s)
  PROVE  CalmServers' /\ \A c \in Clients : ClientOK(c)'
<1>t. TypeInv /\ TypeOK /\ UNCHANGED clientVars /\ gone' = gone
  BY ServersLeaveClients DEF CalmInv, StepInv, TypeInv, Inv
<1>1. Quiet /\ (Crash(s) \/ Restart(s))
  BY DEF Outage
<1>2. /\ \A h \in Handlers : pc[h] = "free" /\ pc'[h] = "free"
      /\ UNCHANGED <<dirs, inbox, reply>>
  <2>1. \A h \in Handlers : pc[h] = "free"
    BY <1>1 DEF Quiet, Drained
  <2>2. CASE Crash(s)
    BY <2>1, <2>2 DEF Crash, Halt
  <2>3. CASE Restart(s)
    BY <2>1, <2>3 DEF Restart
  <2>4. QED
    BY <1>1, <2>1, <2>2, <2>3
<1>3. CalmServers'
  BY <1>2 DEF CalmInv, CalmServers, DirectoryReady
<1>4. ASSUME NEW c \in Clients PROVE ClientOK(c)'
  <2>1. ~InSession(c) /\ SameClient(c)
    BY <1>t, <1>1 DEF Quiet, InSession, clientVars, SameClient
  <2>2. Insider(c) => Insider(c)'
    BY <2>1, InsiderUntouched
  <2>3. Outsider(c) => Outsider(c)'
    BY <1>2, <2>1 DEF Outsider, InSession, SameClient
  <2>4. QED
    BY <2>2, <2>3 DEF CalmInv, ClientOK
<1>5. QED
  BY <1>3, <1>4

\* The steps of a client of an account.
LEMMA InsiderWrites ==
  ASSUME CalmInv, NEW c \in Clients, Insider(c), Write(c)
  PROVE  Insider(c)' /\ ~Closed(sess[c])
<1> DEFINE h == sess[c]
           o == outbox[c]
<1>t. /\ TypeInv /\ InSession(c) /\ h \in Handlers /\ AtWork(c) /\ cpc[c] = "write"
      /\ inbox \in [Handlers -> Seq(Messages)] /\ o \in Seq(Messages) /\ o # <<>>
      /\ outbox \in [Clients -> Seq(Messages)] /\ job[c] \in Jobs /\ job[c].turn <= MAXSERVERS
  <2>1. TypeInv /\ InSession(c) /\ cpc[c] = "write"
    BY DEF CalmInv, StepInv, Write, InSession
  <2>2. QED
    BY <2>1, SessionTurn DEF TypeInv, Inv, TypeOK, ClientTypeOK, SessionOK, Insider
<1>m. /\ Head(o) \in Messages /\ Tail(o) \in Seq(Messages) /\ o = <<Head(o)>> \o Tail(o)
      /\ Len(o) = 1 => Tail(o) = <<>>
  BY <1>t, TailItems, HeadAndTail, OnlyItem
<1>w. /\ CarriesOut(pc[h], frame[h], cmd[h], Login[c], job[c], Stream(c))
      /\ pc[h] \in Silent => Ahead(c) = <<>> /\ job[c].round = 1
      /\ job[c].task.op = "get" => Owed(pc[h], frame[h], job[c].round, Ahead(c))
      /\ Stream(c) = inbox[h] \o o
  BY <1>t DEF AtWork, Stream, Unsent
<1>1. ~Closed(h)
  <2> SUFFICES ASSUME pc[h] = "free" PROVE FALSE
    BY DEF Closed
  <2>1. inbox[h] \o o = <<>>
    BY <1>w DEF CarriesOut, Left
  <2>2. Len(inbox[h] \o o) = Len(inbox[h]) + Len(o) /\ Len(o) > 0 /\ Len(inbox[h]) \in Nat
        /\ Len(o) \in Nat
    BY <1>t, TailItems
  <2>3. Len(inbox[h] \o o) = 0
    BY <2>1, EmptySeq
  <2> DEFINE a == Len(inbox[h])
             b == Len(o)
  <2>4. a \in Nat /\ b \in Nat /\ b > 0 /\ a + b = 0
    BY <2>2, <2>3
  <2> HIDE DEF a, b
  <2>5. QED
    BY <2>4
<1>2. inbox'[h] = Append(inbox[h], Head(o)) /\ inbox'[h] \in Seq(Messages)
      /\ outbox'[c] = Tail(o) /\ UNCHANGED <<pc, frame, cmd, reply, last>>
  BY <1>t, <1>m, <1>1 DEF Write
<1>3. inbox'[h] \o Tail(o) = inbox[h] \o o
  <2> DEFINE m == Head(o)
             rest == Tail(o)
  <2>1. m \in Messages /\ rest \in Seq(Messages) /\ o = <<m>> \o rest
        /\ inbox[h] \in Seq(Messages) /\ inbox'[h] = Append(inbox[h], m)
    BY <1>t, <1>m, <1>2
  <2> HIDE DEF m, rest
  <2>2. Append(inbox[h], m) = inbox[h] \o <<m>>
    BY <2>1, AppendIsConcat
  <2>3. (inbox[h] \o <<m>>) \o rest = inbox[h] \o (<<m>> \o rest)
    <3>1. <<m>> \in Seq(Messages)
      BY <2>1
    <3> DEFINE q == inbox[h]
    <3>2. q \in Seq(Messages) /\ <<m>> \in Seq(Messages) /\ rest \in Seq(Messages)
      BY <2>1, <3>1
    <3> HIDE DEF q
    <3>3. (q \o <<m>>) \o rest = q \o (<<m>> \o rest)
      BY <3>2, ConcatAssociative
    <3>4. QED
      BY <3>3 DEF q
  <2>4. QED
    BY <2>1, <2>2, <2>3 DEF rest
<1>4. PICK j \in Jobs :
        /\ j.task = job[c].task /\ j.pair = job[c].pair /\ j.want = job[c].want
        /\ j.round = job[c].round /\ j.turn = job[c].turn
        /\ IF Len(o) = 1 THEN AfterWriting(c, j) ELSE Step(c, "write", j) /\ UNCHANGED sess
  <2> DEFINE j == [job[c] EXCEPT !.lost = @ \/ Closed(h)]
  <2>1. /\ j \in Jobs /\ j.task = job[c].task /\ j.pair = job[c].pair
        /\ j.want = job[c].want /\ j.round = job[c].round /\ j.turn = job[c].turn
    BY <1>t DEF Jobs, Closed
  <2>2. IF Len(o) = 1 THEN AfterWriting(c, j) ELSE Step(c, "write", j) /\ UNCHANGED sess
    BY DEF Write
  <2> HIDE DEF j
  <2>3. QED
    BY <2>1, <2>2
\* The session goes on.
<1>5. ASSUME NEW where \in {"write", "listing", "answer"}, Step(c, where, j), sess' = sess,
             where = "listing" => j.task.op = "list",
             where # "write" => Tail(o) = <<>>
      PROVE  Insider(c)'
  <2>1. cpc'[c] = where /\ job'[c] = j
    BY <1>t, <1>4, <1>5, StepType DEF ClientStates
  <2>2. Stream(c)' = Stream(c)
    <3>1. Unsent(c)' = Tail(o)
      <4>1. CASE where = "write"
        BY <1>2, <2>1, <4>1 DEF Unsent
      <4>2. CASE where # "write"
        BY <1>5, <2>1, <4>2 DEF Unsent
      <4>3. QED
        BY <4>1, <4>2
    <3>2. QED
      BY <1>w, <1>3, <1>5, <3>1 DEF Stream
  <2>3. Ahead(c)' = Ahead(c)
    BY <1>t, <1>2, <1>5, <2>1 DEF Ahead
  <2>4. CarriesOut(pc[h], frame[h], cmd[h], Login[c], j, Stream(c))
    <3>1. \A where2, r : Left(where2, r, j) = Left(where2, r, job[c])
      BY <1>4 DEF Left, Script, Sent, Rest, BytesSent, PartOf
    <3>2. Typed(j) = Typed(job[c]) /\ \A r : HeaderSent(j, r) = HeaderSent(job[c], r)
      BY <1>4 DEF Typed, HeaderSent, PartOf
    <3>3. QED
      BY <1>4, <1>w, <3>1, <3>2 DEF CarriesOut
  <2>5. AtWork(c)'
    BY <1>2, <1>4, <1>5, <1>w, <2>1, <2>2, <2>3, <2>4 DEF AtWork
  <2>6. QED
    BY <1>5, <2>1, <2>5 DEF Insider
\* The session is over.
<1>6. ASSUME NEW k \in Jobs, k.turn = job[c].turn, NextServer(c, k)
      PROVE  Insider(c)'
  <2>1. cpc'[c] = "connect" /\ job'[c].round = 1
    <3>1. k.turn <= MAXSERVERS
      BY <1>t, <1>6
    <3>2. QED
      BY <1>t, <1>6, <3>1, NextServerType
  <2>2. QED
    BY <2>1 DEF Insider, InSession
<1>7. LET k == [j EXCEPT !.pair = WrapPair(@) + 1]
      IN  k \in Jobs /\ k.turn = j.turn
  <2>1. WrapPair(j.pair) + 1 \in 0..4
    BY <1>4 DEF Jobs, WrapPair
  <2>2. QED
    BY <1>4, <2>1 DEF Jobs
<1>8. j.task.op \in {"list", "get", "put", "MKDIR"}
  BY <1>4 DEF Jobs, TaskTypes, Ops
<1>9. CASE Len(o) = 1
  <2>1. AfterWriting(c, j) /\ Tail(o) = <<>>
    BY <1>m, <1>4, <1>9
  <2>2. \/ NextServer(c, j) \/ NextServer(c, [j EXCEPT !.pair = WrapPair(@) + 1])
        \/ Step(c, "listing", j) /\ sess' = sess /\ j.task.op = "list"
        \/ Step(c, "answer", j) /\ sess' = sess
    BY <1>8, <2>1 DEF AfterWriting
  <2>3. Step(c, "listing", j) /\ sess' = sess /\ j.task.op = "list" => Insider(c)'
    BY <1>5, <2>1
  <2>4. Step(c, "answer", j) /\ sess' = sess => Insider(c)'
    BY <1>5, <2>1
  <2>5. NextServer(c, j) \/ NextServer(c, [j EXCEPT !.pair = WrapPair(@) + 1]) => Insider(c)'
    BY <1>4, <1>6, <1>7
  <2>6. QED
    BY <1>1, <2>2, <2>3, <2>4, <2>5
<1>10. CASE Len(o) # 1
  <2>1. Step(c, "write", j) /\ sess' = sess
    BY <1>4, <1>10
  <2>2. QED
    BY <1>1, <1>5, <2>1
<1>11. QED
  BY <1>9, <1>10

\* What a client finds that expects a part or its bytes.
LEMMA StreamRead ==
  ASSUME CalmInv, NEW c \in Clients, Insider(c),
         ReadHeader(c) \/ ReadBytes(c) \/ ReadGarbage(c) \/ SpinClient(c)
  PROVE  LET h == sess[c]
             q == Ahead(c)
             m == Message("header", last[c])
         IN  /\ reply[h] \in Seq(Messages) /\ reply[h] # <<>> /\ Answer(c) = Head(reply[h])
             /\ TakeAnswer(c) => reply'[h] = Tail(reply[h])
             /\ pc[h] \in {"serve", "send", "free"} /\ q # <<>>
             /\ cpc[c] = "answer" => q = reply[h]
             /\ cpc[c] = "bytes" => /\ m \in Messages /\ m.tag = "header" /\ m.body = last[c]
                                    /\ q = <<m>> \o reply[h]
                                    /\ Head(q) = m /\ Tail(q) = reply[h]
             /\ \/ StartsWithUnit(q) /\ Owed(pc[h], frame[h], job[c].round + 1, AfterUnit(q))
                \/ q = NothingMore
                \/ \E x \in Headers : x.size # 0 /\ q = Announced(x)
<1> DEFINE h == sess[c]
           q == Ahead(c)
           k == job[c].round
<1>t. /\ TypeInv /\ InSession(c) /\ h \in Handlers /\ cpc[c] \in {"answer", "bytes"}
      /\ AtWork(c) /\ job[c].task.op = "get" /\ k \in 1..2
      /\ cpc[c] = "bytes" => last[c] \in Headers /\ last[c].size # 0
      /\ reply[h] \in Seq(Messages) /\ frame[h] \in Frames /\ Answered(c)
  <2>1. /\ TypeInv /\ InSession(c) /\ cpc[c] \in {"answer", "bytes"} /\ StepOK(c)
        /\ Answered(c)
    BY DEF CalmInv, StepInv, ReadHeader, ReadBytes, ReadGarbage, SpinClient, InSession
  <2>2. QED
    BY <2>1, SessionTurn DEF TypeInv, Inv, TypeOK, ClientTypeOK, SessionOK, StepOK, Insider, Jobs
<1>w. /\ CarriesOut(pc[h], frame[h], cmd[h], Login[c], job[c], Stream(c))
      /\ pc[h] \in Silent => q = <<>>
      /\ Owed(pc[h], frame[h], k, q)
      /\ cpc[c] = "answer" => q = reply[h]
  BY <1>t DEF AtWork, Ahead
<1>n. cpc[c] = "bytes" =>
        LET m == Message("header", last[c])
        IN  /\ m \in Messages /\ m.tag = "header" /\ m.body = last[c]
            /\ q = <<m>> \o reply[h] /\ q # <<>> /\ Head(q) = m /\ Tail(q) = reply[h]
            /\ reply[h] = <<>> => q = Announced(last[c])
  <2> SUFFICES ASSUME cpc[c] = "bytes"
               PROVE  LET m == Message("header", last[c])
                      IN  /\ m \in Messages /\ m.tag = "header" /\ m.body = last[c]
                          /\ q = <<m>> \o reply[h] /\ q # <<>> /\ Head(q) = m /\ Tail(q) = reply[h]
                          /\ reply[h] = <<>> => q = Announced(last[c])
    OBVIOUS
  <2> DEFINE m == Message("header", last[c])
  <2>1. m \in Messages /\ m.tag = "header" /\ m.body = last[c]
    BY <1>t, MessageTypes DEF Message
  <2>2. q = <<m>> \o reply[h]
    BY DEF Ahead, Announced
  <2>3. Announced(last[c]) = <<m>>
    BY DEF Announced
  <2> HIDE DEF m, q
  <2>4. <<m>> \in Seq(Messages)
    BY <2>1
  <2>5. reply[h] = <<>> => q = <<m>>
    BY <2>2, <2>4, ConcatEmptySeq
  <2>6. q # <<>> /\ Head(q) = m /\ Tail(q) = reply[h]
    BY <1>t, <2>1, <2>2, Prepended
  <2>7. QED
    BY <2>1, <2>2, <2>3, <2>5, <2>6 DEF m
<1>1. reply[h] # <<>>
  <2> SUFFICES ASSUME reply[h] = <<>> PROVE FALSE
    OBVIOUS
  <2>1. pc[h] = "free"
    BY <1>t DEF Answered, Closed
  <2>2. q # <<>> /\ \A x : x.size # 0 => q # Announced(x)
    BY <1>t, <1>w, <2>1, OwedSomething
  <2>3. QED
    BY <1>t, <1>w, <1>n, <2>2
<1>2. /\ Answer(c) = Head(reply[h]) /\ pc[h] \in {"serve", "send", "free"} /\ q # <<>>
      /\ TakeAnswer(c) => reply'[h] = Tail(reply[h])
  <2>1. q # <<>>
    BY <1>t, <1>1, <1>w, <1>n
  <2>2. pc[h] \in {"serve", "send", "free"}
    BY <1>t, <1>w, <2>1 DEF CarriesOut, Places, Silent
  <2>3. Answer(c) = Head(reply[h])
    BY <1>1 DEF Answer
  <2>4. TakeAnswer(c) => reply'[h] = Tail(reply[h])
    BY <1>t, <1>1, TakesAnswer
  <2>5. QED
    BY <2>1, <2>2, <2>3, <2>4
<1>3. \/ StartsWithUnit(q) /\ Owed(pc[h], frame[h], k + 1, AfterUnit(q))
      \/ q = NothingMore
      \/ \E x \in Headers : x.size # 0 /\ q = Announced(x)
  BY <1>t, <1>w, <1>2, OwedNext
<1>4. QED
  BY <1>t, <1>w, <1>n, <1>1, <1>2, <1>3

\* A client that reads a part finds what was announced, never the end.
LEMMA InsiderReads ==
  ASSUME CalmInv, NEW c \in Clients, Insider(c),
         ReadHeader(c) \/ ReadBytes(c) \/ ReadGarbage(c) \/ SpinClient(c)
  PROVE  Insider(c)' /\ ~ReadGarbage(c)
<1> DEFINE h == sess[c]
           q == Ahead(c)
           k == job[c].round
           hd == HeaderOf(c, Answer(c))
<1>t. /\ TypeInv /\ InSession(c) /\ h \in Handlers /\ cpc[c] \in {"answer", "bytes"}
      /\ AtWork(c) /\ job[c].task.op = "get" /\ k \in 1..2
      /\ job[c] \in Jobs /\ job[c].turn <= MAXSERVERS
      /\ cpc[c] = "bytes" => last[c] \in Headers /\ last[c].part \in Parts /\ last[c].size # 0
      /\ reply[h] \in Seq(Messages) /\ frame[h] \in Frames
      /\ last \in [Clients -> Headers \cup {None}] /\ Answered(c)
  <2>1. /\ TypeInv /\ InSession(c) /\ cpc[c] \in {"answer", "bytes"} /\ StepOK(c)
        /\ Answered(c)
    BY DEF CalmInv, StepInv, ReadHeader, ReadBytes, ReadGarbage, SpinClient, InSession
  <2>2. QED
    BY <2>1, SessionTurn DEF TypeInv, Inv, TypeOK, ClientTypeOK, SessionOK, StepOK, Insider, Jobs
<1>w. /\ CarriesOut(pc[h], frame[h], cmd[h], Login[c], job[c], Stream(c))
      /\ pc[h] \in Silent => q = <<>>
      /\ Owed(pc[h], frame[h], k, q)
      /\ cpc[c] = "answer" => q = reply[h]
      /\ Stream(c) = inbox[h] \o <<>>
  BY <1>t DEF AtWork, Stream, Unsent, Ahead
<1>n. cpc[c] = "bytes" =>
        LET m == Message("header", last[c])
        IN  /\ m \in Messages /\ m.tag = "header" /\ m.body = last[c]
            /\ q = <<m>> \o reply[h] /\ Head(q) = m /\ Tail(q) = reply[h]
  BY StreamRead
<1>1. reply[h] # <<>>
  BY StreamRead
<1>2. /\ Answer(c) = Head(reply[h]) /\ pc[h] \in {"serve", "send", "free"} /\ q # <<>>
      /\ TakeAnswer(c) => reply'[h] = Tail(reply[h])
  BY StreamRead
<1>3. \/ StartsWithUnit(q) /\ Owed(pc[h], frame[h], k + 1, AfterUnit(q))
      \/ q = NothingMore
      \/ \E x \in Headers : x.size # 0 /\ q = Announced(x)
  BY StreamRead
<1>4. /\ Head(NothingMore).tag = "nothing"
      /\ \A x : Head(Announced(x)).tag = "header" /\ Head(Announced(x)).body = x
                /\ Tail(Announced(x)) = <<>>
  BY DEF NothingMore, Announced, Message
\* The parts still wanted do not matter any more to what the handler does.
<1>5. ASSUME NEW j \in Jobs, j.task = job[c].task
      PROVE  CarriesOut(pc[h], frame[h], cmd[h], Login[c], j, Stream(c))
  <2>1. Left(pc[h], frame[h].round, job[c]) = <<>> /\ Left(pc[h], frame[h].round, j) = <<>>
    BY <1>2 DEF Left
  <2>2. QED
    BY <1>2, <1>5, <1>w, <2>1 DEF CarriesOut, Typed
\* The next state of the client.
<1>6. ASSUME NEW j \in Jobs, j.task = job[c].task, j.round = k, j.turn = job[c].turn,
             NEW rest, reply'[h] = rest, UNCHANGED <<pc, frame, cmd, inbox>>,
             \/ NextAnswer(c, j) /\ (k = 1 => Owed(pc[h], frame[h], 2, rest))
             \/ /\ Step(c, "bytes", j) /\ sess' = sess
                /\ Owed(pc[h], frame[h], k, Announced(last'[c]) \o rest)
      PROVE  Insider(c)'
  <2>1. j.turn <= MAXSERVERS
    BY <1>t, <1>6
  <2>2. CASE NextAnswer(c, j) /\ (k = 1 => Owed(pc[h], frame[h], 2, rest))
    <3>1. CASE k = 2
      <4>1. cpc'[c] = "connect" /\ job'[c].round = 1
        BY <1>t, <1>6, <2>1, <2>2, <3>1, NextAnswerType
      <4>2. QED
        BY <4>1 DEF Insider, InSession
    <3>2. CASE k = 1
      <4>1. /\ cpc'[c] = "answer" /\ job'[c].round = 2 /\ sess' = sess
            /\ job'[c].task = job[c].task /\ job'[c] \in Jobs
        BY <1>t, <1>6, <2>1, <2>2, <3>2, NextAnswerType
      <4>2. Ahead(c)' = rest /\ Stream(c)' = Stream(c)
        BY <1>6, <1>w, <4>1 DEF Ahead, Stream, Unsent
      <4>3. Owed(pc[h], frame[h], 2, rest)
        BY <2>2, <3>2
      <4>4. AtWork(c)'
        BY <1>2, <1>5, <1>6, <4>1, <4>2, <4>3 DEF AtWork, Silent
      <4>5. QED
        BY <4>1, <4>4 DEF Insider
    <3>3. QED
      BY <1>t, <3>1, <3>2
  <2>3. CASE /\ Step(c, "bytes", j) /\ sess' = sess
             /\ Owed(pc[h], frame[h], k, Announced(last'[c]) \o rest)
    <3>1. cpc'[c] = "bytes" /\ job'[c] = j
      BY <1>t, <2>3, StepType DEF ClientStates
    <3>2. Ahead(c)' = Announced(last'[c]) \o rest /\ Stream(c)' = Stream(c)
      BY <1>6, <1>w, <2>3, <3>1 DEF Ahead, Stream, Unsent
    <3>3. AtWork(c)'
      BY <1>2, <1>5, <1>6, <2>3, <3>1, <3>2 DEF AtWork, Silent
    <3>4. QED
      BY <3>1, <3>3 DEF Insider
  <2>4. QED
    BY <1>6, <2>2, <2>3
<1>7. CASE ReadHeader(c) \/ ReadGarbage(c)
  <2>1. cpc[c] = "answer" /\ q = reply[h] /\ Answer(c) = Head(q)
    BY <1>2, <1>7, <1>w DEF ReadHeader, ReadGarbage
  <2>2. Answer(c).tag \in {"header", "nothing"}
    BY <1>3, <1>4, <2>1 DEF StartsWithUnit
  <2>3. ReadHeader(c) /\ Answer(c).tag = "header" /\ ~ReadGarbage(c)
    BY <1>7, <2>2 DEF ReadHeader, ReadGarbage
  <2> DEFINE j == [job[c] EXCEPT !.want = @ \ {hd.part}, !.bufs[hd.part] = Zeros(0)]
  <2>4. hd = Head(q).body /\ hd \in Headers /\ hd.part \in Parts
    BY <1>t, <2>1, <2>3, AnswerType DEF HeaderOf
  <2>5. /\ IF hd.size = 0 THEN NextAnswer(c, j) ELSE Step(c, "bytes", j) /\ sess' = sess
        /\ last'[c] = hd /\ UNCHANGED <<pc, frame, cmd, inbox>> /\ TakeAnswer(c)
    BY <1>t, <2>3 DEF ReadHeader
  <2>6. j \in Jobs /\ j.task = job[c].task /\ j.round = k /\ j.turn = job[c].turn
    <3>1. Zeros(0) \in Pieces
      BY PieceTypes
    <3> HIDE DEF hd
    <3>2. QED
      BY <1>t, <2>4, <3>1 DEF Jobs
  <2> HIDE DEF hd, j
  <2>7. CASE hd.size = 0
    <3>1. NextAnswer(c, j) /\ reply'[h] = Tail(q)
      BY <1>2, <2>1, <2>5, <2>7
    <3>2. Owed(pc[h], frame[h], k + 1, Tail(q))
      BY <1>3, <1>4, <2>1, <2>2, <2>3, <2>4, <2>7 DEF AfterUnit
    <3>3. k = 1 => Owed(pc[h], frame[h], 2, Tail(q))
      BY <3>2
    <3>4. QED
      BY <1>6, <2>3, <2>5, <2>6, <3>1, <3>3
  <2>8. CASE hd.size # 0
    <3>1. Step(c, "bytes", j) /\ sess' = sess /\ reply'[h] = Tail(q)
      BY <1>2, <2>1, <2>5, <2>8
    <3>2. q = Announced(hd) \o Tail(q)
      <4>1. q \in Seq(Messages) /\ q # <<>> /\ Head(q).tag = "header"
        BY <1>t, <1>2, <2>1, <2>3
      <4>2. Head(q) \in Messages
        BY <4>1, TailItems
      <4>3. Head(q) = Message("header", hd)
        BY <2>4, <4>1, <4>2 DEF Messages, Message
      <4>4. q = <<Head(q)>> \o Tail(q)
        BY <4>1, HeadAndTail
      <4>5. QED
        BY <4>3, <4>4 DEF Announced
    <3>3. Owed(pc[h], frame[h], k, Announced(last'[c]) \o Tail(q))
      BY <1>w, <2>5, <3>2
    <3>4. QED
      BY <1>6, <2>3, <2>5, <2>6, <3>1, <3>3
  <2>9. QED
    BY <2>7, <2>8
<1>8. CASE ReadBytes(c) \/ SpinClient(c)
  <2> DEFINE m == Message("header", last[c])
             piece == AsData(Answer(c), last[c].size)
             j == [job[c] EXCEPT !.bufs[last[c].part] = piece]
  <2>1. /\ cpc[c] = "bytes" /\ last[c] \in Headers /\ last[c].part \in Parts
        /\ last[c].size # 0
    BY <1>8, <1>t DEF ReadBytes, SpinClient
  <2>2. /\ m.tag = "header" /\ m.body = last[c]
        /\ q # <<>> /\ Head(q) = m /\ Tail(q) = reply[h]
    BY <1>n, <2>1
  <2> HIDE DEF m
  <2>3. StartsWithUnit(q) /\ Owed(pc[h], frame[h], k + 1, AfterUnit(q))
    BY <1>1, <1>3, <1>4, <2>2
  <2>4. Answer(c).tag = "data" /\ AfterUnit(q) = Tail(reply[h])
    BY <1>2, <2>1, <2>2, <2>3 DEF StartsWithUnit, AfterUnit
  <2>5. ReadBytes(c) /\ ~ReadGarbage(c)
    BY <1>8, <2>1, <2>4 DEF SpinClient, ReadGarbage
  <2>6. NextAnswer(c, j) /\ UNCHANGED <<pc, frame, cmd, inbox>> /\ TakeAnswer(c)
    BY <2>5 DEF ReadBytes
  <2>7. j \in Jobs /\ j.task = job[c].task /\ j.round = k /\ j.turn = job[c].turn
    <3>1. piece \in Pieces
      BY <1>t, <2>1, AnswerType, ParseTypes DEF Headers
    <3> HIDE DEF piece
    <3>2. QED
      BY <1>t, <2>1, <3>1 DEF Jobs
  <2> HIDE DEF j
  <2>8. reply'[h] = AfterUnit(q) /\ (k = 1 => Owed(pc[h], frame[h], 2, AfterUnit(q)))
    BY <1>2, <2>3, <2>4, <2>6
  <2>9. QED
    BY <1>6, <2>5, <2>6, <2>7, <2>8
<1>9. QED
  BY <1>7, <1>8

\* The session starts.
StartsAt(c, h) ==
  /\ cpc'[c] = "verdict" /\ sess'[c] = h /\ peer'[h] = c
  /\ job'[c].round = job[c].round
  /\ pc'[h] = "auth" /\ frame'[h] = Cleared /\ reply'[h] = <<>>
  /\ inbox'[h] = <<Message("login", Login[c])>> /\ gone'[h] = FALSE
  /\ \A k \in Handlers \ {h} : /\ pc'[k] = pc[k] /\ frame'[k] = frame[k]
                               /\ cmd'[k] = cmd[k] /\ gone'[k] = gone[k]
                               /\ peer'[k] = peer[k]
LEMMA SessionStarts ==
  ASSUME TypeInv, NEW c \in Clients, Connect(c)
  PROVE  \E h \in Handlers : StartsAt(c, h)
<1>1. PICK h \in Handlers :
        /\ Accept(h, <<Message("login", Login[c])>>, FALSE)
        /\ sess' = [sess EXCEPT ![c] = h] /\ peer' = [peer EXCEPT ![h] = c]
  BY DEF Connect
<1>2. cpc'[c] = "verdict" /\ sess'[c] = h /\ job'[c].round = job[c].round
  BY <1>1 DEF Connect, Step, TypeInv, ClientTypeOK, Jobs
<1>3. /\ pc'[h] = "auth" /\ frame'[h] = Cleared /\ reply'[h] = <<>>
      /\ inbox'[h] = <<Message("login", Login[c])>> /\ gone'[h] = FALSE
      /\ \A k \in Handlers \ {h} : /\ pc'[k] = pc[k] /\ frame'[k] = frame[k]
                                   /\ cmd'[k] = cmd[k] /\ gone'[k] = gone[k]
  BY <1>1 DEF Accept, Goto, TypeInv, Inv, TypeOK
<1>4. peer'[h] = c /\ \A k \in Handlers \ {h} : peer'[k] = peer[k]
  BY <1>1 DEF TypeInv, ClientTypeOK
<1>5. StartsAt(c, h)
  BY <1>2, <1>3, <1>4 DEF StartsAt
<1>6. QED
  BY <1>5

\* What the client of an account does is no exit.
LEMMA InsiderSteps ==
  ASSUME CalmInv, ~MayKill, NEW c \in Clients, Login[c] \in Accounts, UserStep(c)
  PROVE  /\ Insider(c)'
         /\ ~ExitClient(c) /\ ~PutUnopened(c)
         /\ ReadListing(c) => pc[sess[c]] = "free"
<1>t. /\ TypeInv /\ HeapInv /\ Insider(c) /\ job[c] \in Jobs
      /\ InSession(c) => sess[c] \in Handlers /\ job[c].turn <= MAXSERVERS
      /\ cpc \in [Clients -> ClientStates] /\ job \in [Clients -> Jobs]
      /\ outbox \in [Clients -> Seq(Messages)]
  BY SessionTurn DEF CalmInv, StepInv, ClientOK, TypeInv, ClientTypeOK
<1>e. Insider(c)' => ~ExitClient(c)
  BY <1>t DEF Insider, ExitClient
<1>n. ~ReadListing(c) \/ pc[sess[c]] = "free"
  <2> SUFFICES ASSUME ReadListing(c) PROVE pc[sess[c]] = "free"
    OBVIOUS
  <2>1. InSession(c) /\ cpc[c] = "listing" /\ Answered(c)
    BY DEF ReadListing, InSession
  <2>2. AtWork(c)
    BY <1>t, <2>1 DEF Insider
  <2>3. /\ job[c].task.op = "list" /\ pc[sess[c]] \in Places("list")
        /\ pc[sess[c]] \in Silent => reply[sess[c]] = <<>>
    BY <2>1, <2>2 DEF AtWork, CarriesOut, Ahead
  <2>4. QED
    BY <2>1, <2>3 DEF Places, Silent, Answered, Closed
<1>p. ~PutUnopened(c)
  BY <1>t, PutsCanBeSent DEF PutUnopened
<1>1. CASE Enter(c) \/ ServerOffline(c) \/ Finish(c)
  <2>1. cpc'[c] = "connect" \/ cpc'[c] = "idle"
    BY <1>t, <1>1 DEF Enter, ServerOffline, Finish, Step, NextServer
  <2>2. CASE Enter(c)
    <3>1. job'[c].round = 1
      BY <1>t, <2>2 DEF Enter, Step, NewJob
    <3>2. QED
      BY <1>e, <1>n, <1>p, <2>1, <3>1 DEF Insider, InSession
  <2>3. CASE ServerOffline(c)
    <3> DEFINE j == [job[c] EXCEPT !.offline = @ \cup {job[c].turn}]
    <3>1. job[c].turn \in Servers /\ job[c].turn <= MAXSERVERS
      BY <1>t, <2>3, SessionTurn DEF ServerOffline, Jobs, MAXSERVERS
    <3>2. j \in Jobs /\ j.turn = job[c].turn /\ NextServer(c, j)
      BY <1>t, <2>3, <3>1 DEF ServerOffline, Jobs
    <3> HIDE DEF j
    <3>3. job'[c].round = 1
      BY <1>t, <3>1, <3>2, NextServerType
    <3>4. QED
      BY <1>e, <1>n, <1>p, <2>1, <3>3 DEF Insider, InSession
  <2>4. CASE Finish(c)
    <3>1. cpc'[c] = "idle"
      BY <1>t, <2>4 DEF Finish, Step
    <3>2. QED
      BY <1>e, <1>n, <1>p, <3>1 DEF Insider, InSession
  <2>5. QED
    BY <1>1, <2>2, <2>3, <2>4
<1>2. CASE Connect(c)
  <2>1. PICK h \in Handlers : StartsAt(c, h)
    BY <1>t, <1>2, SessionStarts
  <2>2. job[c].round = 1
    BY <1>t, <1>2 DEF Connect, Insider
  <2>3. Welcomed(c)'
    BY <2>1, <2>2 DEF StartsAt, Welcomed, Cleared
  <2>4. QED
    BY <1>e, <1>n, <1>p, <2>1, <2>3 DEF StartsAt, Insider
<1>3. CASE LoginAccepted(c) \/ LoginRefused(c)
  <2> DEFINE h == sess[c]
             m == Message("verdict", TRUE)
  <2>1. /\ cpc[c] = "verdict" /\ InSession(c) /\ Answered(c) /\ Welcomed(c) /\ h \in Handlers
    BY <1>3, <1>t DEF LoginAccepted, LoginRefused, InSession, Insider
  <2>2. /\ pc[h] \in {"scan", "command"} /\ frame[h].cred = Login[c] /\ inbox[h] = <<>>
        /\ reply[h] = <<m>> /\ frame[h].round = 1 /\ job[c].round = 1
    BY <2>1 DEF Welcomed, Answered, Closed
  <2>3. m.tag = "verdict" /\ m.body = TRUE
    BY DEF Message
  <2> HIDE DEF m
  <2>4. reply[h] # <<>> /\ Head(reply[h]) = m /\ Tail(reply[h]) = <<>>
    BY <2>2
  <2>5. ~Refused(Answer(c))
    BY <2>3, <2>4 DEF Answer, Refused
  <2>6. /\ cpc'[c] = "write" /\ job'[c] = job[c] /\ outbox'[c] = Script(job[c])
        /\ UNCHANGED <<pc, frame, cmd, inbox, sess>> /\ TakeAnswer(c) /\ LoginAccepted(c)
    BY <1>3, <1>t, <2>5 DEF LoginAccepted, LoginRefused, Step
  <2>7. reply'[h] = <<>>
    BY <1>t, <2>1, <2>4, <2>6, TakesAnswer
  <2>8. Ahead(c)' = <<>> /\ Stream(c)' = Script(job[c])
    <3>1. Ahead(c)' = <<>> /\ Stream(c)' = <<>> \o outbox'[c]
      BY <2>2, <2>6, <2>7 DEF Ahead, Stream, Unsent
    <3>2. Script(job[c]) \in Seq(Messages)
      BY <1>t, ScriptType DEF TypeInv, SessionOK
    <3>3. <<>> \o Script(job[c]) = Script(job[c])
      BY <3>2, ConcatEmptySeq
    <3>4. QED
      BY <2>6, <3>1, <3>3
  <2>9. AtWork(c)'
    <3>1. job[c].task.op \in {"list", "get", "put", "MKDIR"}
      BY <1>t DEF Jobs, TaskTypes, Ops
    <3>2. CarriesOut(pc[h], frame[h], cmd[h], Login[c], job[c], Script(job[c]))
      BY <2>2, <3>1 DEF CarriesOut, Places, Left
    <3>3. Owed(pc[h], frame[h], job[c].round, <<>>)
      BY <2>2 DEF Owed
    <3>4. QED
      BY <2>2, <2>6, <2>8, <3>2, <3>3 DEF AtWork
  <2>10. QED
    BY <1>e, <1>n, <1>p, <2>6, <2>9 DEF Insider
<1>4. CASE Write(c)
  BY <1>t, <1>4, <1>e, <1>n, <1>p, InsiderWrites
<1>5. CASE WriteBroken(c)
  <2>1. cpc[c] = "write" /\ InSession(c) /\ pc[sess[c]] = "free"
    BY <1>5 DEF WriteBroken, InSession, Closed
  <2>2. CarriesOut("free", frame[sess[c]], cmd[sess[c]], Login[c], job[c], Stream(c))
    BY <1>t, <2>1 DEF Insider, AtWork
  <2>3. inbox[sess[c]] \o outbox[c] = <<>>
    BY <2>1, <2>2 DEF CarriesOut, Left, Stream, Unsent
  <2>4. outbox[c] # <<>> /\ outbox[c] \in Seq(Messages) /\ inbox[sess[c]] \in Seq(Messages)
    BY <1>t, <2>1 DEF TypeInv, SessionOK, Inv, TypeOK
  <2>5. FALSE
    <3> DEFINE a == Len(inbox[sess[c]])
               b == Len(outbox[c])
    <3>1. Len(inbox[sess[c]] \o outbox[c]) = a + b /\ a \in Nat /\ b \in Nat /\ b > 0
      BY <2>4, TailItems
    <3>2. Len(inbox[sess[c]] \o outbox[c]) = 0
      BY <2>3, EmptySeq
    <3>3. a \in Nat /\ b \in Nat /\ b > 0 /\ a + b = 0
      BY <3>1, <3>2
    <3> HIDE DEF a, b
    <3>4. QED
      BY <3>3
  <2>6. QED
    BY <2>5
<1>6. CASE ReadListing(c) \/ NoMoreParts(c)
  <2>1. InSession(c) /\ (NextServer(c, job[c]) \/ ReadListing(c))
    BY <1>6 DEF ReadListing, NoMoreParts, InSession
  <2>2. PICK j \in Jobs : j.turn = job[c].turn /\ NextServer(c, j)
    <3>1. CASE ReadListing(c)
      <4> DEFINE m == Answer(c)
                 seen == job[c].seen \cup IF m.tag = "listing" THEN m.body ELSE {}
                 j == [job[c] EXCEPT !.seen = seen]
      <4>1. NextServer(c, j)
        BY <3>1 DEF ReadListing
      <4>2. seen \in SUBSET (Names \X (0..4))
        BY <1>t, <2>1, AnswerType DEF Jobs
      <4> HIDE DEF seen
      <4>3. j \in Jobs /\ j.turn = job[c].turn
        BY <1>t, <4>2 DEF Jobs
      <4> HIDE DEF j
      <4>4. QED
        BY <4>1, <4>3
    <3>2. QED
      BY <1>t, <2>1, <3>1
  <2>3. cpc'[c] = "connect" /\ job'[c].round = 1
    BY <1>t, <2>1, <2>2, NextServerType
  <2>4. QED
    BY <1>e, <1>n, <1>p, <2>3 DEF Insider, InSession
<1>7. CASE ReadHeader(c) \/ ReadBytes(c) \/ ReadGarbage(c) \/ SpinClient(c)
  BY <1>7, <1>t, <1>e, <1>n, <1>p, InsiderReads
<1>8. QED
  BY <1>1, <1>2, <1>3, <1>4, <1>5, <1>6, <1>7, <1>p DEF UserStep, ClientStep, Kill

\* Nor does the client without an account get further than the refusal.
LEMMA OutsiderSteps ==
  ASSUME CalmInv, ~MayKill, NEW c \in Clients, Login[c] \notin Accounts, UserStep(c)
  PROVE  /\ Outsider(c)'
         /\ ~PutUnopened(c) /\ ~ReadListing(c)
         /\ ExitClient(c) => \A h \in Handlers : peer[h] = c => pc[h] = "free"
<1>t. /\ TypeInv /\ HeapInv /\ Outsider(c)
      /\ InSession(c) => sess[c] \in Handlers
      /\ cpc \in [Clients -> ClientStates] /\ sess \in [Clients -> Handlers \cup {None}]
      /\ peer \in [Handlers -> Clients \cup {None}]
      /\ cpc[c] \in {"idle", "connect", "verdict", "exited"}
      /\ \A h \in Handlers : peer[h] = c /\ pc[h] # "free" => cpc[c] = "verdict" /\ h = sess[c]
  BY SessionTurn DEF CalmInv, StepInv, ClientOK, Outsider, TypeInv, ClientTypeOK
<1>p. ~PutUnopened(c) /\ ~ReadListing(c)
  BY <1>t, PutsCanBeSent DEF PutUnopened, ReadListing
<1>1. CASE Enter(c) \/ ServerOffline(c) \/ Finish(c)
  <2>1. cpc[c] \in {"idle", "connect"} /\ cpc'[c] \in {"idle", "connect"}
        /\ UNCHANGED <<pc, peer>>
    BY <1>t, <1>1 DEF Enter, ServerOffline, Finish, Step, NextServer, serverVars
  <2>2. ~ExitClient(c)
    BY <1>t, <2>1 DEF ExitClient
  <2>3. QED
    BY <1>t, <1>p, <2>1, <2>2 DEF Outsider
<1>2. CASE Connect(c)
  <2>1. PICK h \in Handlers : StartsAt(c, h)
    BY <1>t, <1>2, SessionStarts
  <2>2. cpc[c] = "connect"
    BY <1>2 DEF Connect
  <2>3. \A k \in Handlers : peer'[k] = c /\ pc'[k] # "free" => k = h
    BY <1>t, <2>1, <2>2 DEF StartsAt
  <2>4. ~ExitClient(c)
    BY <1>t, <2>1 DEF StartsAt, ExitClient
  <2>5. QED
    BY <1>p, <2>1, <2>3, <2>4 DEF StartsAt, Outsider
<1>3. CASE LoginAccepted(c) \/ LoginRefused(c)
  <2> DEFINE h == sess[c]
             m == Message("verdict", FALSE)
  <2>1. cpc[c] = "verdict" /\ Answered(c) /\ h \in Handlers
    BY <1>3, <1>t DEF LoginAccepted, LoginRefused, InSession
  <2>2. pc[h] = "free" /\ reply[h] = <<m>>
    BY <1>t, <2>1 DEF Outsider, Answered, Closed
  <2>3. m.tag = "verdict" /\ m.body = FALSE
    BY DEF Message
  <2> HIDE DEF m
  <2>4. reply[h] # <<>> /\ Head(reply[h]) = m
    BY <2>2
  <2>5. Refused(Answer(c))
    BY <2>3, <2>4 DEF Answer, Refused
  <2>6. ExitClient(c)
    BY <1>3, <2>5 DEF LoginAccepted, LoginRefused
  <2>7. cpc'[c] = "exited" /\ UNCHANGED <<pc, peer>>
    BY <1>t, <2>6 DEF ExitClient
  <2>8. \A k \in Handlers : peer[k] = c => pc[k] = "free"
    BY <1>t, <2>2
  <2>9. QED
    BY <1>p, <2>7, <2>8 DEF Outsider
<1>4. QED
  BY <1>t, <1>1, <1>2, <1>3, <1>p
  DEF UserStep, ClientStep, Kill, Write, WriteBroken, ReadListing, NoMoreParts,
      ReadHeader, ReadGarbage, ReadBytes, SpinClient

\* A client's step leaves the servers as they are but for its own connection.
LEMMA CalmClients ==
  ASSUME CalmInv, ~MayKill, NEW c \in Clients, UserStep(c)
  PROVE  CalmServers' /\ \A d \in Clients : ClientOK(d)'
<1>t. /\ TypeInv /\ TypeOK /\ CalmServers /\ gone \in [Handlers -> BOOLEAN]
      /\ peer \in [Handlers -> Clients \cup {None}]
      /\ InSession(c) => sess[c] \in Handlers
  BY SessionTurn DEF CalmInv, StepInv, TypeInv, Inv, TypeOK, ClientTypeOK
<1>m. /\ ClientOK(c)'
      /\ ~PutUnopened(c) /\ (ReadListing(c) => pc[sess[c]] = "free")
      /\ ExitClient(c) => \A h \in Handlers : peer[h] = c => pc[h] = "free"
  <2>1. Login[c] \in Accounts => Insider(c)' /\ ~ExitClient(c) /\ ~PutUnopened(c)
                                 /\ (ReadListing(c) => pc[sess[c]] = "free")
    BY InsiderSteps
  <2>2. Login[c] \notin Accounts =>
          /\ Outsider(c)' /\ ~PutUnopened(c) /\ ~ReadListing(c)
          /\ ExitClient(c) => \A h \in Handlers : peer[h] = c => pc[h] = "free"
    BY OutsiderSteps
  <2>3. QED
    BY <2>1, <2>2 DEF ClientOK
\* The others.
<1>o. ASSUME NEW d \in Clients \ {c},
             \A k \in Handlers : peer'[k] = d /\ pc'[k] # "free" =>
                                peer[k] = d /\ pc[k] # "free"
      PROVE  ClientOK(d)'
  <2>1. SameClient(d) /\ (InSession(d) => SameConnection(sess[d])) /\ ClientOK(d)
    BY <1>t, OtherClients DEF CalmInv
  <2>2. Insider(d) => Insider(d)'
    BY <2>1, InsiderUntouched
  <2>3. Outsider(d) => Outsider(d)'
    <3> SUFFICES ASSUME Outsider(d) PROVE Outsider(d)'
      OBVIOUS
    <3>1. cpc'[d] = cpc[d] /\ sess'[d] = sess[d]
      BY <2>1 DEF SameClient
    <3>2. cpc[d] = "verdict" => pc'[sess[d]] = pc[sess[d]]
                                /\ inbox'[sess[d]] = inbox[sess[d]]
                                /\ reply'[sess[d]] = reply[sess[d]]
      BY <2>1 DEF InSession, SameConnection
    <3>3. QED
      BY <1>o, <3>1, <3>2 DEF Outsider
  <2>4. QED
    BY <2>1, <2>2, <2>3 DEF ClientOK
\* What changes of the handlers.
<1>1. UNCHANGED dirs
  BY <1>m DEF UserStep, ClientStep, Enter, Connect, ServerOffline, LoginAccepted,
     LoginRefused, Write, WriteBroken, ReadListing, NoMoreParts, ReadHeader, ReadGarbage,
     ReadBytes, SpinClient, Finish, Kill, ExitClient, Accept, storeVars, serverVars
<1>2. CASE Connect(c)
  <2>1. PICK h \in Handlers : StartsAt(c, h)
    BY <1>t, <1>2, SessionStarts
  <2>2. CalmServers'
    BY <1>t, <1>1, <2>1 DEF StartsAt, CalmServers, DirectoryReady, User, Opens, Tree
  <2>3. \A d \in Clients \ {c}, k \in Handlers :
          peer'[k] = d /\ pc'[k] # "free" => peer[k] = d /\ pc[k] # "free"
    BY <2>1 DEF StartsAt
  <2>4. \A d \in Clients \ {c} : ClientOK(d)'
    BY <1>o, <2>3
  <2>5. QED
    BY <1>m, <2>2, <2>4
<1>3. CASE ~Connect(c)
  <2>1. UNCHANGED <<pc, frame, cmd, peer>>
    BY <1>3, <1>m DEF UserStep, ClientStep, Enter, ServerOffline, LoginAccepted,
       LoginRefused, Write, WriteBroken, ReadListing, NoMoreParts, ReadHeader,
       ReadGarbage, ReadBytes, SpinClient, Finish, Kill, ExitClient, serverVars
  <2>2. \A k \in Handlers : gone'[k] => pc[k] = "free"
    <3>1. \/ gone' = gone
          \/ ReadListing(c) /\ gone' = [gone EXCEPT ![sess[c]] = TRUE]
          \/ ExitClient(c) /\ gone' = [k \in Handlers |-> gone[k] \/ peer[k] = c]
      BY <1>3, <1>m DEF UserStep, ClientStep, Enter, ServerOffline, LoginAccepted,
         LoginRefused, Write, WriteBroken, ReadListing, NoMoreParts, ReadHeader,
         ReadGarbage, ReadBytes, SpinClient, Finish, Kill, ExitClient, serverVars
    <3>2. QED
      BY <1>t, <1>m, <3>1 DEF CalmServers
  <2>3. CalmServers'
    BY <1>t, <1>1, <2>1, <2>2 DEF CalmServers, DirectoryReady, User, Opens, Tree
  <2>4. \A d \in Clients \ {c} : ClientOK(d)'
    BY <1>o, <2>1
  <2>5. QED
    BY <1>m, <2>3, <2>4
<1>4. QED
  BY <1>2, <1>3

LEMMA NextCalmInv ==
  ASSUME Calm
  PROVE  CalmInv /\ [Next]_vars => CalmInv'
<1> SUFFICES ASSUME CalmInv, [Next]_vars PROVE CalmInv'
  OBVIOUS
<1>1. HeapInv' /\ StepInv' /\ TypeInv
  BY NextHeapInv, NextStepInv DEF CalmInv, StepInv
<1>2. CalmServers' /\ \A c \in Clients : ClientOK(c)'
  <2>1. ASSUME NEW h \in Handlers, ServerStep(h)
        PROVE  CalmServers' /\ \A c \in Clients : ClientOK(c)'
    <3>1. ~BrokenPipe(h)
      BY DEF CalmInv, CalmServers, BrokenPipe
    <3>2. HandlerStep(h) /\ UNCHANGED clientVars
      BY <2>1, <3>1 DEF ServerStep
    <3>3. QED
      BY <3>2, CalmHandlers
  <2>2. ASSUME NEW c \in Clients, UserStep(c)
        PROVE  CalmServers' /\ \A d \in Clients : ClientOK(d)'
    BY <2>2, CalmClients DEF Calm
  <2>3. ASSUME NEW s \in Servers, Outage(s)
        PROVE  CalmServers' /\ \A c \in Clients : ClientOK(c)'
    BY <2>3, CalmFaults DEF Calm
  <2>4. CASE UNCHANGED vars
    <3>1. CalmServers'
      BY <2>4 DEF CalmInv, CalmServers, DirectoryReady, User, Opens, Tree, vars, serverVars
    <3>2. ASSUME NEW c \in Clients PROVE ClientOK(c)'
      <4>1. SameClient(c) /\ SameConnection(sess[c])
        BY <2>4 DEF vars, serverVars, clientVars, SameClient, SameConnection
      <4>2. Outsider(c) => Outsider(c)'
        BY <2>4 DEF vars, serverVars, clientVars, Outsider
      <4>3. QED
        BY <4>1, <4>2, InsiderUntouched DEF CalmInv, ClientOK
    <3>3. QED
      BY <3>1, <3>2
  <2>5. QED
    BY <2>1, <2>2, <2>3, <2>4 DEF Next, UserStep
<1>3. QED
  BY <1>1, <1>2 DEF CalmInv

\* The servers start calm.
LEMMA InitCalmInv ==
  ASSUME Calm
  PROVE  Init => CalmInv
<1> SUFFICES ASSUME Init PROVE CalmInv
  OBVIOUS
<1>1. HeapInv
  BY InitHeapInv DEF Calm
<1>2. StepInv
  BY InitTypes DEF Init, StepInv, StepOK
<1>3. CalmServers
  <2>1. \A s \in Servers : Users \X {Base} \subseteq dirs[s]
    BY DEF Init, ServerInit, Calm
  <2>2. QED
    BY <2>1 DEF Init, ServerInit, CalmServers, DirectoryReady
<1>4. \A c \in Clients : ClientOK(c)
  BY DEF Init, ServerInit, ClientOK, Insider, Outsider, InSession
<1>5. QED
  BY <1>1, <1>2, <1>3, <1>4 DEF CalmInv

(***************************************************************************)
(* No client of an account is told that its user name or password is       *)
(* invalid, however many clients there are, whatever commands they type at *)
(* the same time and whichever servers are missing (DFS_client.c:294-297). *)
(* The runs of MCDFS show what it takes: the directories of the users are  *)
(* there and no server is killed while it serves.                          *)
(***************************************************************************)
THEOREM AccountsAreServed ==
  ASSUME Calm
  PROVE  Spec => []RefusedOnlyIfInvalid
<1>1. CalmInv => RefusedOnlyIfInvalid
  BY DEF CalmInv, ClientOK, Insider, RefusedOnlyIfInvalid
<1>2. QED
  BY <1>1, InitCalmInv, NextCalmInv, PTL DEF Spec

-----------------------------------------------------------------------------
(***************************************************************************)
(* What get brings is whole, and what was put is there.  Here every client *)
(* is the only one of its account and waits for the servers before the     *)
(* next command: then the files of an account are read and written by      *)
(* one command at a time.                                                  *)
(***************************************************************************)
Alone == /\ Calm /\ Patient
         /\ \A c \in Clients : Login[c] \in Accounts
         /\ \A c, d \in Clients : Login[c][1] = Login[d][1] => c = d

\* What put counts for a server is a pair, and the command sent with it is one.
LEMMA OwnPairType ==
  ASSUME TypeInv, NEW c \in Clients
  PROVE  /\ job[c].task.op = "put" => get_md5_mod(Digest[job[c].task.content]) \in Pairs
         /\ \A s \in Servers :
              /\ OwnPair(c, s) \in Pairs
              /\ JobAt(c, s) \in Jobs /\ JobAt(c, s).task = job[c].task
              /\ JobAt(c, s).want = job[c].want /\ JobAt(c, s).pair = OwnPair(c, s)
              /\ WrapPair(OwnPair(c, s)) = OwnPair(c, s)
<1>1. job[c] \in Jobs /\ job[c].task \in TaskTypes
  BY SessionTurn
<1>2. ASSUME job[c].task.op = "put" PROVE get_md5_mod(Digest[job[c].task.content]) \in Pairs
  <2>1. job[c].task.content \in Contents
    BY <1>1, <1>2 DEF TypeInv, SessionOK, TaskTypes
  <2>2. QED
    BY <2>1, ClientAssumption, DigestGivesPair
<1>3. ASSUME NEW s \in Servers PROVE OwnPair(c, s) \in Pairs
  <2>1. s \in 1..MAXSERVERS
    BY ClientAssumption
  <2> DEFINE first == get_md5_mod(Digest[job[c].task.content])
  <2>2. first \in Pairs => PairAt(first, job[c].offline, s) \in Pairs
    BY <2>1, PairSteps
  <2>3. 0 \in Pairs
    BY DEF Pairs
  <2>4. QED
    BY <1>2, <2>2, <2>3 DEF OwnPair
<1>4. ASSUME NEW s \in Servers
      PROVE  /\ JobAt(c, s) \in Jobs /\ JobAt(c, s).task = job[c].task
             /\ JobAt(c, s).want = job[c].want /\ JobAt(c, s).pair = OwnPair(c, s)
             /\ WrapPair(OwnPair(c, s)) = OwnPair(c, s)
  <2>1. OwnPair(c, s) \in 0..3
    BY <1>3 DEF Pairs
  <2>2. QED
    BY <1>1, <2>1 DEF JobAt, Jobs, WrapPair
<1>5. QED
  BY <1>2, <1>3, <1>4

\* What a handler of c has still to read.
RestOf(c, h) == inbox[h] \o (IF InSession(c) /\ h = sess[c] THEN Unsent(c) ELSE <<>>)
Carries(c, h) ==
  CarriesOut(pc[h], frame[h], cmd[h], Login[c], JobAt(c, ServerOf(h)), RestOf(c, h))

LEMMA HandlerCarries ==
  ASSUME AloneInv, Alone, NEW c \in Clients, NEW h \in Handlers, OfClient(c, h)
  PROVE  /\ cpc[c] = "verdict" /\ h = sess[c] =>
              pc[h] \in {"auth", "scan", "command"} /\ job[c].round = 1
         /\ ~(cpc[c] = "verdict" /\ h = sess[c]) =>
              /\ Carries(c, h)
              /\ ~InSession(c) \/ h # sess[c] => LeftBehind(c, h)
<1>t. /\ TypeInv /\ Insider(c) /\ Serving(c) /\ Placed(c) /\ inbox[h] \in Seq(Messages)
      /\ outbox[c] \in Seq(Messages)
  BY DEF AloneInv, CalmInv, StepInv, Alone, ClientOK, AloneOK, TypeInv, Inv, TypeOK, ClientTypeOK
<1>1. ASSUME cpc[c] = "verdict", h = sess[c]
      PROVE  pc[h] \in {"auth", "scan", "command"} /\ job[c].round = 1
  BY <1>t, <1>1 DEF Insider, InSession, Welcomed
<1>2. ASSUME cpc[c] # "verdict", InSession(c), h = sess[c] PROVE Carries(c, h)
  <2>1. CarriesOut(pc[h], frame[h], cmd[h], Login[c], job[c], Stream(c))
    BY <1>t, <1>2 DEF Insider, AtWork
  <2>2. RestOf(c, h) = Stream(c)
    BY <1>2 DEF RestOf, Stream
  <2>3. ServerOf(h) = job[c].turn /\ job[c].turn \in Servers /\ job[c].turn <= MAXSERVERS
        /\ cpc[c] # "idle"
    BY <1>t, <1>2, SessionTurn DEF TypeInv, SessionOK, InSession
  <2>4. job[c].task.op = "put" => WrapPair(job[c].pair) = OwnPair(c, ServerOf(h))
    BY <1>t, <2>3 DEF Placed
  <2> DEFINE j == JobAt(c, ServerOf(h))
  <2>5. /\ j.task = job[c].task /\ j.want = job[c].want
        /\ job[c].task.op = "put" => WrapPair(j.pair) = WrapPair(job[c].pair)
    BY <1>t, <2>3, <2>4, OwnPairType
  <2> HIDE DEF j
  <2>6. CarriesOut(pc[h], frame[h], cmd[h], Login[c], j, Stream(c))
    BY <2>1, <2>5, SameLeft
  <2>7. QED
    BY <2>2, <2>6 DEF Carries, j
<1>3. ASSUME ~InSession(c) \/ h # sess[c] PROVE LeftBehind(c, h) /\ Carries(c, h)
  <2>1. LeftBehind(c, h)
    BY <1>t, <1>3 DEF Serving
  <2>2. RestOf(c, h) = inbox[h] \o <<>>
    BY <1>3 DEF RestOf
  <2>3. RestOf(c, h) = inbox[h]
    BY <1>t, <2>2, ConcatEmptySeq
  <2>4. QED
    BY <2>1, <2>3 DEF LeftBehind, Carries
<1>4. QED
  BY <1>1, <1>2, <1>3

\* A step that leaves a client, its handlers and its files alone.
Undisturbed(c) ==
  /\ SameClient(c) /\ (InSession(c) => SameConnection(sess[c]))
  /\ \A h \in Handlers : OfClient(c, h)' <=> OfClient(c, h)
  /\ \A h \in Handlers : OfClient(c, h) =>
       /\ pc'[h] = pc[h] /\ frame'[h] = frame[h] /\ cmd'[h] = cmd[h]
       /\ inbox'[h] = inbox[h]
  /\ \A k \in Own(c) : latest'[k] = latest[k] /\ missed'[k] = missed[k]
  /\ \A k \in Own(c), s \in Servers, p \in Parts : At(s, k, p)' = At(s, k, p)

\* The file a client names is one of its own.
LEMMA OwnPath ==
  ASSUME TypeInv, NEW c \in Clients
  PROVE  /\ PathKey(c) \in Own(c) /\ PathKey(c) \in Paths
         /\ Login[c][1] \in Users
<1>1. job[c].task \in TaskTypes
  BY SessionTurn
<1>2. Login[c][1] \in Users
  BY ClientAssumption
<1>3. QED
  BY <1>1, <1>2 DEF Own, PathKey, Paths, TaskTypes

\* The same file, written as far.
LEMMA HalfStays ==
  ASSUME NEW c \in Clients, HalfWritten(c), PathKey(c)' = PathKey(c),
         job'[c].task = job[c].task,
         \A h \in Handlers : OfClient(c, h)' /\ pc'[h] = "data" =>
           /\ OfClient(c, h) /\ pc[h] = "data" /\ frame'[h] = frame[h]
           /\ \A p \in Parts : At(ServerOf(h), PathKey(c), p)' = At(ServerOf(h), PathKey(c), p)
  PROVE  HalfWritten(c)'
<1>1. ASSUME NEW h \in Handlers, OfClient(c, h)', pc'[h] = "data"
      PROVE  /\ frame'[h].hdr.part \in Parts /\ frame'[h].out < frame'[h].hdr.size
             /\ At(ServerOf(h), PathKey(c), frame[h].hdr.part)'
                  = FrontOf(c, frame[h].hdr.part, frame[h].out)'
  <2>1. PICK p \in Parts : p = frame[h].hdr.part
    BY <1>1 DEF HalfWritten
  <2>2. At(ServerOf(h), PathKey(c), p)' = At(ServerOf(h), PathKey(c), p)
    BY <1>1
  <2>3. frame'[h] = frame[h] /\ frame[h].out < frame[h].hdr.size
        /\ At(ServerOf(h), PathKey(c), p) = FrontOf(c, p, frame[h].out)
    BY <1>1, <2>1 DEF HalfWritten
  <2>4. At(ServerOf(h), PathKey(c), frame[h].hdr.part)' = At(ServerOf(h), PathKey(c), p)'
    BY <2>1, <2>3 DEF At
  <2>5. QED
    BY <2>1, <2>2, <2>3, <2>4 DEF FrontOf
<1>2. QED
  BY <1>1 DEF HalfWritten

\* What is known of a client outlasts such a step.
LEMMA AloneUntouched ==
  ASSUME TypeInv, StepInv, NEW c \in Clients, AloneOK(c), Undisturbed(c)
  PROVE  AloneOK(c)'
<1>t. /\ cpc'[c] = cpc[c] /\ job'[c] = job[c] /\ sess'[c] = sess[c]
      /\ outbox'[c] = outbox[c] /\ last'[c] = last[c]
      /\ PathKey(c)' = PathKey(c) /\ PathKey(c) \in Own(c)
      /\ InSession(c)' = InSession(c)
      /\ job[c] \in Jobs
  BY OwnPath, SessionTurn DEF Undisturbed, SameClient, PathKey, InSession
<1>h. \A h \in Handlers : /\ OfClient(c, h)' <=> OfClient(c, h)
                          /\ OfClient(c, h) => /\ pc'[h] = pc[h] /\ frame'[h] = frame[h]
                                               /\ cmd'[h] = cmd[h] /\ inbox'[h] = inbox[h]
  BY DEF Undisturbed
<1>k. /\ \A k \in Own(c) : latest'[k] = latest[k] /\ missed'[k] = missed[k]
      /\ \A k \in Own(c), s \in Servers, p \in Parts : At(s, k, p)' = At(s, k, p)
  BY DEF Undisturbed
<1>j. \A s : OwnPair(c, s)' = OwnPair(c, s) /\ JobAt(c, s)' = JobAt(c, s)
  BY <1>t DEF OwnPair, JobAt
<1>1. Serving(c)'
  <2>1. ASSUME NEW h \in Handlers, OfClient(c, h), LeftBehind(c, h) PROVE LeftBehind(c, h)'
    BY <1>t, <1>h, <1>j, <2>1 DEF LeftBehind
  <2>2. Serving(c)
    BY DEF AloneOK
  <2>3. \A h \in Handlers : OfClient(c, h)' =>
          (InSession(c)' /\ h = sess'[c]) \/ LeftBehind(c, h)'
    BY <1>t, <1>h, <2>1, <2>2 DEF Serving
  <2>4. \A h, k \in Handlers :
          OfClient(c, h)' /\ OfClient(c, k)' /\ ServerOf(h) = ServerOf(k) => h = k
    BY <1>h, <2>2 DEF Serving
  <2>5. QED
    BY <2>3, <2>4 DEF Serving
<1>2. Placed(c)'
  BY <1>t, <1>j, <1>k DEF AloneOK, Placed
<1>3. Files(c)'
  <2>1. ASSUME NEW s \in Servers, NEW k \in Own(c), NEW p \in Parts
        PROVE  Writes(c, s, k, p)' <=> Writes(c, s, k, p)
    BY <1>t, <1>h DEF Writes
  <2>2. WholeFiles(c)'
    <3>1. Own(c)' = Own(c)
      BY DEF Own
    <3>2. ASSUME NEW s \in Servers, NEW k \in Own(c), NEW p \in Parts
          PROVE  \/ Writes(c, s, k, p)'
                 \/ At(s, k, p)' = Absent \/ \E x \in Contents : At(s, k, p)' = Cut(x, p)
      BY <1>k, <2>1 DEF AloneOK, Files, WholeFiles
    <3>3. HalfWritten(c)'
      <4>1. PICK k \in Own(c) : k = PathKey(c)
        BY <1>t
      <4>2. ASSUME NEW h \in Handlers, OfClient(c, h)', pc'[h] = "data", NEW p \in Parts
            PROVE  At(ServerOf(h), PathKey(c), p)' = At(ServerOf(h), PathKey(c), p)
        <5>1. At(ServerOf(h), k, p)' = At(ServerOf(h), k, p)
          BY <1>k DEF Handlers, ServerOf
        <5>2. QED
          BY <1>t, <4>1, <5>1 DEF At
      <4>3. HalfWritten(c)
        BY DEF AloneOK, Files, WholeFiles
      <4>4. QED
        BY <1>h, <1>t, <4>2, <4>3, HalfStays
    <3>4. QED
      BY <3>1, <3>2, <3>3 DEF WholeFiles
  <2>3. ASSUME NEW s \in Servers, NEW n \in 0..1, Kept(c, s, n) PROVE Kept(c, s, n)'
    <3>1. PartSent(OwnPair(c, s), n) \in Parts
      BY OwnPairType DEF PartSent, IndexOf, Pairs, Parts
    <3>2. QED
      BY <1>j, <1>k, <1>t, <2>3, <3>1 DEF Kept
  <2>4. PutStored(c)'
    <3>1. ASSUME job[c].task.op = "put", NEW s \in Servers, s < job[c].turn, s \notin job[c].offline,
                 \A h \in Handlers : OfClient(c, h)' => ServerOf(h) # s
          PROVE  Kept(c, s, 0)' /\ Kept(c, s, 1)'
      <4>1. Kept(c, s, 0) /\ Kept(c, s, 1)
        BY <1>h, <3>1 DEF AloneOK, Files, PutStored
      <4>2. QED
        BY <2>3, <4>1
    <3>2. ASSUME job[c].task.op = "put", NEW h \in Handlers, OfClient(c, h)', pc'[h] \in {"header", "data"},
                 frame'[h].round = 2
          PROVE  Kept(c, ServerOf(h), 0)'
      <4>1. Kept(c, ServerOf(h), 0) /\ ServerOf(h) \in Servers
        BY <1>h, <3>2 DEF AloneOK, Files, PutStored, Handlers, ServerOf
      <4>2. QED
        BY <2>3, <4>1
    <3>3. QED
      BY <1>t, <3>1, <3>2 DEF PutStored
  <2>5. Held(c)'
    BY <1>k, <1>t DEF AloneOK, Files, Held, There
  <2>6. QED
    BY <2>2, <2>4, <2>5 DEF Files
<1>4. Answering(c)'
  <2> SUFFICES ASSUME cpc[c] \in {"answer", "bytes"} PROVE Answering(c)'
    BY <1>t DEF Answering
  <2> DEFINE h == sess[c]
             s == job[c].turn
             k == PathKey(c)
  <2>1. SameConnection(h) /\ InSession(c) /\ h \in Handlers /\ s \in Servers
    BY SessionTurn DEF Undisturbed, InSession
  <2>2. /\ pc'[h] = pc[h] /\ frame'[h] = frame[h] /\ reply'[h] = reply[h]
        /\ Ahead(c)' = Ahead(c) /\ Unserved(c)' = Unserved(c)
    BY <1>t, <2>1 DEF SameConnection, Ahead, Unserved
  <2>3. \A p \in Parts : At(s, k, p)' = At(s, k, p)
    BY <1>k, <1>t, <2>1
  <2>4. Answering(c)
    BY DEF AloneOK
  <2> DEFINE q == Ahead(c)
  <2>5. Tells(q, s, k)'
    <3>1. Tells(q, s, k)
      BY <2>4 DEF Answering
    <3>2. UNCHANGED <<q, s, k>>
      BY <1>t, <2>2
    <3> HIDE DEF q, s, k
    <3>3. ASSUME NEW i \in 1..Len(q), q[i].tag = "header"
          PROVE  /\ q[i].body.part \in Parts /\ There(s, k, q[i].body.part)'
                 /\ At(s, k, q[i].body.part)'.size = q[i].body.size
      <4>1. q[i].body.part \in Parts /\ There(s, k, q[i].body.part)
            /\ At(s, k, q[i].body.part).size = q[i].body.size
        BY <3>1, <3>3 DEF Tells
      <4>2. At(s, k, q[i].body.part)' = At(s, k, q[i].body.part)
        BY <2>3, <3>2, <4>1
      <4>3. QED
        BY <4>1, <4>2, <3>2 DEF There
    <3>4. ASSUME NEW i \in 1..Len(q), q[i].tag = "data", i > 1
          PROVE  q[i - 1].tag = "header" /\ q[i].body = At(s, k, q[i - 1].body.part)'
      <4>1. /\ q[i - 1].tag = "header" /\ q[i].body = At(s, k, q[i - 1].body.part)
        BY <3>1, <3>4 DEF Tells
      <4>2. i - 1 \in 1..Len(q)
        BY <3>4
      <4>3. q[i - 1].body.part \in Parts
        BY <3>1, <4>1, <4>2 DEF Tells
      <4>4. QED
        BY <2>3, <3>2, <4>1, <4>3
    <3>5. QED
      BY <3>2, <3>3, <3>4 DEF Tells
  <2>6. pc[h] = "send" => /\ frame[h].hdr.part \in Parts /\ There(s, k, frame[h].hdr.part)'
                          /\ frame[h].copy = At(s, k, frame[h].hdr.part)'
                          /\ frame[h].copy.size = frame[h].hdr.size
    <3>1. \A p \in Parts : At(s, k, p)' = At(s, k, p) /\ There(s, k, p)' = There(s, k, p)
      BY <1>t, <2>3 DEF There
    <3>2. pc[h] = "send" => /\ frame[h].hdr.part \in Parts /\ There(s, k, frame[h].hdr.part)
                            /\ frame[h].copy = At(s, k, frame[h].hdr.part)
                            /\ frame[h].copy.size = frame[h].hdr.size
      BY <2>4 DEF Answering
    <3>3. UNCHANGED <<s, k, h>> /\ frame'[h] = frame[h]
      BY <1>t, <2>2
    <3> HIDE DEF s, k, h, There
    <3>4. QED
      BY <3>1, <3>2, <3>3
  <2>7. ASSUME NEW i \in 1..Len(reply[h]), reply[h][i].tag = "nothing"
        PROVE  \A p \in Unserved(c) : ~There(s, k, p)'
    <3>1. Unserved(c) \subseteq Parts
      BY <1>t DEF Unserved, Jobs
    <3>2. \A p \in Unserved(c) : ~There(s, k, p)
      BY <2>4, <2>7 DEF Answering
    <3>3. QED
      BY <1>t, <2>3, <3>1, <3>2 DEF There
  <2>8. pc[h] \in {"serve", "send"} => frame[h].ask = Unserved(c)
    BY <2>4 DEF Answering
  <2> HIDE DEF Tells, There, Unserved, Ahead
  <2>9. QED
    BY <1>t, <2>2, <2>5, <2>6, <2>7, <2>8 DEF Answering
<1>5. BufsFrom(c, Contents)'
  BY <1>t DEF AloneOK, BufsFrom
<1>6. QED
  BY <1>1, <1>2, <1>3, <1>4, <1>5 DEF AloneOK

\* What is known of a handler of an account that has not to ask for the login.
LEMMA OwnHandler ==
  ASSUME AloneInv, Alone, NEW c \in Clients, NEW h \in Handlers, OfClient(c, h)
  PROVE  /\ TypeInv /\ Inv /\ TypeOK /\ CalmInv /\ DirectoryReady
         /\ frame[h] \in Frames /\ frame[h].round \in 1..2
         /\ ServerOf(h) \in Servers /\ JobAt(c, ServerOf(h)) \in Jobs
         /\ job[c].task.op = "put" => job[c].task.content \in Contents
         /\ pc[h] # "auth" => User(h) = Login[c][1]
         /\ pc[h] \in {"list", "header", "data", "request", "serve", "send"} =>
              /\ Carries(c, h) /\ cmd[h] = Typed(job[c]) /\ Opens(h)
              /\ \A p : <<User(h), cmd[h].dir, cmd[h].name, p>>
                          = <<PathKey(c)[1], PathKey(c)[2], PathKey(c)[3], p>>
<1>t. /\ TypeInv /\ Inv /\ TypeOK /\ CalmInv /\ DirectoryReady /\ Insider(c)
      /\ frame[h] \in Frames /\ frame[h].round \in 1..2 /\ ServerOf(h) \in Servers
  BY DEF AloneInv, CalmInv, StepInv, TypeInv, Inv, TypeOK, Frames, CalmServers, Alone,
     ClientOK, Handlers, ServerOf
<1>j. /\ JobAt(c, ServerOf(h)) \in Jobs /\ JobAt(c, ServerOf(h)).task = job[c].task
  BY <1>t, OwnPairType
<1>1. ASSUME cpc[c] = "verdict", h = sess[c]
      PROVE  /\ pc[h] \in {"auth", "scan", "command"}
             /\ pc[h] # "auth" => frame[h].cred = Login[c]
  BY <1>t, <1>1 DEF Insider, InSession, Welcomed
<1>2. ASSUME ~(cpc[c] = "verdict" /\ h = sess[c])
      PROVE  /\ Carries(c, h) /\ pc[h] # "auth" /\ frame[h].cred = Login[c]
             /\ pc[h] \notin {"scan", "command"} => cmd[h] = Typed(job[c])
  <2>1. Carries(c, h)
    BY <1>2, HandlerCarries
  <2> DEFINE j == JobAt(c, ServerOf(h))
  <2>2. /\ pc[h] \in Places(j.task.op) /\ pc[h] # "free"
        /\ frame[h].cred = Login[c]
        /\ pc[h] \notin {"scan", "command"} => cmd[h] = Typed(j)
    BY <2>1 DEF Carries, CarriesOut, OfClient
  <2>3. Typed(j) = Typed(job[c])
    BY <1>j DEF Typed
  <2>4. pc[h] # "auth"
    BY <1>j, <2>2, PlaceOfCommand
  <2>5. QED
    BY <2>1, <2>2, <2>3, <2>4
<1>3. pc[h] # "auth" => User(h) = Login[c][1]
  BY <1>1, <1>2 DEF User
<1>4. job[c].task.op = "put" => job[c].task.content \in Contents
  <2>1. job[c].task \in TaskTypes /\ SessionOK(c)
    BY <1>t, SessionTurn DEF TypeInv
  <2>2. QED
    BY <2>1 DEF TaskTypes, SessionOK
<1>5. ASSUME pc[h] \in {"list", "header", "data", "request", "serve", "send"}
      PROVE  /\ Carries(c, h) /\ cmd[h] = Typed(job[c]) /\ Opens(h)
             /\ \A p : <<User(h), cmd[h].dir, cmd[h].name, p>>
                         = <<PathKey(c)[1], PathKey(c)[2], PathKey(c)[3], p>>
  <2>1. Carries(c, h) /\ cmd[h] = Typed(job[c]) /\ User(h) = Login[c][1]
    BY <1>1, <1>2, <1>3, <1>5
  <2>2. Opens(h)
    BY <1>t, <1>5 DEF DirectoryReady
  <2>3. /\ PathKey(c)[1] = Login[c][1] /\ PathKey(c)[2] = job[c].task.dir
        /\ PathKey(c)[3] = job[c].task.name
    BY DEF PathKey
  <2>4. cmd[h].dir = job[c].task.dir /\ cmd[h].name = job[c].task.name
    BY <2>1 DEF Typed
  <2>5. QED
    BY <2>1, <2>2, <2>3, <2>4
<1>6. QED
  BY <1>t, <1>j, <1>3, <1>4, <1>5

\* The part that a put sends in a round.
LEMMA PartPut ==
  ASSUME TypeInv, NEW c \in Clients, NEW s \in Servers, NEW r \in 1..2
  PROVE  /\ PartOf(JobAt(c, s), r) = PartSent(OwnPair(c, s), r - 1)
         /\ PartOf(JobAt(c, s), r) \in Parts
         /\ HeaderSent(JobAt(c, s), r).part = PartOf(JobAt(c, s), r)
         /\ PartSent(OwnPair(c, s), 0) # PartSent(OwnPair(c, s), 1)
         /\ job[c].task.op = "put" =>
              /\ BytesSent(JobAt(c, s), r).tag = "data"
              /\ BytesSent(JobAt(c, s), r).body
                   = Cut(job[c].task.content, PartOf(JobAt(c, s), r))
              /\ HeaderSent(JobAt(c, s), r).size = 0 =>
                   Cut(job[c].task.content, PartOf(JobAt(c, s), r)) = Zeros(0)
<1>1. /\ JobAt(c, s).task = job[c].task /\ WrapPair(JobAt(c, s).pair) = OwnPair(c, s)
      /\ OwnPair(c, s) \in 0..3
  BY OwnPairType DEF Pairs
<1>2. PartOf(JobAt(c, s), r) = PartSent(OwnPair(c, s), r - 1)
  BY <1>1 DEF PartOf
<1>3. /\ PartSent(OwnPair(c, s), r - 1) \in Parts
      /\ PartSent(OwnPair(c, s), 0) # PartSent(OwnPair(c, s), 1)
  BY <1>1 DEF PartSent, IndexOf, Parts
<1>4. HeaderSent(JobAt(c, s), r).part = PartOf(JobAt(c, s), r)
  BY DEF HeaderSent
<1>5. /\ BytesSent(JobAt(c, s), r).tag = "data"
      /\ BytesSent(JobAt(c, s), r).body = Cut(job[c].task.content, PartOf(JobAt(c, s), r))
  BY <1>1 DEF BytesSent, Message
<1>6. HeaderSent(JobAt(c, s), r).size = 0 =>
        Cut(job[c].task.content, PartOf(JobAt(c, s), r)) = Zeros(0)
  BY <1>1 DEF HeaderSent, Cut
<1>7. QED
  BY <1>2, <1>3, <1>4, <1>5, <1>6

OnlyWrites(s, k, p) ==
  \A t \in Servers, x \in Paths, q \in Parts :
    (t = s /\ x = k /\ q = p) \/ AtNext(t, x, q) = At(t, x, q)
PartOpened(c, h, p) ==
  /\ AtNext(ServerOf(h), PathKey(c), p) = FrontOf(c, p, frame'[h].out)
  /\ pc'[h] = "data" /\ frame'[h].out < frame'[h].hdr.size
  /\ frame'[h].hdr.part = p /\ frame'[h].round = frame[h].round
PartStored(c, h, p) ==
  /\ AtNext(ServerOf(h), PathKey(c), p) = Cut(job[c].task.content, p)
  /\ IF frame[h].round = 1 THEN pc'[h] = "header" /\ frame'[h].round = 2
                           ELSE pc'[h] = "free"

\* A file that a handler of c writes is one of c's own.
LEMMA OwnSlot ==
  ASSUME AloneInv, Alone, NEW c \in Clients, NEW h \in Handlers, OfClient(c, h),
         pc[h] \in {"header", "data"}, NEW p \in Parts, NEW y
  PROVE  /\ FileAt(h, p) = At(ServerOf(h), PathKey(c), p)
         /\ SetDisk(h, p, y) => /\ AtNext(ServerOf(h), PathKey(c), p) = y
                                /\ OnlyWrites(ServerOf(h), PathKey(c), p)
<1> DEFINE s == ServerOf(h)
           k == PathKey(c)
           f == <<k[1], k[2], k[3], p>>
<1>1. /\ s \in Servers /\ disk \in [Servers -> [Slots -> Pieces]] /\ PathOf(h, p) = f
      /\ k \in Paths /\ Parts = 1..4
  BY OwnHandler, OwnPath DEF TypeOK, PathOf, Parts
<1>2. f \in Slots
  BY <1>1 DEF Paths, Slots
<1>3. FileAt(h, p) = At(s, k, p)
  BY <1>1 DEF FileAt, At
<1>4. ASSUME SetDisk(h, p, y) PROVE AtNext(s, k, p) = y /\ OnlyWrites(s, k, p)
  <2>1. disk' = [disk EXCEPT ![s][f] = y]
    BY <1>1, <1>4 DEF SetDisk
  <2>2. disk'[s][f] = y
    BY <1>1, <1>2, <2>1
  <2>3. ASSUME NEW t \in Servers, NEW x \in Paths, NEW q \in Parts, ~(t = s /\ x = k /\ q = p)
        PROVE  AtNext(t, x, q) = At(t, x, q)
    <3> DEFINE g == <<x[1], x[2], x[3], q>>
    <3>1. g \in Slots
      BY <1>1 DEF Paths, Slots
    <3>2. ~(t = s /\ g = f)
      <4>1. x = <<x[1], x[2], x[3]>> /\ k = <<k[1], k[2], k[3]>>
        BY <1>1 DEF Paths
      <4>2. QED
        BY <2>3, <4>1
    <3> HIDE DEF f, g, s
    <3>3. disk'[t][g] = disk[t][g]
      BY <1>1, <1>2, <2>1, <3>1, <3>2
    <3>4. QED
      BY <3>3 DEF AtNext, At, g
  <2>4. QED
    BY <2>2, <2>3 DEF AtNext, OnlyWrites
<1>5. QED
  BY <1>3, <1>4

\* A handler that opens a file or writes a block of it.
LEMMA HandlerStores ==
  ASSUME AloneInv, Alone, NEW c \in Clients, NEW h \in Handlers, OfClient(c, h),
         HandlerStep(h), pc[h] \in {"header", "data"}
  PROVE  LET p == PartOf(JobAt(c, ServerOf(h)), frame[h].round)
         IN  /\ job[c].task.op = "put" /\ p \in Parts /\ OnlyWrites(ServerOf(h), PathKey(c), p)
             /\ pc[h] = "data" => frame[h].hdr.part = p
             /\ PartOpened(c, h, p) \/ PartStored(c, h, p)
<1> DEFINE s == ServerOf(h)
           j == JobAt(c, s)
           r == frame[h].round
           p == PartOf(j, r)
           o == IF InSession(c) /\ h = sess[c] THEN Unsent(c) ELSE <<>>
<1>t. /\ TypeInv /\ Inv /\ TypeOK /\ CalmInv /\ frame[h] \in Frames /\ r \in 1..2
      /\ s \in Servers /\ j \in Jobs /\ Carries(c, h) /\ Opens(h) /\ ~gone[h]
      /\ inbox[h] \in Seq(Messages) /\ o \in Seq(Messages)
      /\ pc \in [Handlers -> States] /\ frame \in [Handlers -> Frames]
  BY OwnHandler, CalmStep DEF TypeOK, TypeInv, ClientTypeOK, Unsent
<1>c. /\ pc[h] \in Places(j.task.op) /\ inbox[h] \o o = Left(pc[h], r, j)
      /\ pc[h] = "data" => frame[h].hdr = HeaderSent(j, r) /\ frame[h].hdr.size # 0
  BY <1>t DEF Carries, CarriesOut, RestOf
<1>p. /\ j.task = job[c].task /\ j.task.op = "put" /\ j.task.content \in Contents
      /\ j.task.content # None
  <2>1. j.task = job[c].task
    BY <1>t, OwnPairType
  <2>2. j.task.op = "put"
    BY <1>t, <1>c, PlaceOfCommand
  <2>3. QED
    BY <1>t, <2>1, <2>2, OwnHandler, ConstantsAssumption
<1>q. /\ p \in Parts /\ HeaderSent(j, r).part = p
      /\ BytesSent(j, r).tag = "data" /\ BytesSent(j, r).body = Cut(job[c].task.content, p)
      /\ HeaderSent(j, r).size = 0 => Cut(job[c].task.content, p) = Zeros(0)
      /\ HeaderSent(j, r) \in Headers
      /\ LET new == Cut(job[c].task.content, p)
         IN  HeaderSent(j, r).size # 0 =>
               new \in Pieces /\ new.good = new.size /\ new.size = HeaderSent(j, r).size
  <2>1. Cut(job[c].task.content, p) \in Pieces /\ j.task.content = job[c].task.content
    BY <1>t, <1>p, PartPut, CutType
  <2>2. QED
    BY <1>t, <1>p, <2>1, PartPut, SentType DEF HeaderSent, Cut, Piece
<1> HIDE DEF j, r, p, o
<1>1. CASE pc[h] = "header"
  <2>1. OpenPart(h)
    BY <1>1, StepAt
  <2>2. inbox[h] # <<>>
    BY <1>t, <2>1 DEF OpenPart, Readable
  <2>3. Incoming(h) = Message("header", HeaderSent(j, r))
    <3>1. Head(inbox[h] \o o) = Message("header", HeaderSent(j, r))
      BY <1>1, <1>c, <1>p, <1>t, LeftRead
    <3>2. QED
      BY <1>t, <2>2, <3>1, FirstLeft
  <2>4. AsHeader(Incoming(h)) = HeaderSent(j, r)
    BY <2>3 DEF AsHeader, Message
  <2> DEFINE hd == HeaderSent(j, r)
             locals == [frame[h] EXCEPT !.hdr = hd, !.out = 0]
  <2>5. /\ SetDisk(h, hd.part, Zeros(0))
        /\ IF hd.size # 0 THEN Goto(h, "data", locals) ELSE NextRound(h, "header", locals)
    BY <1>t, <2>1, <2>4 DEF OpenPart
  <2>6. /\ locals \in Frames /\ locals.round = frame[h].round /\ locals.hdr = hd
        /\ locals.out = 0 /\ hd.size \in Nat
    BY <1>t, <1>q DEF Frames, Headers
  <2>7. AtNext(s, PathKey(c), p) = Zeros(0) /\ OnlyWrites(s, PathKey(c), p)
    BY <1>q, <2>5, OwnSlot
  <2> HIDE DEF locals, hd
  <2>8. CASE hd.size # 0
    <3>1. pc'[h] = "data" /\ frame'[h] = locals
      BY <1>t, <2>5, <2>8 DEF Goto
    <3>2. FrontOf(c, p, 0) = Zeros(0)
      BY <1>q, <2>8, FrontEnds DEF FrontOf, hd
    <3>3. PartOpened(c, h, p)
      BY <1>q, <2>6, <2>7, <2>8, <3>1, <3>2 DEF PartOpened, hd
    <3>4. QED
      BY <1>1, <1>p, <1>q, <2>7, <3>3 DEF p, j, r
  <2>9. CASE hd.size = 0
    <3>1. IF frame[h].round = 1 THEN pc'[h] = "header" /\ frame'[h].round = 2
                                ELSE pc'[h] = "free"
      BY <1>t, <2>5, <2>6, <2>9, RoundLeads
    <3>2. PartStored(c, h, p)
      BY <1>q, <2>7, <2>9, <3>1 DEF PartStored, hd
    <3>3. QED
      BY <1>1, <1>p, <1>q, <2>7, <3>2 DEF p, j, r
  <2>10. QED
    BY <2>8, <2>9
<1>2. CASE pc[h] = "data"
  <2>1. WritePart(h) \/ Spin(h)
    BY <1>2, StepAt
  <2>2. inbox[h] # <<>>
    BY <1>t, <2>1 DEF WritePart, Spin, Readable
  <2>3. Incoming(h) = BytesSent(j, r)
    <3>1. Head(inbox[h] \o o) = BytesSent(j, r)
      BY <1>2, <1>c, <1>p, <1>t, LeftRead
    <3>2. QED
      BY <1>t, <2>2, <3>1, FirstLeft
  <2>4. WritePart(h)
    BY <1>q, <2>1, <2>3 DEF Spin, NeverEnds
  <2> DEFINE hd == frame[h].hdr
             new == Cut(job[c].task.content, p)
  <2>5. hd.part = p /\ AsData(Incoming(h), hd.size) = new
    BY <1>2, <1>c, <1>q, <2>3 DEF AsData
  <2>6. hd.size # 0 /\ hd = HeaderSent(j, r) /\ hd.size \in Nat
    BY <1>2, <1>c, <1>q DEF Headers
  <2> DEFINE to == Written(h)
             locals == [frame[h] EXCEPT !.out = to]
  <2>7. FileAt(h, p) = Front(new, frame[h].out) /\ frame[h].out < hd.size
    <3>1. At(s, PathKey(c), p) = Front(new, frame[h].out) /\ frame[h].out < hd.size
      BY <1>2, <2>5 DEF AloneInv, AloneOK, Files, WholeFiles, HalfWritten, FrontOf
    <3>2. QED
      BY <1>2, <1>q, <3>1, OwnSlot
  <2>8. /\ to \in Nat /\ frame[h].out \in Nat /\ frame[h].out < to /\ to <= hd.size
    BY <1>t, <2>7, WrittenType
  <2>9. Overwritten(FileAt(h, p), new, frame[h].out, to) = Front(new, to)
    <3>1. new \in Pieces /\ new.good = new.size /\ new.size = hd.size
      BY <1>q, <2>6
    <3> HIDE DEF new, to, hd
    <3>2. to \in 1..new.size
      BY <2>6, <2>8, <3>1
    <3>3. QED
      BY <2>7, <2>8, <3>1, <3>2, OneAfterAnother
  <2>10. /\ SetDisk(h, p, Front(new, to))
         /\ IF to = hd.size THEN NextRound(h, "header", locals)
                            ELSE Goto(h, "data", locals)
    BY <2>4, <2>5, <2>9 DEF WritePart
  <2>11. AtNext(s, PathKey(c), p) = Front(new, to) /\ OnlyWrites(s, PathKey(c), p)
    BY <1>2, <1>q, <2>10, OwnSlot
  <2>12. /\ locals \in Frames /\ locals.round = frame[h].round /\ locals.hdr = hd
         /\ locals.out = to
    BY <1>t, <2>8 DEF Frames
  <2> HIDE DEF locals, to
  <2>13. PartOpened(c, h, p) \/ PartStored(c, h, p)
    <3>1. CASE to = hd.size
      <4>1. IF frame[h].round = 1 THEN pc'[h] = "header" /\ frame'[h].round = 2
                                  ELSE pc'[h] = "free"
        BY <1>t, <2>10, <2>12, <3>1, RoundLeads
      <4>2. Front(new, to) = new
        BY <1>q, <2>6, <3>1, FrontEnds
      <4>3. QED
        BY <2>11, <4>1, <4>2 DEF PartStored
    <3>2. CASE to # hd.size
      <4>1. pc'[h] = "data" /\ frame'[h] = locals
        BY <1>t, <2>10, <3>2 DEF Goto
      <4>2. QED
        BY <2>5, <2>6, <2>8, <2>11, <2>12, <3>2, <4>1 DEF PartOpened, FrontOf
    <3>3. QED
      BY <3>1, <3>2
  <2>14. QED
    BY <1>2, <1>p, <1>q, <2>5, <2>11, <2>13 DEF p, j, r
<1>3. QED
  BY <1>1, <1>2

\* The other states: no file is changed, and a put does not end there.
LEMMA HandlerKeepsFiles ==
  ASSUME AloneInv, Alone, NEW c \in Clients, NEW h \in Handlers, OfClient(c, h),
         HandlerStep(h), pc[h] \notin {"header", "data"}, UNCHANGED clientVars
  PROVE  /\ UNCHANGED disk /\ pc'[h] # "data"
         /\ pc'[h] = "header" => frame'[h].round = 1
         /\ job[c].task.op = "put" => pc'[h] # "free"
         /\ ~UserDirectoryExists(h) /\ ~ListUnopened(h)
<1>t. /\ TypeInv /\ Inv /\ TypeOK /\ CalmInv /\ DirectoryReady /\ frame[h] \in Frames
      /\ ~gone[h] /\ pc[h] # "mkdir" /\ pc'[h] # "mkdir" /\ pc[h] # "free"
      /\ pc \in [Handlers -> States] /\ frame \in [Handlers -> Frames]
      /\ Insider(c) /\ Login[c] \in Accounts
      /\ inbox[h] \in Seq(Messages)
  <2>1. /\ TypeInv /\ Inv /\ TypeOK /\ CalmInv /\ DirectoryReady /\ frame[h] \in Frames
    BY OwnHandler
  <2>2. ~gone[h] /\ pc'[h] # "mkdir" /\ pc[h] # "free"
    BY <2>1, CalmStep
  <2>3. pc[h] # "mkdir"
    BY <2>1 DEF CalmInv, CalmServers
  <2>4. Insider(c) /\ Login[c] \in Accounts
    BY DEF AloneInv, CalmInv, ClientOK, Alone
  <2>5. QED
    BY <2>1, <2>2, <2>3, <2>4 DEF TypeOK
<1>1. /\ UNCHANGED disk
      /\ ~UserDirectoryExists(h) /\ ~ListUnopened(h)
  <2>1. ~UserDirectoryExists(h) /\ ~ListUnopened(h)
    BY <1>t DEF UserDirectoryExists, ListUnopened, DirectoryReady
  <2>2. QED
    BY <2>1 DEF HandlerStep, Authenticate, ScanForDirectory, MakeUserDirectory,
       ReadCommand, List, OpenPart, WritePart, Spin, storeVars,
       ReadRequest, ServeHeader, SendPart, ServeNothing, ServeUnopened
<1>2. pc'[h] # "data"
  <2>1. Authenticate(h) => pc'[h] # "data"
    BY <1>t DEF Authenticate, Goto, Close
  <2>2. QED
    BY <1>t, <2>1, OwnMove
<1>3. CASE cpc[c] = "verdict" /\ h = sess[c]
  <2>1. Welcomed(c)'
    BY <1>t, <1>3, VerdictGiven
  <2>2. pc'[h] \in {"auth", "scan", "command"}
    BY <1>3, <2>1 DEF Welcomed, clientVars
  <2>3. QED
    BY <1>1, <1>2, <2>2
<1>4. CASE ~(cpc[c] = "verdict" /\ h = sess[c])
  <2> DEFINE s == ServerOf(h)
             j == JobAt(c, s)
             o == IF InSession(c) /\ h = sess[c] THEN Unsent(c) ELSE <<>>
  <2>1. /\ s \in Servers /\ j \in Jobs /\ j.task = job[c].task /\ o \in Seq(Messages)
        /\ j.task.op = "put" => j.task.content # None
    BY <1>t, OwnHandler, OwnPairType, ConstantsAssumption
       DEF TypeInv, ClientTypeOK, Unsent
  <2>2. CarriesOut(pc[h], frame[h], cmd[h], Login[c], j, inbox[h] \o o)
    BY <1>4, HandlerCarries DEF Carries, RestOf
  <2> HIDE DEF j, o
  <2>3. /\ CarriesOut(pc'[h], frame'[h], cmd'[h], Login[c], j, inbox'[h] \o o)
        /\ ReadCommand(h) => pc'[h] = FirstState(j.task.op)
    BY <1>t, <2>1, <2>2, CarriesOn
  <2>4. /\ pc[h] \in Places(j.task.op)
        /\ pc[h] \in {"scan", "command"} => frame[h].round = 1
    BY <2>2 DEF CarriesOut
  <2>5. ASSUME pc'[h] = "header" PROVE frame'[h].round = 1
    <3>1. ReadCommand(h)
      <4>1. pc[h] \in {"scan", "command", "list", "request", "serve", "send"}
        BY <1>t, <2>1, <2>4, PlaceOfCommand
      <4>2. ScanForDirectory(h) \/ List(h) \/ ReadRequest(h) => pc'[h] # "header"
        BY <1>t DEF ScanForDirectory, List, ReadRequest, Goto, Close
      <4>3. ServeNothing(h) \/ ServeUnopened(h) => pc'[h] # "header"
        BY <1>t DEF ServeNothing, ServeUnopened, NextRound, Goto, Close
      <4>4. ServeHeader(h) \/ SendPart(h) => pc'[h] # "header"
        BY <1>t DEF ServeHeader, SendPart, NextRound, Goto, Close
      <4>5. ~Authenticate(h) /\ ~MakeUserDirectory(h) /\ ~OpenPart(h) /\ ~WritePart(h) /\ ~Spin(h)
        BY <4>1 DEF Authenticate, MakeUserDirectory, OpenPart, WritePart, Spin
      <4>6. QED
        BY <1>1, <2>5, <4>2, <4>3, <4>4, <4>5 DEF HandlerStep
    <3>2. pc[h] = "command" /\ frame'[h] = frame[h]
      BY <1>t, <2>5, <3>1 DEF ReadCommand, Goto, Close
    <3>3. QED
      BY <2>4, <3>2
  <2>6. ASSUME job[c].task.op = "put" PROVE pc'[h] # "free"
    <3>1. pc[h] \in {"scan", "command"}
      BY <1>t, <2>1, <2>4, <2>6, PlaceOfCommand
    <3>2. CASE ReadCommand(h)
      BY <2>1, <2>3, <2>6, <3>2 DEF FirstState
    <3>3. CASE ~ReadCommand(h)
      <4>1. ScanForDirectory(h)
        BY <3>1, <3>3, StepAt
      <4>2. QED
        BY <1>t, <4>1 DEF ScanForDirectory, Goto
    <3>4. QED
      BY <3>2, <3>3
  <2>7. QED
    BY <1>1, <1>2, <2>5, <2>6
<1>5. QED
  BY <1>3, <1>4

\* The handler of one client leaves the others alone.
LEMMA HandlerOfAnother ==
  ASSUME AloneInv, Alone, NEW h \in Handlers, HandlerStep(h),
         UNCHANGED <<clientVars, historyVars>>, NEW c \in Clients, peer[h] # c
  PROVE  Undisturbed(c)
<1>t. /\ TypeInv /\ StepInv /\ CalmInv /\ AloneOK(c) /\ pc[h] # "free" /\ UNCHANGED gone
      /\ \A k \in Handlers \ {h} :
           /\ pc'[k] = pc[k] /\ frame'[k] = frame[k] /\ cmd'[k] = cmd[k]
           /\ inbox'[k] = inbox[k] /\ reply'[k] = reply[k]
  BY CalmStep DEF AloneInv, CalmInv, StepInv
<1> DEFINE d == peer[h]
<1>1. d \in Clients /\ OfClient(d, h) /\ Login[d][1] # Login[c][1]
  BY <1>t DEF AloneInv, OfClient, Alone
<1>2. ASSUME NEW k \in Own(c), NEW s \in Servers, NEW p \in Parts
      PROVE  At(s, k, p)' = At(s, k, p)
  <2>1. CASE pc[h] \in {"header", "data"}
    <3>1. k # PathKey(d)
      BY <1>1 DEF Own, PathKey
    <3>2. PICK q : OnlyWrites(ServerOf(h), PathKey(d), q)
      BY <1>1, <2>1, HandlerStores
    <3>3. AtNext(s, k, p) = At(s, k, p)
      BY <3>1, <3>2 DEF OnlyWrites, Own
    <3>4. QED
      BY <3>3 DEF AtNext, At
  <2>2. CASE pc[h] \notin {"header", "data"}
    <3>1. UNCHANGED disk
      BY <1>1, <2>2, HandlerKeepsFiles
    <3>2. QED
      BY <3>1 DEF At
  <2>3. QED
    BY <2>1, <2>2
<1>3. InSession(c) => sess[c] \in Handlers \ {h}
  BY <1>t, SessionTurn DEF TypeInv, SessionOK
<1>4. QED
  <2>1. SameClient(c) /\ UNCHANGED <<peer, latest, missed>>
    BY DEF SameClient, clientVars, historyVars
  <2>2. InSession(c) => SameConnection(sess[c])
    BY <1>t, <1>3, <2>1 DEF SameConnection
  <2>3. \A k \in Handlers : OfClient(c, k)' <=> OfClient(c, k)
    BY <1>t, <2>1 DEF OfClient
  <2>4. \A k \in Handlers : OfClient(c, k) => k # h
    BY DEF OfClient
  <2>5. QED
    BY <1>t, <1>2, <2>1, <2>2, <2>3, <2>4 DEF Undisturbed

\* What a step of a handler of c leaves as it was.
LEMMA HandlerOfOne ==
  ASSUME AloneInv, Alone, NEW c \in Clients, NEW h \in Handlers, OfClient(c, h),
         HandlerStep(h), UNCHANGED <<clientVars, historyVars>>
  PROVE  /\ TypeInv /\ CalmInv /\ AloneOK(c)
         /\ \A k \in Handlers \ {h} :
              /\ pc'[k] = pc[k] /\ frame'[k] = frame[k] /\ cmd'[k] = cmd[k]
              /\ inbox'[k] = inbox[k] /\ reply'[k] = reply[k]
              /\ OfClient(c, k)' <=> OfClient(c, k)
         /\ OfClient(c, h)' <=> pc'[h] # "free"
         /\ \A k \in Handlers : OfClient(c, k) /\ ServerOf(k) = ServerOf(h) => k = h
         /\ PathKey(c)' = PathKey(c) /\ Own(c)' = Own(c)
         /\ \A s : OwnPair(c, s)' = OwnPair(c, s) /\ JobAt(c, s)' = JobAt(c, s)
<1>1. /\ TypeInv /\ CalmInv /\ AloneOK(c)
      /\ \A k \in Handlers \ {h} :
           /\ pc'[k] = pc[k] /\ frame'[k] = frame[k] /\ cmd'[k] = cmd[k]
           /\ inbox'[k] = inbox[k] /\ reply'[k] = reply[k]
  BY CalmStep DEF AloneInv, CalmInv, StepInv
<1>2. UNCHANGED <<peer, job>>
  BY DEF clientVars
<1>3. /\ PathKey(c)' = PathKey(c) /\ Own(c)' = Own(c)
      /\ \A s : OwnPair(c, s)' = OwnPair(c, s) /\ JobAt(c, s)' = JobAt(c, s)
  BY <1>2 DEF PathKey, Own, OwnPair, JobAt
<1>4. \A k \in Handlers : OfClient(c, k) /\ ServerOf(k) = ServerOf(h) => k = h
  BY <1>1 DEF AloneOK, Serving
<1>5. QED
  BY <1>1, <1>2, <1>3, <1>4 DEF OfClient

\* The step of a handler of c, fact by fact: whom the handlers serve.
LEMMA HandlerServing ==
  ASSUME AloneInv, Alone, NEW c \in Clients, NEW h \in Handlers, OfClient(c, h),
         HandlerStep(h), UNCHANGED <<clientVars, historyVars>>
  PROVE  Serving(c)'
<1>t. /\ TypeInv /\ CalmInv /\ Serving(c) /\ UNCHANGED <<cpc, job, sess>>
      /\ \A k \in Handlers \ {h} :
           /\ pc'[k] = pc[k] /\ frame'[k] = frame[k] /\ cmd'[k] = cmd[k]
           /\ inbox'[k] = inbox[k]
           /\ OfClient(c, k)' <=> OfClient(c, k)
      /\ OfClient(c, h)' <=> pc'[h] # "free"
      /\ \A s : JobAt(c, s)' = JobAt(c, s)
      /\ InSession(c)' = InSession(c)
  BY HandlerOfOne DEF AloneOK, clientVars, InSession
<1>1. ASSUME NEW k \in Handlers \ {h}, LeftBehind(c, k) PROVE LeftBehind(c, k)'
  BY <1>t, <1>1 DEF LeftBehind
<1>2. ASSUME LeftBehind(c, h) PROVE LeftBehind(c, h)'
  <2> DEFINE s == ServerOf(h)
             j == JobAt(c, s)
             o == <<>>
  <2>1. /\ Inv /\ DirectoryReady /\ ~gone[h] /\ pc'[h] # "mkdir" /\ j \in Jobs /\ s \in Servers
        /\ j.task = job[c].task /\ inbox[h] \in Seq(Messages) /\ o \in Seq(Messages)
        /\ j.task.op = "put" => j.task.content # None
        /\ inbox'[h] \in Seq(Messages)
    <3>1. /\ Inv /\ TypeOK /\ DirectoryReady /\ j \in Jobs /\ s \in Servers
          /\ job[c].task.op = "put" => job[c].task.content \in Contents
      BY OwnHandler
    <3>2. ~gone[h] /\ pc'[h] # "mkdir"
      BY <1>t, CalmStep
    <3>3. j.task = job[c].task
      BY <1>t, <3>1, OwnPairType
    <3>4. Inv'
      BY <3>1, HandlerInv
    <3>5. QED
      BY <3>1, <3>2, <3>3, <3>4, ConstantsAssumption DEF TypeOK, Inv
  <2>2. inbox[h] \o o = inbox[h] /\ inbox'[h] \o o = inbox'[h]
    BY <2>1, ConcatEmptySeq
  <2>3. CarriesOut(pc[h], frame[h], cmd[h], Login[c], j, inbox[h] \o o)
    BY <1>2, <2>2 DEF LeftBehind
  <2> HIDE DEF j, o
  <2>4. CarriesOut(pc'[h], frame'[h], cmd'[h], Login[c], j, inbox'[h] \o o)
    BY <2>1, <2>3, CarriesOn
  <2>5. QED
    BY <1>t, <1>2, <2>2, <2>4 DEF LeftBehind, j
<1>3. ASSUME NEW k \in Handlers, OfClient(c, k)'
      PROVE  OfClient(c, k) /\ ((InSession(c)' /\ k = sess'[c]) \/ LeftBehind(c, k)')
  <2>1. OfClient(c, k)
    BY <1>t, <1>3
  <2>2. (InSession(c) /\ k = sess[c]) \/ LeftBehind(c, k)
    BY <1>t, <2>1 DEF Serving
  <2>3. QED
    BY <1>t, <1>1, <1>2, <2>1, <2>2
<1>4. \A k, g \in Handlers :
        OfClient(c, k)' /\ OfClient(c, g)' /\ ServerOf(k) = ServerOf(g) => k = g
  BY <1>t, <1>3 DEF Serving
<1>5. QED
  BY <1>3, <1>4 DEF Serving

\* The file that is being written is the front of its part.
LEMMA HandlerHalfWritten ==
  ASSUME AloneInv, Alone, NEW c \in Clients, NEW h \in Handlers, OfClient(c, h),
         HandlerStep(h), UNCHANGED <<clientVars, historyVars>>
  PROVE  HalfWritten(c)'
<1>t. /\ TypeInv /\ HalfWritten(c) /\ UNCHANGED job
      /\ \A k \in Handlers \ {h} :
           /\ pc'[k] = pc[k] /\ frame'[k] = frame[k]
           /\ OfClient(c, k)' <=> OfClient(c, k)
      /\ \A k \in Handlers : OfClient(c, k) /\ ServerOf(k) = ServerOf(h) => k = h
      /\ PathKey(c)' = PathKey(c) /\ PathKey(c) \in Paths
      /\ \A k \in Handlers : ServerOf(k) \in Servers
  BY HandlerOfOne, OwnPath DEF AloneOK, Files, WholeFiles, clientVars, Handlers, ServerOf
<1>1. ASSUME NEW k \in Handlers, k # h, OfClient(c, k), NEW p \in Parts
      PROVE  At(ServerOf(k), PathKey(c), p)' = At(ServerOf(k), PathKey(c), p)
  <2>1. CASE pc[h] \in {"header", "data"}
    <3>1. PICK q : OnlyWrites(ServerOf(h), PathKey(c), q)
      BY <2>1, HandlerStores
    <3>2. QED
      BY <1>1, <1>t, <3>1 DEF OnlyWrites, At, AtNext
  <2>2. CASE pc[h] \notin {"header", "data"}
    BY <1>t, <2>2, HandlerKeepsFiles DEF At
  <2>3. QED
    BY <2>1, <2>2
<1>2. CASE pc'[h] # "data"
  BY <1>1, <1>2, <1>t, HalfStays
<1>3. CASE pc'[h] = "data"
  <2> DEFINE p == PartOf(JobAt(c, ServerOf(h)), frame[h].round)
  <2>1. p \in Parts /\ PartOpened(c, h, p)
    BY <1>3, HandlerKeepsFiles, HandlerStores DEF PartStored
  <2> HIDE DEF p
  <2>2. ASSUME NEW k \in Handlers, OfClient(c, k)', pc'[k] = "data"
        PROVE  /\ frame'[k].hdr.part \in Parts /\ frame'[k].out < frame'[k].hdr.size
               /\ At(ServerOf(k), PathKey(c), frame[k].hdr.part)'
                    = FrontOf(c, frame[k].hdr.part, frame[k].out)'
    <3>1. CASE k = h
      BY <1>t, <2>1, <3>1 DEF PartOpened, At, AtNext, FrontOf
    <3>2. CASE k # h
      <4>1. /\ OfClient(c, k) /\ pc[k] = "data" /\ frame'[k] = frame[k]
        BY <1>t, <2>2, <3>2
      <4>2. PICK q \in Parts : q = frame[k].hdr.part
        BY <1>t, <4>1 DEF HalfWritten
      <4>3. At(ServerOf(k), PathKey(c), q)' = At(ServerOf(k), PathKey(c), q)
        BY <1>1, <3>2, <4>1
      <4>4. At(ServerOf(k), PathKey(c), frame[k].hdr.part)' = At(ServerOf(k), PathKey(c), q)'
        BY <4>1, <4>2 DEF At
      <4>5. /\ frame[k].out < frame[k].hdr.size
            /\ At(ServerOf(k), PathKey(c), q) = FrontOf(c, q, frame[k].out)
        BY <1>t, <4>1, <4>2 DEF HalfWritten
      <4>6. QED
        BY <1>t, <4>1, <4>2, <4>3, <4>4, <4>5 DEF FrontOf
    <3>3. QED
      BY <3>1, <3>2
  <2>3. QED
    BY <2>2 DEF HalfWritten
<1>4. QED
  BY <1>2, <1>3

\* The files are whole but for the one that is being written.
LEMMA HandlerWholeFiles ==
  ASSUME AloneInv, Alone, NEW c \in Clients, NEW h \in Handlers, OfClient(c, h),
         HandlerStep(h), UNCHANGED <<clientVars, historyVars>>
  PROVE  WholeFiles(c)'
<1>t. /\ TypeInv /\ CalmInv /\ WholeFiles(c)
      /\ \A k \in Handlers \ {h} :
           /\ pc'[k] = pc[k] /\ frame'[k] = frame[k]
           /\ OfClient(c, k)' <=> OfClient(c, k)
      /\ OfClient(c, h)' <=> pc'[h] # "free"
      /\ \A k \in Handlers : OfClient(c, k) /\ ServerOf(k) = ServerOf(h) => k = h
      /\ PathKey(c)' = PathKey(c) /\ Own(c)' = Own(c)
  BY HandlerOfOne DEF AloneOK, Files
<1>h. HalfWritten(c)'
  BY HandlerHalfWritten
<1> SUFFICES ASSUME NEW s \in Servers, NEW x \in Own(c), NEW q \in Parts
             PROVE  \/ Writes(c, s, x, q)'
                    \/ At(s, x, q)' = Absent \/ \E y \in Contents : At(s, x, q)' = Cut(y, q)
  BY <1>h, <1>t DEF WholeFiles
<1>s. At(s, x, q)' = AtNext(s, x, q)
  BY DEF At, AtNext
<1>o. \/ Writes(c, s, x, q)
      \/ At(s, x, q) = Absent \/ \E y \in Contents : At(s, x, q) = Cut(y, q)
  BY <1>t DEF WholeFiles
<1> DEFINE By(k) == /\ OfClient(c, k) /\ pc[k] = "data" /\ ServerOf(k) = s
                    /\ x = PathKey(c) /\ frame[k].hdr.part = q
           ByNext(k) == /\ OfClient(c, k)' /\ pc'[k] = "data" /\ ServerOf(k) = s
                        /\ x = PathKey(c) /\ frame'[k].hdr.part = q
<1>w. /\ Writes(c, s, x, q) <=> \E k \in Handlers : By(k)
      /\ Writes(c, s, x, q)' <=> \E k \in Handlers : ByNext(k)
      /\ \A k \in Handlers \ {h} : ByNext(k) <=> By(k)
  BY <1>t DEF Writes
<1>1. CASE pc[h] \in {"header", "data"}
  <2> DEFINE p == PartOf(JobAt(c, ServerOf(h)), frame[h].round)
  <2>1. /\ job[c].task.op = "put" /\ OnlyWrites(ServerOf(h), PathKey(c), p)
        /\ pc[h] = "data" => frame[h].hdr.part = p
        /\ PartOpened(c, h, p) \/ PartStored(c, h, p)
    BY <1>1, HandlerStores
  <2> HIDE DEF p
  <2>2. CASE s = ServerOf(h) /\ x = PathKey(c) /\ q = p
    <3>1. CASE PartOpened(c, h, p)
      <4>1. ByNext(h)
        BY <1>t, <2>2, <3>1 DEF PartOpened
      <4>2. QED
        BY <1>w, <4>1
    <3>2. CASE PartStored(c, h, p)
      <4>1. pc'[h] # "data" /\ AtNext(s, x, q) = Cut(job[c].task.content, q)
        BY <2>2, <3>2 DEF PartStored
      <4>2. \A k \in Handlers : ~ByNext(k)
        BY <1>t, <2>2, <4>1
      <4>3. job[c].task.content \in Contents
        BY <2>1, OwnHandler
      <4>4. QED
        BY <1>s, <1>w, <4>1, <4>2, <4>3
    <3>3. QED
      BY <2>1, <3>1, <3>2
  <2>3. CASE ~(s = ServerOf(h) /\ x = PathKey(c) /\ q = p)
    <3>1. AtNext(s, x, q) = At(s, x, q)
      BY <2>1, <2>3 DEF OnlyWrites, Own
    <3>2. ~By(h)
      BY <2>1, <2>3
    <3>3. ~ByNext(h)
      <4>1. CASE PartOpened(c, h, p)
        BY <2>3, <4>1 DEF PartOpened
      <4>2. CASE PartStored(c, h, p)
        BY <4>2 DEF PartStored
      <4>3. QED
        BY <2>1, <4>1, <4>2
    <3>4. QED
      BY <1>o, <1>s, <1>w, <3>1, <3>2, <3>3
  <2>4. QED
    BY <2>2, <2>3
<1>2. CASE pc[h] \notin {"header", "data"}
  <2>1. UNCHANGED disk /\ pc'[h] # "data"
    BY <1>2, HandlerKeepsFiles
  <2>2. At(s, x, q)' = At(s, x, q) /\ ~By(h) /\ ~ByNext(h)
    BY <1>2, <2>1 DEF At
  <2>3. QED
    BY <1>o, <1>w, <2>2
<1>3. QED
  BY <1>1, <1>2

\* What a put has left on a server stays while the handler there does something
\* else, and on the other servers.
LEMMA HandlerPutStored ==
  ASSUME AloneInv, Alone, NEW c \in Clients, NEW h \in Handlers, OfClient(c, h),
         HandlerStep(h), UNCHANGED <<clientVars, historyVars>>
  PROVE  PutStored(c)'
<1> DEFINE s0 == ServerOf(h)
           x == job[c].task.content
           KeptNext(s, n) == AtNext(s, PathKey(c), PartSent(OwnPair(c, s), n))
                               = Cut(x, PartSent(OwnPair(c, s), n))
<1>t. /\ TypeInv /\ PutStored(c) /\ UNCHANGED <<cpc, job>>
      /\ \A k \in Handlers \ {h} :
           /\ pc'[k] = pc[k] /\ frame'[k] = frame[k]
           /\ OfClient(c, k)' <=> OfClient(c, k)
      /\ OfClient(c, h)' <=> pc'[h] # "free"
      /\ \A k \in Handlers : OfClient(c, k) /\ ServerOf(k) = ServerOf(h) => k = h
      /\ PathKey(c)' = PathKey(c) /\ \A s : OwnPair(c, s)' = OwnPair(c, s)
      /\ PathKey(c) \in Paths /\ s0 \in Servers /\ frame[h].round \in 1..2
      /\ \A k \in Handlers : ServerOf(k) \in Servers
  BY HandlerOfOne, OwnPath, OwnHandler DEF AloneOK, Files, clientVars, Handlers, ServerOf
<1> SUFFICES ASSUME job[c].task.op = "put" PROVE PutStored(c)'
  BY <1>t DEF PutStored
<1>k. \A s, n : Kept(c, s, n)' <=> KeptNext(s, n)
  BY <1>t DEF Kept, At, AtNext
<1>p. \A s \in Servers, n \in 0..1 : PartSent(OwnPair(c, s), n) \in Parts
  <2> SUFFICES ASSUME NEW s \in Servers PROVE \A n \in 0..1 : PartSent(OwnPair(c, s), n) \in Parts
    OBVIOUS
  <2>1. OwnPair(c, s) \in 0..3
    BY <1>t, OwnPairType DEF Pairs
  <2>2. QED
    BY <2>1 DEF PartSent, IndexOf, Parts
<1>1. ASSUME NEW s \in Servers, NEW n \in 0..1, Kept(c, s, n),
             s # s0 \/ pc[h] \notin {"header", "data"}
      PROVE  KeptNext(s, n)
  <2>1. AtNext(s, PathKey(c), PartSent(OwnPair(c, s), n))
          = At(s, PathKey(c), PartSent(OwnPair(c, s), n))
    <3>1. CASE pc[h] \in {"header", "data"}
      <4>1. PICK q : OnlyWrites(s0, PathKey(c), q)
        BY <3>1, HandlerStores
      <4>2. s # s0
        BY <1>1, <3>1
      <4> HIDE DEF s0
      <4>3. QED
        BY <1>p, <1>t, <4>1, <4>2 DEF OnlyWrites
    <3>2. CASE pc[h] \notin {"header", "data"}
      BY <3>2, HandlerKeepsFiles DEF At, AtNext
    <3>3. QED
      BY <3>1, <3>2
  <2>2. QED
    BY <1>1, <2>1 DEF Kept
<1>2. ASSUME pc[h] \in {"header", "data"}
      PROVE  /\ frame[h].round = 2 => KeptNext(s0, 0)
             /\ \/ PartOpened(c, h, PartSent(OwnPair(c, s0), frame[h].round - 1))
                \/ /\ PartStored(c, h, PartSent(OwnPair(c, s0), frame[h].round - 1))
                   /\ KeptNext(s0, frame[h].round - 1)
  <2> DEFINE p == PartSent(OwnPair(c, s0), frame[h].round - 1)
  <2>1. PartOf(JobAt(c, s0), frame[h].round) = p
    BY <1>t, PartPut
  <2>2. OnlyWrites(s0, PathKey(c), p) /\ (PartOpened(c, h, p) \/ PartStored(c, h, p))
    BY <1>2, <2>1, HandlerStores
  <2>3. PartStored(c, h, p) => KeptNext(s0, frame[h].round - 1)
    BY DEF PartStored
  <2>4. ASSUME frame[h].round = 2 PROVE KeptNext(s0, 0)
    <3>1. Kept(c, s0, 0)
      BY <1>2, <1>t, <2>4 DEF PutStored
    <3>2. PartSent(OwnPair(c, s0), 0) # p
      BY <1>t, <2>4, PartPut
    <3>3. AtNext(s0, PathKey(c), PartSent(OwnPair(c, s0), 0))
            = At(s0, PathKey(c), PartSent(OwnPair(c, s0), 0))
      BY <1>p, <1>t, <2>2, <3>2 DEF OnlyWrites
    <3>4. QED
      BY <3>1, <3>3 DEF Kept
  <2>5. QED
    BY <2>2, <2>3, <2>4
<1> HIDE DEF s0, KeptNext
<1>3. ASSUME NEW s \in Servers, s < job[c].turn, s \notin job[c].offline,
             \A k \in Handlers : OfClient(c, k)' => ServerOf(k) # s
      PROVE  KeptNext(s, 0) /\ KeptNext(s, 1)
  <2>1. CASE s # s0
    <3>1. \A k \in Handlers : OfClient(c, k) => ServerOf(k) # s
      BY <1>3, <1>t, <2>1 DEF s0
    <3>2. Kept(c, s, 0) /\ Kept(c, s, 1)
      BY <1>3, <1>t, <3>1 DEF PutStored
    <3>3. QED
      BY <1>1, <2>1, <3>2
  <2>2. CASE s = s0
    <3>1. pc'[h] = "free"
      BY <1>3, <1>t, <2>2 DEF s0
    <3>2. pc[h] \in {"header", "data"}
      BY <3>1, HandlerKeepsFiles
    <3>3. PartStored(c, h, PartSent(OwnPair(c, s0), frame[h].round - 1))
      BY <1>2, <3>1, <3>2 DEF PartOpened
    <3>4. frame[h].round = 2
      BY <1>t, <3>1, <3>3 DEF PartStored
    <3>5. KeptNext(s0, 0) /\ KeptNext(s0, 1)
      <4>1. frame[h].round - 1 = 1
        BY <3>4
      <4>2. ~PartOpened(c, h, PartSent(OwnPair(c, s0), frame[h].round - 1))
        BY <3>1 DEF PartOpened
      <4>3. QED
        BY <1>2, <3>2, <3>4, <4>1, <4>2
    <3>6. QED
      BY <2>2, <3>5
  <2>3. QED
    BY <2>1, <2>2
<1>4. ASSUME NEW k \in Handlers, OfClient(c, k)', pc'[k] \in {"header", "data"},
             frame'[k].round = 2
      PROVE  KeptNext(ServerOf(k), 0)
  <2>1. CASE k # h
    <3>1. OfClient(c, k) /\ pc[k] \in {"header", "data"} /\ frame[k].round = 2
      BY <1>4, <1>t, <2>1
    <3>2. Kept(c, ServerOf(k), 0) /\ ServerOf(k) # s0
      BY <1>t, <2>1, <3>1 DEF PutStored, s0
    <3>3. QED
      BY <1>1, <1>t, <3>2
  <2>2. CASE k = h
    <3>1. pc[h] \in {"header", "data"}
      BY <1>4, <2>2, HandlerKeepsFiles
    <3>2. CASE frame[h].round = 2
      BY <1>2, <2>2, <3>1, <3>2 DEF s0
    <3>3. CASE frame[h].round = 1
      <4>1. ~PartOpened(c, h, PartSent(OwnPair(c, s0), frame[h].round - 1))
        BY <1>4, <2>2, <3>3 DEF PartOpened
      <4>2. frame[h].round - 1 = 0
        BY <3>3
      <4>3. QED
        BY <1>2, <2>2, <3>1, <4>1, <4>2 DEF s0
    <3>4. QED
      BY <1>t, <3>2, <3>3
  <2>3. QED
    BY <2>1, <2>2
<1>5. QED
  BY <1>k, <1>3, <1>4, <1>t DEF PutStored

\* No file disappears.
LEMMA HandlerHeld ==
  ASSUME AloneInv, Alone, NEW c \in Clients, NEW h \in Handlers, OfClient(c, h),
         HandlerStep(h), UNCHANGED <<clientVars, historyVars>>
  PROVE  Held(c)'
<1>t. /\ TypeInv /\ Held(c) /\ UNCHANGED <<cpc, job, latest, missed>>
      /\ PathKey(c)' = PathKey(c) /\ Own(c)' = Own(c)
      /\ job[c].task.op = "put" => job[c].task.content \in Contents
  BY HandlerOfOne, OwnHandler DEF AloneOK, Files, clientVars, historyVars
<1>1. ASSUME NEW s \in Servers, NEW k \in Own(c), NEW p \in Parts, There(s, k, p)
      PROVE  There(s, k, p)'
  <2>1. CASE pc[h] \in {"header", "data"}
    <3> DEFINE q == PartOf(JobAt(c, ServerOf(h)), frame[h].round)
    <3>1. /\ job[c].task.op = "put" /\ q \in Parts
          /\ OnlyWrites(ServerOf(h), PathKey(c), q)
          /\ PartOpened(c, h, q) \/ PartStored(c, h, q)
      BY <2>1, HandlerStores
    <3> HIDE DEF q
    <3>2. CASE s = ServerOf(h) /\ k = PathKey(c) /\ p = q
      <4>1. \/ \E n : AtNext(s, k, p) = FrontOf(c, p, n)
            \/ AtNext(s, k, p) = Cut(job[c].task.content, p)
        BY <3>1, <3>2 DEF PartOpened, PartStored
      <4>2. /\ Cut(job[c].task.content, p) \in Pieces
            /\ Cut(job[c].task.content, p).kind # "absent"
        BY <1>t, <3>1, CutType DEF Cut, Zeros, Piece
      <4>3. \A n : FrontOf(c, p, n).kind # "absent"
        BY <4>2, FrontsExist DEF FrontOf
      <4>4. QED
        BY <4>1, <4>2, <4>3 DEF There, At, AtNext
    <3>3. CASE ~(s = ServerOf(h) /\ k = PathKey(c) /\ p = q)
      <4>1. AtNext(s, k, p) = At(s, k, p)
        BY <3>1, <3>3 DEF OnlyWrites, Own
      <4>2. QED
        BY <1>1, <4>1 DEF There, At, AtNext
    <3>4. QED
      BY <3>2, <3>3
  <2>2. CASE pc[h] \notin {"header", "data"}
    BY <1>1, <2>2, HandlerKeepsFiles DEF There, At
  <2>3. QED
    BY <2>1, <2>2
<1>2. QED
  BY <1>1, <1>t DEF Held

\* An answer that fits the files, of which none has changed.
LEMMA AnswersFit ==
  ASSUME NEW c, NEW h, NEW s, NEW k, NEW q, NEW a, NEW rest, UNCHANGED disk,
         sess'[c] = h, job'[c].turn = s, PathKey(c)' = k, Unserved(c)' = rest,
         Ahead(c)' = q, reply'[h] = a, Tells(q, s, k),
         pc'[h] = "send" => /\ frame'[h].hdr.part \in Parts /\ There(s, k, frame'[h].hdr.part)
                            /\ frame'[h].copy = At(s, k, frame'[h].hdr.part)
                            /\ frame'[h].copy.size = frame'[h].hdr.size,
         pc'[h] \in {"serve", "send"} => frame'[h].ask = rest,
         \A i \in 1..Len(a) : a[i].tag = "nothing" => \A p \in rest : ~There(s, k, p)
  PROVE  Answering(c)'
<1>1. /\ \A p : There(s, k, p) <=> disk'[s][<<k[1], k[2], k[3], p>>].kind # "absent"
      /\ \A p : At(s, k, p) = disk'[s][<<k[1], k[2], k[3], p>>]
  BY DEF There, At
<1>2. Tells(Ahead(c), job[c].turn, PathKey(c))'
  <2>1. \A i \in 1..Len(q) :
          /\ q[i].tag = "header" => /\ q[i].body.part \in Parts /\ There(s, k, q[i].body.part)
                                    /\ At(s, k, q[i].body.part).size = q[i].body.size
          /\ q[i].tag = "data" /\ i > 1 => /\ q[i - 1].tag = "header"
                                            /\ q[i].body = At(s, k, q[i - 1].body.part)
    BY DEF Tells
  <2>2. QED
    BY <1>1, <2>1 DEF Tells, There, At
<1>3. pc'[h] = "send" => /\ frame'[h].hdr.part \in Parts
                         /\ disk'[s][<<k[1], k[2], k[3], frame'[h].hdr.part>>].kind # "absent"
                         /\ frame'[h].copy = disk'[s][<<k[1], k[2], k[3], frame'[h].hdr.part>>]
                         /\ frame'[h].copy.size = frame'[h].hdr.size
  BY <1>1
<1>4. \A i \in 1..Len(a) : a[i].tag = "nothing" =>
        \A p \in rest : ~(disk'[s][<<k[1], k[2], k[3], p>>].kind # "absent")
  BY <1>1
<1>5. QED
  BY <1>2, <1>3, <1>4 DEF Answering, There, At

\* What is asked for and what the stream says keep fitting the files.
LEMMA HandlerAnswers ==
  ASSUME AloneInv, Alone, NEW c \in Clients, NEW h \in Handlers, OfClient(c, h),
         HandlerStep(h), UNCHANGED <<clientVars, historyVars>>
  PROVE  Answering(c)'
<1>t. /\ TypeInv /\ Inv /\ TypeOK /\ CalmInv /\ StepInv /\ AloneOK(c) /\ Serving(c) /\ Insider(c)
      /\ Answering(c) /\ UNCHANGED <<cpc, job, sess, last>>
      /\ PathKey(c)' = PathKey(c) /\ Inv'
  <2>1. TypeInv /\ Inv /\ TypeOK /\ CalmInv /\ AloneOK(c) /\ PathKey(c)' = PathKey(c)
    BY HandlerOfOne, OwnHandler
  <2>2. StepInv /\ Insider(c) /\ Serving(c) /\ Answering(c)
    BY <2>1 DEF CalmInv, ClientOK, Alone, AloneOK
  <2>3. Inv'
    BY <2>1, HandlerInv
  <2>4. QED
    BY <2>1, <2>2, <2>3 DEF clientVars
<1> SUFFICES ASSUME cpc[c] \in {"answer", "bytes"} PROVE Answering(c)'
  BY <1>t DEF Answering
<1>g. job[c].task.op = "get" /\ InSession(c)
  BY <1>t DEF StepInv, StepOK, InSession
<1>h. h = sess[c]
  <2>1. ~LeftBehind(c, h)
    BY <1>g DEF LeftBehind
  <2>2. QED
    BY <1>t, <2>1 DEF Serving
<1> DEFINE s == job[c].turn
           k == PathKey(c)
           q == Ahead(c)
           a == reply[h]
           want == job[c].want
<1>w. /\ AtWork(c) /\ Carries(c, h) /\ job[c] \in Jobs /\ s \in Servers /\ ServerOf(h) = s
      /\ h \in Handlers /\ want \subseteq Parts /\ frame[h] \in Frames
      /\ k \in Paths
  <2>1. AtWork(c)
    BY <1>g, <1>t DEF Insider
  <2>2. Carries(c, h)
    BY HandlerCarries
  <2>3. job[c] \in Jobs /\ s \in Servers /\ want \subseteq Parts
    BY <1>g, <1>t, SessionTurn DEF Jobs
  <2>4. QED
    BY <1>g, <1>h, <1>t, <2>1, <2>2, <2>3, OwnHandler, OwnPath DEF TypeInv, SessionOK
<1>c. /\ pc[h] \in {"scan", "command", "request", "serve", "send"}
      /\ pc[h] \in {"scan", "command", "request"} => q = <<>>
      /\ pc[h] = "send" => \E n \in 0..2 : Units(q, n, Announced(frame[h].hdr))
      /\ pc[h] = "request" => inbox[h] = <<Message("request", want)>>
  <2>1. CarriesOut(pc[h], frame[h], cmd[h], Login[c], job[c], Stream(c))
    BY <1>h, <1>w DEF AtWork
  <2>2. pc[h] \in Places("get") /\ pc[h] # "free"
    BY <1>g, <2>1 DEF CarriesOut, OfClient
  <2>3. pc[h] \in {"scan", "command", "request", "serve", "send"}
    BY <2>2 DEF Places
  <2>4. pc[h] \in {"scan", "command", "request"} => q = <<>>
    BY <1>h, <1>w DEF AtWork, Silent
  <2>5. ASSUME pc[h] = "send" PROVE \E n \in 0..2 : Units(q, n, Announced(frame[h].hdr))
    <3>1. Units(q, frame[h].round - job[c].round, Announced(frame[h].hdr))
      BY <1>g, <1>h, <1>w, <2>5 DEF AtWork, Owed
    <3>2. frame[h].round - job[c].round \in 0..2
      BY <3>1 DEF Units
    <3>3. QED
      BY <3>1, <3>2
  <2>6. ASSUME pc[h] = "request" PROVE inbox[h] = <<Message("request", want)>>
    <3>1. Stream(c) = <<Message("request", want)>>
      BY <2>1, <2>6 DEF CarriesOut, Left
    <3>2. Stream(c) = inbox[h] \o <<>> /\ inbox[h] \in Seq(Messages)
      BY <1>h, <1>t DEF Stream, Unsent, TypeOK
    <3>3. QED
      BY <3>1, <3>2, ConcatEmptySeq
  <2>7. QED
    BY <2>3, <2>4, <2>5, <2>6
<1>d. /\ UNCHANGED disk /\ ~UserDirectoryExists(h) /\ ~ListUnopened(h)
  BY <1>c, HandlerKeepsFiles
<1>v. /\ a \in Seq(Messages) /\ reply'[h] \in Seq(Messages) /\ q \in Seq(Messages)
      /\ reply'[h] = a => Ahead(c)' = q
      /\ \A m \in Messages : Send(h, m) => /\ reply'[h] = Append(a, m)
                                           /\ Ahead(c)' = Append(q, m)
      /\ pc \in [Handlers -> States] /\ frame \in [Handlers -> Frames]
      /\ inbox \in [Handlers -> Seq(Messages)]
  BY <1>h, <1>g, <1>t, AheadMore DEF Send, TypeOK, Inv
<1>f. pc[h] \in {"serve", "send"} => Opens(h) /\ \A p : FileAt(h, p) = At(s, k, p)
  BY <1>w, OwnHandler DEF FileAt, PathOf, At
<1>o. /\ Tells(q, s, k)
      /\ pc[h] = "send" => /\ frame[h].hdr.part \in Parts /\ There(s, k, frame[h].hdr.part)
                           /\ frame[h].copy = At(s, k, frame[h].hdr.part)
                           /\ frame[h].copy.size = frame[h].hdr.size
      /\ pc[h] \in {"serve", "send"} => frame[h].ask = want \ Coming(a)
      /\ \A i \in 1..Len(a) : a[i].tag = "nothing" => \A p \in want \ Coming(a) : ~There(s, k, p)
  BY <1>h, <1>t DEF Answering, Unserved
<1> HIDE DEF s, k, q, a, want
<1>z. ASSUME NEW p2 \in Seq(Messages), NEW a2 \in Seq(Messages), Ahead(c)' = p2, reply'[h] = a2,
             Tells(p2, s, k),
             pc'[h] = "send" => /\ frame'[h].hdr.part \in Parts /\ There(s, k, frame'[h].hdr.part)
                                /\ frame'[h].copy = At(s, k, frame'[h].hdr.part)
                                /\ frame'[h].copy.size = frame'[h].hdr.size,
             pc'[h] \in {"serve", "send"} => frame'[h].ask = want \ Coming(a2),
             \A i \in 1..Len(a2) : a2[i].tag = "nothing" =>
               \A p \in want \ Coming(a2) : ~There(s, k, p)
      PROVE  Answering(c)'
  <2>1. /\ sess'[c] = h /\ job'[c].turn = s /\ PathKey(c)' = k
        /\ Unserved(c)' = want \ Coming(a2)
    BY <1>h, <1>t, <1>z DEF s, k, want, Unserved
  <2> DEFINE rest == want \ Coming(a2)
  <2>2. /\ UNCHANGED disk /\ Unserved(c)' = rest
        /\ pc'[h] \in {"serve", "send"} => frame'[h].ask = rest
        /\ \A i \in 1..Len(a2) : a2[i].tag = "nothing" => \A p \in rest : ~There(s, k, p)
    BY <1>d, <1>z, <2>1
  <2> HIDE DEF rest
  <2>3. QED
    BY <1>z, <2>1, <2>2, AnswersFit
<1>1. CASE reply'[h] = a /\ pc'[h] \notin {"serve", "send"}
  BY <1>1, <1>o, <1>v, <1>z
<1>2. ASSUME ReadRequest(h) PROVE Answering(c)'
  <2> DEFINE m == Message("request", want)
  <2>1. pc[h] = "request" /\ pc'[h] = "serve" /\ reply'[h] = a
        /\ frame'[h] = [frame[h] EXCEPT !.ask = AsRequest(Incoming(h))]
    BY <1>2, <1>v DEF ReadRequest, Goto, a
  <2>2. AsRequest(Incoming(h)) = want
    <3>1. inbox[h] = <<m>>
      BY <1>c, <2>1 DEF want
    <3>2. inbox[h] # <<>> /\ Head(inbox[h]) = m
      BY <3>1
    <3>3. QED
      BY <3>2 DEF Incoming, AsRequest, Message
  <2>3. a = <<>>
    <3>1. Ahead(c) = <<>>
      BY <1>c, <2>1 DEF q
    <3>2. cpc[c] = "bytes" => Ahead(c) # <<>>
      <4>1. cpc[c] = "bytes" => Message("header", last[c]) \in Messages
        BY <1>t, MessageTypes DEF TypeInv, ClientTypeOK, SessionOK
      <4>2. QED
        BY <1>h, <1>v, <4>1, Prepended DEF Ahead, Announced, a
    <3>3. QED
      BY <1>h, <3>1, <3>2 DEF Ahead, a
  <2>4. want \ Coming(a) = want
    BY <2>3 DEF Coming
  <2>5. frame'[h].ask = want \ Coming(a)
    BY <1>w, <2>1, <2>2, <2>4 DEF Frames
  <2>6. QED
    BY <1>o, <1>v, <1>z, <2>1, <2>5
<1>3. ASSUME ServeNothing(h) PROVE Answering(c)'
  <2> DEFINE m == Message("nothing", None)
  <2>1. /\ pc[h] = "serve" /\ pc'[h] = "free" /\ Found(h) = {} /\ Send(h, m)
    BY <1>3, <1>v DEF ServeNothing, Close, Goto
  <2>2. m \in Messages /\ m.tag = "nothing"
    BY MessageTypes DEF Message
  <2>3. Coming(Append(a, m)) = Coming(a)
    BY <1>v, <2>2, ComingMore
  <2>4. \A p \in want \ Coming(a) : ~There(s, k, p)
    <3>1. frame[h].ask = want \ Coming(a) /\ want \subseteq Parts
      BY <1>o, <1>w, <2>1 DEF want
    <3>2. QED
      BY <1>f, <2>1, <3>1 DEF Found, There
  <2>5. Tells(Append(q, m), s, k)
    BY <1>o, <1>v, <2>2, TellsMore
  <2>6. reply'[h] = Append(a, m) /\ Ahead(c)' = Append(q, m)
    BY <1>v, <2>1, <2>2
  <2>7. Append(a, m) \in Seq(Messages) /\ Append(q, m) \in Seq(Messages)
    BY <1>v, <2>2, AppendItems
  <2>8. QED
    BY <1>z, <2>1, <2>3, <2>4, <2>5, <2>6, <2>7
\* The end of a round of serve.
<1>r. ASSUME NEW locals \in Frames, NextRound(h, "serve", locals),
             NEW p2 \in Seq(Messages), NEW a2 \in Seq(Messages), Ahead(c)' = p2, reply'[h] = a2,
             Tells(p2, s, k), locals.ask = want \ Coming(a2),
             \A i \in 1..Len(a2) : a2[i].tag = "nothing" =>
               \A p \in want \ Coming(a2) : ~There(s, k, p)
      PROVE  Answering(c)'
  <2>1. /\ pc'[h] \in {"serve", "free"}
        /\ pc'[h] = "serve" => frame'[h].ask = locals.ask
    BY <1>r, <1>v DEF NextRound, Close, Goto, Frames
  <2>2. QED
    BY <1>r, <1>z, <2>1
<1>4. ASSUME ServeHeader(h) PROVE Answering(c)'
  <2>1. PICK p \in Found(h) :
          LET head == [size |-> FileAt(h, p).size, part |-> p]
              locals == [frame[h] EXCEPT !.hdr = head, !.ask = @ \ {p}, !.copy = FileAt(h, p)]
          IN  /\ Send(h, Message("header", head))
              /\ IF head.size # 0 THEN Goto(h, "send", locals) ELSE NextRound(h, "serve", locals)
    BY <1>4 DEF ServeHeader
  <2> DEFINE head == [size |-> FileAt(h, p).size, part |-> p]
             locals == [frame[h] EXCEPT !.hdr = head, !.ask = @ \ {p}, !.copy = FileAt(h, p)]
             m == Message("header", head)
  <2>2. /\ pc[h] = "serve" /\ p \in Parts /\ p \in frame[h].ask /\ There(s, k, p)
        /\ FileAt(h, p) = At(s, k, p) /\ FileAt(h, p) \in Pieces
    <3>1. pc[h] = "serve" /\ p \in frame[h].ask /\ frame[h].ask \subseteq Parts
      BY <1>4, <1>w DEF ServeHeader, Found, Frames
    <3>2. FileAt(h, p) = At(s, k, p) /\ There(s, k, p)
      BY <1>f, <3>1 DEF There, Found
    <3>3. FileAt(h, p) \in Pieces
      <4>1. <<k[1], k[2], k[3], p>> \in Slots
        BY <1>w, <3>1 DEF k, Paths, Slots, Parts
      <4>2. disk[s] \in [Slots -> Pieces]
        BY <1>t, <1>w DEF TypeOK, s
      <4>3. QED
        BY <3>2, <4>1, <4>2 DEF At
    <3>4. QED
      BY <3>1, <3>2, <3>3
  <2>3. /\ head \in Headers /\ m \in Messages /\ m.tag = "header" /\ m.body = head
        /\ locals \in Frames /\ locals.hdr = head /\ locals.ask = frame[h].ask \ {p}
        /\ locals.copy = FileAt(h, p) /\ head.part = p /\ head.size = At(s, k, p).size
    <3>1. head \in Headers
      BY <2>2 DEF Headers, Pieces, Parts
    <3>2. m \in Messages /\ m.tag = "header" /\ m.body = head
      BY <3>1, MessageTypes DEF Message
    <3>3. /\ locals \in Frames /\ locals.hdr = head /\ locals.ask = frame[h].ask \ {p}
          /\ locals.copy = FileAt(h, p)
      BY <1>w, <2>2, <3>1 DEF Frames
    <3>4. QED
      BY <2>2, <3>1, <3>2, <3>3
  <2>4. /\ Send(h, m)
        /\ IF head.size # 0 THEN Goto(h, "send", locals) ELSE NextRound(h, "serve", locals)
    BY <2>1
  <2> HIDE DEF head, locals, m
  <2>5. Coming(Append(a, m)) = Coming(a) \cup {p}
    BY <1>v, <2>3, ComingMore
  <2>6. locals.ask = want \ Coming(Append(a, m))
    BY <1>o, <2>2, <2>3, <2>5
  <2>7. Tells(Append(q, m), s, k)
    BY <1>o, <1>v, <2>2, <2>3, TellsMore
  <2>8. reply'[h] = Append(a, m) /\ Ahead(c)' = Append(q, m)
    BY <1>v, <2>3, <2>4
  <2>9. Append(a, m) \in Seq(Messages) /\ Append(q, m) \in Seq(Messages)
    BY <1>v, <2>3, AppendItems
  <2>10. ASSUME NEW i \in 1..Len(Append(a, m)), Append(a, m)[i].tag = "nothing"
         PROVE  \A y \in want \ Coming(Append(a, m)) : ~There(s, k, y)
    <3>1. i \in 1..Len(a) /\ a[i].tag = "nothing"
      <4>1. /\ Len(Append(a, m)) = Len(a) + 1 /\ Append(a, m)[Len(a) + 1] = m
            /\ \A l \in 1..Len(a) : Append(a, m)[l] = a[l]
        BY <1>v, <2>3, AppendItems
      <4>2. i # Len(a) + 1
        BY <2>3, <2>10, <4>1
      <4>3. i \in 1..Len(a)
        BY <1>v, <4>1, <4>2
      <4>4. QED
        BY <2>10, <4>1, <4>3
    <3>2. QED
      BY <1>o, <2>5, <3>1
  <2>11. CASE head.size # 0
    <3>1. pc'[h] = "send" /\ frame'[h] = locals
      BY <1>v, <2>4, <2>11 DEF Goto
    <3>2. QED
      BY <1>z, <2>2, <2>3, <2>6, <2>7, <2>8, <2>9, <2>10, <3>1
  <2>12. CASE head.size = 0
    BY <1>r, <2>3, <2>4, <2>6, <2>7, <2>8, <2>9, <2>10, <2>12
  <2>13. QED
    BY <2>11, <2>12
<1>5. ASSUME SendPart(h) PROVE Answering(c)'
  <2> DEFINE hd == frame[h].hdr
             p == hd.part
             m == Message("data", At(s, k, p))
             locals == [frame[h] EXCEPT !.copy = Absent]
  <2>1. /\ pc[h] = "send" /\ p \in Parts /\ frame[h].copy = At(s, k, p)
        /\ At(s, k, p).size = hd.size /\ FileAt(h, p) = At(s, k, p)
        /\ frame[h].ask = want \ Coming(a)
    BY <1>5, <1>f, <1>o DEF SendPart
  <2>2. Send(h, m) /\ NextRound(h, "serve", locals)
    <3>1. PICK now \in {FileAt(h, p), frame[h].copy} : Send(h, Message("data", ReadBack(now, hd.size)))
      BY <1>5 DEF SendPart
    <3>2. ReadBack(now, hd.size) = At(s, k, p)
      BY <2>1 DEF ReadBack
    <3>3. QED
      BY <1>5, <3>1, <3>2 DEF SendPart
  <2>3. /\ m \in Messages /\ m.tag = "data" /\ m.body = At(s, k, p)
        /\ locals \in Frames /\ locals.ask = frame[h].ask
        /\ Message("header", hd) \in Messages
    <3>1. At(s, k, p) \in Pieces
      BY <1>w, <2>1 DEF Frames
    <3>2. locals \in Frames /\ locals.ask = frame[h].ask
      BY <1>w, PieceTypes DEF Frames
    <3>3. hd \in Headers
      BY <1>w DEF Frames
    <3>4. QED
      BY <3>1, <3>2, <3>3, MessageTypes DEF Message
  <2>4. q # <<>> /\ q[Len(q)] = Message("header", hd)
    <3>1. PICK n \in 0..2 : Units(q, n, <<Message("header", hd)>>)
      BY <1>c, <2>1 DEF Announced, q
    <3> HIDE DEF hd
    <3>2. QED
      BY <1>v, <2>3, <3>1, UnitsLast
  <2>5. q[Len(q)].tag = "header" /\ q[Len(q)].body.part = p
    BY <2>4 DEF Message
  <2> HIDE DEF hd, p, m, locals
  <2>6. Tells(Append(q, m), s, k)
    BY <1>o, <1>v, <2>3, <2>4, <2>5, TellsMore
  <2>7. Coming(Append(a, m)) = Coming(a)
    BY <1>v, <2>3, ComingMore
  <2>8. reply'[h] = Append(a, m) /\ Ahead(c)' = Append(q, m)
    BY <1>v, <2>2, <2>3
  <2>9. Append(a, m) \in Seq(Messages) /\ Append(q, m) \in Seq(Messages)
    BY <1>v, <2>3, AppendItems
  <2>10. ASSUME NEW i \in 1..Len(Append(a, m)), Append(a, m)[i].tag = "nothing"
         PROVE  \A y \in want \ Coming(Append(a, m)) : ~There(s, k, y)
    <3>1. i \in 1..Len(a) /\ a[i].tag = "nothing"
      <4>1. /\ Len(Append(a, m)) = Len(a) + 1 /\ Append(a, m)[Len(a) + 1] = m
            /\ \A l \in 1..Len(a) : Append(a, m)[l] = a[l]
        BY <1>v, <2>3, AppendItems
      <4>2. i # Len(a) + 1
        BY <2>3, <2>10, <4>1
      <4>3. i \in 1..Len(a)
        BY <1>v, <4>1, <4>2
      <4>4. QED
        BY <2>10, <4>1, <4>3
    <3>2. QED
      BY <1>o, <2>7, <3>1
  <2>11. QED
    BY <1>r, <2>1, <2>2, <2>3, <2>6, <2>7, <2>8, <2>9, <2>10
<1>6. ASSUME ~ReadRequest(h), ~ServeNothing(h), ~ServeHeader(h), ~SendPart(h)
      PROVE  reply'[h] = a /\ pc'[h] \notin {"serve", "send"}
  <2>1. ~ServeUnopened(h)
    BY <1>f DEF ServeUnopened
  <2>2. ScanForDirectory(h) \/ ReadCommand(h)
    BY <1>c, <1>6, <1>d, <2>1 DEF HandlerStep, Authenticate, MakeUserDirectory,
       List, OpenPart, WritePart, Spin
  <2>3. QED
    <3>1. AsCommand(Incoming(h), cmd[h]) \subseteq Commands
      <4>1. Incoming(h) \in Messages /\ cmd[h] \in Commands
        BY <1>t, ReadTypes DEF TypeOK
      <4>2. Incoming(h).tag = "command" => Incoming(h).body \in Commands
        BY <4>1 DEF Messages
      <4>3. Stale(cmd[h]) \in Commands /\ NoCommand(cmd[h].name) \in Commands
        BY <4>1 DEF Commands, Stale, NoCommand, Ops, Dirs
      <4>4. QED
        BY <4>2, <4>3 DEF AsCommand
    <3>2. \A x \in Commands : FirstState(x.op) \in {"list", "header", "request", "free"}
      BY DEF Commands, Ops, FirstState
    <3>3. CASE ReadCommand(h)
      <4>1. PICK x \in Commands :
              IF FirstState(x.op) = "free" THEN Close(h) ELSE Goto(h, FirstState(x.op), frame[h])
        BY <3>1, <3>3 DEF ReadCommand
      <4>2. pc'[h] \in {"list", "header", "request", "free"}
        BY <1>v, <3>2, <4>1 DEF Goto, Close
      <4>3. QED
        BY <3>3, <4>2 DEF ReadCommand, a
    <3>4. CASE ScanForDirectory(h)
      BY <1>v, <3>4 DEF ScanForDirectory, Goto, a
    <3>5. QED
      BY <2>2, <3>3, <3>4
<1>7. QED
  BY <1>1, <1>2, <1>3, <1>4, <1>5, <1>6

\* All that handlers and failures of servers can do.
LEMMA AloneHandlers ==
  ASSUME AloneInv, Alone, NEW h \in Handlers, HandlerStep(h),
         UNCHANGED <<clientVars, historyVars>>, NEW c \in Clients
  PROVE  AloneOK(c)'
<1>1. CASE peer[h] # c
  <2>1. TypeInv /\ StepInv /\ AloneOK(c)
    BY DEF AloneInv, CalmInv, StepInv
  <2>2. QED
    BY <1>1, <2>1, HandlerOfAnother, AloneUntouched
<1>2. CASE peer[h] = c
  <2>1. CalmInv /\ AloneOK(c)
    BY DEF AloneInv
  <2>2. OfClient(c, h)
    BY <1>2, <2>1, CalmStep DEF OfClient
  <2>3. /\ Serving(c)' /\ WholeFiles(c)' /\ PutStored(c)' /\ Held(c)' /\ Answering(c)'
    BY <2>2, HandlerServing, HandlerWholeFiles, HandlerPutStored, HandlerHeld, HandlerAnswers
  <2>4. /\ UNCHANGED <<cpc, job, last, missed>> /\ PathKey(c)' = PathKey(c)
        /\ \A s : OwnPair(c, s)' = OwnPair(c, s)
    BY <2>2, HandlerOfOne DEF clientVars, historyVars
  <2>5. Placed(c)' /\ BufsFrom(c, Contents)'
    BY <2>1, <2>4 DEF AloneOK, Placed, BufsFrom
  <2>6. QED
    BY <2>3, <2>5 DEF AloneOK, Files
<1>3. QED
  BY <1>1, <1>2

\* A server is only killed when nobody talks to it, and keeps its files.
LEMMA AloneFaults ==
  ASSUME AloneInv, Alone, NEW s \in Servers, Outage(s), NEW c \in Clients
  PROVE  Undisturbed(c)
<1>t. TypeInv /\ StepInv /\ TypeOK /\ AloneOK(c)
  BY DEF AloneInv, CalmInv, StepInv, TypeInv, Inv
<1>1. Quiet /\ (Crash(s) \/ Restart(s)) /\ UNCHANGED <<clientVars, historyVars>>
  BY DEF Outage, Alone, Calm
<1>2. /\ \A h \in Handlers : pc[h] = "free"
      /\ ~InSession(c)
  BY <1>1 DEF Quiet, Drained, InSession
<1>3. \A h \in Handlers : pc'[h] = "free"
  BY <1>1, <1>2, <1>t DEF Crash, Restart, Halt
<1>4. UNCHANGED disk
  BY <1>1 DEF Crash, Restart, Halt
<1>5. QED
  <2>1. SameClient(c) /\ UNCHANGED <<latest, missed>>
    BY <1>1 DEF SameClient, clientVars, historyVars
  <2>2. \A h \in Handlers : ~OfClient(c, h) /\ ~OfClient(c, h)'
    BY <1>2, <1>3 DEF OfClient
  <2>3. \A k \in Own(c), t \in Servers, p \in Parts : At(t, k, p)' = At(t, k, p)
    BY <1>4 DEF At
  <2>4. QED
    BY <1>2, <2>1, <2>2, <2>3 DEF Undisturbed

(***************************************************************************)
(* What the step of a client does to the servers: it may be connected to   *)
(* one more handler, or write to its own.                                  *)
(***************************************************************************)
LEMMA ClientReaches ==
  ASSUME AloneInv, Alone, NEW c \in Clients, UserStep(c)
  PROVE  /\ UNCHANGED disk /\ ~ExitClient(c) /\ ~PutUnopened(c)
         /\ ~Connect(c) => /\ UNCHANGED <<pc, frame, cmd, peer>>
                           /\ \A h \in Handlers : peer[h] # c => inbox'[h] = inbox[h]
         /\ Connect(c) => \E h \in Handlers : 
              /\ StartsAt(c, h) /\ pc[h] = "free"
              /\ ServerOf(h) = job[c].turn
              /\ \A k \in Handlers \ {h} : inbox'[k] = inbox[k]
         /\ \A k \in Paths : k # PathKey(c) => latest'[k] = latest[k] /\ missed'[k] = missed[k]
<1>t. /\ TypeInv /\ TypeOK /\ CalmInv /\ StepInv /\ ~MayKill /\ Login[c] \in Accounts
      /\ inbox \in [Handlers -> Seq(Messages)]
      /\ latest \in [Paths -> Contents \cup {None}] /\ missed \in [Paths -> SUBSET Servers]
  BY DEF AloneInv, CalmInv, StepInv, TypeInv, Inv, TypeOK, Alone, Calm, ClientTypeOK
<1>0. ~ExitClient(c) /\ ~PutUnopened(c)
  BY <1>t, InsiderSteps
<1> DEFINE Kept0 == /\ UNCHANGED <<disk, pc, frame, cmd, peer>>
                    /\ \A h \in Handlers : peer[h] # c => inbox'[h] = inbox[h]
           Paths0 == \A k \in Paths : k # PathKey(c) => latest'[k] = latest[k] /\ missed'[k] = missed[k]
<1>1. CASE Write(c)
  <2>1. UNCHANGED <<disk, pc, frame, cmd, peer, latest, missed>>
    BY <1>1 DEF Write, storeVars, historyVars
  <2>2. ASSUME NEW h \in Handlers, peer[h] # c PROVE inbox'[h] = inbox[h]
    <3>1. h # sess[c]
      BY <1>1, <1>t, <2>2 DEF Write, TypeInv, SessionOK, InSession
    <3>2. QED
      BY <1>1, <1>t, <3>1 DEF Write
  <2>3. ~Connect(c)
    BY <1>1 DEF Write, Connect
  <2>4. QED
    BY <1>0, <2>1, <2>2, <2>3
<1>2. CASE Connect(c)
  <2>1. PICK h \in Handlers :
          /\ ServerOf(h) = job[c].turn
          /\ Accept(h, <<Message("login", Login[c])>>, FALSE)
    BY <1>2 DEF Connect
  <2>2. /\ pc[h] = "free" /\ UNCHANGED disk /\ UNCHANGED historyVars
        /\ \A k \in Handlers \ {h} : inbox'[k] = inbox[k]
    BY <1>2, <1>t, <2>1 DEF Connect, Accept, storeVars
  <2>3. PICK g \in Handlers : StartsAt(c, g)
    BY <1>2, <1>t, SessionStarts
  <2>4. g = h
    <3>1. pc'[h] = "auth"
      BY <1>t, <2>1 DEF Accept, Goto, TypeOK
    <3>2. QED
      BY <2>2, <2>3, <3>1 DEF StartsAt
  <2>5. QED
    BY <1>0, <1>2, <2>1, <2>2, <2>3, <2>4 DEF historyVars
<1>3. CASE Finish(c)
  <2>1. UNCHANGED serverVars /\ UNCHANGED peer
    BY <1>3 DEF Finish
  <2>2. Paths0
    BY <1>3, <1>t DEF Finish
  <2>3. ~Connect(c)
    BY <1>3 DEF Finish, Connect
  <2>4. QED
    BY <1>0, <2>1, <2>2, <2>3 DEF serverVars
<1>4. CASE (Enter(c) \/ ServerOffline(c) \/ SpinClient(c)) /\ ~Connect(c)
  <2>1. UNCHANGED serverVars /\ UNCHANGED <<peer, historyVars>>
    BY <1>4 DEF Enter, ServerOffline, SpinClient
  <2>2. QED
    BY <1>0, <1>4, <2>1 DEF serverVars, historyVars
<1>5. CASE LoginAccepted(c) \/ ReadListing(c) \/ NoMoreParts(c) \/ ReadHeader(c) \/ ReadBytes(c)
  <2>1. /\ UNCHANGED <<storeVars, pc, frame, cmd, inbox, peer, historyVars>>
    BY <1>5 DEF LoginAccepted, ReadListing, NoMoreParts, ReadHeader, ReadBytes
  <2>2. ~Connect(c)
    BY <1>5 DEF LoginAccepted, ReadListing, NoMoreParts, ReadHeader, ReadBytes, Connect
  <2>3. QED
    BY <1>0, <2>1, <2>2 DEF storeVars, historyVars
<1>6. ~ReadGarbage(c)
  <2>1. Insider(c)
    BY <1>t DEF CalmInv, ClientOK
  <2>2. QED
    BY <1>t, <2>1, InsiderReads
<1>7. QED
  BY <1>0, <1>1, <1>2, <1>3, <1>4, <1>5, <1>6, <1>t
     DEF UserStep, ClientStep, Kill, LoginRefused, WriteBroken

\* The other clients do not notice.
LEMMA AloneOthers ==
  ASSUME AloneInv, Alone, NEW c \in Clients, UserStep(c), NEW d \in Clients \ {c}
  PROVE  Undisturbed(d)
<1>t. /\ TypeInv /\ TypeOK /\ StepInv /\ CalmInv /\ AloneOK(d) /\ Login[c][1] # Login[d][1]
      /\ peer \in [Handlers -> Clients \cup {None}]
  BY DEF AloneInv, CalmInv, StepInv, TypeInv, Inv, ClientTypeOK, Alone
<1>1. SameClient(d) /\ (InSession(d) => SameConnection(sess[d]))
  BY <1>t, OtherClients
<1>2. \A k \in Own(d) : latest'[k] = latest[k] /\ missed'[k] = missed[k]
  <2>1. \A k \in Own(d) : k \in Paths /\ k # PathKey(c)
    BY <1>t DEF Own, PathKey
  <2>2. QED
    BY <2>1, ClientReaches
<1>3. \A k \in Own(d), s \in Servers, p \in Parts : At(s, k, p)' = At(s, k, p)
  BY ClientReaches DEF At
<1>4. ASSUME NEW h \in Handlers
      PROVE  /\ OfClient(d, h)' <=> OfClient(d, h)
             /\ OfClient(d, h) => /\ pc'[h] = pc[h] /\ frame'[h] = frame[h] /\ cmd'[h] = cmd[h]
                                  /\ inbox'[h] = inbox[h]
  <2>1. CASE ~Connect(c)
    <3>1. /\ UNCHANGED <<pc, frame, cmd, peer>>
          /\ peer[h] # c => inbox'[h] = inbox[h]
      BY <2>1, ClientReaches
    <3>2. QED
      BY <3>1 DEF OfClient
  <2>2. CASE Connect(c)
    <3>1. PICK g \in Handlers :
            /\ StartsAt(c, g) /\ pc[g] = "free"
            /\ \A k \in Handlers \ {g} : inbox'[k] = inbox[k]
      BY <2>2, ClientReaches
    <3>2. CASE h = g
      BY <3>1, <3>2 DEF StartsAt, OfClient
    <3>3. CASE h # g
      BY <3>1, <3>3 DEF StartsAt, OfClient
    <3>4. QED
      BY <3>2, <3>3
  <2>3. QED
    BY <2>1, <2>2
<1>5. QED
  BY <1>1, <1>2, <1>3, <1>4 DEF Undisturbed

(***************************************************************************)
(* The client itself.  In the middle of a command its handlers are the one *)
(* of its session and those it left behind, the pairs of the servers it is *)
(* done with do not change any more.                                       *)
(***************************************************************************)
Onward(c) ==
  /\ job'[c] \in Jobs /\ job'[c].task = job[c].task
  /\ job'[c].want = job[c].want \/ job[c].task.op = "get"
  /\ \/ job'[c].turn = job[c].turn /\ job'[c].offline = job[c].offline
     \/ /\ job'[c].turn = job[c].turn + 1 /\ job[c].turn <= MAXSERVERS
        /\ job'[c].offline \in {job[c].offline, job[c].offline \cup {job[c].turn}}

\* The pairs of the servers behind it.
LEMMA OnwardPairs ==
  ASSUME AloneInv, Alone, NEW c \in Clients, Onward(c)
  PROVE  /\ PathKey(c)' = PathKey(c) /\ Own(c)' = Own(c)
         /\ \A s \in Servers : s < job[c].turn =>
              /\ OwnPair(c, s)' = OwnPair(c, s)
              /\ s \in job'[c].offline <=> s \in job[c].offline
         /\ job'[c].offline = job[c].offline =>
              \A s \in Servers : OwnPair(c, s)' = OwnPair(c, s)
<1>t. TypeInv /\ job[c].turn \in 1..5 /\ Servers = 1..MAXSERVERS
  <2>1. TypeInv
    BY DEF AloneInv, CalmInv, StepInv
  <2>2. QED
    BY <2>1, SessionTurn, ClientAssumption DEF Jobs, MAXSERVERS
<1>1. PathKey(c)' = PathKey(c) /\ Own(c)' = Own(c)
  BY DEF Onward, PathKey, Own
<1>2. job'[c].offline = job[c].offline => \A s \in Servers : OwnPair(c, s)' = OwnPair(c, s)
  BY DEF Onward, OwnPair
<1>3. ASSUME NEW s \in Servers, s < job[c].turn
      PROVE  OwnPair(c, s)' = OwnPair(c, s) /\ (s \in job'[c].offline <=> s \in job[c].offline)
  <2>1. CASE job'[c].offline = job[c].offline
    BY <1>2, <2>1
  <2>2. CASE job'[c].offline = job[c].offline \cup {job[c].turn} /\ job[c].turn \in 1..MAXSERVERS
    <3> DEFINE first == get_md5_mod(Digest[job[c].task.content])
               t == job[c].turn
               out == job[c].offline
    <3>1. s \in 1..t
      BY <1>3, <1>t DEF MAXSERVERS
    <3>2. job[c].task.op = "put" => PairAt(first, out \cup {t}, s) = PairAt(first, out, s)
      <4>1. job[c].task.op = "put" => first \in Pairs
        BY <1>t, OwnPairType
      <4>2. t \in 1..MAXSERVERS
        BY <2>2
      <4> HIDE DEF first, t, out
      <4>3. QED
        BY <3>1, <4>1, <4>2, PairSteps
    <3>3. QED
      BY <1>3, <1>t, <2>2, <3>2 DEF OwnPair, Onward
  <2>3. QED
    BY <1>t, <2>1, <2>2 DEF Onward, MAXSERVERS
<1>4. QED
  BY <1>1, <1>2, <1>3

\* The handlers left behind remain so as the client goes on.
LEMMA LeftStays ==
  ASSUME AloneInv, Alone, NEW c \in Clients, Onward(c), NEW h \in Handlers, LeftBehind(c, h),
         pc'[h] = pc[h], frame'[h] = frame[h], cmd'[h] = cmd[h], inbox'[h] = inbox[h]
  PROVE  LeftBehind(c, h)'
<1> DEFINE s == ServerOf(h)
           j == JobAt(c, s)
           i == JobAt(c, s)'
<1>1. /\ s < job[c].turn /\ s \in Servers /\ job[c].turn \in Nat
      /\ job[c].task.op \in {"put", "MKDIR"} /\ s \notin job[c].offline
      /\ CarriesOut(pc[h], frame[h], cmd[h], Login[c], j, inbox[h])
      /\ job[c] \in Jobs
  <2>1. TypeInv
    BY DEF AloneInv, CalmInv, StepInv
  <2>2. job[c] \in Jobs
    BY <2>1, SessionTurn
  <2>3. QED
    BY <2>2 DEF LeftBehind, Handlers, ServerOf, Jobs, MAXSERVERS
<1>2. /\ OwnPair(c, s)' = OwnPair(c, s) /\ s \notin job'[c].offline /\ s < job'[c].turn
  <2>1. OwnPair(c, s)' = OwnPair(c, s) /\ s \notin job'[c].offline
    BY <1>1, OnwardPairs
  <2>2. s \in Nat /\ (job'[c].turn = job[c].turn \/ job'[c].turn = job[c].turn + 1)
    BY <1>1, ClientAssumption DEF Onward, MAXSERVERS
  <2>3. QED
    BY <1>1, <2>1, <2>2
<1>3. j.task = i.task /\ j.want = i.want /\ j.pair = i.pair
  <2>1. j.task = job[c].task /\ j.want = job[c].want /\ j.pair = OwnPair(c, s)
    BY <1>1 DEF JobAt, Jobs
  <2>2. i = [job'[c] EXCEPT !.pair = OwnPair(c, s)']
    BY DEF JobAt
  <2>3. job'[c].task = job[c].task /\ job'[c].want = job[c].want
    BY <1>1 DEF Onward
  <2>4. i.task = job'[c].task /\ i.want = job'[c].want /\ i.pair = OwnPair(c, s)'
    BY <2>2 DEF Onward, Jobs
  <2>5. QED
    BY <1>2, <2>1, <2>3, <2>4
<1> HIDE DEF i, j
<1>4. CarriesOut(pc[h], frame[h], cmd[h], Login[c], i, inbox[h])
  BY <1>1, <1>3, SameLeft
<1>5. QED
  BY <1>1, <1>2, <1>4 DEF LeftBehind, Onward, i

\* The handlers are still those of the session and those left behind.
LEMMA ServingGoesOn ==
  ASSUME AloneInv, Alone, NEW c \in Clients, UserStep(c), ~Connect(c), Onward(c),
         \A h \in Handlers : OfClient(c, h) /\ ~(InSession(c) /\ h = sess[c]) =>
           inbox'[h] = inbox[h],
         InSession(c) =>
           \/ InSession(c)' /\ sess'[c] = sess[c]
           \/ \A h \in Handlers : OfClient(c, h) /\ h = sess[c] => LeftBehind(c, h)'
  PROVE  Serving(c)'
<1>1. Serving(c) /\ UNCHANGED <<pc, frame, cmd, peer>>
  BY ClientReaches DEF AloneInv, AloneOK
<1>2. \A h \in Handlers : OfClient(c, h)' <=> OfClient(c, h)
  BY <1>1 DEF OfClient
<1>3. ASSUME NEW h \in Handlers, OfClient(c, h)
      PROVE  (InSession(c)' /\ h = sess'[c]) \/ LeftBehind(c, h)'
  <2>1. CASE InSession(c) /\ h = sess[c]
    BY <1>3, <2>1
  <2>2. CASE ~(InSession(c) /\ h = sess[c])
    <3>1. LeftBehind(c, h) /\ inbox'[h] = inbox[h]
      BY <1>1, <1>3, <2>2 DEF Serving
    <3>2. QED
      BY <1>1, <3>1, LeftStays
  <2>3. QED
    BY <2>1, <2>2
<1>4. QED
  BY <1>1, <1>2, <1>3 DEF Serving

\* Nor do they disappear.
LEMMA HeldStays ==
  ASSUME NEW c \in Clients, Held(c), UNCHANGED <<disk, latest, missed>>, cpc[c] # "idle"
  PROVE  Held(c)'
<1>1. Own(c)' = Own(c)
  BY DEF Own
<1>2. ASSUME NEW k \in Own(c), NEW s \in Servers, latest'[k] # None, s \notin missed'[k]
      PROVE  \E p \in Parts : There(s, k, p)'
  <2>1. \E p \in Parts : There(s, k, p)
    BY <1>2 DEF Held
  <2>2. QED
    BY <2>1 DEF There, At
<1>3. QED
  BY <1>1, <1>2 DEF Held

\* The files do not change under the steps of the client, nor what is known of
\* them as long as no server it is done with gets one.
LEMMA FilesRemain ==
  ASSUME AloneInv, Alone, NEW c \in Clients, Onward(c), UNCHANGED disk,
         \A h \in Handlers : OfClient(c, h) =>
           OfClient(c, h)' /\ pc'[h] = pc[h] /\ frame'[h] = frame[h],
         \A h \in Handlers : OfClient(c, h)' => OfClient(c, h) \/ pc'[h] = "auth",
         job'[c].offline = job[c].offline \/ ~InSession(c),
         job[c].task.op = "put" =>
           \A s \in Servers : s < job'[c].turn /\ s \notin job'[c].offline =>
             s < job[c].turn \/ \E h \in Handlers : OfClient(c, h) /\ ServerOf(h) = s
  PROVE  WholeFiles(c)' /\ PutStored(c)'
<1>t. /\ AloneOK(c) /\ Serving(c) /\ WholeFiles(c) /\ PutStored(c)
      /\ PathKey(c)' = PathKey(c) /\ Own(c)' = Own(c)
      /\ \A s, k, p : At(s, k, p)' = disk[s][<<k[1], k[2], k[3], p>>]'
  BY OnwardPairs DEF AloneInv, AloneOK, Files, At
<1>1. ASSUME NEW h \in Handlers, OfClient(c, h)', pc'[h] # "auth"
      PROVE  OfClient(c, h) /\ pc'[h] = pc[h] /\ frame'[h] = frame[h]
  BY <1>1
<1>2. WholeFiles(c)'
  <2>1. ASSUME NEW s \in Servers, NEW k \in Own(c), NEW p \in Parts
        PROVE  /\ Writes(c, s, k, p)' <=> Writes(c, s, k, p)
               /\ At(s, k, p)' = At(s, k, p)
    <3>1. ASSUME Writes(c, s, k, p)' PROVE Writes(c, s, k, p)
      <4>1. PICK h \in Handlers : /\ OfClient(c, h)' /\ pc'[h] = "data" /\ ServerOf(h) = s
                                  /\ k = PathKey(c)' /\ frame'[h].hdr.part = p
        BY <3>1 DEF Writes
      <4>2. QED
        BY <1>1, <1>t, <4>1 DEF Writes
    <3>2. ASSUME Writes(c, s, k, p) PROVE Writes(c, s, k, p)'
      BY <1>t, <3>2 DEF Writes
    <3>3. QED
      BY <3>1, <3>2 DEF At
  <2>2. ASSUME NEW s \in Servers, NEW k \in Own(c), NEW p \in Parts
        PROVE  \/ Writes(c, s, k, p)'
               \/ At(s, k, p)' = Absent \/ \E x \in Contents : At(s, k, p)' = Cut(x, p)
    BY <1>t, <2>1 DEF WholeFiles
  <2>3. HalfWritten(c)'
    <3>1. job'[c].task = job[c].task /\ HalfWritten(c)
      BY <1>t DEF Onward, WholeFiles
    <3>2. \A s, p : At(s, PathKey(c), p)' = At(s, PathKey(c), p)
      BY <1>t DEF At
    <3>3. QED
      BY <1>1, <1>t, <3>1, <3>2, HalfStays
  <2>4. QED
    BY <1>t, <2>2, <2>3 DEF WholeFiles
<1>3. PutStored(c)'
  <2>0. job'[c].task = job[c].task
    BY DEF Onward
  <2>1. ASSUME NEW s \in Servers, s < job[c].turn \/ job'[c].offline = job[c].offline,
               NEW n, Kept(c, s, n)
        PROVE  Kept(c, s, n)'
    <3>1. OwnPair(c, s)' = OwnPair(c, s)
      BY <2>1, OnwardPairs
    <3>2. QED
      BY <1>t, <2>0, <2>1, <3>1 DEF Kept, At
  <2>2. ASSUME job[c].task.op = "put", NEW s \in Servers, s < job'[c].turn, s \notin job'[c].offline,
               \A h \in Handlers : OfClient(c, h)' => ServerOf(h) # s
        PROVE  Kept(c, s, 0)' /\ Kept(c, s, 1)'
    <3>1. s < job[c].turn /\ \A h \in Handlers : OfClient(c, h) => ServerOf(h) # s
      BY <2>2
    <3>2. s \notin job[c].offline
      BY <2>2, <3>1, OnwardPairs
    <3>3. Kept(c, s, 0) /\ Kept(c, s, 1)
      BY <1>t, <2>2, <3>1, <3>2 DEF PutStored
    <3>4. QED
      BY <2>1, <3>1, <3>3
  <2>3. ASSUME job[c].task.op = "put", NEW h \in Handlers, OfClient(c, h)',
               pc'[h] \in {"header", "data"}, frame'[h].round = 2
        PROVE  Kept(c, ServerOf(h), 0)'
    <3>0. /\ OfClient(c, h) /\ pc[h] \in {"header", "data"} /\ frame[h].round = 2
      BY <1>1, <2>3
    <3>1. Kept(c, ServerOf(h), 0) /\ ServerOf(h) \in Servers
      BY <1>t, <2>3, <3>0 DEF PutStored, Handlers, ServerOf
    <3>2. ServerOf(h) < job[c].turn \/ job'[c].offline = job[c].offline
      BY <1>t, <3>0 DEF Serving, LeftBehind
    <3>3. QED
      BY <2>1, <3>1, <3>2
  <2>4. QED
    BY <2>0, <2>2, <2>3 DEF PutStored
<1>4. QED
  BY <1>2, <1>3

\* Nor does a put owe a server anything more.
LEMMA FilesStay ==
  ASSUME AloneInv, Alone, NEW c \in Clients, UserStep(c), ~Connect(c), Onward(c),
         cpc[c] # "idle", UNCHANGED <<latest, missed>>,
         job'[c].offline = job[c].offline \/ ~InSession(c),
         job[c].task.op = "put" =>
           \A s \in Servers : s < job'[c].turn /\ s \notin job'[c].offline =>
             s < job[c].turn \/ \E h \in Handlers : OfClient(c, h) /\ ServerOf(h) = s
  PROVE  Files(c)'
<1>t. /\ UNCHANGED <<disk, pc, frame, cmd, peer>> /\ Held(c)
      /\ Own(c)' = Own(c)
  BY ClientReaches, OnwardPairs DEF AloneInv, AloneOK, Files
<1>1. \A h \in Handlers : OfClient(c, h)' <=> OfClient(c, h)
  BY <1>t DEF OfClient
<1>2. WholeFiles(c)' /\ PutStored(c)'
  BY <1>1, <1>t, FilesRemain
<1>4. Held(c)'
  BY <1>t, HeldStays
<1>5. QED
  BY <1>2, <1>4 DEF Files

\* Where the pair of put is that of the server whose turn it is.
LEMMA PlacedGoesOn ==
  ASSUME AloneInv, Alone, NEW c \in Clients, Onward(c), cpc[c] # "idle", cpc'[c] # "idle",
         job'[c].turn = job[c].turn, job[c].task.op = "put" => job'[c].pair = job[c].pair
  PROVE  Placed(c)'
<1>2. Servers = 1..MAXSERVERS /\ job[c].turn \in 1..5
  <2>1. TypeInv
    BY DEF AloneInv, CalmInv, StepInv
  <2>2. QED
    BY <2>1, SessionTurn, ClientAssumption DEF Jobs, MAXSERVERS
<1>3. job'[c].offline = job[c].offline /\ job'[c].task = job[c].task
  BY <1>2 DEF Onward
<1>1. Placed(c) /\ \A s \in Servers : OwnPair(c, s)' = OwnPair(c, s)
  BY <1>3, OnwardPairs DEF AloneInv, AloneOK
<1>4. job[c].turn <= MAXSERVERS => job[c].turn \in Servers
  BY <1>2
<1>5. QED
  BY <1>1, <1>3, <1>4 DEF Placed

\* The next server gets the next pair.
LEMMA PlacedMovesOn ==
  ASSUME AloneInv, Alone, NEW c \in Clients, Onward(c), cpc[c] # "idle", cpc'[c] # "idle",
         job'[c].turn = job[c].turn + 1,
         job[c].task.op = "put" =>
           job'[c].pair = IF job'[c].offline = job[c].offline THEN WrapPair(job[c].pair) + 1
                                                               ELSE job[c].pair
  PROVE  Placed(c)'
<1> DEFINE t == job[c].turn
           out == job[c].offline
           first == get_md5_mod(Digest[job[c].task.content])
<1>1. TypeInv /\ Placed(c)
  BY DEF AloneInv, CalmInv, StepInv, AloneOK
<1>2. /\ t \in 1..4 /\ Servers = 1..4 /\ MAXSERVERS = 4
      /\ job'[c].offline \in {out, out \cup {t}} /\ job'[c].task = job[c].task
  BY <1>1, SessionTurn, ClientAssumption DEF Jobs, Onward, MAXSERVERS
<1>3. job'[c].offline \subseteq 1..(job'[c].turn - 1)
  BY <1>1, <1>2 DEF Placed
<1>4. ASSUME job[c].task.op = "put", t + 1 <= MAXSERVERS
      PROVE  WrapPair(job'[c].pair) = OwnPair(c, job[c].turn)'
  <2>1. /\ first \in Pairs /\ PairAt(first, out, t) = WrapPair(job[c].pair)
        /\ t \notin out
    <3>1. first \in Pairs
      BY <1>1, <1>4, OwnPairType
    <3>2. PairAt(first, out, t) = WrapPair(job[c].pair)
      BY <1>1, <1>2, <1>4 DEF Placed, OwnPair
    <3>3. t \notin out
      BY <1>1, <1>2 DEF Placed
    <3>4. QED
      BY <3>1, <3>2, <3>3
  <2>2. OwnPair(c, job[c].turn)' = PairAt(first, job'[c].offline, t + 1)
    BY <1>2, <1>4 DEF OwnPair
  <2>n. t \in 1..MAXSERVERS /\ t < MAXSERVERS
    BY <1>2, <1>4
  <2> HIDE DEF first, out, t
  <2>s. /\ WrapPair(PairAt(first, out, t) + 1) = PairAt(first, out, t + 1)
        /\ PairAt(first, out \cup {t}, t) = PairAt(first, out, t)
        /\ t \in out \cup {t} =>
             PairAt(first, out \cup {t}, t) = PairAt(first, out \cup {t}, t + 1)
    <3>1. first \in Pairs /\ t \notin out /\ t \in 1..t
      BY <2>1, <2>n
    <3>2. /\ t < MAXSERVERS /\ t \notin out =>
              WrapPair(PairAt(first, out, t) + 1) = PairAt(first, out, t + 1)
          /\ \A r \in 1..t : PairAt(first, out \cup {t}, r) = PairAt(first, out, r)
      BY <3>1, <2>n, PairSteps
    <3>3. \A o : t < MAXSERVERS /\ t \in o => PairAt(first, o, t) = PairAt(first, o, t + 1)
      BY <3>1, <2>n, PairSteps
    <3>4. QED
      BY <2>n, <3>1, <3>2, <3>3
  <2>3. CASE job'[c].offline = out
    <3>1. WrapPair(PairAt(first, out, t) + 1) = PairAt(first, out, t + 1)
      BY <2>s
    <3>2. job'[c].pair = PairAt(first, out, t) + 1
      BY <1>4, <2>1, <2>3 DEF out
    <3>3. QED
      BY <2>2, <2>3, <3>1, <3>2
  <2>4. CASE job'[c].offline # out
    <3>1. job'[c].offline = out \cup {t} /\ job'[c].pair = job[c].pair
      BY <1>2, <1>4, <2>4 DEF out
    <3>2. PairAt(first, out \cup {t}, t) = PairAt(first, out, t)
      BY <2>s
    <3>3. PairAt(first, out \cup {t}, t) = PairAt(first, out \cup {t}, t + 1)
      BY <2>s
    <3>4. QED
      BY <2>1, <2>2, <3>1, <3>2, <3>3
  <2>5. QED
    BY <2>3, <2>4
<1>5. QED
  BY <1>2, <1>3, <1>4 DEF Placed

\* What is known of a client of an account that does something.
LEMMA OwnStep ==
  ASSUME AloneInv, Alone, NEW c \in Clients, UserStep(c)
  PROVE  /\ TypeInv /\ TypeOK /\ ClientTypeOK /\ CalmInv /\ AloneOK(c)
         /\ job[c] \in Jobs /\ job'[c] \in Jobs /\ job[c].turn \in Nat
         /\ Insider(c) /\ Insider(c)' /\ StepOK(c) /\ ~MayKill /\ Login[c] \in Accounts
         /\ SessionOK(c) /\ UNCHANGED disk
<1>1. /\ TypeInv /\ TypeOK /\ ClientTypeOK /\ CalmInv /\ AloneOK(c) /\ ~MayKill
      /\ Login[c] \in Accounts /\ StepOK(c) /\ SessionOK(c)
  BY DEF AloneInv, CalmInv, StepInv, TypeInv, Inv, Alone, Calm
<1>2. Insider(c) /\ Insider(c)'
  BY <1>1, InsiderSteps DEF CalmInv, ClientOK
<1>3. job'[c] \in Jobs /\ job[c] \in Jobs
  BY <1>1, UserTypes DEF TypeInv, ClientTypeOK
<1>4. job[c].turn \in Nat
  BY <1>3 DEF Jobs, MAXSERVERS
<1>5. QED
  BY <1>1, <1>2, <1>3, <1>4, ClientReaches

\* A command begins when the last one is over: what that left is kept as the
\* user will expect it.
LEMMA AloneEnter ==
  ASSUME AloneInv, Alone, NEW c \in Clients, Enter(c)
  PROVE  AloneOK(c)'
<1> DEFINE task == Head(todo[c])
<1>t. /\ TypeInv /\ ClientTypeOK /\ AloneOK(c) /\ task \in TaskTypes /\ cpc[c] = "idle"
      /\ task.op = "put" => task.content # None
      /\ Serving(c) /\ Placed(c) /\ WholeFiles(c) /\ PutStored(c) /\ Held(c)
  <2>1. TypeInv /\ ClientTypeOK /\ AloneOK(c) /\ cpc[c] = "idle" /\ todo[c] # <<>>
    BY OwnStep DEF UserStep, Enter
  <2>2. task \in TaskTypes
    BY <2>1, TailItems DEF ClientTypeOK
  <2>3. QED
    BY <2>1, <2>2 DEF AloneOK, Files, Enter, Sendable
<1>1. /\ \A h \in Handlers : pc[h] = "free"
      /\ UNCHANGED <<disk, pc, frame, cmd, inbox, reply, peer, latest, missed>>
  BY DEF Enter, Alone, Drained, serverVars, storeVars, historyVars
<1>2. cpc'[c] = "connect" /\ job'[c] = NewJob(task) /\ NewJob(task) \in Jobs
  <2>1. NewJob(task) \in Jobs
    BY <1>t, NewJobType
  <2>2. Step(c, "connect", NewJob(task))
    BY DEF Enter
  <2> HIDE DEF task
  <2>3. QED
    BY <1>t, <2>1, <2>2, StepType DEF ClientStates
<1> HIDE DEF task
<1>3. /\ job'[c].task = task /\ job'[c].turn = 1 /\ job'[c].offline = {}
      /\ job'[c].want = Parts
      /\ task.op = "put" => job'[c].pair = get_md5_mod(Digest[task.content])
  BY <1>2 DEF NewJob
<1>4. \A h \in Handlers : ~OfClient(c, h) /\ ~OfClient(c, h)'
  BY <1>1 DEF OfClient
<1>5. Serving(c)'
  BY <1>4 DEF Serving
<1>6. Placed(c)'
  <2>1. task.op = "put" => WrapPair(job'[c].pair) = OwnPair(c, 1)'
    <3> SUFFICES ASSUME task.op = "put" PROVE WrapPair(job'[c].pair) = OwnPair(c, 1)'
      OBVIOUS
    <3>1. get_md5_mod(Digest[task.content]) \in Pairs
      <4>1. task.content \in Contents
        BY <1>t DEF TaskTypes
      <4>2. QED
        BY <4>1, DigestGivesPair, ClientAssumption
    <3>2. OwnPair(c, 1)' = PairAt(get_md5_mod(Digest[task.content]), {}, 1)
      BY <1>3 DEF OwnPair
    <3>3. OwnPair(c, 1)' = get_md5_mod(Digest[task.content])
      <4>1. 1 \in 1..MAXSERVERS
        BY DEF MAXSERVERS
      <4>2. QED
        BY <3>1, <3>2, <4>1, PairSteps
    <3>4. QED
      BY <1>3, <3>1, <3>3 DEF WrapPair, Pairs
  <2>2. QED
    BY <1>2, <1>3, <2>1 DEF Placed
<1>7. WholeFiles(c)'
  <2>1. ASSUME NEW s \in Servers, NEW k \in Own(c), NEW p \in Parts
        PROVE  At(s, k, p)' = Absent \/ \E x \in Contents : At(s, k, p)' = Cut(x, p)
    <3>1. ~Writes(c, s, k, p)
      BY <1>4 DEF Writes
    <3>2. At(s, k, p) = Absent \/ \E x \in Contents : At(s, k, p) = Cut(x, p)
      BY <1>t, <3>1 DEF WholeFiles
    <3>3. QED
      BY <1>1, <3>2 DEF At
  <2>2. HalfWritten(c)'
    BY <1>4 DEF HalfWritten
  <2>3. QED
    BY <2>1, <2>2 DEF WholeFiles, Own
<1>8. PutStored(c)'
  <2>1. \A s \in Servers : ~(s < job'[c].turn)
    BY <1>3, ClientAssumption
  <2>2. QED
    BY <1>4, <2>1 DEF PutStored
<1>9. Held(c)'
  <2>1. ASSUME NEW k \in Own(c), NEW s \in Servers, latest[k] # None, s \notin missed[k]
        PROVE  \E p \in Parts : There(s, k, p)
    <3>1. CASE \E p \in Parts : There(s, k, p)
      BY <3>1
    <3>2. CASE job[c].task.op = "put" /\ k = PathKey(c)
      <4>1. /\ job[c].turn > MAXSERVERS /\ s \notin job[c].offline /\ job[c].turn \in Nat
        <5>1. job[c] \in Jobs
          BY <1>t DEF ClientTypeOK
        <5>2. job[c].turn \in Nat
          BY <5>1 DEF Jobs, MAXSERVERS
        <5>3. QED
          BY <1>t, <2>1, <3>2, <5>2 DEF Placed
      <4>2. s < job[c].turn
        BY <4>1, ClientAssumption DEF MAXSERVERS
      <4>3. Kept(c, s, 0)
        BY <1>4, <1>t, <3>2, <4>1, <4>2 DEF PutStored
      <4>4. PartSent(OwnPair(c, s), 0) \in Parts
        <5>1. OwnPair(c, s) \in Pairs
          BY <1>t, OwnPairType
        <5>2. QED
          BY <5>1 DEF PartSent, IndexOf, Parts, Pairs
      <4>5. There(s, k, PartSent(OwnPair(c, s), 0))
        BY <3>2, <4>3 DEF Kept, There, Cut, Zeros, Piece
      <4>6. QED
        BY <4>4, <4>5
    <3>3. QED
      BY <1>t, <2>1, <3>1, <3>2 DEF Held
  <2>2. ASSUME NEW k \in Own(c), NEW s \in Servers, latest[k] # None, s \notin missed[k]
        PROVE  \E p \in Parts : There(s, k, p)'
    <3>1. PICK p \in Parts : There(s, k, p)
      BY <2>1, <2>2
    <3>2. There(s, k, p)'
      BY <1>1, <3>1 DEF There, At
    <3>3. QED
      BY <3>2
  <2>3. QED
    BY <1>1, <2>2 DEF Held, Own
<1>10. Answering(c)' /\ BufsFrom(c, Contents)'
  BY <1>2, <1>3 DEF Answering, BufsFrom
<1>11. QED
  BY <1>5, <1>6, <1>7, <1>8, <1>9, <1>10 DEF AloneOK, Files

\* A command that has been through all the servers.
LEMMA AloneFinish ==
  ASSUME AloneInv, Alone, NEW c \in Clients, Finish(c)
  PROVE  AloneOK(c)'
<1>t. /\ TypeInv /\ ClientTypeOK /\ AloneOK(c) /\ cpc[c] = "connect" /\ UserStep(c) /\ LoopEnds(c)
      /\ job[c] \in Jobs /\ job[c].turn \in Nat /\ ~InSession(c) /\ ~Connect(c)
      /\ Placed(c) /\ WholeFiles(c) /\ PutStored(c) /\ Held(c) /\ BufsFrom(c, Contents)
  BY OwnStep DEF UserStep, ClientStep, Finish, InSession, AloneOK, Files, Connect
<1>1. /\ UNCHANGED serverVars /\ UNCHANGED peer
      /\ cpc'[c] = "idle" /\ job' = job
  BY <1>t DEF Finish, Step, ClientTypeOK
<1>2. Onward(c)
  BY <1>1, <1>t DEF Onward
<1>3. UNCHANGED <<disk, pc, frame, cmd, inbox, peer>>
  BY <1>1 DEF serverVars, storeVars
<1>4. Serving(c)'
  BY <1>2, <1>3, <1>t, ServingGoesOn
<1>5. Placed(c)'
  <2>1. job[c].task.op = "put" =>
          job[c].turn > MAXSERVERS /\ missed'[PathKey(c)] = job[c].offline
    <3>1. job[c].task.op = "put" => missed'[PathKey(c)] = job[c].offline
      BY <1>t, OwnPath DEF Finish, ClientTypeOK
    <3>2. QED
      BY <1>t, <3>1 DEF LoopEnds
  <2>2. PathKey(c)' = PathKey(c)
    BY <1>1 DEF PathKey
  <2>3. QED
    BY <1>1, <1>t, <2>1, <2>2 DEF Placed
<1>6. WholeFiles(c)' /\ PutStored(c)'
  <2>1. \A h \in Handlers : OfClient(c, h)' <=> OfClient(c, h)
    BY <1>3 DEF OfClient
  <2>2. QED
    BY <1>1, <1>2, <1>3, <2>1, FilesRemain
<1>7. Held(c)'
  <2>1. ASSUME NEW k \in Own(c), NEW s \in Servers, latest'[k] # None, s \notin missed'[k],
               ~(job[c].task.op = "put" /\ k = PathKey(c))
        PROVE  \E p \in Parts : There(s, k, p)'
    <3>1. latest'[k] = latest[k] /\ missed'[k] = missed[k]
      <4>1. k \in Paths
        BY DEF Own
      <4>2. QED
        BY <1>t, <2>1, <4>1 DEF Finish, ClientTypeOK
    <3>2. PICK p \in Parts : There(s, k, p)
      BY <1>t, <2>1, <3>1 DEF Held
    <3>3. There(s, k, p)'
      BY <1>3, <3>2 DEF There, At
    <3>4. QED
      BY <3>3
  <2>2. Own(c)' = Own(c) /\ PathKey(c)' = PathKey(c)
    BY <1>1 DEF Own, PathKey
  <2>3. QED
    BY <1>1, <2>1, <2>2 DEF Held
<1>8. Answering(c)' /\ BufsFrom(c, Contents)'
  BY <1>1, <1>t DEF Answering, BufsFrom
<1>9. QED
  BY <1>4, <1>5, <1>6, <1>7, <1>8 DEF AloneOK, Files

\* A server that accepts the connection.
LEMMA AloneConnect ==
  ASSUME AloneInv, Alone, NEW c \in Clients, Connect(c)
  PROVE  AloneOK(c)'
<1>t. /\ TypeInv /\ ClientTypeOK /\ AloneOK(c) /\ cpc[c] = "connect" /\ UserStep(c)
      /\ job[c] \in Jobs /\ job'[c] \in Jobs /\ job[c].turn \in Nat /\ ~InSession(c)
      /\ Serving(c) /\ Placed(c) /\ Held(c) /\ BufsFrom(c, Contents)
      /\ UNCHANGED <<disk, latest, missed>>
  BY OwnStep DEF UserStep, ClientStep, Connect, InSession, AloneOK, Files, historyVars
<1>1. PICK h \in Handlers : /\ StartsAt(c, h) /\ pc[h] = "free" /\ ServerOf(h) = job[c].turn
                            /\ \A k \in Handlers \ {h} : inbox'[k] = inbox[k]
  BY <1>t, ClientReaches
<1>2. /\ cpc'[c] = "verdict" /\ job'[c] = [job[c] EXCEPT !.lost = FALSE]
      /\ sess'[c] = h
  BY <1>1, <1>t DEF Connect, Step, ClientTypeOK, StartsAt
<1>3. /\ job'[c].task = job[c].task /\ job'[c].turn = job[c].turn
      /\ job'[c].offline = job[c].offline /\ job'[c].want = job[c].want
      /\ job'[c].pair = job[c].pair /\ job'[c].bufs = job[c].bufs
  BY <1>2, <1>t DEF Jobs
<1>4. Onward(c)
  BY <1>3, <1>t DEF Onward
<1>5. /\ \A k \in Handlers \ {h} : /\ OfClient(c, k)' <=> OfClient(c, k)
                                   /\ pc'[k] = pc[k] /\ frame'[k] = frame[k]
                                   /\ cmd'[k] = cmd[k] /\ inbox'[k] = inbox[k]
      /\ ~OfClient(c, h) /\ pc'[h] = "auth"
  BY <1>1 DEF StartsAt, OfClient
<1>6. ASSUME NEW k \in Handlers \ {h}, OfClient(c, k)'
      PROVE  LeftBehind(c, k)' /\ ServerOf(k) # ServerOf(h)
  <2>1. LeftBehind(c, k)
    BY <1>5, <1>6, <1>t DEF Serving
  <2>2. ServerOf(k) # ServerOf(h)
    <3>1. ServerOf(k) < job[c].turn /\ ServerOf(k) \in Nat
      BY <2>1, ClientAssumption DEF LeftBehind, Handlers, ServerOf
    <3>2. QED
      BY <1>1, <1>t, <3>1
  <2>3. QED
    BY <1>4, <1>5, <2>1, <2>2, LeftStays
<1>7. Serving(c)'
  <2>1. InSession(c)'
    BY <1>2 DEF InSession
  <2>2. ASSUME NEW k \in Handlers, OfClient(c, k)'
        PROVE  (InSession(c)' /\ k = sess'[c]) \/ LeftBehind(c, k)'
    BY <1>2, <1>6, <2>1, <2>2
  <2>3. ASSUME NEW k \in Handlers, NEW g \in Handlers, OfClient(c, k)', OfClient(c, g)',
               ServerOf(k) = ServerOf(g)
        PROVE  k = g
    <3>1. CASE k = h \/ g = h
      BY <1>6, <2>3, <3>1
    <3>2. CASE k # h /\ g # h
      BY <1>5, <1>t, <2>3, <3>2 DEF Serving
    <3>3. QED
      BY <3>1, <3>2
  <2>4. QED
    BY <2>2, <2>3 DEF Serving
<1>8. Placed(c)'
  BY <1>2, <1>3, <1>4, <1>t, PlacedGoesOn
<1>9. WholeFiles(c)' /\ PutStored(c)'
  <2>1. \A k \in Handlers : OfClient(c, k) =>
           OfClient(c, k)' /\ pc'[k] = pc[k] /\ frame'[k] = frame[k]
    BY <1>5
  <2>2. \A k \in Handlers : OfClient(c, k)' => OfClient(c, k) \/ pc'[k] = "auth"
    BY <1>5
  <2>3. QED
    BY <1>3, <1>4, <1>t, <2>1, <2>2, FilesRemain
<1>10. Held(c)'
  BY <1>t, HeldStays
<1>11. Answering(c)' /\ BufsFrom(c, Contents)'
  BY <1>2, <1>3, <1>t DEF Answering, BufsFrom
<1>12. QED
  BY <1>7, <1>8, <1>9, <1>10, <1>11 DEF AloneOK, Files

\* A server that is not there is skipped, and so remembered by put.
LEMMA AloneOffline ==
  ASSUME AloneInv, Alone, NEW c \in Clients, ServerOffline(c)
  PROVE  AloneOK(c)'
<1> DEFINE j == [job[c] EXCEPT !.offline = @ \cup {job[c].turn}]
<1>t. /\ TypeInv /\ ClientTypeOK /\ AloneOK(c) /\ cpc[c] = "connect" /\ UserStep(c)
      /\ job[c] \in Jobs /\ job'[c] \in Jobs /\ job[c].turn \in Nat /\ ~InSession(c)
      /\ Placed(c) /\ BufsFrom(c, Contents) /\ ~Connect(c)
      /\ UNCHANGED <<latest, missed>> /\ job[c].turn \in Servers /\ job[c].turn <= MAXSERVERS
  <2>1. UserStep(c) /\ cpc[c] = "connect" /\ ~LoopEnds(c) /\ UNCHANGED <<latest, missed>>
    BY DEF UserStep, ClientStep, ServerOffline, historyVars
  <2>2. TypeInv /\ ClientTypeOK /\ AloneOK(c) /\ job[c] \in Jobs /\ job'[c] \in Jobs
        /\ job[c].turn \in Nat
    BY <2>1, OwnStep
  <2>3. ~Connect(c)
    <3>1. UNCHANGED serverVars
      BY DEF ServerOffline
    <3>2. ASSUME Connect(c) PROVE FALSE
      <4>1. PICK h \in Handlers : StartsAt(c, h) /\ pc[h] = "free"
        BY <2>1, <3>2, ClientReaches
      <4>2. QED
        BY <3>1, <4>1 DEF StartsAt, serverVars
    <3>3. QED
      BY <3>2
  <2>4. QED
    BY <2>1, <2>2, <2>3, SessionTurn DEF AloneOK, InSession, MAXSERVERS
<1>1. j \in Jobs /\ j.turn = job[c].turn /\ j.offline = job[c].offline \cup {job[c].turn}
      /\ j.task = job[c].task /\ j.want = job[c].want /\ j.bufs = job[c].bufs
      /\ j.pair = job[c].pair
  BY <1>t DEF Jobs
<1>2. NextServer(c, j) /\ UNCHANGED serverVars
  BY DEF ServerOffline
<1> HIDE DEF j
<1>3. /\ cpc'[c] = "connect" /\ job'[c].turn = job[c].turn + 1
      /\ job'[c].task = job[c].task /\ job'[c].want = job[c].want
      /\ job'[c].bufs = job[c].bufs /\ job'[c].pair = job[c].pair
      /\ job'[c].offline = job[c].offline \cup {job[c].turn}
  <2>1. j.turn <= MAXSERVERS
    BY <1>1, <1>t
  <2>2. /\ cpc'[c] = "connect" /\ job'[c].turn = j.turn + 1
        /\ job'[c].task = j.task /\ job'[c].want = j.want
        /\ job'[c].bufs = j.bufs /\ job'[c].pair = j.pair
        /\ job'[c].offline = j.offline
    BY <1>1, <1>2, <1>t, <2>1, NextServerType
  <2>3. QED
    BY <1>1, <2>2
<1>4. Onward(c)
  BY <1>3, <1>t DEF Onward
<1>5. Serving(c)'
  BY <1>2, <1>4, <1>t, ServingGoesOn DEF serverVars
<1>6. Placed(c)'
  <2>1. job[c].turn \notin job[c].offline
    BY <1>t DEF Placed
  <2>2. job'[c].offline # job[c].offline
    BY <1>3, <2>1
  <2>3. QED
    BY <1>3, <1>4, <1>t, <2>2, PlacedMovesOn
<1>7. Files(c)'
  <2>1. \A s \in Servers : s < job'[c].turn /\ s \notin job'[c].offline => s < job[c].turn
    BY <1>3, <1>t, ClientAssumption
  <2>2. QED
    BY <1>4, <1>t, <2>1, FilesStay
<1>8. Answering(c)' /\ BufsFrom(c, Contents)'
  BY <1>3, <1>t DEF Answering, BufsFrom
<1>9. QED
  BY <1>5, <1>6, <1>7, <1>8 DEF AloneOK

\* The verdict on the login.
LEMMA AloneAccepted ==
  ASSUME AloneInv, Alone, NEW c \in Clients, LoginAccepted(c)
  PROVE  AloneOK(c)'
<1>t. /\ TypeInv /\ ClientTypeOK /\ AloneOK(c) /\ cpc[c] = "verdict" /\ UserStep(c)
      /\ job[c] \in Jobs /\ job'[c] \in Jobs /\ job[c].turn \in Nat /\ InSession(c)
      /\ Placed(c) /\ BufsFrom(c, Contents) /\ ~Connect(c)
      /\ UNCHANGED <<latest, missed, inbox, sess>>
  BY OwnStep DEF UserStep, ClientStep, LoginAccepted, AloneOK, InSession, Connect, historyVars
<1>1. /\ cpc'[c] = "write" /\ job'[c] = job[c]
  BY <1>t DEF LoginAccepted, Step, ClientTypeOK
<1>2. Onward(c)
  BY <1>1, <1>t DEF Onward
<1>3. Serving(c)'
  BY <1>1, <1>2, <1>t, ServingGoesOn DEF InSession
<1>4. Placed(c)'
  BY <1>1, <1>2, <1>t, PlacedGoesOn
<1>5. Files(c)'
  BY <1>1, <1>2, <1>t, FilesStay
<1>6. Answering(c)' /\ BufsFrom(c, Contents)'
  BY <1>1, <1>t DEF Answering, BufsFrom
<1>7. QED
  BY <1>3, <1>4, <1>5, <1>6 DEF AloneOK

(***************************************************************************)
(* The end of a session of put and MKDIR: the handler goes on alone.       *)
(***************************************************************************)
LEMMA Abandoned ==
  ASSUME AloneInv, Alone, NEW c \in Clients, Write(c), job[c].task.op \in {"put", "MKDIR"},
         Onward(c), job'[c].turn = job[c].turn + 1, job'[c].offline = job[c].offline,
         Len(outbox[c]) = 1
  PROVE  \A h \in Handlers : OfClient(c, h) /\ h = sess[c] => LeftBehind(c, h)'
<1> SUFFICES ASSUME NEW h \in Handlers, OfClient(c, h), h = sess[c] PROVE LeftBehind(c, h)'
  OBVIOUS
<1> DEFINE s == ServerOf(h)
           i == JobAt(c, s)'
           j == JobAt(c, s)
           o == outbox[c]
<1>t. /\ UserStep(c) /\ cpc[c] = "write" /\ InSession(c) /\ CalmInv /\ TypeInv /\ TypeOK
      /\ ClientTypeOK /\ Placed(c) /\ Insider(c) /\ SessionOK(c) /\ job[c] \in Jobs
  BY OwnStep DEF UserStep, ClientStep, Write, InSession, AloneOK
<1>1. s = job[c].turn /\ s \in Servers /\ s \in Nat /\ o # <<>> /\ o \in Seq(Messages)
      /\ inbox[h] \in Seq(Messages) /\ s \notin job[c].offline
  <2>1. s = job[c].turn /\ s \in Servers /\ s \in Nat
    BY <1>t, ClientAssumption DEF SessionOK, Handlers, ServerOf, MAXSERVERS
  <2>2. s \notin job[c].offline
    BY <1>t, <2>1 DEF Placed
  <2>3. QED
    BY <1>t, <2>1, <2>2 DEF SessionOK, ClientTypeOK, TypeOK
<1>2. Carries(c, h)
  BY <1>t, HandlerCarries
<1>3. /\ UNCHANGED <<pc, frame, cmd>>
      /\ inbox'[h] = Append(inbox[h], Head(o)) /\ o = <<Head(o)>>
  <2>1. ~Closed(h)
    BY <1>t, InsiderWrites
  <2>2. o = <<Head(o)>>
    <3>1. Tail(o) = <<>> /\ o = <<Head(o)>> \o Tail(o) /\ Head(o) \in Messages
      BY <1>1, OnlyItem, HeadAndTail, TailItems
    <3> DEFINE m == Head(o)
    <3>2. <<m>> \in Seq(Messages) /\ o = <<m>> \o <<>>
      BY <3>1
    <3> HIDE DEF m
    <3>3. o = <<m>>
      BY <3>2, ConcatEmptySeq
    <3>4. QED
      BY <3>3 DEF m
  <2>3. QED
    BY <1>t, <2>1, <2>2 DEF Write, TypeOK
<1>4. RestOf(c, h) = inbox'[h]
  <2>1. RestOf(c, h) = inbox[h] \o o
    BY <1>t DEF RestOf, Unsent
  <2> DEFINE m == Head(o)
             q == inbox[h]
  <2>2. m \in Messages /\ q \in Seq(Messages) /\ o = <<m>>
    BY <1>1, <1>3, TailItems
  <2>3. Append(q, m) = q \o <<m>>
    <3> HIDE DEF m, q
    <3>1. QED
      BY <2>2, AppendIsConcat
  <2>4. QED
    BY <1>3, <2>1, <2>2, <2>3
<1>5. CarriesOut(pc'[h], frame'[h], cmd'[h], Login[c], j, inbox'[h])
  BY <1>2, <1>3, <1>4 DEF Carries
<1>6. OwnPair(c, s)' = OwnPair(c, s)
  BY <1>1, OnwardPairs
<1>7. j.task = i.task /\ j.want = i.want /\ j.pair = i.pair
  <2>1. j.task = job[c].task /\ j.want = job[c].want /\ j.pair = OwnPair(c, s)
    BY <1>t DEF JobAt, Jobs
  <2>2. i = [job'[c] EXCEPT !.pair = OwnPair(c, s)']
    BY DEF JobAt
  <2>3. job'[c].task = job[c].task /\ job'[c].want = job[c].want
    BY DEF Onward
  <2>4. i.task = job'[c].task /\ i.want = job'[c].want /\ i.pair = OwnPair(c, s)'
    BY <2>2 DEF Onward, Jobs
  <2>5. QED
    BY <1>6, <2>1, <2>3, <2>4
<1> HIDE DEF i, j
<1>8. CarriesOut(pc'[h], frame'[h], cmd'[h], Login[c], i, inbox'[h])
  BY <1>5, <1>7, SameLeft
<1>9. QED
  BY <1>1, <1>8 DEF LeftBehind, Onward, i

\* Where writing leads.
LEMMA WritingLeads ==
  ASSUME AloneInv, Alone, NEW c \in Clients, Write(c)
  PROVE  /\ Onward(c) /\ job'[c].offline = job[c].offline
         /\ job'[c].want = job[c].want /\ job'[c].bufs = job[c].bufs
         /\ \/ /\ cpc'[c] \in {"write", "listing", "answer"} /\ sess' = sess
               /\ job'[c].turn = job[c].turn /\ job'[c].pair = job[c].pair
               /\ job'[c].seen = job[c].seen /\ job'[c].round = job[c].round
            \/ /\ cpc'[c] = "connect" /\ job'[c].turn = job[c].turn + 1
               /\ job[c].task.op \in {"put", "MKDIR"} /\ Len(outbox[c]) = 1
               /\ job[c].task.op = "put" => job'[c].pair = WrapPair(job[c].pair) + 1
<1> DEFINE h == sess[c]
           o == outbox[c]
<1>t. /\ UserStep(c) /\ TypeInv /\ job[c] \in Jobs /\ job'[c] \in Jobs
      /\ job[c].turn \in Nat /\ job[c].turn <= MAXSERVERS
  <2>1. /\ UserStep(c) /\ TypeInv /\ job[c] \in Jobs /\ job'[c] \in Jobs /\ InSession(c)
        /\ job[c].turn \in Nat
    BY OwnStep DEF UserStep, ClientStep, Write, InSession
  <2>2. QED
    BY <2>1, SessionTurn DEF MAXSERVERS
<1>1. PICK j \in Jobs :
        /\ j.task = job[c].task /\ j.pair = job[c].pair /\ j.want = job[c].want
        /\ j.bufs = job[c].bufs /\ j.offline = job[c].offline /\ j.turn = job[c].turn
        /\ j.seen = job[c].seen /\ j.round = job[c].round
        /\ IF Len(o) = 1 THEN AfterWriting(c, j) ELSE Step(c, "write", j) /\ UNCHANGED sess
  <2> DEFINE j == [job[c] EXCEPT !.lost = @ \/ Closed(h)]
  <2>1. /\ j \in Jobs /\ j.task = job[c].task /\ j.pair = job[c].pair /\ j.want = job[c].want
        /\ j.bufs = job[c].bufs /\ j.offline = job[c].offline /\ j.turn = job[c].turn
        /\ j.seen = job[c].seen /\ j.round = job[c].round
    BY <1>t DEF Jobs, Closed
  <2>2. IF Len(o) = 1 THEN AfterWriting(c, j) ELSE Step(c, "write", j) /\ UNCHANGED sess
    BY DEF Write
  <2> HIDE DEF j
  <2>3. QED
    BY <2>1, <2>2
<1>2. ASSUME NEW where \in {"write", "listing", "answer"}, Step(c, where, j), sess' = sess
      PROVE  /\ cpc'[c] \in {"write", "listing", "answer"} /\ job'[c] = j
  BY <1>t, <1>2, StepType DEF ClientStates
<1>3. ASSUME NEW k \in Jobs, k.turn = j.turn, k.task = j.task, k.want = j.want,
             k.bufs = j.bufs, k.offline = j.offline, NextServer(c, k)
      PROVE  /\ cpc'[c] = "connect" /\ job'[c].turn = job[c].turn + 1
             /\ job'[c].task = job[c].task /\ job'[c].want = job[c].want
             /\ job'[c].bufs = job[c].bufs /\ job'[c].offline = job[c].offline
             /\ job'[c].pair = k.pair
  <2>1. k.turn <= MAXSERVERS
    BY <1>1, <1>3, <1>t
  <2>2. /\ cpc'[c] = "connect" /\ job'[c].turn = k.turn + 1
        /\ job'[c].task = k.task /\ job'[c].want = k.want
        /\ job'[c].bufs = k.bufs /\ job'[c].offline = k.offline
        /\ job'[c].pair = k.pair
    BY <1>3, <1>t, <2>1, NextServerType
  <2>3. QED
    BY <1>1, <1>3, <2>2
<1>4. LET k == [j EXCEPT !.pair = WrapPair(@) + 1]
      IN  /\ k \in Jobs /\ k.turn = j.turn /\ k.task = j.task /\ k.want = j.want
          /\ k.bufs = j.bufs /\ k.offline = j.offline /\ k.pair = WrapPair(j.pair) + 1
  <2>1. WrapPair(j.pair) + 1 \in 0..4
    BY DEF Jobs, WrapPair
  <2>2. QED
    BY <2>1 DEF Jobs
<1>5. j.task.op \in {"list", "get", "put", "MKDIR"}
  BY DEF Jobs, TaskTypes, Ops
<1>6. CASE Len(o) = 1 /\ j.task.op \in {"put", "MKDIR"}
  <2>1. AfterWriting(c, j)
    BY <1>1, <1>6
  <2>2. CASE j.task.op = "put"
    <3> DEFINE k == [j EXCEPT !.pair = WrapPair(@) + 1]
    <3>1. NextServer(c, k)
      BY <2>1, <2>2 DEF AfterWriting
    <3>2. /\ k \in Jobs /\ k.turn = j.turn /\ k.task = j.task /\ k.want = j.want
          /\ k.bufs = j.bufs /\ k.offline = j.offline /\ k.pair = WrapPair(j.pair) + 1
      BY <1>4
    <3> HIDE DEF k
    <3>3. /\ cpc'[c] = "connect" /\ job'[c].turn = job[c].turn + 1
          /\ job'[c].task = job[c].task /\ job'[c].want = job[c].want
          /\ job'[c].bufs = job[c].bufs /\ job'[c].offline = job[c].offline
          /\ job'[c].pair = k.pair
      BY <1>3, <3>1, <3>2
    <3>4. QED
      BY <1>1, <1>6, <1>t, <3>2, <3>3 DEF Onward
  <2>3. CASE j.task.op = "MKDIR"
    <3>1. NextServer(c, j)
      BY <2>1, <2>3 DEF AfterWriting
    <3>2. /\ cpc'[c] = "connect" /\ job'[c].turn = job[c].turn + 1
          /\ job'[c].task = job[c].task /\ job'[c].want = job[c].want
          /\ job'[c].bufs = job[c].bufs /\ job'[c].offline = job[c].offline
      BY <1>3, <3>1
    <3>3. QED
      BY <1>1, <1>6, <1>t, <2>3, <3>2 DEF Onward
  <2>4. QED
    BY <1>6, <2>2, <2>3
<1>7. CASE ~(Len(o) = 1 /\ j.task.op \in {"put", "MKDIR"})
  <2>1. \E where \in {"write", "listing", "answer"} : Step(c, where, j) /\ sess' = sess
    <3>1. CASE Len(o) # 1
      BY <1>1, <3>1
    <3>2. CASE Len(o) = 1 /\ j.task.op = "list"
      BY <1>1, <3>2 DEF AfterWriting
    <3>3. CASE Len(o) = 1 /\ j.task.op = "get"
      BY <1>1, <3>3 DEF AfterWriting
    <3>4. QED
      BY <1>5, <1>7, <3>1, <3>2, <3>3
  <2>2. cpc'[c] \in {"write", "listing", "answer"} /\ job'[c] = j /\ sess' = sess
    BY <1>2, <2>1
  <2>3. QED
    BY <1>1, <1>t, <2>2 DEF Onward
<1>8. QED
  BY <1>6, <1>7

\* The next message to the handler.
LEMMA AloneWrites ==
  ASSUME AloneInv, Alone, NEW c \in Clients, Write(c)
  PROVE  AloneOK(c)'
<1> DEFINE h == sess[c]
<1>t. /\ TypeInv /\ TypeOK /\ ClientTypeOK /\ CalmInv /\ AloneOK(c) /\ cpc[c] = "write"
      /\ UserStep(c) /\ job[c] \in Jobs /\ job[c].turn \in Nat /\ InSession(c)
      /\ Insider(c) /\ Placed(c) /\ BufsFrom(c, Contents) /\ ~Connect(c) /\ SessionOK(c)
      /\ UNCHANGED <<latest, missed, reply>> /\ h \in Handlers /\ job[c].turn <= MAXSERVERS
  <2>1. /\ UserStep(c) /\ cpc[c] = "write" /\ InSession(c) /\ ~Connect(c)
        /\ UNCHANGED <<latest, missed, reply>>
    BY DEF UserStep, ClientStep, Write, InSession, Connect, historyVars
  <2>2. QED
    BY <2>1, OwnStep, SessionTurn DEF AloneOK, SessionOK, MAXSERVERS
<1>1. /\ Onward(c) /\ job'[c].offline = job[c].offline
      /\ job'[c].want = job[c].want /\ job'[c].bufs = job[c].bufs
      /\ \/ /\ cpc'[c] \in {"write", "listing", "answer"} /\ sess' = sess
            /\ job'[c].turn = job[c].turn /\ job'[c].pair = job[c].pair
         \/ /\ cpc'[c] = "connect" /\ job'[c].turn = job[c].turn + 1
            /\ job[c].task.op \in {"put", "MKDIR"} /\ Len(outbox[c]) = 1
            /\ job[c].task.op = "put" => job'[c].pair = WrapPair(job[c].pair) + 1
  BY WritingLeads
<1>2. /\ OfClient(c, h) /\ ServerOf(h) = job[c].turn
      /\ \A k \in Handlers \ {h} : inbox'[k] = inbox[k]
  <2>1. ~Closed(h)
    BY <1>t, InsiderWrites
  <2>2. inbox' = [inbox EXCEPT ![h] = Append(@, Head(outbox[c]))]
    BY <2>1 DEF Write
  <2>3. QED
    BY <1>t, <2>1, <2>2 DEF OfClient, Closed, SessionOK, TypeOK
<1>3. Serving(c)'
  <2>1. \/ InSession(c)' /\ sess'[c] = sess[c]
        \/ \A k \in Handlers : OfClient(c, k) /\ k = sess[c] => LeftBehind(c, k)'
    <3>1. CASE cpc'[c] \in {"write", "listing", "answer"} /\ sess' = sess
      BY <3>1 DEF InSession
    <3>2. CASE cpc'[c] = "connect"
      BY <1>1, <3>2, Abandoned
    <3>3. QED
      BY <1>1, <3>1, <3>2
  <2>2. QED
    BY <1>1, <1>2, <1>t, <2>1, ServingGoesOn
<1>4. Placed(c)'
  <2>1. cpc[c] # "idle" /\ cpc'[c] # "idle"
    BY <1>1, <1>t
  <2>2. CASE job'[c].turn = job[c].turn /\ job'[c].pair = job[c].pair
    BY <1>1, <1>t, <2>1, <2>2, PlacedGoesOn
  <2>3. CASE /\ job'[c].turn = job[c].turn + 1
             /\ job[c].task.op = "put" => job'[c].pair = WrapPair(job[c].pair) + 1
    BY <1>1, <1>t, <2>1, <2>3, PlacedMovesOn
  <2>4. QED
    BY <1>1, <2>2, <2>3
<1>5. Files(c)'
  <2>1. \A s \in Servers : s < job'[c].turn =>
          s < job[c].turn \/ \E k \in Handlers : OfClient(c, k) /\ ServerOf(k) = s
    <3>1. ASSUME NEW s \in Servers, s < job'[c].turn PROVE s < job[c].turn \/ s = job[c].turn
      BY <1>1, <1>t, <3>1, ClientAssumption DEF MAXSERVERS
    <3>2. QED
      BY <1>2, <1>t, <3>1
  <2>2. QED
    BY <1>1, <1>t, <2>1, FilesStay
\* A get is answered when its command has been read.
<1>6. Answering(c)'
  <2>1. CASE cpc'[c] # "answer"
    <3>1. cpc'[c] \notin {"answer", "bytes"}
      BY <1>1, <2>1
    <3>2. QED
      BY <3>1 DEF Answering
  <2>2. CASE cpc'[c] = "answer"
    <3>1. job[c].task.op = "get" /\ sess' = sess
      <4>1. StepOK(c)'
        BY <1>t, NextStepInv DEF CalmInv, StepInv, UserStep, Next
      <4>2. QED
        BY <1>1, <2>2, <4>1 DEF StepOK, Onward
    <3>2. pc[h] \in Silent
      <4>1. /\ CarriesOut(pc[h], frame[h], cmd[h], Login[c], job[c], Stream(c))
            /\ Stream(c) = inbox[h] \o outbox[c]
        BY <1>t DEF Insider, AtWork, Stream, Unsent
      <4>2. inbox[h] \o outbox[c] # <<>>
        <5> DEFINE q == inbox[h]
                   o == outbox[c]
        <5>1. q \in Seq(Messages) /\ o \in Seq(Messages) /\ o # <<>>
          BY <1>t DEF TypeOK, ClientTypeOK, SessionOK
        <5> HIDE DEF q, o
        <5>2. Len(q \o o) = Len(q) + Len(o) /\ Len(o) > 0 /\ Len(q) \in Nat /\ Len(o) \in Nat
          BY <5>1, TailItems
        <5>3. Len(<<>>) = 0
          OBVIOUS
        <5>4. QED
          BY <5>2, <5>3 DEF q, o
      <4>3. pc[h] \in {"scan", "command", "request", "serve", "send", "free"}
        BY <3>1, <4>1 DEF CarriesOut, Places
      <4>4. pc[h] \in {"serve", "send", "free"} =>
              Left(pc[h], frame[h].round, job[c]) = <<>>
        BY DEF Left
      <4>5. QED
        BY <4>1, <4>2, <4>3, <4>4 DEF CarriesOut, Silent
    <3>3. reply[h] = <<>>
      BY <1>t, <3>2 DEF Insider, AtWork, Ahead
    <3>4. /\ Ahead(c)' = <<>> /\ reply'[h] = <<>> /\ pc'[h] = pc[h] /\ sess'[c] = h
      BY <1>t, <2>2, <3>1, <3>3, ClientReaches DEF Ahead
    <3>5. Len(<<>>) = 0
      OBVIOUS
    <3>6. pc'[h] \notin {"serve", "send"}
      BY <3>2, <3>4 DEF Silent
    <3>7. \A s, k : Tells(<<>>, s, k)'
      BY <3>5 DEF Tells
    <3>8. QED
      BY <3>4, <3>5, <3>6, <3>7 DEF Answering
  <2>3. QED
    BY <2>1, <2>2
<1>7. BufsFrom(c, Contents)'
  BY <1>1, <1>t DEF BufsFrom, Onward
<1>8. QED
  BY <1>3, <1>4, <1>5, <1>6, <1>7 DEF AloneOK

\* A session that ends because the handler has closed the connection: the
\* client goes on to the next server.
LEMMA SessionEnds ==
  ASSUME AloneInv, Alone, NEW c \in Clients, UserStep(c), ~Connect(c), InSession(c),
         pc[sess[c]] = "free", Onward(c), job[c].task.op # "put",
         job'[c].offline = job[c].offline, cpc'[c] = "connect",
         UNCHANGED <<latest, missed, inbox>>, job'[c].turn = job[c].turn + 1
  PROVE  Serving(c)' /\ Placed(c)' /\ Files(c)' /\ Answering(c)'
<1>1. Serving(c)'
  <2>1. ~OfClient(c, sess[c])
    BY DEF OfClient
  <2>2. \A h \in Handlers : OfClient(c, h) /\ h = sess[c] => LeftBehind(c, h)'
    BY <2>1
  <2>3. QED
    BY <2>2, ServingGoesOn
<1>2. Placed(c)'
  BY PlacedMovesOn DEF InSession
<1>3. Files(c)'
  BY FilesStay DEF InSession
<1>4. Answering(c)'
  BY DEF Answering
<1>5. QED
  BY <1>1, <1>2, <1>3, <1>4

\* ls reads one listing from each server.
LEMMA AloneListing ==
  ASSUME AloneInv, Alone, NEW c \in Clients, ReadListing(c)
  PROVE  AloneOK(c)'
<1> DEFINE m == Answer(c)
           new == IF m.tag = "listing" THEN m.body ELSE {}
           j == [job[c] EXCEPT !.seen = @ \cup new]
<1>t. /\ TypeInv /\ CalmInv /\ AloneOK(c) /\ UserStep(c) /\ job[c] \in Jobs /\ job'[c] \in Jobs
      /\ InSession(c) /\ BufsFrom(c, Contents) /\ ~Connect(c) /\ cpc[c] = "listing"
      /\ UNCHANGED <<latest, missed, inbox>> /\ sess[c] \in Handlers
      /\ job[c].turn <= MAXSERVERS /\ pc[sess[c]] = "free" /\ job[c].task.op = "list"
  <2>1. /\ UserStep(c) /\ cpc[c] = "listing" /\ InSession(c) /\ ~Connect(c)
        /\ UNCHANGED <<latest, missed, inbox>>
    BY DEF UserStep, ClientStep, ReadListing, InSession, Connect, historyVars
  <2>2. /\ TypeInv /\ CalmInv /\ AloneOK(c) /\ job[c] \in Jobs /\ job'[c] \in Jobs /\ Insider(c)
        /\ ~MayKill /\ Login[c] \in Accounts
    BY <2>1, OwnStep
  <2>3. pc[sess[c]] = "free"
    BY <2>1, <2>2, InsiderSteps
  <2>4. job[c].task.op = "list"
    BY <2>1, <2>2 DEF Insider, AtWork
  <2>5. QED
    BY <2>1, <2>2, <2>3, <2>4, SessionTurn DEF AloneOK, MAXSERVERS
<1>1. /\ j \in Jobs /\ j.turn = job[c].turn /\ j.task = job[c].task /\ j.want = job[c].want
      /\ j.bufs = job[c].bufs /\ j.offline = job[c].offline
  <2>1. new \in SUBSET (Names \X (0..4))
    BY <1>t, AnswerType
  <2> HIDE DEF new
  <2>2. QED
    BY <1>t, <2>1 DEF Jobs
<1>2. NextServer(c, j)
  BY DEF ReadListing
<1> HIDE DEF j
<1>3. /\ cpc'[c] = "connect" /\ job'[c].turn = job[c].turn + 1 /\ job'[c].task = job[c].task
      /\ job'[c].want = job[c].want /\ job'[c].bufs = job[c].bufs
      /\ job'[c].offline = job[c].offline
  <2>1. j.turn <= MAXSERVERS
    BY <1>1, <1>t
  <2>2. /\ cpc'[c] = "connect" /\ job'[c].turn = j.turn + 1 /\ job'[c].task = j.task
        /\ job'[c].want = j.want /\ job'[c].bufs = j.bufs /\ job'[c].offline = j.offline
    BY <1>1, <1>2, <1>t, <2>1, NextServerType
  <2>3. QED
    BY <1>1, <2>2
<1>4. Onward(c)
  BY <1>3, <1>t DEF Onward
<1>5. Serving(c)' /\ Placed(c)' /\ Files(c)' /\ Answering(c)'
  BY <1>3, <1>4, <1>t, SessionEnds
<1>6. BufsFrom(c, Contents)'
  BY <1>3, <1>t DEF BufsFrom
<1>7. QED
  BY <1>5, <1>6 DEF AloneOK

\* What a server sends to get is a part of what was put.
LEMMA WholeThere ==
  ASSUME AloneInv, Alone, NEW c \in Clients, cpc[c] \in {"answer", "bytes"}, NEW p \in Parts,
         There(job[c].turn, PathKey(c), p)
  PROVE  \E x \in Contents : At(job[c].turn, PathKey(c), p) = Cut(x, p)
<1>t. /\ TypeInv /\ AloneOK(c) /\ StepOK(c) /\ Insider(c) /\ InSession(c) /\ Serving(c)
      /\ WholeFiles(c) /\ job[c].turn \in Servers /\ sess[c] \in Handlers
  <2>1. TypeInv /\ AloneOK(c) /\ StepOK(c) /\ Insider(c) /\ InSession(c)
    BY DEF AloneInv, CalmInv, StepInv, InSession, ClientOK, Alone
  <2>2. QED
    BY <2>1, SessionTurn DEF AloneOK, Files
<1>1. job[c].task.op = "get" /\ pc[sess[c]] # "data"
  BY <1>t DEF StepOK, Insider, AtWork, CarriesOut, Places
<1>2. ~Writes(c, job[c].turn, PathKey(c), p)
  BY <1>1, <1>t DEF Writes, Serving, LeftBehind
<1>3. PathKey(c) \in Own(c)
  BY <1>t, OwnPath
<1>4. QED
  BY <1>2, <1>3, <1>t DEF WholeFiles, There, Absent, Piece

\* The client goes on reading, or leaves a handler that is done.
LEMMA ReadsOn ==
  ASSUME AloneInv, Alone, NEW c \in Clients, ReadHeader(c) \/ ReadBytes(c),
         NEW j \in Jobs, j.task = job[c].task, j.turn = job[c].turn, j.pair = job[c].pair,
         j.offline = job[c].offline, j.round = job[c].round,
         \/ NextAnswer(c, j) /\ StartsWithUnit(Ahead(c))
         \/ Step(c, "bytes", j) /\ sess' = sess,
         NEW q, cpc'[c] \in {"answer", "bytes"} =>
                  Ahead(c)' = q /\ Tells(q, job[c].turn, PathKey(c)),
         j.want \ Coming(Tail(reply[sess[c]])) = Unserved(c)
  PROVE  /\ Serving(c)' /\ Placed(c)' /\ Files(c)' /\ Answering(c)'
         /\ job'[c].bufs = j.bufs /\ job'[c].want = j.want /\ job'[c].task = j.task
         /\ cpc'[c] \in {"connect", "answer"} \/ (cpc'[c] = "bytes" /\ job'[c] = j)
<1> DEFINE h == sess[c]
<1>t. /\ TypeInv /\ ClientTypeOK /\ CalmInv /\ AloneOK(c) /\ UserStep(c) /\ StepOK(c)
      /\ job[c] \in Jobs /\ job'[c] \in Jobs /\ Insider(c) /\ InSession(c) /\ ~Connect(c)
      /\ cpc[c] \in {"answer", "bytes"} /\ job[c].task.op = "get" /\ UNCHANGED <<latest, missed, inbox>>
      /\ UNCHANGED <<disk, pc, frame, cmd, peer>> /\ TakeAnswer(c) /\ h \in Handlers
      /\ job[c].turn <= MAXSERVERS /\ frame[h] \in Frames /\ job[c].turn \in Nat
      /\ job[c].round \in 1..2
  <2>1. /\ UserStep(c) /\ cpc[c] \in {"answer", "bytes"} /\ InSession(c) /\ ~Connect(c)
        /\ UNCHANGED <<latest, missed, inbox>> /\ TakeAnswer(c)
    BY DEF UserStep, ClientStep, ReadHeader, ReadBytes, InSession, Connect, historyVars
  <2>2. /\ TypeInv /\ ClientTypeOK /\ CalmInv /\ AloneOK(c) /\ StepOK(c) /\ TypeOK
        /\ job[c] \in Jobs /\ job'[c] \in Jobs /\ Insider(c) /\ job[c].turn \in Nat
    BY <2>1, OwnStep
  <2>3. h \in Handlers /\ job[c].turn <= MAXSERVERS
    BY <2>1, <2>2, SessionTurn DEF MAXSERVERS
  <2>4. frame[h] \in Frames
    BY <2>2, <2>3 DEF TypeOK
  <2>5. job[c].task.op = "get" /\ job[c].round \in 1..2
    BY <2>1, <2>2 DEF StepOK, Jobs
  <2>6. QED
    BY <2>1, <2>2, <2>3, <2>4, <2>5, ClientReaches
<1>r. /\ reply'[h] = Tail(reply[h]) /\ pc[h] \in {"serve", "send", "free"}
      /\ \/ StartsWithUnit(Ahead(c)) /\ Owed(pc[h], frame[h], job[c].round + 1, AfterUnit(Ahead(c)))
         \/ Ahead(c) = NothingMore
         \/ \E x \in Headers : x.size # 0 /\ Ahead(c) = Announced(x)
      /\ reply[h] \in Seq(Messages) /\ reply[h] # <<>>
  BY <1>t, StreamRead
\* The session is over.
<1>1. CASE NextAnswer(c, j) /\ StartsWithUnit(Ahead(c)) /\ j.round = 2
  <2>1. pc[h] = "free"
    <3>1. Owed(pc[h], frame[h], 2 + 1, AfterUnit(Ahead(c)))
      BY <1>1, <1>r, UnitsOnly
    <3>2. QED
      BY <1>r, <1>t, <3>1, SecondIsLast
  <2>2. /\ cpc'[c] = "connect" /\ job'[c].turn = job[c].turn + 1
        /\ job'[c].task = j.task /\ job'[c].want = j.want /\ job'[c].bufs = j.bufs
        /\ job'[c].offline = job[c].offline
    <3>1. j.turn <= MAXSERVERS
      BY <1>t
    <3>2. QED
      BY <1>1, <1>t, <3>1, NextAnswerType
  <2>3. Onward(c)
    BY <1>t, <2>2 DEF Onward
  <2>4. QED
    BY <1>t, <2>1, <2>2, <2>3, SessionEnds
\* It is not.
<1>2. CASE ~(NextAnswer(c, j) /\ StartsWithUnit(Ahead(c)) /\ j.round = 2)
  <2>1. /\ cpc'[c] = "answer" \/ (cpc'[c] = "bytes" /\ job'[c] = j)
        /\ job'[c].task = j.task /\ job'[c].want = j.want /\ job'[c].bufs = j.bufs
        /\ job'[c].offline = job[c].offline /\ job'[c].turn = job[c].turn
        /\ job'[c].pair = job[c].pair /\ sess' = sess
    <3>1. CASE NextAnswer(c, j) /\ StartsWithUnit(Ahead(c))
      <4>1. j.turn <= MAXSERVERS /\ j.round # 2
        BY <1>2, <1>t, <3>1
      <4>2. QED
        BY <1>t, <3>1, <4>1, NextAnswerType
    <3>2. CASE Step(c, "bytes", j) /\ sess' = sess
      BY <1>t, <3>2, StepType DEF ClientStates
    <3>3. QED
      BY <3>1, <3>2
  <2>2. Onward(c)
    BY <1>t, <2>1 DEF Onward
  <2>3. Serving(c)'
    BY <1>t, <2>1, <2>2, ServingGoesOn DEF InSession
  <2>4. Placed(c)'
    BY <1>t, <2>1, <2>2, PlacedGoesOn
  <2>5. Files(c)'
    BY <1>t, <2>1, <2>2, FilesStay
  <2>6. Answering(c)'
    <3>1. /\ Tells(q, job[c].turn, PathKey(c)) /\ Ahead(c)' = q /\ Answering(c)
          /\ PathKey(c)' = PathKey(c)
      BY <1>t, <2>1, <2>2, OnwardPairs DEF AloneOK
    <3>2. Unserved(c)' = Unserved(c)
      BY <1>r, <2>1 DEF Unserved
    <3>3. /\ pc'[h] = "send" => /\ frame'[h].hdr.part \in Parts
                                /\ There(job[c].turn, PathKey(c), frame'[h].hdr.part)
                                /\ frame'[h].copy = At(job[c].turn, PathKey(c), frame'[h].hdr.part)
                                /\ frame'[h].copy.size = frame'[h].hdr.size
          /\ pc'[h] \in {"serve", "send"} => frame'[h].ask = Unserved(c)
      BY <1>t, <3>1 DEF Answering
    <3>4. ASSUME NEW i \in 1..Len(reply'[h]), reply'[h][i].tag = "nothing",
                 NEW p \in Unserved(c)
          PROVE  ~There(job[c].turn, PathKey(c), p)
      <4>1. i + 1 \in 1..Len(reply[h]) /\ reply[h][i + 1].tag = "nothing"
        BY <1>r, <3>4, TailItems
      <4>2. QED
        BY <1>t, <3>1, <3>4, <4>1 DEF Answering
    <3>5. sess'[c] = h
      BY <2>1
    <3>6. QED
      BY <1>t, <2>1, <3>1, <3>2, <3>3, <3>4, <3>5, AnswersFit
  <2>7. QED
    BY <2>1, <2>3, <2>4, <2>5, <2>6
<1>3. QED
  BY <1>1, <1>2

\* A server that has no more parts.
LEMMA AloneNoMore ==
  ASSUME AloneInv, Alone, NEW c \in Clients, NoMoreParts(c)
  PROVE  AloneOK(c)'
<1> DEFINE h == sess[c]
<1>t. /\ TypeInv /\ CalmInv /\ AloneOK(c) /\ UserStep(c) /\ job[c] \in Jobs /\ job'[c] \in Jobs
      /\ InSession(c) /\ BufsFrom(c, Contents) /\ ~Connect(c) /\ cpc[c] = "answer"
      /\ UNCHANGED <<latest, missed, inbox>> /\ h \in Handlers /\ frame[h] \in Frames
      /\ job[c].turn <= MAXSERVERS /\ job[c].task.op = "get" /\ Insider(c)
      /\ job[c].round \in 1..2 /\ Answer(c).tag = "nothing" /\ NextServer(c, job[c])
  <2>1. /\ UserStep(c) /\ cpc[c] = "answer" /\ InSession(c) /\ ~Connect(c)
        /\ UNCHANGED <<latest, missed, inbox>> /\ Answer(c).tag = "nothing"
        /\ NextServer(c, job[c])
    BY DEF UserStep, ClientStep, NoMoreParts, InSession, Connect, historyVars
  <2>2. /\ TypeInv /\ TypeOK /\ CalmInv /\ AloneOK(c) /\ job[c] \in Jobs /\ job'[c] \in Jobs
        /\ Insider(c) /\ StepOK(c)
    BY <2>1, OwnStep
  <2>3. h \in Handlers /\ job[c].turn <= MAXSERVERS
    BY <2>1, <2>2, SessionTurn DEF MAXSERVERS
  <2>4. frame[h] \in Frames /\ job[c].round \in 1..2
    BY <2>2, <2>3 DEF TypeOK, Jobs
  <2>5. QED
    BY <2>1, <2>2, <2>3, <2>4 DEF AloneOK, StepOK
\* The handler has closed the connection behind this answer.
<1>1. pc[h] = "free"
  <2>1. /\ CarriesOut(pc[h], frame[h], cmd[h], Login[c], job[c], Stream(c))
        /\ pc[h] \in Silent => reply[h] = <<>>
        /\ Owed(pc[h], frame[h], job[c].round, reply[h])
    BY <1>t DEF Insider, AtWork, Ahead
  <2>2. reply[h] # <<>> /\ Answer(c) = Head(reply[h])
    BY <1>t DEF Answer, EOF, Message
  <2>3. pc[h] \in {"serve", "send", "free"}
    BY <1>t, <2>1, <2>2 DEF CarriesOut, Places, Silent
  <2>4. Head(reply[h]).tag = "nothing"
    BY <1>t, <2>2
  <2>5. ~StartsWithUnit(reply[h])
    BY <2>4 DEF StartsWithUnit
  <2>6. \A x : reply[h] # Announced(x)
    BY <2>4 DEF Announced, Message
  <2>7. QED
    BY <1>t, <2>1, <2>2, <2>3, <2>5, <2>6, OwedNext
<1>2. /\ cpc'[c] = "connect" /\ job'[c].turn = job[c].turn + 1 /\ job'[c].task = job[c].task
      /\ job'[c].want = job[c].want /\ job'[c].bufs = job[c].bufs
      /\ job'[c].offline = job[c].offline
  BY <1>t, NextServerType
<1>3. Onward(c)
  BY <1>2, <1>t DEF Onward
<1>4. Serving(c)' /\ Placed(c)' /\ Files(c)' /\ Answering(c)'
  BY <1>1, <1>2, <1>3, <1>t, SessionEnds
<1>5. BufsFrom(c, Contents)'
  BY <1>2, <1>t DEF BufsFrom
<1>6. QED
  BY <1>4, <1>5 DEF AloneOK

\* What a header that is read announces is there, and it is ticked off.
LEMMA HeaderRead ==
  ASSUME AloneInv, Alone, NEW c \in Clients, ReadHeader(c)
  PROVE  LET q == reply[sess[c]]
             hd == HeaderOf(c, Answer(c))
             j == [job[c] EXCEPT !.want = @ \ {hd.part}, !.bufs[hd.part] = Zeros(0)]
         IN  /\ q \in Seq(Messages) /\ q # <<>> /\ Head(q).tag = "header" /\ hd = Head(q).body
             /\ Ahead(c) = q /\ Head(q) \in Messages /\ hd \in Headers
             /\ hd.size = 0 => StartsWithUnit(q)
             /\ Tells(q, job[c].turn, PathKey(c)) /\ Tells(Tail(q), job[c].turn, PathKey(c))
             /\ hd.part \in Parts /\ There(job[c].turn, PathKey(c), hd.part)
             /\ At(job[c].turn, PathKey(c), hd.part).size = hd.size
             /\ j \in Jobs /\ j.task = job[c].task /\ j.turn = job[c].turn
             /\ j.pair = job[c].pair /\ j.offline = job[c].offline /\ j.round = job[c].round
             /\ j.want = job[c].want \ {hd.part} /\ j.bufs[hd.part] = Zeros(0)
             /\ \A p \in Parts \ {hd.part} : j.bufs[p] = job[c].bufs[p]
             /\ last'[c] = hd /\ reply'[sess[c]] = Tail(q)
             /\ IF hd.size = 0 THEN NextAnswer(c, j) ELSE Step(c, "bytes", j) /\ sess' = sess
<1> DEFINE h == sess[c]
           q == reply[h]
           hd == HeaderOf(c, Answer(c))
           j == [job[c] EXCEPT !.want = @ \ {hd.part}, !.bufs[hd.part] = Zeros(0)]
<1>t. /\ TypeInv /\ CalmInv /\ job[c] \in Jobs /\ Insider(c) /\ h \in Handlers
      /\ cpc[c] = "answer" /\ Answering(c) /\ ClientTypeOK
  <2>1. UserStep(c) /\ cpc[c] = "answer" /\ InSession(c)
    BY DEF UserStep, ClientStep, ReadHeader, InSession
  <2>2. TypeInv /\ CalmInv /\ AloneOK(c) /\ job[c] \in Jobs /\ Insider(c) /\ ClientTypeOK
    BY <2>1, OwnStep
  <2>3. QED
    BY <2>1, <2>2, SessionTurn DEF AloneOK
<1>r. /\ q \in Seq(Messages) /\ q # <<>> /\ Answer(c) = Head(q)
      /\ TakeAnswer(c) => reply'[h] = Tail(q)
      /\ Ahead(c) = q
      /\ \/ StartsWithUnit(q) \/ q = NothingMore
         \/ \E x \in Headers : x.size # 0 /\ q = Announced(x)
  BY <1>t, StreamRead
<1>1. /\ Head(q).tag = "header" /\ hd = Head(q).body /\ hd \in Headers /\ hd.part \in Parts
      /\ Head(q) \in Messages
  <2>1. Head(q).tag # "nothing"
    BY <1>r DEF ReadHeader
  <2>2. Head(NothingMore).tag = "nothing" /\ \A x : Head(Announced(x)).tag = "header"
    BY DEF NothingMore, Announced, Message
  <2>3. Head(q).tag = "header"
    BY <1>r, <2>1, <2>2 DEF StartsWithUnit
  <2>4. Head(q) \in Messages
    BY <1>r, TailItems
  <2>5. QED
    BY <1>r, <1>t, <2>3, <2>4, AnswerType DEF HeaderOf
<1>2. /\ IF hd.size = 0 THEN NextAnswer(c, j) ELSE Step(c, "bytes", j) /\ sess' = sess
      /\ last'[c] = hd /\ reply'[h] = Tail(q)
  BY <1>r, <1>t DEF ReadHeader, ClientTypeOK
<1>3. /\ j \in Jobs /\ j.task = job[c].task /\ j.turn = job[c].turn
      /\ j.pair = job[c].pair /\ j.offline = job[c].offline /\ j.round = job[c].round
      /\ j.want = job[c].want \ {hd.part} /\ j.bufs[hd.part] = Zeros(0)
      /\ \A p \in Parts \ {hd.part} : j.bufs[p] = job[c].bufs[p]
  <2>1. Zeros(0) \in Pieces
    BY PieceTypes
  <2> HIDE DEF hd
  <2>2. QED
    BY <1>1, <1>t, <2>1 DEF Jobs
<1>4. /\ Tells(q, job[c].turn, PathKey(c)) /\ Tells(Tail(q), job[c].turn, PathKey(c))
      /\ There(job[c].turn, PathKey(c), hd.part)
      /\ At(job[c].turn, PathKey(c), hd.part).size = hd.size
  <2>1. Tells(q, job[c].turn, PathKey(c))
    BY <1>r, <1>t DEF Answering
  <2>2. QED
    BY <1>1, <1>r, <2>1, TellsLess
<1>5. hd.size = 0 => StartsWithUnit(q)
  BY <1>1, <1>r DEF StartsWithUnit
<1> HIDE DEF h, q, hd, j
<1>6. QED
  BY <1>1, <1>2, <1>3, <1>4, <1>5, <1>r DEF h, q, hd, j

\* The bytes that are read are those of the part that was announced.
LEMMA BytesRead ==
  ASSUME AloneInv, Alone, NEW c \in Clients, ReadBytes(c)
  PROVE  LET a == reply[sess[c]]
             hd == last[c]
             j == [job[c] EXCEPT !.bufs[hd.part] = AsData(Answer(c), hd.size)]
         IN  /\ a \in Seq(Messages) /\ a # <<>> /\ reply'[sess[c]] = Tail(a)
             /\ StartsWithUnit(Ahead(c)) /\ hd \in Headers
             /\ Head(a).tag = "data" /\ Tells(Tail(a), job[c].turn, PathKey(c))
             /\ hd.part \in Parts /\ There(job[c].turn, PathKey(c), hd.part)
             /\ j \in Jobs /\ j.task = job[c].task /\ j.turn = job[c].turn
             /\ j.pair = job[c].pair /\ j.offline = job[c].offline /\ j.round = job[c].round
             /\ j.want = job[c].want
             /\ j.bufs[hd.part] = At(job[c].turn, PathKey(c), hd.part)
             /\ \A p \in Parts \ {hd.part} : j.bufs[p] = job[c].bufs[p]
             /\ NextAnswer(c, j)
<1> DEFINE h == sess[c]
           a == reply[h]
           q == Ahead(c)
           hd == last[c]
           piece == AsData(Answer(c), hd.size)
           j == [job[c] EXCEPT !.bufs[hd.part] = piece]
           m == Message("header", hd)
<1>t. /\ TypeInv /\ CalmInv /\ job[c] \in Jobs /\ Insider(c) /\ h \in Handlers
      /\ cpc[c] = "bytes" /\ Answering(c) /\ hd \in Headers /\ hd.part \in Parts
      /\ hd.size # 0
  <2>1. UserStep(c) /\ cpc[c] = "bytes" /\ InSession(c)
    BY DEF UserStep, ClientStep, ReadBytes, InSession
  <2>2. /\ TypeInv /\ CalmInv /\ AloneOK(c) /\ job[c] \in Jobs /\ Insider(c) /\ StepOK(c)
        /\ ClientTypeOK /\ SessionOK(c)
    BY <2>1, OwnStep
  <2>3. QED
    BY <2>1, <2>2, SessionTurn DEF AloneOK, StepOK, SessionOK, ClientTypeOK
<1>r. /\ a \in Seq(Messages) /\ a # <<>> /\ Answer(c) = Head(a)
      /\ TakeAnswer(c) => reply'[h] = Tail(a)
      /\ m \in Messages /\ m.tag = "header" /\ m.body = hd
      /\ q = <<m>> \o a /\ q # <<>> /\ Head(q) = m /\ Tail(q) = a
      /\ \/ StartsWithUnit(q) \/ q = NothingMore
         \/ \E x \in Headers : x.size # 0 /\ q = Announced(x)
  BY <1>t, StreamRead
<1>1. StartsWithUnit(q)
  <2>1. Head(NothingMore).tag = "nothing" /\ \A x : Tail(Announced(x)) = <<>>
    BY DEF NothingMore, Announced, Message
  <2> HIDE DEF m, q, a
  <2>2. QED
    BY <1>r, <2>1
<1>2. NextAnswer(c, j) /\ reply'[h] = Tail(a)
  BY <1>r DEF ReadBytes
<1> HIDE DEF m, q
<1>3. /\ There(job[c].turn, PathKey(c), hd.part) /\ Tells(Tail(a), job[c].turn, PathKey(c))
      /\ Head(a).tag = "data" /\ Head(a).body = At(job[c].turn, PathKey(c), hd.part)
  <2>1. Tells(q, job[c].turn, PathKey(c)) /\ q \in Seq(Messages)
    <3>1. <<m>> \in Seq(Messages)
      BY <1>r
    <3>2. q \in Seq(Messages)
      BY <1>r, <3>1, ConcatProperties
    <3>3. QED
      BY <1>t, <3>2 DEF Answering, q
  <2>2. Head(a).tag = "data"
    BY <1>1, <1>r, <1>t DEF StartsWithUnit
  <2>3. /\ Tells(Tail(q), job[c].turn, PathKey(c))
        /\ Head(q).tag = "header" => There(job[c].turn, PathKey(c), Head(q).body.part)
        /\ Tail(q) # <<>> /\ Head(Tail(q)).tag = "data" =>
             Head(Tail(q)).body = At(job[c].turn, PathKey(c), Head(q).body.part)
    BY <1>r, <2>1, TellsLess
  <2>4. Tells(Tail(a), job[c].turn, PathKey(c))
    BY <1>r, <2>3, TellsLess
  <2>5. QED
    BY <1>r, <2>2, <2>3, <2>4
<1>4. piece = At(job[c].turn, PathKey(c), hd.part) /\ piece \in Pieces
  <2>1. piece = Head(a).body
    BY <1>3, <1>r DEF AsData
  <2>2. Head(a).body \in Pieces
    BY <1>3, <1>r, <1>t, AnswerType, ParseTypes DEF Messages
  <2>3. QED
    BY <1>3, <2>1, <2>2
<1> HIDE DEF piece
<1>5. /\ j \in Jobs /\ j.task = job[c].task /\ j.turn = job[c].turn
      /\ j.pair = job[c].pair /\ j.offline = job[c].offline /\ j.round = job[c].round
      /\ j.want = job[c].want /\ j.bufs[hd.part] = piece
      /\ \A p \in Parts \ {hd.part} : j.bufs[p] = job[c].bufs[p]
  BY <1>4, <1>t DEF Jobs
<1>6. StartsWithUnit(Ahead(c))
  BY <1>1 DEF q
<1> HIDE DEF a, hd, j, h
<1>7. QED
  BY <1>2, <1>3, <1>4, <1>5, <1>6, <1>r, <1>t DEF a, hd, j, h, piece

\* What is announced is there, so that an empty part is an empty part.
LEMMA AloneReadsHeader ==
  ASSUME AloneInv, Alone, NEW c \in Clients, ReadHeader(c)
  PROVE  AloneOK(c)'
<1> DEFINE h == sess[c]
           q == reply[h]
           hd == HeaderOf(c, Answer(c))
           j == [job[c] EXCEPT !.want = @ \ {hd.part}, !.bufs[hd.part] = Zeros(0)]
<1>t. /\ TypeInv /\ CalmInv /\ AloneOK(c) /\ UserStep(c) /\ job[c] \in Jobs /\ Insider(c)
      /\ h \in Handlers /\ cpc[c] = "answer" /\ InSession(c) /\ BufsFrom(c, Contents)
      /\ Answering(c) /\ job[c].task.op = "get" /\ ClientTypeOK
  <2>1. UserStep(c) /\ cpc[c] = "answer" /\ InSession(c)
    BY DEF UserStep, ClientStep, ReadHeader, InSession
  <2>2. /\ TypeInv /\ CalmInv /\ AloneOK(c) /\ job[c] \in Jobs /\ Insider(c) /\ StepOK(c)
        /\ ClientTypeOK
    BY <2>1, OwnStep
  <2>3. QED
    BY <2>1, <2>2, SessionTurn DEF AloneOK, StepOK
<1>1. /\ Head(q).tag = "header" /\ hd = Head(q).body /\ hd \in Headers /\ hd.part \in Parts
      /\ Head(q) \in Messages /\ q \in Seq(Messages) /\ q # <<>> /\ Ahead(c) = q
      /\ hd.size = 0 => StartsWithUnit(q)
  <2> HIDE DEF h
  <2>1. QED
    BY HeaderRead DEF h
<1>2. /\ IF hd.size = 0 THEN NextAnswer(c, j) ELSE Step(c, "bytes", j) /\ sess' = sess
      /\ last'[c] = hd /\ reply'[h] = Tail(q)
  <2> HIDE DEF h
  <2>1. QED
    BY HeaderRead DEF h
<1>3. /\ j \in Jobs /\ j.task = job[c].task /\ j.turn = job[c].turn /\ j.pair = job[c].pair
      /\ j.offline = job[c].offline /\ j.round = job[c].round
      /\ j.want = job[c].want \ {hd.part} /\ j.bufs[hd.part] = Zeros(0)
      /\ \A p \in Parts \ {hd.part} : j.bufs[p] = job[c].bufs[p]
  <2> HIDE DEF h
  <2>1. QED
    BY HeaderRead DEF h
<1>4. /\ Tells(Tail(q), job[c].turn, PathKey(c)) /\ Tells(q, job[c].turn, PathKey(c))
      /\ There(job[c].turn, PathKey(c), hd.part)
      /\ At(job[c].turn, PathKey(c), hd.part).size = hd.size
  <2> HIDE DEF h
  <2>1. QED
    BY HeaderRead DEF h
<1>5. Coming(q) = Coming(Tail(q)) \cup {hd.part}
  BY <1>1, ComingLess
<1> HIDE DEF j, hd
<1>6. j.want \ Coming(Tail(q)) = Unserved(c)
  BY <1>3, <1>5 DEF Unserved
<1>7. ASSUME hd.size = 0 PROVE \E x \in Contents : Zeros(0) = Cut(x, hd.part)
  <2>1. PICK x \in Contents : At(job[c].turn, PathKey(c), hd.part) = Cut(x, hd.part)
    BY <1>1, <1>4, <1>t, WholeThere
  <2>2. Cut(x, hd.part).size = 0
    BY <1>4, <1>7, <2>1
  <2>3. Cut(x, hd.part) = Zeros(0)
    BY <2>2 DEF Cut, Zeros, Piece
  <2>4. QED
    BY <2>3
\* Whether the bytes are still to come or not.
<1>8. CASE hd.size = 0
  <2>1. StartsWithUnit(q)
    BY <1>1, <1>8
  <2>2. cpc'[c] \in {"connect", "answer"} /\ (cpc'[c] = "answer" => sess' = sess)
    <3>1. NextAnswer(c, j)
      BY <1>2, <1>8
    <3>2. j.turn <= MAXSERVERS
      BY <1>3, <1>t, SessionTurn DEF MAXSERVERS
    <3>3. QED
      BY <1>3, <1>t, <3>1, <3>2, NextAnswerType
  <2>3. cpc'[c] = "answer" => Ahead(c)' = Tail(q)
    BY <1>2, <2>2 DEF Ahead
  <2>4. /\ Serving(c)' /\ Placed(c)' /\ Files(c)' /\ Answering(c)'
        /\ job'[c].bufs = j.bufs /\ job'[c].want = j.want /\ job'[c].task = j.task
    <3> DEFINE rest == Tail(q)
    <3>1. cpc'[c] \in {"answer", "bytes"} =>
            Ahead(c)' = rest /\ Tells(rest, job[c].turn, PathKey(c))
      BY <1>4, <2>2, <2>3
    <3>2. NextAnswer(c, j) /\ StartsWithUnit(Ahead(c))
      BY <1>1, <1>2, <1>8, <2>1
    <3>3. j.want \ Coming(Tail(reply[sess[c]])) = Unserved(c)
      BY <1>6
    <3> HIDE DEF rest
    <3>4. QED
      BY <1>3, <3>1, <3>2, <3>3, ReadsOn
  <2>5. BufsFrom(c, Contents)'
    BY <1>1, <1>3, <1>7, <1>8, <1>t, <2>4 DEF BufsFrom
  <2>6. QED
    BY <2>4, <2>5 DEF AloneOK
<1>9. CASE hd.size # 0
  <2>1. Step(c, "bytes", j) /\ sess' = sess
    BY <1>2, <1>9
  <2>2. cpc'[c] = "bytes"
    BY <1>3, <1>t, <2>1, StepType DEF ClientStates
  <2>3. Ahead(c)' = q
    <3>1. Head(q) = Message("header", hd)
      BY <1>1 DEF Messages, Message
    <3>2. q = <<Head(q)>> \o Tail(q)
      BY <1>1, HeadAndTail
    <3>3. QED
      BY <1>2, <2>1, <2>2, <3>1, <3>2 DEF Ahead, Announced
  <2>4. /\ Serving(c)' /\ Placed(c)' /\ Files(c)' /\ Answering(c)'
        /\ job'[c].bufs = j.bufs /\ job'[c].want = j.want /\ job'[c].task = j.task
    <3>1. j.want \ Coming(Tail(reply[sess[c]])) = Unserved(c)
      BY <1>6
    <3> HIDE DEF q
    <3>2. QED
      BY <1>3, <1>4, <2>1, <2>3, <3>1, ReadsOn
  <2>5. BufsFrom(c, Contents)'
    BY <1>1, <1>2, <1>3, <1>t, <2>2, <2>4 DEF BufsFrom
  <2>6. QED
    BY <2>4, <2>5 DEF AloneOK
<1>10. QED
  BY <1>8, <1>9

\* The bytes are those of the part that was announced.
LEMMA AloneReadsBytes ==
  ASSUME AloneInv, Alone, NEW c \in Clients, ReadBytes(c)
  PROVE  AloneOK(c)'
<1> DEFINE a == reply[sess[c]]
           hd == last[c]
           piece == At(job[c].turn, PathKey(c), hd.part)
           j == [job[c] EXCEPT !.bufs[hd.part] = AsData(Answer(c), hd.size)]
<1>t. /\ TypeInv /\ AloneOK(c) /\ UserStep(c) /\ job[c] \in Jobs
      /\ cpc[c] = "bytes" /\ InSession(c) /\ BufsFrom(c, Contents)
      /\ Answering(c) /\ job[c].task.op = "get"
  <2>1. UserStep(c) /\ cpc[c] = "bytes" /\ InSession(c)
    BY DEF UserStep, ClientStep, ReadBytes, InSession
  <2>2. TypeInv /\ AloneOK(c) /\ job[c] \in Jobs /\ StepOK(c)
    BY <2>1, OwnStep
  <2>3. QED
    BY <2>1, <2>2 DEF AloneOK, StepOK
<1>1. /\ NextAnswer(c, j) /\ reply'[sess[c]] = Tail(a) /\ StartsWithUnit(Ahead(c))
      /\ a \in Seq(Messages) /\ a # <<>> /\ Head(a).tag = "data"
  BY BytesRead
<1>2. /\ Tells(Tail(a), job[c].turn, PathKey(c)) /\ hd.part \in Parts
      /\ There(job[c].turn, PathKey(c), hd.part)
  BY BytesRead
<1>3. /\ j \in Jobs /\ j.task = job[c].task /\ j.turn = job[c].turn /\ j.pair = job[c].pair
      /\ j.offline = job[c].offline /\ j.round = job[c].round
      /\ j.want = job[c].want /\ j.bufs[hd.part] = piece
      /\ \A p \in Parts \ {hd.part} : j.bufs[p] = job[c].bufs[p]
  BY BytesRead
<1>4. PICK x \in Contents : piece = Cut(x, hd.part)
  BY <1>2, <1>t, WholeThere
<1> HIDE DEF piece
<1> HIDE DEF j
<1>5. j.want \ Coming(Tail(a)) = Unserved(c)
  <2>1. Coming(a) = Coming(Tail(a))
    BY <1>1, ComingLess
  <2>2. QED
    BY <1>3, <2>1 DEF Unserved
<1>6. cpc'[c] \in {"connect", "answer"} /\ (cpc'[c] = "answer" => sess' = sess)
  <2>1. j.turn <= MAXSERVERS
    BY <1>3, <1>t, SessionTurn DEF MAXSERVERS
  <2>2. QED
    BY <1>1, <1>3, <1>t, <2>1, NextAnswerType
<1>7. cpc'[c] = "answer" => Ahead(c)' = Tail(a)
  BY <1>1, <1>6 DEF Ahead
<1>8. /\ Serving(c)' /\ Placed(c)' /\ Files(c)' /\ Answering(c)'
       /\ job'[c].bufs = j.bufs /\ job'[c].want = j.want /\ job'[c].task = j.task
  <2> DEFINE rest == Tail(a)
  <2>1. cpc'[c] \in {"answer", "bytes"} =>
          Ahead(c)' = rest /\ Tells(rest, job[c].turn, PathKey(c))
    BY <1>2, <1>6, <1>7
  <2>2. NextAnswer(c, j) /\ StartsWithUnit(Ahead(c))
    BY <1>1
  <2>3. j.want \ Coming(Tail(reply[sess[c]])) = Unserved(c)
    BY <1>5
  <2> HIDE DEF rest
  <2>4. QED
    BY <1>3, <2>1, <2>2, <2>3, ReadsOn
<1>9. BufsFrom(c, Contents)'
  BY <1>2, <1>4, <1>3, <1>t, <1>8 DEF BufsFrom
<1>10. QED
  BY <1>8, <1>9 DEF AloneOK

\* What a client can do.
LEMMA OwnActions ==
  ASSUME AloneInv, Alone, NEW c \in Clients, UserStep(c)
  PROVE  \/ Enter(c) \/ Connect(c) \/ ServerOffline(c) \/ LoginAccepted(c) \/ Write(c)
         \/ ReadListing(c) \/ NoMoreParts(c) \/ ReadHeader(c) \/ ReadBytes(c) \/ Finish(c)
<1>1. ~ExitClient(c) /\ ~PutUnopened(c)
  BY ClientReaches
<1>2. ~SpinClient(c) /\ ~ReadGarbage(c)
  <2>1. CalmInv /\ Insider(c) /\ Insider(c)' /\ TypeInv /\ ClientTypeOK
    BY OwnStep
  <2>2. ~ReadGarbage(c)
    BY <2>1, InsiderReads
  <2>3. SpinClient(c) => cpc'[c] = "spin"
    BY <2>1 DEF SpinClient, Step, ClientTypeOK
  <2>4. cpc'[c] # "spin"
    BY <2>1 DEF Insider, InSession, AtWork
  <2>5. QED
    BY <2>2, <2>3, <2>4
<1>3. QED
  BY <1>1, <1>2 DEF UserStep, ClientStep, Kill, LoginRefused, WriteBroken

\* Every step of a client keeps what is known of all of them.
LEMMA AloneClients ==
  ASSUME AloneInv, Alone, NEW c \in Clients, UserStep(c), NEW d \in Clients
  PROVE  AloneOK(d)'
<1>1. CASE d # c
  <2>1. TypeInv /\ StepInv /\ AloneOK(d)
    BY DEF AloneInv, CalmInv, StepInv
  <2>2. QED
    BY <1>1, <2>1, AloneOthers, AloneUntouched
<1>2. CASE d = c
  BY <1>2, OwnActions, AloneEnter, AloneConnect, AloneOffline, AloneAccepted, AloneWrites,
     AloneListing, AloneNoMore, AloneReadsHeader, AloneReadsBytes, AloneFinish
<1>3. QED
  BY <1>1, <1>2

\* Nothing happens.
LEMMA Stutters ==
  ASSUME UNCHANGED vars, NEW c
  PROVE  Undisturbed(c)
<1>1. /\ UNCHANGED <<pc, frame, cmd, inbox, reply, gone, disk, latest, missed>>
      /\ UNCHANGED <<cpc, job, sess, peer, outbox, last, heap, open, file, listed, todo>>
  BY DEF vars, serverVars, storeVars, clientVars, historyVars
<1>2. QED
  BY <1>1 DEF Undisturbed, SameClient, SameConnection, OfClient, At

\* Every step keeps all of it.
LEMMA NextAloneInv ==
  ASSUME Alone
  PROVE  AloneInv /\ [Next]_vars => AloneInv'
<1> SUFFICES ASSUME AloneInv, [Next]_vars PROVE AloneInv'
  OBVIOUS
<1>t. /\ CalmInv /\ TypeInv /\ StepInv /\ TypeOK /\ Calm
      /\ \A h \in Handlers : pc[h] # "free" => peer[h] \in Clients
  BY DEF AloneInv, CalmInv, StepInv, TypeInv, Inv, Alone
<1>1. CalmInv'
  BY <1>t, NextCalmInv
<1> DEFINE Served == \A h \in Handlers : pc'[h] # "free" => peer'[h] \in Clients
<1>2. ASSUME NEW h \in Handlers, ServerStep(h)
      PROVE  Served /\ \A c \in Clients : AloneOK(c)'
  <2>1. HandlerStep(h) /\ UNCHANGED <<clientVars, historyVars>>
    BY <1>2, <1>t DEF ServerStep, CalmInv, CalmServers, BrokenPipe
  <2>2. pc[h] # "free" /\ \A k \in Handlers \ {h} : pc'[k] = pc[k]
    BY <1>t, <2>1, CalmStep
  <2>3. Served
    BY <1>t, <2>1, <2>2 DEF clientVars
  <2>4. QED
    BY <2>1, <2>3, AloneHandlers
<1>3. ASSUME NEW c \in Clients, UserStep(c)
      PROVE  Served /\ \A d \in Clients : AloneOK(d)'
  <2>1. Served
    <3>1. CASE Connect(c)
      <4>1. PICK h \in Handlers : StartsAt(c, h)
        BY <1>3, <3>1, ClientReaches
      <4>2. QED
        BY <1>t, <4>1 DEF StartsAt
    <3>2. CASE ~Connect(c)
      BY <1>3, <1>t, <3>2, ClientReaches
    <3>3. QED
      BY <3>1, <3>2
  <2>2. QED
    BY <1>3, <2>1, AloneClients
<1>4. ASSUME NEW s \in Servers, Outage(s)
      PROVE  Served /\ \A c \in Clients : AloneOK(c)'
  <2>1. Quiet /\ (Crash(s) \/ Restart(s))
    BY <1>4, <1>t DEF Outage, Calm
  <2>2. \A h \in Handlers : pc'[h] = "free"
    BY <1>t, <2>1 DEF Crash, Restart, Halt, Quiet, Drained
  <2>3. QED
    BY <1>4, <1>t, <2>2, AloneFaults, AloneUntouched DEF AloneInv
<1>5. CASE UNCHANGED vars
  <2>1. /\ UNCHANGED <<pc, frame, cmd, inbox, reply, gone, disk, latest, missed>>
        /\ UNCHANGED <<cpc, job, sess, peer, outbox, last, heap, open, file, listed, todo>>
    BY <1>5 DEF vars, serverVars, storeVars, clientVars, historyVars
  <2>2. ASSUME NEW c \in Clients PROVE AloneOK(c)'
    <3>1. Undisturbed(c)
      BY <1>5, Stutters
    <3>2. AloneOK(c)
      BY DEF AloneInv
    <3>3. QED
      BY <1>t, <3>1, <3>2, AloneUntouched
  <2>3. QED
    BY <1>1, <1>t, <2>1, <2>2 DEF AloneInv
<1>6. QED
  BY <1>1, <1>2, <1>3, <1>4, <1>5 DEF AloneInv, Next, UserStep

\* The servers start with the files of puts that reached all of them.
LEMMA InitAloneInv ==
  ASSUME Alone, Init
  PROVE  AloneInv
<1>1. CalmInv
  BY InitCalmInv DEF Alone
<1>2. \A h \in Handlers : pc[h] = "free"
  BY DEF Init, ServerInit
<1>3. ASSUME NEW c \in Clients PROVE AloneOK(c)
  <2>1. /\ cpc[c] = "idle" /\ job[c].task.op = "MKDIR" /\ job[c].offline = {}
        /\ disk = StoredDisk /\ latest = Stored
    BY <1>3 DEF Init, NewJob
  <2>2. \A h \in Handlers : ~OfClient(c, h)
    BY <1>2 DEF OfClient
  <2>3. \A k \in Own(c) : k \in Paths /\ k = <<k[1], k[2], k[3]>>
                          /\ \A p \in Parts : <<k[1], k[2], k[3], p>> \in Slots
    BY DEF Own, Paths, Slots, Parts
  <2>4. ASSUME NEW k \in Own(c), NEW s \in Servers, NEW p \in Parts
        PROVE  At(s, k, p) =
                 IF Stored[k] # None
                      /\ p \in PairParts(Layout(get_md5_mod(Digest[Stored[k]]))[s])
                   THEN Cut(Stored[k], p) ELSE Absent
    BY <2>1, <2>3, <2>4 DEF At, StoredDisk
  <2>5. \A k \in Own(c) : Stored[k] \in Contents \cup {None}
    BY <2>3, PlansAssumption
  <2>6. WholeFiles(c)
    <3>1. ASSUME NEW s \in Servers, NEW k \in Own(c), NEW p \in Parts
          PROVE  /\ ~Writes(c, s, k, p)
                 /\ At(s, k, p) = Absent \/ \E x \in Contents : At(s, k, p) = Cut(x, p)
      BY <2>2, <2>4, <2>5 DEF Writes
    <3>2. QED
      BY <2>2, <3>1 DEF WholeFiles, HalfWritten
  <2>7. Held(c)
    <3>1. ASSUME NEW k \in Own(c), NEW s \in Servers, latest[k] # None
          PROVE  \E p \in Parts : There(s, k, p)
      <4> DEFINE pair == Layout(get_md5_mod(Digest[Stored[k]]))[s]
                 p == PartSent(pair, 0)
      <4>1. Stored[k] \in Contents /\ Stored[k] # None
        BY <2>1, <2>5, <3>1
      <4>2. get_md5_mod(Digest[Stored[k]]) \in Pairs
        BY <4>1, DigestGivesPair, ClientAssumption
      <4>3. p \in PairParts(pair) /\ p \in Parts
        <5>1. p \in PairParts(pair)
          BY DEF PairParts
        <5>2. PairParts(pair) \subseteq Parts
          BY <4>2, LayoutParts, ClientAssumption
        <5>3. QED
          BY <5>1, <5>2
      <4>4. At(s, k, p) = Cut(Stored[k], p)
        BY <2>4, <4>1, <4>3
      <4>5. There(s, k, p)
        BY <4>4 DEF There, Cut, Zeros, Piece
      <4>6. QED
        BY <4>3, <4>5
    <3>2. QED
      BY <3>1 DEF Held
  <2>8. Serving(c) /\ Placed(c) /\ PutStored(c) /\ Answering(c) /\ BufsFrom(c, Contents)
    BY <2>1, <2>2 DEF Serving, Placed, PutStored, Answering, BufsFrom
  <2>9. QED
    BY <2>6, <2>7, <2>8 DEF AloneOK, Files
<1>4. QED
  BY <1>1, <1>2, <1>3 DEF AloneInv

(***************************************************************************)
(* What get counts as found is an undamaged part of some content, in its   *)
(* place (DFS_client.c:417-447), although a put empties and fills the      *)
(* parts on the four servers one by one (DFS_server.c:252-288), and the    *)
(* client goes on to the next server while one is still writing.  The      *)
(* accounts, the files and the commands may be any.                        *)
(***************************************************************************)
THEOREM WholePartsOnly ==
  ASSUME Alone
  PROVE  Spec => []OnlyWholeParts
<1>1. AloneInv => OnlyWholeParts
  <2> SUFFICES ASSUME AloneInv, NEW c \in Clients, NEW p \in Parts,
                      job[c].task.op = "get", p \notin job[c].want,
                      ~(cpc[c] \in {"bytes", "spin"} /\ last[c].part = p)
               PROVE  \E x \in Contents : job[c].bufs[p] = Cut(x, p)
    BY DEF OnlyWholeParts
  <2>1. BufsFrom(c, Contents)
    BY DEF AloneInv, AloneOK
  <2>2. QED
    BY <2>1 DEF BufsFrom
<1>2. QED
  BY <1>1, InitAloneInv, NextAloneInv, PTL DEF Spec

\* The parts that are wanted are not on a server that has nothing to send.
LEMMA NothingFound ==
  ASSUME AloneInv, Alone, NEW c \in Clients, cpc[c] = "answer", Answer(c).tag = "nothing"
  PROVE  \A p \in job[c].want : ~There(job[c].turn, PathKey(c), p)
<1> DEFINE h == sess[c]
           q == reply[h]
<1>t. /\ TypeInv /\ TypeOK /\ Insider(c) /\ InSession(c) /\ StepOK(c) /\ h \in Handlers
      /\ frame[h] \in Frames /\ job[c].round \in 1..2 /\ Answering(c)
  <2>1. TypeInv /\ TypeOK /\ AloneOK(c) /\ Insider(c) /\ StepOK(c) /\ InSession(c)
    BY DEF AloneInv, CalmInv, StepInv, TypeInv, Inv, ClientOK, Alone, InSession
  <2>2. h \in Handlers /\ job[c] \in Jobs
    BY <2>1, SessionTurn
  <2>3. QED
    BY <2>1, <2>2 DEF TypeOK, Jobs, AloneOK
<1>1. /\ CarriesOut(pc[h], frame[h], cmd[h], Login[c], job[c], Stream(c))
      /\ pc[h] \in Silent => q = <<>>
      /\ Owed(pc[h], frame[h], job[c].round, q) /\ job[c].task.op = "get"
  BY <1>t DEF Insider, AtWork, Ahead, StepOK
<1>2. q # <<>> /\ Head(q).tag = "nothing" /\ q \in Seq(Messages)
  BY <1>t DEF Answer, EOF, Message, TypeOK
<1>3. q = NothingMore
  <2>1. pc[h] \in {"serve", "send", "free"}
    BY <1>1, <1>2 DEF CarriesOut, Places, Silent
  <2>2. ~StartsWithUnit(q) /\ \A x : q # Announced(x)
    BY <1>2 DEF StartsWithUnit, Announced, Message
  <2>3. QED
    BY <1>1, <1>2, <1>t, <2>1, <2>2, OwedNext
<1>4. Len(q) = 1 /\ q[1] = Message("nothing", None)
  BY <1>3 DEF NothingMore
<1>5. q[1].tag = "nothing"
  BY <1>4 DEF Message
<1>6. Unserved(c) = job[c].want
  <2>1. Coming(q) = {}
    BY <1>4, <1>5 DEF Coming
  <2>2. QED
    BY <2>1 DEF Unserved
<1>7. QED
  BY <1>4, <1>5, <1>6, <1>t DEF Answering

(***************************************************************************)
(* A get finds something on each server that the last put reached, when    *)
(* its user has waited for the servers to write ("Wait for a response",    *)
(* DFS_client.c:323, where the client waits for nothing): the server does  *)
(* not answer that it has no part.                                         *)
(***************************************************************************)
THEOREM GetFindsThePut ==
  ASSUME Alone
  PROVE  Spec => []ReadsOwnPut
<1>1. AloneInv => ReadsOwnPut
  <2> SUFFICES ASSUME AloneInv, NEW c \in Clients, cpc[c] = "answer", job[c].want = Parts,
                      latest[PathKey(c)] # None, job[c].turn \notin missed[PathKey(c)],
                      Answer(c).tag = "nothing"
               PROVE  FALSE
    BY DEF ReadsOwnPut
  <2>1. \A p \in Parts : ~There(job[c].turn, PathKey(c), p)
    BY NothingFound
  <2>2. \E p \in Parts : There(job[c].turn, PathKey(c), p)
    <3>1. TypeInv /\ AloneOK(c) /\ InSession(c)
      BY DEF AloneInv, CalmInv, StepInv, InSession
    <3>2. job[c].turn \in Servers /\ PathKey(c) \in Own(c) /\ Held(c)
      BY <3>1, SessionTurn, OwnPath DEF AloneOK, Files
    <3>3. QED
      BY <3>2 DEF Held
  <2>3. QED
    BY <2>1, <2>2
<1>2. QED
  BY <1>1, InitAloneInv, NextAloneInv, PTL DEF Spec

-----------------------------------------------------------------------------
Settled == \A c \in Clients : \A plan \in Plans[c] : PutsReplace(c, plan, Stored)

\* Only the versions of the client's own files matter to what it has to put.
LEMMA SamePuts ==
  ASSUME TypeInv, NEW c \in Clients, NEW t \in Seq(TaskTypes), NEW x, NEW y,
         \A k \in Own(c) : x[k] = y[k], PutsReplace(c, t, x)
  PROVE  PutsReplace(c, t, y)
<1>1. ASSUME NEW i \in 1..Len(t) PROVE KeyOf(c, t[i]) \in Own(c)
  <2>1. t[i] \in TaskTypes /\ Login[c][1] \in Users
    BY OwnPath
  <2>2. t[i].dir \in Dirs /\ t[i].name \in Names
    BY <2>1 DEF TaskTypes
  <2>3. QED
    BY <2>1, <2>2 DEF KeyOf, Own, Paths
<1>2. QED
  BY <1>1 DEF PutsReplace

\* A step that leaves the task, the servers skipped and the files of a client
\* leaves their places and versions.
LEMMA SameVersion ==
  ASSUME NEW c, job'[c].task = job[c].task, job'[c].offline = job[c].offline,
         NEW k, latest'[k] = latest[k], missed'[k] = missed[k]
  PROVE  /\ Putting(c, k)' <=> Putting(c, k)
         /\ Version(c, k)' = Version(c, k) /\ Skipped(c, k)' = Skipped(c, k)
         /\ \A s : PlaceOf(c, k, s)' = PlaceOf(c, k, s)
<1>1. Putting(c, k)' <=> Putting(c, k)
  BY DEF Putting, PathKey
<1>2. Version(c, k)' = Version(c, k) /\ Skipped(c, k)' = Skipped(c, k)
  BY <1>1 DEF Version, Skipped
<1>3. QED
  BY <1>1, <1>2 DEF PlaceOf

\* A step that leaves the files leaves every one in its place.
LEMMA FilesSettled ==
  ASSUME NEW c, InPlace(c), Current(c), job[c].turn \in Nat,
         job'[c].task = job[c].task, job'[c].offline = job[c].offline,
         \A k \in Own(c) : latest'[k] = latest[k] /\ missed'[k] = missed[k],
         \A k \in Own(c), s \in Servers, p \in Parts : At(s, k, p)' = At(s, k, p),
         \/ job'[c].turn = job[c].turn /\ (InSession(c) => InSession(c)')
         \/ job'[c].turn = job[c].turn + 1
  PROVE  InPlace(c)' /\ Current(c)'
<1>1. ASSUME NEW k \in Own(c), NEW s \in Servers, NEW p \in Parts
      PROVE  /\ There(s, k, p)' <=> There(s, k, p)
             /\ At(s, k, p)' = At(s, k, p) /\ latest'[k] = latest[k] /\ missed'[k] = missed[k]
             /\ Putting(c, k)' <=> Putting(c, k)
             /\ Version(c, k)' = Version(c, k) /\ Skipped(c, k)' = Skipped(c, k)
             /\ PlaceOf(c, k, s)' = PlaceOf(c, k, s)
             /\ Reached(c, k, s) => Reached(c, k, s)'
  <2>1. At(s, k, p)' = At(s, k, p) /\ latest'[k] = latest[k] /\ missed'[k] = missed[k]
    OBVIOUS
  <2>2. There(s, k, p)' <=> There(s, k, p)
    BY <2>1 DEF There
  <2>3. /\ Putting(c, k)' <=> Putting(c, k)
        /\ Version(c, k)' = Version(c, k) /\ Skipped(c, k)' = Skipped(c, k)
        /\ PlaceOf(c, k, s)' = PlaceOf(c, k, s)
    BY <2>1, SameVersion
  <2>4. s \in Nat /\ job[c].turn \in Nat
    BY ClientAssumption DEF MAXSERVERS
  <2>5. Reached(c, k, s) => Reached(c, k, s)'
    BY <2>1, <2>3, <2>4 DEF Reached
  <2>6. QED
    BY <2>1, <2>2, <2>3, <2>5
<1>2. Own(c)' = Own(c)
  BY DEF Own
<1>3. InPlace(c)'
  BY <1>1, <1>2 DEF InPlace
<1>4. Current(c)'
  BY <1>1, <1>2 DEF Current
<1>5. QED
  BY <1>3, <1>4

\* What remains to be put.
LEMMA PutsSettled ==
  ASSUME TypeInv, NEW c \in Clients, Puts(c), todo'[c] = todo[c],
         job'[c].task = job[c].task, job'[c].offline = job[c].offline,
         \A k \in Own(c) : latest'[k] = latest[k] /\ missed'[k] = missed[k],
         cpc'[c] = "idle" <=> cpc[c] = "idle"
  PROVE  Puts(c)'
<1> DEFINE x == [k \in Paths |-> Version(c, k)]
           y == [k \in Paths |-> Version(c, k)']
<1>1. \A k \in Own(c) : x[k] = y[k]
  <2>1. \A k \in Own(c) : Version(c, k)' = Version(c, k)
    BY SameVersion
  <2>2. QED
    BY <2>1 DEF Own
<1>2. PutsReplace(c, todo[c], x)
  BY DEF Puts
<1>3. todo[c] \in Seq(TaskTypes)
  BY DEF TypeInv, ClientTypeOK
<1>4. PutsReplace(c, todo[c], y)
  <2> HIDE DEF x, y
  <2>1. QED
    BY <1>1, <1>2, <1>3, SamePuts
<1>5. PutsReplace(c, todo[c], [k \in Paths |-> Version(c, k)])'
  BY <1>4 DEF PutsReplace, KeyOf
<1>6. PathKey(c)' = PathKey(c) /\ PathKey(c) \in Own(c)
  BY OwnPath DEF PathKey
<1>7. QED
  BY <1>5, <1>6 DEF Puts

\* A step that leaves a client and what it reads alone.
LEMMA SettledUntouched ==
  ASSUME TypeInv, NEW c \in Clients, SettledOK(c), Undisturbed(c)
  PROVE  SettledOK(c)'
<1>t. /\ cpc'[c] = cpc[c] /\ job'[c] = job[c] /\ sess'[c] = sess[c]
      /\ last'[c] = last[c] /\ file'[c] = file[c] /\ listed'[c] = listed[c]
      /\ todo'[c] = todo[c]
      /\ PathKey(c)' = PathKey(c) /\ PathKey(c) \in Own(c)
      /\ InSession(c)' = InSession(c) /\ job[c].turn \in Nat
      /\ InSession(c) => pc'[sess[c]] = pc[sess[c]] /\ reply'[sess[c]] = reply[sess[c]]
                         /\ job[c].turn \in Servers
  BY OwnPath, SessionTurn
     DEF Undisturbed, SameClient, SameConnection, PathKey, InSession, Jobs, MAXSERVERS
<1>k. /\ \A k \in Own(c) : latest'[k] = latest[k] /\ missed'[k] = missed[k]
      /\ \A k \in Own(c), s \in Servers, p \in Parts : At(s, k, p)' = At(s, k, p)
  BY DEF Undisturbed
<1>1. InPlace(c)' /\ Current(c)'
  BY <1>t, <1>k, FilesSettled DEF SettledOK
<1>2. Puts(c)'
  BY <1>t, <1>k, PutsSettled DEF SettledOK
<1>3. \A s \in Servers, p \in Parts : There(s, PathKey(c), p)' <=> There(s, PathKey(c), p)
  <2>1. \A s \in Servers, p \in Parts : At(s, PathKey(c), p)' = At(s, PathKey(c), p)
    BY <1>t, <1>k
  <2>2. QED
    BY <1>t, <2>1 DEF There
<1>4. Gathered(c)'
  BY <1>t, <1>k, <1>3 DEF SettledOK, Gathered
<1>5. Halfway(c)'
  BY <1>t, <1>3 DEF SettledOK, Halfway, InSession
<1>6. Seen(c)'
  <2> SUFFICES ASSUME job[c].task.op = "list" PROVE Seen(c)'
    BY <1>t DEF Seen
  <2>1. Seen(c) /\ (cpc[c] = "listing" => InSession(c))
    BY DEF SettledOK, InSession
  <2>2. ASSUME NEW s \in Servers, s < job[c].turn, s \notin job[c].offline
        PROVE  Lists(job[c].seen, c, s)'
    <3>1. Lists(job[c].seen, c, s)
      BY <2>1, <2>2 DEF Seen
    <3>2. QED
      BY <1>t, <1>3, <3>1 DEF Lists
  <2>3. ASSUME cpc[c] = "listing", pc'[sess[c]] = "free"
        PROVE  \E B \in SUBSET (Names \X (0..4)) :
                 reply'[sess[c]] = <<Message("listing", B)>> /\ Lists(B, c, job[c].turn)'
    <3>1. PICK B \in SUBSET (Names \X (0..4)) :
            reply[sess[c]] = <<Message("listing", B)>> /\ Lists(B, c, job[c].turn)
      BY <1>t, <2>1, <2>3 DEF Seen
    <3>2. Lists(B, c, job[c].turn)'
      BY <1>t, <1>3, <2>1, <2>3, <3>1 DEF Lists
    <3>3. QED
      BY <1>t, <2>1, <2>3, <3>1, <3>2
  <2>4. QED
    BY <1>t, <2>2, <2>3 DEF Seen
<1>7. Result(c)'
  <2>1. latest'[PathKey(c)] = latest[PathKey(c)] /\ missed'[PathKey(c)] = missed[PathKey(c)]
    BY <1>t, <1>k
  <2>2. QED
    BY <1>t, <2>1 DEF SettledOK, Result, Finished, Outs, IsContent
<1>8. QED
  BY <1>1, <1>2, <1>4, <1>5, <1>6, <1>7 DEF SettledOK

\* What a handler adds to the stream that a get reads.
LEMMA HandlerAdds ==
  ASSUME AloneInv, Alone, NEW c \in Clients, NEW h \in Handlers, OfClient(c, h),
         HandlerStep(h), UNCHANGED <<clientVars, historyVars>>, cpc[c] \in {"answer", "bytes"}
  PROVE  /\ h = sess[c] /\ UNCHANGED disk /\ reply[h] \in Seq(Messages)
         /\ \/ reply'[h] = reply[h]
            \/ \E m \in Messages : /\ reply'[h] = Append(reply[h], m)
                                   /\ m.tag = "header" => m.body.part \in Unserved(c)
<1>t. /\ TypeInv /\ TypeOK /\ Serving(c) /\ Insider(c) /\ Answering(c)
      /\ job[c].task.op = "get" /\ InSession(c)
  <2>1. TypeInv /\ TypeOK /\ AloneOK(c) /\ CalmInv
    BY HandlerOfOne, OwnHandler
  <2>2. Insider(c) /\ StepOK(c)
    BY <2>1 DEF CalmInv, StepInv, ClientOK, Alone
  <2>3. QED
    BY <2>1, <2>2 DEF AloneOK, StepOK, InSession
<1>h. h = sess[c] /\ reply[h] \in Seq(Messages) /\ frame[h] \in Frames
  <2>1. ~LeftBehind(c, h)
    BY <1>t DEF LeftBehind
  <2>2. QED
    BY <1>t, <2>1 DEF Serving, TypeOK
<1>c. pc[h] \in {"scan", "command", "request", "serve", "send"}
  <2>1. CarriesOut(pc[h], frame[h], cmd[h], Login[c], job[c], Stream(c))
    BY <1>h, <1>t DEF Insider, AtWork
  <2>2. pc[h] \in Places("get") /\ pc[h] # "free"
    BY <1>t, <2>1 DEF CarriesOut, OfClient
  <2>3. QED
    BY <2>2 DEF Places
<1>d. /\ UNCHANGED disk /\ ~UserDirectoryExists(h) /\ ~ListUnopened(h)
  BY <1>c, HandlerKeepsFiles
<1>s. \A m \in Messages : Send(h, m) => reply'[h] = Append(reply[h], m)
  BY <1>t DEF Send, TypeOK
<1>1. CASE ServeHeader(h)
  <2>1. PICK p \in Found(h) : Send(h, Message("header", [size |-> FileAt(h, p).size, part |-> p]))
    BY <1>1 DEF ServeHeader
  <2> DEFINE m == Message("header", [size |-> FileAt(h, p).size, part |-> p])
  <2>2. p \in Unserved(c) /\ p \in Parts /\ pc[h] = "serve"
    <3>1. p \in frame[h].ask /\ pc[h] = "serve" /\ frame[h].ask \subseteq Parts
      BY <1>1, <1>h DEF ServeHeader, Found, Frames
    <3>2. QED
      BY <1>h, <1>t, <3>1 DEF Answering
  <2>3. m \in Messages /\ m.tag = "header" /\ m.body.part = p
    <3>1. FileAt(h, p) = At(ServerOf(h), PathKey(c), p)
      BY <2>2, OwnHandler DEF FileAt, PathOf, At
    <3>2. At(ServerOf(h), PathKey(c), p) \in Pieces
      <4>1. PathKey(c) \in Paths /\ ServerOf(h) \in Servers
        BY <1>t, OwnPath, OwnHandler
      <4>2. <<PathKey(c)[1], PathKey(c)[2], PathKey(c)[3], p>> \in Slots
        BY <4>1, <2>2 DEF Paths, Slots, Parts
      <4>3. QED
        BY <1>t, <4>1, <4>2 DEF At, TypeOK
    <3>3. [size |-> FileAt(h, p).size, part |-> p] \in Headers
      BY <2>2, <3>1, <3>2 DEF Headers, Pieces, Parts
    <3>4. QED
      BY <3>3, MessageTypes DEF Message
  <2>4. QED
    BY <1>d, <1>h, <1>s, <2>1, <2>2, <2>3
<1>2. CASE SendPart(h)
  <2>1. PICK now \in {FileAt(h, frame[h].hdr.part), frame[h].copy} :
          Send(h, Message("data", ReadBack(now, frame[h].hdr.size)))
    BY <1>2 DEF SendPart
  <2> DEFINE m == Message("data", ReadBack(now, frame[h].hdr.size))
  <2>2. reply'[h] = Append(reply[h], m) /\ m.tag = "data"
    BY <1>t, <2>1 DEF Send, TypeOK, Message
  <2>3. m \in Messages
    <3>1. reply'[h] \in Seq(Messages)
      <4>1. Inv'
        BY <1>t, HandlerInv DEF TypeInv
      <4>2. QED
        BY <4>1 DEF Inv, TypeOK
    <3>2. reply'[h][Len(reply[h]) + 1] = m /\ Len(reply'[h]) = Len(reply[h]) + 1
      BY <1>h, <2>2
    <3>3. Len(reply[h]) + 1 \in 1..Len(reply'[h])
      BY <1>h, <3>2
    <3>4. QED
      BY <3>1, <3>2, <3>3
  <2>4. QED
    BY <1>d, <1>h, <2>2, <2>3
<1>3. CASE ServeNothing(h)
  <2>1. Message("nothing", None) \in Messages /\ Message("nothing", None).tag = "nothing"
    BY MessageTypes DEF Message
  <2>2. QED
    BY <1>3, <1>d, <1>h, <1>s, <2>1 DEF ServeNothing
<1>4. CASE ~ServeHeader(h) /\ ~SendPart(h) /\ ~ServeNothing(h)
  <2>1. reply'[h] = reply[h]
    BY <1>4, <1>c, <1>d DEF HandlerStep, Authenticate, MakeUserDirectory, List, OpenPart,
       WritePart, Spin, ScanForDirectory, ReadCommand, ReadRequest, ServeUnopened
  <2>2. QED
    BY <1>d, <1>h, <2>1
<1>5. QED
  BY <1>1, <1>2, <1>3, <1>4
\* A handler of a put writes the parts of its pair.
LEMMA HandlerInPlace ==
  ASSUME AloneInv, Alone, NEW c \in Clients, NEW h \in Handlers, OfClient(c, h),
         HandlerStep(h), UNCHANGED <<clientVars, historyVars>>, InPlace(c), Current(c)
  PROVE  InPlace(c)' /\ Current(c)'
<1>t. /\ TypeInv /\ Serving(c) /\ Placed(c) /\ job[c].turn \in Nat
      /\ UNCHANGED <<cpc, job, sess, latest, missed>> /\ Own(c)' = Own(c)
      /\ InSession(c)' = InSession(c) /\ PathKey(c)' = PathKey(c)
  <2>1. TypeInv /\ AloneOK(c) /\ Own(c)' = Own(c) /\ PathKey(c)' = PathKey(c)
    BY HandlerOfOne
  <2>2. job[c].turn \in Nat
    BY <2>1, SessionTurn DEF Jobs, MAXSERVERS
  <2>3. QED
    BY <2>1, <2>2 DEF AloneOK, clientVars, historyVars, InSession
<1>1. ASSUME NEW k \in Own(c), NEW s \in Servers
      PROVE  /\ Putting(c, k)' <=> Putting(c, k)
             /\ Version(c, k)' = Version(c, k) /\ Skipped(c, k)' = Skipped(c, k)
             /\ PlaceOf(c, k, s)' = PlaceOf(c, k, s)
             /\ Reached(c, k, s)' <=> Reached(c, k, s)
  <2>1. /\ Putting(c, k)' <=> Putting(c, k)
        /\ Version(c, k)' = Version(c, k) /\ Skipped(c, k)' = Skipped(c, k)
        /\ PlaceOf(c, k, s)' = PlaceOf(c, k, s)
    BY <1>t, SameVersion
  <2>2. QED
    BY <1>t, <2>1 DEF Reached
<1>2. CASE pc[h] \notin {"header", "data"}
  <2>1. UNCHANGED disk
    BY <1>2, HandlerKeepsFiles DEF clientVars
  <2>2. \A k \in Own(c), s \in Servers, p \in Parts : At(s, k, p)' = At(s, k, p)
    BY <2>1 DEF At
  <2>3. QED
    BY <1>t, <2>2, FilesSettled
<1>3. CASE pc[h] \in {"header", "data"}
  <2> DEFINE r == ServerOf(h)
             key == PathKey(c)
             i == frame[h].round
             q == PartOf(JobAt(c, r), i)
  <2>1. job[c].task.op = "put" /\ q \in Parts /\ OnlyWrites(r, key, q)
    BY <1>3, HandlerStores
  <2>2. r \in Servers /\ i \in 1..2 /\ job[c].task.content \in Contents
    BY <2>1, OwnHandler
  <2>3. q \in PairParts(OwnPair(c, r))
    <3>1. q = PartSent(OwnPair(c, r), i - 1) /\ i - 1 \in 0..1
      BY <1>t, <2>2, PartPut
    <3>2. QED
      BY <3>1 DEF PairParts
  <2> HIDE DEF q, i
  <2>4. (InSession(c) /\ r = job[c].turn) \/ r < job[c].turn
    BY <1>t DEF Serving, LeftBehind, TypeInv, SessionOK
  <2>5. r \notin job[c].offline
    <3>1. InSession(c) /\ h = sess[c] => r \notin 1..(job[c].turn - 1)
      BY <1>t DEF TypeInv, SessionOK
    <3>2. QED
      BY <1>t, <3>1 DEF Serving, LeftBehind, Placed
  <2>6. Putting(c, key)
    BY <2>1 DEF Putting
  <2>7. /\ Version(c, key) # None /\ r \notin Skipped(c, key)
        /\ q \in PlaceOf(c, key, r) /\ Reached(c, key, r)
    <3>1. Version(c, key) = job[c].task.content /\ Skipped(c, key) = job[c].offline
      BY <2>6 DEF Version, Skipped
    <3>2. PlaceOf(c, key, r) = PairParts(OwnPair(c, r))
      BY <2>1, <3>1 DEF PlaceOf, OwnPair, Class
    <3>3. job[c].task.content # None
      BY <2>2, ConstantsAssumption
    <3>4. QED
      BY <2>3, <2>4, <2>5, <3>1, <3>2, <3>3 DEF Reached
  <2> HIDE DEF r, key
  <2>8. ASSUME NEW k \in Own(c), NEW s \in Servers, NEW p \in Parts
        PROVE  \/ s = r /\ k = key /\ p = q
               \/ At(s, k, p)' = At(s, k, p)
    <3>1. At(s, k, p)' = AtNext(s, k, p)
      BY DEF At, AtNext
    <3>2. QED
      BY <2>1, <3>1 DEF OnlyWrites, Own
  <2>9. InPlace(c)'
    <3>1. ASSUME NEW k \in Own(c), NEW s \in Servers, NEW p \in Parts, There(s, k, p)'
          PROVE  /\ Version(c, k)' # None /\ s \notin Skipped(c, k)'
                 /\ p \in PlaceOf(c, k, s)' /\ Reached(c, k, s)'
      <4>1. CASE s = r /\ k = key /\ p = q
        BY <1>1, <2>7, <4>1
      <4>2. CASE ~(s = r /\ k = key /\ p = q)
        <5>1. There(s, k, p)
          BY <2>8, <3>1, <4>2 DEF There
        <5>2. QED
          BY <1>1, <5>1 DEF InPlace
      <4>3. QED
        BY <4>1, <4>2
    <3>2. QED
      BY <1>t, <3>1 DEF InPlace
  <2>10. Current(c)'
    <3>1. ASSUME NEW k \in Own(c), NEW s \in Servers, NEW p \in Parts, ~Putting(c, k)'
          PROVE  /\ There(s, k, p)' => At(s, k, p)' = Cut(latest'[k], p)
                 /\ latest'[k] # None /\ s \notin missed'[k] /\ p \in PlaceOf(c, k, s)'
                      => There(s, k, p)'
      <4>1. ~Putting(c, k) /\ k # key
        BY <1>1, <2>6, <3>1
      <4>2. At(s, k, p)' = At(s, k, p) /\ (There(s, k, p)' <=> There(s, k, p))
        BY <2>8, <4>1 DEF There
      <4>3. QED
        BY <1>1, <1>t, <4>1, <4>2 DEF Current
    <3>2. QED
      BY <1>t, <3>1 DEF Current
  <2>11. QED
    BY <2>9, <2>10
<1>4. QED
  BY <1>2, <1>3

\* A listing names all that is there.
LEMMA HandlerLists ==
  ASSUME AloneInv, Alone, NEW c \in Clients, NEW h \in Handlers, OfClient(c, h),
         HandlerStep(h), UNCHANGED <<clientVars, historyVars>>,
         cpc[c] = "listing", job[c].task.op = "list", pc'[h] = "free"
  PROVE  /\ h = sess[c] /\ UNCHANGED disk
         /\ reply'[h] = <<Message("listing", Listing(h))>>
         /\ Listing(h) \in SUBSET (Names \X (0..4))
         /\ Lists(Listing(h), c, job[c].turn)
<1>t. /\ TypeInv /\ Inv /\ TypeOK /\ Serving(c) /\ Insider(c) /\ InSession(c) /\ ~gone[h]
  <2>1. TypeInv /\ Inv /\ TypeOK /\ AloneOK(c) /\ CalmInv
    BY HandlerOfOne, OwnHandler
  <2>2. Insider(c) /\ ~gone[h]
    BY <2>1, CalmStep DEF CalmInv, ClientOK, Alone
  <2>3. QED
    BY <2>1, <2>2 DEF AloneOK, InSession
<1>h. h = sess[c] /\ ServerOf(h) = job[c].turn /\ job[c].task \in TaskTypes
  <2>1. ~LeftBehind(c, h)
    BY DEF LeftBehind
  <2>2. QED
    BY <1>t, <2>1, SessionTurn DEF Serving, TypeInv, SessionOK
<1>c. /\ pc[h] \in {"scan", "command", "list"} /\ reply[h] = <<>>
      /\ CarriesOut(pc[h], frame[h], cmd[h], Login[c], job[c], inbox[h] \o <<>>)
  <2>1. /\ CarriesOut(pc[h], frame[h], cmd[h], Login[c], job[c], Stream(c))
        /\ pc[h] \in Silent => Ahead(c) = <<>>
    BY <1>h, <1>t DEF Insider, AtWork
  <2>2. pc[h] \in {"scan", "command", "list"}
    BY <2>1 DEF CarriesOut, OfClient, Places
  <2>3. Stream(c) = inbox[h] \o <<>>
    BY <1>h DEF Stream, Unsent
  <2>4. QED
    BY <1>h, <2>1, <2>2, <2>3 DEF Ahead, Silent
<1>d. /\ UNCHANGED disk /\ ~UserDirectoryExists(h) /\ ~ListUnopened(h)
  BY <1>c, HandlerKeepsFiles
<1>1. List(h)
  <2>1. ~ScanForDirectory(h)
    BY <1>t DEF ScanForDirectory, Goto, TypeOK
  <2>2. ~ReadCommand(h)
    <3>1. DirectoryReady /\ pc'[h] # "mkdir" /\ <<>> \in Seq(Messages) /\ job[c] \in Jobs
      BY <1>t, CalmStep, SessionTurn DEF AloneInv
    <3>2. ReadCommand(h) => pc'[h] = "list"
      BY <1>c, <1>t, <3>1, CarriesOn DEF FirstState
    <3>3. QED
      BY <3>2
  <2>3. QED
    BY <1>c, <1>d, <2>1, <2>2 DEF HandlerStep, Authenticate, MakeUserDirectory, OpenPart,
       WritePart, Spin, ReadRequest, ServeHeader, SendPart, ServeNothing, ServeUnopened
<1>2. reply'[h] = <<Message("listing", Listing(h))>>
  BY <1>1, <1>c, <1>t DEF List, Send, TypeOK
<1>3. Lists(Listing(h), c, job[c].turn)
  <2>1. ASSUME NEW p \in Parts, There(job[c].turn, PathKey(c), p)
        PROVE  <<job[c].task.name, p>> \in Listing(h)
    <3>1. /\ cmd[h] = Typed(job[c])
          /\ <<User(h), cmd[h].dir, cmd[h].name, p>>
               = <<PathKey(c)[1], PathKey(c)[2], PathKey(c)[3], p>>
      BY <1>1, OwnHandler DEF List
    <3>2. job[c].task.name \in Names /\ cmd[h].name = job[c].task.name /\ p \in 0..4
      BY <1>h, <3>1 DEF TaskTypes, Typed, Parts
    <3>3. disk[ServerOf(h)][<<User(h), cmd[h].dir, job[c].task.name, p>>].kind # "absent"
      BY <1>h, <2>1, <3>1, <3>2 DEF There, At
    <3>4. QED
      BY <3>2, <3>3 DEF Listing
  <2>2. QED
    BY <2>1 DEF Lists
<1>4. QED
  BY <1>d, <1>h, <1>2, <1>3 DEF Listing

\* The step of a handler, of this client or of another.
LEMMA HandlerSettled ==
  ASSUME AloneInv, Alone, NEW h \in Handlers, HandlerStep(h),
         UNCHANGED <<clientVars, historyVars>>, NEW c \in Clients, SettledOK(c)
  PROVE  SettledOK(c)'
<1>0. TypeInv /\ CalmInv
  BY DEF AloneInv, CalmInv, StepInv
<1>1. CASE peer[h] # c
  BY <1>0, <1>1, HandlerOfAnother, SettledUntouched
<1>2. CASE peer[h] = c
  <2>t. /\ OfClient(c, h) /\ Serving(c) /\ Insider(c) /\ StepOK(c) /\ job[c] \in Jobs
        /\ UNCHANGED <<cpc, job, sess, last, file, listed, todo, latest, missed>>
        /\ PathKey(c)' = PathKey(c) /\ (InSession(c) => sess[c] \in Handlers)
        /\ \A k \in Handlers \ {h} : pc'[k] = pc[k] /\ reply'[k] = reply[k]
    <3>1. OfClient(c, h)
      BY <1>0, <1>2, CalmStep DEF OfClient
    <3>2. AloneOK(c) /\ PathKey(c)' = PathKey(c)
      BY <3>1, HandlerOfOne
    <3>3. Insider(c) /\ StepOK(c)
      BY <1>0 DEF CalmInv, StepInv, ClientOK, Alone
    <3>4. job[c] \in Jobs /\ (InSession(c) => sess[c] \in Handlers)
      BY <1>0, SessionTurn
    <3>5. QED
      BY <1>0, <3>1, <3>2, <3>3, <3>4, CalmStep DEF AloneOK, clientVars, historyVars
  <2>1. InPlace(c)' /\ Current(c)'
    BY <2>t, HandlerInPlace DEF SettledOK
  <2>2. Puts(c)'
    BY <1>0, <2>t, PutsSettled DEF SettledOK
  <2>d. job[c].task.op # "put" =>
          UNCHANGED disk /\ \A s, k, p : There(s, k, p)' <=> There(s, k, p)
    <3>1. job[c].task.op # "put" => UNCHANGED disk
      BY <2>t, HandlerStores, HandlerKeepsFiles
    <3>2. QED
      BY <3>1 DEF There, At
  <2>3. Gathered(c)'
    BY <2>t, <2>d DEF SettledOK, Gathered
  <2>4. Halfway(c)'
    <3> SUFFICES ASSUME cpc[c] \in {"answer", "bytes"} PROVE Halfway(c)'
      BY <2>t DEF Halfway
    <3>1. /\ h = sess[c] /\ reply[h] \in Seq(Messages)
          /\ \/ reply'[h] = reply[h]
             \/ \E m \in Messages : /\ reply'[h] = Append(reply[h], m)
                                    /\ m.tag = "header" => m.body.part \in Unserved(c)
      BY <2>t, HandlerAdds
    <3>2. Halfway(c) /\ job[c].task.op = "get"
      BY <2>t DEF SettledOK, StepOK
    <3>3. Fresh(reply'[h], job[c].want)
      <4>1. Fresh(reply[h], job[c].want)
        BY <3>1, <3>2 DEF Halfway
      <4>2. ASSUME NEW m \in Messages, m.tag = "header" => m.body.part \in Unserved(c)
            PROVE  Fresh(Append(reply[h], m), job[c].want)
        BY <3>1, <4>1, <4>2, FreshMore DEF Unserved
      <4>3. QED
        BY <3>1, <4>1, <4>2
    <3>4. QED
      BY <2>t, <2>d, <3>1, <3>2, <3>3 DEF Halfway
  <2>5. Seen(c)'
    <3> SUFFICES ASSUME job[c].task.op = "list" PROVE Seen(c)'
      BY <2>t DEF Seen
    <3>1. Seen(c)
      BY DEF SettledOK
    <3>2. \A s, B : Lists(B, c, s)' <=> Lists(B, c, s)
      BY <2>t, <2>d DEF Lists
    <3>3. ASSUME NEW s \in Servers, s < job[c].turn, s \notin job[c].offline
          PROVE  Lists(job[c].seen, c, s)'
      <4>1. Lists(job[c].seen, c, s)
        BY <3>1, <3>3 DEF Seen
      <4>2. QED
        BY <2>t, <2>d, <4>1 DEF Lists
    <3>4. ASSUME cpc[c] = "listing", pc'[sess[c]] = "free"
          PROVE  \E B \in SUBSET (Names \X (0..4)) :
                   reply'[sess[c]] = <<Message("listing", B)>> /\ Lists(B, c, job[c].turn)'
      <4>1. h = sess[c]
        <5>1. ~LeftBehind(c, h)
          BY DEF LeftBehind
        <5>2. QED
          BY <2>t, <5>1 DEF Serving
      <4>2. QED
        BY <2>t, <3>2, <3>4, <4>1, HandlerLists
    <3>5. QED
      BY <2>t, <3>3, <3>4 DEF Seen
  <2>6. Result(c)'
    BY <2>t DEF SettledOK, Result, Finished, Outs, IsContent
  <2>7. QED
    BY <2>1, <2>2, <2>3, <2>4, <2>5, <2>6 DEF SettledOK
<1>3. QED
  BY <1>1, <1>2

(***************************************************************************)
(* The client.  In the middle of a command its files and what it has to    *)
(* put are what they were; what it has gathered, how far it is with the    *)
(* server and what it has seen are each action's own.                      *)
(***************************************************************************)
LEMMA SettledMoves ==
  ASSUME AloneInv, Alone, NEW c \in Clients, UserStep(c), SettledOK(c), Onward(c),
         job'[c].offline = job[c].offline, UNCHANGED <<latest, missed>>, todo'[c] = todo[c],
         cpc[c] # "idle", cpc'[c] # "idle",
         job'[c].turn = job[c].turn => (InSession(c) => InSession(c)')
  PROVE  /\ InPlace(c)' /\ Current(c)' /\ Puts(c)' /\ Result(c)'
         /\ PathKey(c)' = PathKey(c) /\ PathKey(c) \in Own(c) /\ UNCHANGED disk
         /\ \A s, k, p : There(s, k, p)' <=> There(s, k, p)
<1>t. TypeInv /\ job[c].turn \in Nat /\ UNCHANGED disk /\ PathKey(c) \in Own(c)
  BY OwnStep, OwnPath
<1>1. \A s, k, p : At(s, k, p)' = At(s, k, p) /\ (There(s, k, p)' <=> There(s, k, p))
  BY <1>t DEF At, There
<1>2. InPlace(c)' /\ Current(c)'
  BY <1>1, <1>t, FilesSettled DEF SettledOK, Onward
<1>3. Puts(c)'
  BY <1>t, PutsSettled DEF SettledOK, Onward
<1>4. Result(c)'
  BY DEF Result, Finished
<1>5. PathKey(c)' = PathKey(c)
  BY DEF PathKey, Onward
<1>6. QED
  BY <1>1, <1>2, <1>3, <1>4, <1>5, <1>t

\* What get has gathered when it goes on without a part.
LEMMA GatheredMoves ==
  ASSUME NEW c, Gathered(c), cpc[c] # "bytes", job[c].turn \in Nat,
         job'[c].task = job[c].task, job'[c].want = job[c].want, job'[c].bufs = job[c].bufs,
         job'[c].offline = job[c].offline, latest' = latest,
         \A s, k, p : There(s, k, p)' <=> There(s, k, p),
         \/ job'[c].turn = job[c].turn
         \/ /\ job'[c].turn = job[c].turn + 1
            /\ job[c].task.op = "get" =>
                 \A p \in job[c].want : ~There(job[c].turn, PathKey(c), p)
  PROVE  Gathered(c)'
<1>1. PathKey(c)' = PathKey(c)
  BY DEF PathKey
<1>2. ASSUME job[c].task.op = "get", NEW s \in Servers, NEW p \in Parts,
             s < job'[c].turn, s \notin job[c].offline, There(s, PathKey(c), p)
      PROVE  p \notin job[c].want
  <2>1. s < job[c].turn \/ (s = job[c].turn /\ job'[c].turn = job[c].turn + 1)
    BY <1>2, ClientAssumption DEF MAXSERVERS
  <2>2. QED
    BY <1>2, <2>1 DEF Gathered
<1>3. ASSUME job[c].task.op = "get", NEW p \in Parts \ job[c].want
      PROVE  latest[PathKey(c)] # None /\ job[c].bufs[p] = Cut(latest[PathKey(c)], p)
  BY <1>3 DEF Gathered
<1>4. QED
  BY <1>1, <1>2, <1>3 DEF Gathered

\* What ls has seen when it goes on without a listing.
LEMMA SeenMoves ==
  ASSUME NEW c, Seen(c), job'[c].task = job[c].task, job'[c].seen = job[c].seen,
         job'[c].offline = job[c].offline, job'[c].turn = job[c].turn,
         \A s, k, p : There(s, k, p)' <=> There(s, k, p),
         cpc'[c] = "listing" => pc'[sess'[c]] # "free"
  PROVE  Seen(c)'
<1> SUFFICES ASSUME job[c].task.op = "list" PROVE Seen(c)'
  BY DEF Seen
<1>1. PathKey(c)' = PathKey(c)
  BY DEF PathKey
<1>2. ASSUME NEW s \in Servers, s < job[c].turn, s \notin job[c].offline
      PROVE  Lists(job[c].seen, c, s)'
  <2>1. Lists(job[c].seen, c, s)
    BY <1>2 DEF Seen
  <2>2. QED
    BY <1>1, <2>1 DEF Lists
<1>3. QED
  BY <1>2 DEF Seen

\* Connecting and the verdict.
LEMMA SettledBegins ==
  ASSUME AloneInv, Alone, NEW c \in Clients, Connect(c) \/ LoginAccepted(c), SettledOK(c)
  PROVE  SettledOK(c)'
<1>t. /\ UserStep(c) /\ ClientTypeOK /\ job[c] \in Jobs /\ job'[c] \in Jobs
      /\ job[c].turn \in Nat /\ cpc[c] \in {"connect", "verdict"}
      /\ UNCHANGED <<latest, missed, todo>>
  <2>1. UserStep(c) /\ cpc[c] \in {"connect", "verdict"} /\ UNCHANGED <<latest, missed, todo>>
    BY DEF UserStep, ClientStep, Connect, LoginAccepted, historyVars
  <2>2. QED
    BY <2>1, OwnStep
<1>1. /\ cpc'[c] \in {"verdict", "write"}
      /\ job'[c] = job[c] \/ job'[c] = [job[c] EXCEPT !.lost = FALSE]
  BY <1>t DEF Connect, LoginAccepted, Step, ClientTypeOK
<1>2. /\ job'[c].task = job[c].task /\ job'[c].turn = job[c].turn
      /\ job'[c].offline = job[c].offline /\ job'[c].want = job[c].want
      /\ job'[c].bufs = job[c].bufs /\ job'[c].seen = job[c].seen
  BY <1>1, <1>t DEF Jobs
<1>3. Onward(c)
  BY <1>2, <1>t DEF Onward
<1>4. /\ InPlace(c)' /\ Current(c)' /\ Puts(c)' /\ Result(c)'
      /\ \A s, k, p : There(s, k, p)' <=> There(s, k, p)
  BY <1>1, <1>2, <1>3, <1>t, SettledMoves DEF InSession
<1>5. Gathered(c)'
  BY <1>2, <1>4, <1>t, GatheredMoves DEF SettledOK
<1>6. Seen(c)'
  BY <1>1, <1>2, <1>4, SeenMoves DEF SettledOK
<1>7. Halfway(c)'
  BY <1>1 DEF Halfway
<1>8. QED
  BY <1>4, <1>5, <1>6, <1>7 DEF SettledOK

\* Nothing is answered to a get that is still being written, and no listing is
\* written before the command is.
LEMMA WritesUnanswered ==
  ASSUME AloneInv, Alone, NEW c \in Clients, Write(c)
  PROVE  /\ pc[sess[c]] # "free" /\ pc' = pc /\ reply' = reply
         /\ job[c].task.op = "get" =>
              pc[sess[c]] \in Silent /\ reply[sess[c]] = <<>> /\ job[c].round = 1
<1> DEFINE h == sess[c]
<1>t. /\ TypeInv /\ TypeOK /\ ClientTypeOK /\ CalmInv /\ cpc[c] = "write" /\ InSession(c)
      /\ Insider(c) /\ SessionOK(c) /\ h \in Handlers /\ UNCHANGED <<pc, reply>>
  <2>1. UserStep(c) /\ cpc[c] = "write" /\ InSession(c) /\ UNCHANGED <<pc, reply>>
    BY DEF UserStep, ClientStep, Write, InSession
  <2>2. QED
    BY <2>1, OwnStep, SessionTurn
<1>1. pc[h] # "free"
  BY <1>t, InsiderWrites DEF Closed
<1>2. ASSUME job[c].task.op = "get" PROVE pc[h] \in Silent
  <2>1. /\ CarriesOut(pc[h], frame[h], cmd[h], Login[c], job[c], Stream(c))
        /\ Stream(c) = inbox[h] \o outbox[c]
    BY <1>t DEF Insider, AtWork, Stream, Unsent
  <2>2. inbox[h] \o outbox[c] # <<>>
    <3> DEFINE q == inbox[h]
               o == outbox[c]
    <3>1. q \in Seq(Messages) /\ o \in Seq(Messages) /\ o # <<>>
      BY <1>t DEF TypeOK, ClientTypeOK, SessionOK
    <3> HIDE DEF q, o
    <3>2. Len(q \o o) = Len(q) + Len(o) /\ Len(o) > 0 /\ Len(q) \in Nat /\ Len(o) \in Nat
      BY <3>1, TailItems
    <3>3. Len(<<>>) = 0
      OBVIOUS
    <3>4. QED
      BY <3>2, <3>3 DEF q, o
  <2>3. pc[h] \in {"scan", "command", "request", "serve", "send", "free"}
    BY <1>2, <2>1 DEF CarriesOut, Places
  <2>4. pc[h] \in {"serve", "send", "free"} => Left(pc[h], frame[h].round, job[c]) = <<>>
    BY DEF Left
  <2>5. QED
    BY <2>1, <2>2, <2>3, <2>4 DEF CarriesOut, Silent
<1>3. pc[h] \in Silent => reply[h] = <<>> /\ job[c].round = 1
  BY <1>t DEF Insider, AtWork, Ahead
<1>4. QED
  BY <1>1, <1>2, <1>3, <1>t

\* Writing the command.
LEMMA SettledWrites ==
  ASSUME AloneInv, Alone, NEW c \in Clients, Write(c), SettledOK(c)
  PROVE  SettledOK(c)'
<1> DEFINE h == sess[c]
<1>t. /\ UserStep(c) /\ job[c].turn \in Nat /\ cpc[c] = "write" /\ InSession(c)
      /\ UNCHANGED <<latest, missed, todo>> /\ StepOK(c)'
      /\ pc[h] # "free" /\ pc' = pc /\ reply' = reply
      /\ job[c].task.op = "get" => reply[h] = <<>> /\ job[c].round = 1
  <2>1. /\ UserStep(c) /\ cpc[c] = "write" /\ UNCHANGED <<latest, missed, todo>> /\ InSession(c)
    BY DEF UserStep, ClientStep, Write, historyVars, InSession
  <2>2. StepInv /\ [Next]_vars
    BY <2>1 DEF AloneInv, CalmInv, Next, UserStep
  <2>3. StepOK(c)'
    BY <2>2, NextStepInv DEF StepInv
  <2>4. QED
    BY <2>1, <2>3, OwnStep, WritesUnanswered
<1>1. /\ Onward(c) /\ job'[c].offline = job[c].offline
      /\ job'[c].want = job[c].want /\ job'[c].bufs = job[c].bufs
      /\ \/ /\ cpc'[c] \in {"write", "listing", "answer"} /\ sess' = sess
            /\ job'[c].turn = job[c].turn
            /\ job'[c].seen = job[c].seen /\ job'[c].round = job[c].round
         \/ /\ cpc'[c] = "connect" /\ job'[c].turn = job[c].turn + 1
            /\ job[c].task.op \in {"put", "MKDIR"}
  BY WritingLeads
<1>2. /\ InPlace(c)' /\ Current(c)' /\ Puts(c)' /\ Result(c)'
      /\ \A s, k, p : There(s, k, p)' <=> There(s, k, p)
  BY <1>1, <1>t, SettledMoves DEF InSession
<1>3. Gathered(c)'
  BY <1>1, <1>2, <1>t, GatheredMoves DEF SettledOK, Onward
<1>4. Seen(c)'
  <2>1. CASE job[c].task.op # "list"
    BY <1>1, <2>1 DEF Seen, Onward
  <2>2. CASE job[c].task.op = "list"
    BY <1>1, <1>2, <1>t, <2>2, SeenMoves DEF SettledOK, Onward
  <2>3. QED
    BY <2>1, <2>2
<1>5. Halfway(c)'
  <2> SUFFICES ASSUME cpc'[c] = "answer" PROVE Halfway(c)'
    BY <1>1 DEF Halfway
  <2>1. job[c].task.op = "get" /\ sess'[c] = h /\ job'[c].round = job[c].round
    BY <1>1, <1>t DEF StepOK, Onward
  <2>2. \A w : Fresh(<<>>, w)
    BY DEF Fresh
  <2>3. QED
    BY <1>t, <2>1, <2>2 DEF Halfway
<1>6. QED
  BY <1>2, <1>3, <1>4, <1>5 DEF SettledOK

\* A listing is of all that is there.
LEMMA SettledListing ==
  ASSUME AloneInv, Alone, NEW c \in Clients, ReadListing(c), SettledOK(c)
  PROVE  SettledOK(c)'
<1> DEFINE m == Answer(c)
           new == IF m.tag = "listing" THEN m.body ELSE {}
           j == [job[c] EXCEPT !.seen = @ \cup new]
<1>t. /\ UserStep(c) /\ TypeInv /\ job[c].turn \in Nat /\ cpc[c] = "listing" /\ job[c] \in Jobs
      /\ UNCHANGED <<latest, missed, todo>> /\ job'[c] \in Jobs /\ sess[c] \in Handlers
      /\ job[c].turn <= MAXSERVERS /\ pc[sess[c]] = "free" /\ job[c].task.op = "list"
  <2>1. /\ UserStep(c) /\ cpc[c] = "listing" /\ UNCHANGED <<latest, missed, todo>> /\ InSession(c)
    BY DEF UserStep, ClientStep, ReadListing, historyVars, InSession
  <2>2. /\ TypeInv /\ CalmInv /\ job[c].turn \in Nat /\ job'[c] \in Jobs /\ Insider(c)
        /\ ~MayKill /\ Login[c] \in Accounts
    BY <2>1, OwnStep
  <2>3. pc[sess[c]] = "free" /\ job[c].task.op = "list"
    BY <2>1, <2>2, InsiderSteps DEF Insider, AtWork
  <2>4. QED
    BY <2>1, <2>2, <2>3, SessionTurn DEF MAXSERVERS
<1>1. PICK B \in SUBSET (Names \X (0..4)) :
        reply[sess[c]] = <<Message("listing", B)>> /\ Lists(B, c, job[c].turn)
  BY <1>t DEF SettledOK, Seen
<1>2. new = B
  <2>1. m = Message("listing", B)
    BY <1>1 DEF Answer
  <2>2. QED
    BY <2>1 DEF Message
<1> HIDE DEF new
<1>3. /\ j \in Jobs /\ j.turn = job[c].turn /\ j.task = job[c].task /\ j.want = job[c].want
      /\ j.bufs = job[c].bufs /\ j.offline = job[c].offline /\ j.seen = job[c].seen \cup B
  BY <1>2, <1>t DEF Jobs
<1>4. NextServer(c, j)
  BY DEF ReadListing, new
<1> HIDE DEF j
<1>5. /\ cpc'[c] = "connect" /\ job'[c].turn = job[c].turn + 1 /\ job'[c].task = job[c].task
      /\ job'[c].want = job[c].want /\ job'[c].bufs = job[c].bufs
      /\ job'[c].offline = job[c].offline /\ job'[c].seen = job[c].seen \cup B
  <2>1. j.turn <= MAXSERVERS
    BY <1>3, <1>t
  <2>2. /\ cpc'[c] = "connect" /\ job'[c].turn = j.turn + 1 /\ job'[c].task = j.task
        /\ job'[c].want = j.want /\ job'[c].bufs = j.bufs /\ job'[c].offline = j.offline
        /\ job'[c].seen = j.seen
    BY <1>3, <1>4, <1>t, <2>1, NextServerType
  <2>3. QED
    BY <1>3, <2>2
<1>6. Onward(c)
  BY <1>5, <1>t DEF Onward
<1>7. /\ InPlace(c)' /\ Current(c)' /\ Puts(c)' /\ Result(c)' /\ PathKey(c)' = PathKey(c)
      /\ \A s, k, p : There(s, k, p)' <=> There(s, k, p)
  BY <1>5, <1>6, <1>t, SettledMoves DEF InSession
<1>8. Seen(c)'
  <2>1. ASSUME NEW s \in Servers, s < job'[c].turn, s \notin job[c].offline
        PROVE  Lists(job[c].seen, c, s)'
    <3>1. s < job[c].turn \/ s = job[c].turn
      BY <1>5, <1>t, <2>1, ClientAssumption DEF MAXSERVERS
    <3>2. Lists(job[c].seen, c, s) \/ Lists(B, c, s)
      BY <1>1, <1>t, <2>1, <3>1 DEF SettledOK, Seen
    <3>3. \A p \in Parts : There(s, PathKey(c), p) => <<job[c].task.name, p>> \in job'[c].seen
      BY <1>5, <3>2 DEF Lists
    <3>4. \A p \in Parts : There(s, PathKey(c), p)' <=> There(s, PathKey(c), p)
      BY <1>7
    <3>5. QED
      BY <1>5, <3>3, <3>4 DEF Lists
  <2>2. QED
    BY <1>5, <2>1 DEF Seen
<1>9. Gathered(c)' /\ Halfway(c)'
  BY <1>5, <1>t DEF Gathered, Halfway
<1>10. QED
  BY <1>7, <1>8, <1>9 DEF SettledOK

\* A server that has no more parts has none that are wanted.
LEMMA SettledNoMore ==
  ASSUME AloneInv, Alone, NEW c \in Clients, NoMoreParts(c), SettledOK(c)
  PROVE  SettledOK(c)'
<1>t. /\ UserStep(c) /\ TypeInv /\ job[c].turn \in Nat /\ cpc[c] = "answer" /\ job[c] \in Jobs
      /\ UNCHANGED <<latest, missed, todo>> /\ job'[c] \in Jobs /\ Answer(c).tag = "nothing"
      /\ job[c].turn <= MAXSERVERS /\ job[c].task.op = "get" /\ NextServer(c, job[c])
  <2>1. /\ UserStep(c) /\ cpc[c] = "answer" /\ UNCHANGED <<latest, missed, todo>> /\ InSession(c)
        /\ Answer(c).tag = "nothing" /\ NextServer(c, job[c])
    BY DEF UserStep, ClientStep, NoMoreParts, historyVars, InSession
  <2>2. /\ TypeInv /\ job[c].turn \in Nat /\ job'[c] \in Jobs /\ StepOK(c)
    BY <2>1, OwnStep
  <2>3. QED
    BY <2>1, <2>2, SessionTurn DEF MAXSERVERS, StepOK
<1>1. /\ cpc'[c] = "connect" /\ job'[c].turn = job[c].turn + 1 /\ job'[c].task = job[c].task
      /\ job'[c].want = job[c].want /\ job'[c].bufs = job[c].bufs
      /\ job'[c].offline = job[c].offline
  BY <1>t, NextServerType
<1>2. Onward(c)
  BY <1>1, <1>t DEF Onward
<1>3. /\ InPlace(c)' /\ Current(c)' /\ Puts(c)' /\ Result(c)'
      /\ \A s, k, p : There(s, k, p)' <=> There(s, k, p)
  BY <1>1, <1>2, <1>t, SettledMoves DEF InSession
<1>4. Gathered(c)'
  <2>1. \A p \in job[c].want : ~There(job[c].turn, PathKey(c), p)
    BY <1>t, NothingFound
  <2>2. QED
    BY <1>1, <1>3, <1>t, <2>1, GatheredMoves DEF SettledOK
<1>5. Seen(c)' /\ Halfway(c)'
  BY <1>1, <1>t DEF Seen, Halfway
<1>6. QED
  BY <1>3, <1>4, <1>5 DEF SettledOK

\* A server holds no third part.
LEMMA TwoParts ==
  ASSUME NEW c \in Clients, InPlace(c), NEW k \in Own(c), NEW s \in Servers,
         NEW p \in Parts, NEW q \in Parts, p # q, There(s, k, p), There(s, k, q),
         NEW r \in Parts, There(s, k, r)
  PROVE  r = p \/ r = q
<1> DEFINE pair == PairAt(Class(Version(c, k)), Skipped(c, k), s)
<1>1. p \in PairParts(pair) /\ q \in PairParts(pair) /\ r \in PairParts(pair)
  BY DEF InPlace, PlaceOf
<1> HIDE DEF pair
<1>2. PairParts(pair) = {PartSent(pair, 0), PartSent(pair, 1)}
  BY DEF PairParts
<1>3. QED
  BY <1>1, <1>2

\* A part has been read whole: get goes on with the server for a second one,
\* or has both and goes on to the next server.
LEMMA SettledAnswer ==
  ASSUME AloneInv, Alone, NEW c \in Clients, ReadHeader(c) \/ ReadBytes(c), SettledOK(c),
         NEW j \in Jobs, j.task = job[c].task, j.turn = job[c].turn,
         j.offline = job[c].offline, j.round = job[c].round, NextAnswer(c, j),
         j.want \subseteq job[c].want, Fresh(reply'[sess[c]], j.want),
         \A p \in Parts \ j.want : /\ latest[PathKey(c)] # None
                                   /\ j.bufs[p] = Cut(latest[PathKey(c)], p),
         NEW q \in Parts \ j.want, There(job[c].turn, PathKey(c), q),
         job[c].round = 2 =>
           \E p \in Parts \ j.want : There(job[c].turn, PathKey(c), p) /\ p # q
  PROVE  SettledOK(c)'
<1>t. /\ UserStep(c) /\ TypeInv /\ job[c].turn \in Nat /\ job[c] \in Jobs
      /\ cpc[c] \in {"answer", "bytes"} /\ job'[c] \in Jobs
      /\ UNCHANGED <<latest, missed, todo>> /\ job[c].turn \in Servers
      /\ job[c].turn <= MAXSERVERS /\ job[c].task.op = "get"
  <2>1. /\ UserStep(c) /\ cpc[c] \in {"answer", "bytes"} /\ UNCHANGED <<latest, missed, todo>>
        /\ InSession(c)
    BY DEF UserStep, ClientStep, ReadHeader, ReadBytes, historyVars, InSession
  <2>2. /\ TypeInv /\ job[c].turn \in Nat /\ job'[c] \in Jobs /\ StepOK(c)
    BY <2>1, OwnStep
  <2>3. QED
    BY <2>1, <2>2, SessionTurn DEF MAXSERVERS, StepOK
<1>1. /\ job'[c].task = job[c].task /\ job'[c].want = j.want /\ job'[c].bufs = j.bufs
      /\ job'[c].offline = job[c].offline
      /\ \/ /\ job[c].round = 1 /\ cpc'[c] = "answer" /\ sess' = sess
            /\ job'[c].turn = job[c].turn
         \/ /\ job[c].round = 2 /\ cpc'[c] = "connect" /\ job'[c].turn = job[c].turn + 1
  <2>1. j.turn <= MAXSERVERS
    BY <1>t
  <2>2. QED
    BY <1>t, <2>1, NextAnswerType
<1>2. Onward(c)
  BY <1>1, <1>t DEF Onward
<1>3. /\ InPlace(c)' /\ Current(c)' /\ Puts(c)' /\ Result(c)' /\ PathKey(c)' = PathKey(c)
      /\ PathKey(c) \in Own(c) /\ \A s, k, p : There(s, k, p)' <=> There(s, k, p)
  BY <1>1, <1>2, <1>t, SettledMoves DEF InSession
<1>4. Gathered(c)'
  <2>1. ASSUME NEW s \in Servers, NEW p \in Parts, s < job'[c].turn, s \notin job[c].offline,
               There(s, PathKey(c), p)
        PROVE  p \notin j.want
    <3>1. CASE s < job[c].turn
      BY <1>t, <2>1, <3>1 DEF SettledOK, Gathered
    <3>2. CASE s = job[c].turn /\ job[c].round = 2
      <4>1. PICK r \in Parts \ j.want : There(s, PathKey(c), r) /\ r # q
        BY <3>2
      <4>2. p = q \/ p = r
        BY <1>3, <1>t, <2>1, <3>2, <4>1, TwoParts DEF SettledOK
      <4>3. QED
        BY <4>1, <4>2
    <3>3. QED
      BY <1>1, <1>t, <2>1, <3>1, <3>2, ClientAssumption DEF MAXSERVERS
  <2>2. \A p \in Parts \ j.want : /\ latest'[PathKey(c)] # None
                                  /\ j.bufs[p] = Cut(latest'[PathKey(c)], p)
    BY <1>t
  <2>3. \A s \in Servers, p \in Parts : There(s, PathKey(c), p)' <=> There(s, PathKey(c), p)
    BY <1>3
  <2>4. QED
    BY <1>1, <1>3, <2>1, <2>2, <2>3 DEF Gathered
<1>5. Halfway(c)'
  <2> SUFFICES ASSUME cpc'[c] \in {"answer", "bytes"} PROVE Halfway(c)'
    BY DEF Halfway
  <2>1. cpc'[c] = "answer" /\ sess'[c] = sess[c] /\ job'[c].turn = job[c].turn
    BY <1>1
  <2>2. q \in Parts \ job'[c].want /\ There(job[c].turn, PathKey(c), q)'
    BY <1>1, <1>3
  <2>3. QED
    BY <1>1, <1>3, <2>1, <2>2 DEF Halfway
<1>6. Seen(c)'
  BY <1>1, <1>t DEF Seen
<1>7. QED
  BY <1>3, <1>4, <1>5, <1>6 DEF SettledOK

\* A part that is there is that of the file the last put left.
LEMMA ThereIsLatest ==
  ASSUME TypeInv, NEW c \in Clients, SettledOK(c), job[c].task.op = "get",
         NEW s \in Servers, NEW p \in Parts, There(s, PathKey(c), p)
  PROVE  latest[PathKey(c)] # None /\ At(s, PathKey(c), p) = Cut(latest[PathKey(c)], p)
<1>1. PathKey(c) \in Own(c) /\ ~Putting(c, PathKey(c))
  BY OwnPath DEF Putting
<1>2. Version(c, PathKey(c)) # None
  BY <1>1 DEF SettledOK, InPlace
<1>3. QED
  BY <1>1, <1>2 DEF SettledOK, Current, Version

\* Reading a header.
LEMMA SettledReadsHeader ==
  ASSUME AloneInv, Alone, NEW c \in Clients, ReadHeader(c), SettledOK(c)
  PROVE  SettledOK(c)'
<1> DEFINE h == sess[c]
           q == reply[h]
           hd == HeaderOf(c, Answer(c))
           j == [job[c] EXCEPT !.want = @ \ {hd.part}, !.bufs[hd.part] = Zeros(0)]
           s == job[c].turn
           k == PathKey(c)
<1>t. /\ UserStep(c) /\ TypeInv /\ ClientTypeOK /\ cpc[c] = "answer" /\ job[c] \in Jobs
      /\ UNCHANGED <<latest, missed, todo>> /\ s \in Servers /\ s \in Nat
      /\ job[c].task.op = "get"
  <2>1. /\ UserStep(c) /\ cpc[c] = "answer" /\ UNCHANGED <<latest, missed, todo>>
        /\ InSession(c)
    BY DEF UserStep, ClientStep, ReadHeader, historyVars, InSession
  <2>2. TypeInv /\ ClientTypeOK /\ s \in Nat /\ StepOK(c) /\ job[c] \in Jobs
    BY <2>1, OwnStep
  <2>3. QED
    BY <2>1, <2>2, SessionTurn DEF StepOK
<1>1. /\ q \in Seq(Messages) /\ q # <<>> /\ Head(q).tag = "header" /\ hd = Head(q).body
      /\ hd.part \in Parts /\ There(s, k, hd.part) /\ At(s, k, hd.part).size = hd.size
  BY HeaderRead
<1>2. /\ j \in Jobs /\ j.task = job[c].task /\ j.turn = s
      /\ j.offline = job[c].offline /\ j.round = job[c].round
      /\ j.want = job[c].want \ {hd.part} /\ j.bufs[hd.part] = Zeros(0)
      /\ \A p \in Parts \ {hd.part} : j.bufs[p] = job[c].bufs[p]
      /\ last'[c] = hd /\ reply'[h] = Tail(q)
      /\ IF hd.size = 0 THEN NextAnswer(c, j) ELSE Step(c, "bytes", j) /\ sess' = sess
  BY HeaderRead
<1> HIDE DEF j, hd
<1>3. hd.part \in job[c].want /\ Fresh(Tail(q), j.want)
  <2>1. Fresh(q, job[c].want)
    BY <1>t DEF SettledOK, Halfway
  <2> DEFINE w == job[c].want
  <2> HIDE DEF w, q
  <2>2. Head(q).body.part \in w /\ Fresh(Tail(q), w \ {Head(q).body.part})
    BY <1>1, <2>1, FreshLess DEF w
  <2>3. QED
    BY <1>1, <1>2, <2>2 DEF w
<1>4. latest[k] # None /\ At(s, k, hd.part) = Cut(latest[k], hd.part)
  BY <1>1, <1>t, ThereIsLatest
<1>5. \A p \in Parts \ job[c].want : latest[k] # None /\ job[c].bufs[p] = Cut(latest[k], p)
  BY <1>t DEF SettledOK, Gathered
<1>6. job[c].round = 2 => \E p \in Parts \ j.want : There(s, k, p) /\ p # hd.part
  <2> SUFFICES ASSUME job[c].round = 2
               PROVE  \E p \in Parts \ j.want : There(s, k, p) /\ p # hd.part
    OBVIOUS
  <2>1. PICK p \in Parts \ job[c].want : There(s, k, p)
    BY <1>t DEF SettledOK, Halfway
  <2>2. p \notin j.want /\ p # hd.part
    BY <1>2, <1>3
  <2>3. QED
    BY <2>1, <2>2
\* An empty part is whole.
<1>7. CASE hd.size = 0
  <2>1. Cut(latest[k], hd.part) = Zeros(0)
    <3>1. Cut(latest[k], hd.part).size = 0
      BY <1>1, <1>4, <1>7
    <3>2. QED
      BY <3>1 DEF Cut, Zeros, Piece
  <2>2. \A p \in Parts \ j.want : latest[k] # None /\ j.bufs[p] = Cut(latest[k], p)
    BY <1>2, <1>4, <1>5, <2>1
  <2>3. hd.part \in Parts \ j.want
    BY <1>1, <1>2
  <2> HIDE DEF k, s
  <2>4. QED
    BY <1>1, <1>2, <1>3, <1>6, <1>7, <2>2, <2>3, SettledAnswer DEF k, s
\* The bytes of another are to come.
<1>8. CASE hd.size # 0
  <2>1. cpc'[c] = "bytes" /\ job'[c] = j /\ sess' = sess
    BY <1>2, <1>8, <1>t, StepType DEF ClientStates
  <2>2. Onward(c)
    BY <1>2, <1>t, <2>1 DEF Onward
  <2>3. /\ InPlace(c)' /\ Current(c)' /\ Puts(c)' /\ Result(c)' /\ k' = k /\ disk' = disk
        /\ \A r, l, p : There(r, l, p)' <=> There(r, l, p)
    BY <1>2, <1>t, <2>1, <2>2, SettledMoves DEF InSession
  <2>4. Gathered(c)'
    <3>1. ASSUME NEW r \in Servers, NEW p \in Parts, r < s, r \notin job[c].offline,
                 There(r, k, p)
          PROVE  p \notin j.want
      BY <1>2, <1>t, <3>1 DEF SettledOK, Gathered
    <3>2. \A p \in Parts \ j.want :
            latest'[k] # None /\ (last'[c].part = p \/ j.bufs[p] = Cut(latest'[k], p))
      BY <1>2, <1>4, <1>5, <1>t
    <3>3. \A r \in Servers, p \in Parts : There(r, k, p)' <=> There(r, k, p)
      BY <2>3
    <3>4. PathKey(c)' = k
      BY <2>3
    <3>5. QED
      BY <1>2, <2>1, <3>1, <3>2, <3>3, <3>4 DEF Gathered
  <2>5. Halfway(c)'
    <3>1. \A r \in Parts : There(s, k, r)' <=> There(s, k, r)
      BY <1>2, <2>1, <2>3 DEF There, At
    <3>2. hd.part \in Parts \ j.want
      BY <1>1, <1>2
    <3>3. PathKey(c)' = k
      BY <2>3
    <3>4. QED
      BY <1>1, <1>2, <1>3, <1>6, <2>1, <3>1, <3>2, <3>3 DEF Halfway, There, At, s, k, q
  <2>6. Seen(c)'
    BY <1>2, <1>t, <2>1 DEF Seen
  <2>7. QED
    BY <2>3, <2>4, <2>5, <2>6 DEF SettledOK
<1>9. QED
  BY <1>7, <1>8

\* Reading the bytes.
LEMMA SettledReadsBytes ==
  ASSUME AloneInv, Alone, NEW c \in Clients, ReadBytes(c), SettledOK(c)
  PROVE  SettledOK(c)'
<1> DEFINE a == reply[sess[c]]
           hd == last[c]
           j == [job[c] EXCEPT !.bufs[hd.part] = AsData(Answer(c), hd.size)]
           s == job[c].turn
           k == PathKey(c)
<1>t. TypeInv /\ cpc[c] = "bytes" /\ s \in Servers /\ job[c].task.op = "get"
  <2>1. UserStep(c) /\ cpc[c] = "bytes" /\ InSession(c)
    BY DEF UserStep, ClientStep, ReadBytes, InSession
  <2>2. TypeInv /\ StepOK(c)
    BY <2>1, OwnStep
  <2>3. QED
    BY <2>1, <2>2, SessionTurn DEF StepOK
<1>1. /\ a \in Seq(Messages) /\ a # <<>> /\ reply'[sess[c]] = Tail(a)
      /\ hd.part \in Parts /\ There(s, k, hd.part)
      /\ j \in Jobs /\ j.task = job[c].task /\ j.turn = s
      /\ j.offline = job[c].offline /\ j.round = job[c].round
      /\ j.want = job[c].want /\ j.bufs[hd.part] = At(s, k, hd.part)
      /\ \A p \in Parts \ {hd.part} : j.bufs[p] = job[c].bufs[p]
      /\ NextAnswer(c, j)
  BY BytesRead
<1> HIDE DEF j
<1>2. latest[k] # None /\ j.bufs[hd.part] = Cut(latest[k], hd.part)
  BY <1>1, <1>t, ThereIsLatest
<1>3. /\ Fresh(a, job[c].want) /\ hd.part \in Parts \ j.want
      /\ job[c].round = 2 => \E p \in Parts \ j.want : There(s, k, p) /\ p # hd.part
  BY <1>1, <1>t DEF SettledOK, Halfway
<1>4. Fresh(Tail(a), j.want)
  <2> HIDE DEF a
  <2>1. QED
    BY <1>1, <1>3, FreshLess
<1>5. \A p \in Parts \ j.want : latest[k] # None /\ j.bufs[p] = Cut(latest[k], p)
  <2>1. ASSUME NEW p \in Parts \ j.want, p # hd.part
        PROVE  job[c].bufs[p] = Cut(latest[k], p)
    BY <1>1, <1>t, <2>1 DEF SettledOK, Gathered
  <2>2. QED
    BY <1>1, <1>2, <2>1
<1> HIDE DEF k, s
<1>6. QED
  BY <1>1, <1>3, <1>4, <1>5, SettledAnswer DEF k, s

\* Between two commands every file is the last version, in its place.
LEMMA SettledIdle ==
  ASSUME AloneInv, Alone, NEW c \in Clients, SettledOK(c), cpc[c] = "idle",
         \A h \in Handlers : pc[h] = "free",
         NEW k \in Own(c), NEW s \in Servers
  PROVE  /\ Version(c, k) = latest[k] /\ Skipped(c, k) = missed[k]
         /\ \A p \in Parts :
              /\ There(s, k, p) => /\ latest[k] # None /\ s \notin missed[k]
                                   /\ p \in PlaceOf(c, k, s) /\ At(s, k, p) = Cut(latest[k], p)
              /\ latest[k] # None /\ s \notin missed[k] /\ p \in PlaceOf(c, k, s) =>
                   There(s, k, p)
<1>t. TypeInv /\ Placed(c) /\ PutStored(c) /\ job[c].turn \in Nat
  <2>1. TypeInv /\ AloneOK(c)
    BY DEF AloneInv, CalmInv, StepInv
  <2>2. QED
    BY <2>1, SessionTurn DEF AloneOK, Files, Jobs, MAXSERVERS
<1>1. Version(c, k) = latest[k] /\ Skipped(c, k) = missed[k]
  <2>1. Putting(c, k) => latest[k] = job[c].task.content /\ missed[k] = job[c].offline
    BY <1>t DEF Putting, Placed, SettledOK, Puts
  <2>2. QED
    BY <2>1 DEF Version, Skipped
<1>2. ASSUME NEW p \in Parts, There(s, k, p)
      PROVE  latest[k] # None /\ s \notin missed[k] /\ p \in PlaceOf(c, k, s)
  BY <1>1, <1>2 DEF SettledOK, InPlace
<1>3. CASE ~Putting(c, k)
  BY <1>1, <1>2, <1>3 DEF SettledOK, Current
<1>4. CASE Putting(c, k)
  <2>1. ASSUME NEW p \in Parts, s \notin missed[k], p \in PlaceOf(c, k, s)
        PROVE  At(s, k, p) = Cut(latest[k], p)
    <3>1. /\ job[c].task.op = "put" /\ k = PathKey(c) /\ latest[k] = job[c].task.content
          /\ missed[k] = job[c].offline
      BY <1>1, <1>4 DEF Putting, Version, Skipped
    <3>2. s < job[c].turn /\ s \notin job[c].offline
      BY <1>t, <2>1, <3>1, ClientAssumption DEF Placed, MAXSERVERS
    <3>3. Kept(c, s, 0) /\ Kept(c, s, 1)
      BY <1>t, <3>1, <3>2 DEF PutStored, OfClient
    <3>4. PlaceOf(c, k, s) = PairParts(OwnPair(c, s))
      BY <1>1, <3>1 DEF PlaceOf, OwnPair, Class
    <3>5. p = PartSent(OwnPair(c, s), 0) \/ p = PartSent(OwnPair(c, s), 1)
      BY <2>1, <3>4 DEF PairParts
    <3>6. QED
      BY <3>1, <3>3, <3>5 DEF Kept
  <2>2. \A p \in Parts : At(s, k, p) = Cut(latest[k], p) => There(s, k, p)
    BY DEF There, Cut, Zeros, Piece
  <2>3. QED
    BY <1>1, <1>2, <2>1, <2>2
<1>5. QED
  BY <1>3, <1>4

\* The next command.
LEMMA SettledEnter ==
  ASSUME AloneInv, Alone, NoneMissing, NEW c \in Clients, Enter(c), SettledOK(c)
  PROVE  SettledOK(c)'
<1> DEFINE t == todo[c]
           task == Head(t)
           key == KeyOf(c, task)
           rest == Tail(t)
<1>t. /\ TypeInv /\ ClientTypeOK /\ cpc[c] = "idle" /\ t # <<>> /\ t \in Seq(TaskTypes)
      /\ UNCHANGED <<disk, latest, missed>> /\ todo'[c] = rest
      /\ \A h \in Handlers : pc[h] = "free"
  <2>1. /\ UserStep(c) /\ cpc[c] = "idle" /\ t # <<>> /\ UNCHANGED <<disk, latest, missed>>
        /\ \A h \in Handlers : pc[h] = "free"
    BY DEF UserStep, Enter, Alone, Drained, serverVars, storeVars, historyVars
  <2>2. TypeInv /\ ClientTypeOK
    BY <2>1, OwnStep
  <2>3. t \in Seq(TaskTypes) /\ todo'[c] = rest
    BY <2>2 DEF ClientTypeOK, Enter
  <2>4. QED
    BY <2>1, <2>2, <2>3
<1>i. /\ rest \in Seq(TaskTypes) /\ task \in TaskTypes /\ task = t[1] /\ 1 \in 1..Len(t)
      /\ \A i \in 1..Len(rest) : i + 1 \in 1..Len(t) /\ rest[i] = t[i + 1] /\ 1 < i + 1
  BY <1>t, TailItems
<1>1. /\ cpc'[c] = "connect" /\ job'[c].task = task /\ job'[c].turn = 1
      /\ job'[c].offline = {} /\ job'[c].want = Parts
  <2>1. NewJob(task) \in Jobs
    BY <1>i, <1>t, NewJobType DEF Enter, Sendable
  <2>2. Step(c, "connect", NewJob(task))
    BY DEF Enter
  <2> HIDE DEF task
  <2>3. cpc'[c] = "connect" /\ job'[c] = NewJob(task)
    BY <1>t, <2>1, <2>2, StepType DEF ClientStates
  <2>4. QED
    BY <2>3 DEF NewJob
<1>2. PathKey(c)' = key
  BY <1>1 DEF PathKey, KeyOf
<1>3. \A k \in Own(c) :
        Putting(c, k)' <=> task.op = "put" /\ k = key
  BY <1>1, <1>2 DEF Putting
<1>4. PutsReplace(c, t, latest)
  <2>1. PutsReplace(c, t, [k \in Paths |-> Version(c, k)])
    BY DEF SettledOK, Puts
  <2>2. \A k \in Own(c) : [l \in Paths |-> Version(c, l)][k] = latest[k]
    <3>1. 1 \in Servers
      BY ClientAssumption DEF MAXSERVERS
    <3>2. \A k \in Own(c) : Version(c, k) = latest[k]
      BY <1>t, <3>1, SettledIdle
    <3>3. QED
      BY <3>2 DEF Own
  <2>3. QED
    BY <1>t, <2>1, <2>2, SamePuts
\* A file that is replaced stays in its place.
<1>5. ASSUME task.op = "put", latest[key] # None
      PROVE  Replaces(latest[key], task.content) /\ Outages = "never"
  BY <1>4, <1>5, <1>i DEF PutsReplace, Replaces
<1>6. ASSUME NEW k \in Own(c)
      PROVE  /\ ~Putting(c, k)' => /\ Version(c, k)' = latest[k] /\ Skipped(c, k)' = missed[k]
                                   /\ \A s \in Servers : PlaceOf(c, k, s)' = PlaceOf(c, k, s)
             /\ Putting(c, k)' => Version(c, k)' = task.content /\ Skipped(c, k)' = {}
             /\ Putting(c, k)' /\ latest[k] # None =>
                  /\ missed[k] = {}
                  /\ \A s \in Servers : PlaceOf(c, k, s)' = PlaceOf(c, k, s)
  <2>1. \A s \in Servers : Version(c, k) = latest[k] /\ Skipped(c, k) = missed[k]
    BY <1>t, SettledIdle
  <2>2. ~Putting(c, k)' => Version(c, k)' = latest[k] /\ Skipped(c, k)' = missed[k]
    BY <1>t DEF Version, Skipped
  <2>3. Putting(c, k)' => Version(c, k)' = task.content /\ Skipped(c, k)' = {}
    BY <1>1 DEF Version, Skipped
  <2>4. ASSUME Putting(c, k)', latest[k] # None
        PROVE  missed[k] = {} /\ Class(latest[k]) = Class(task.content)
    <3>1. k = key /\ task.op = "put" /\ k \in Paths
      BY <1>3, <2>4 DEF Own
    <3>2. QED
      BY <1>5, <2>4, <3>1 DEF Replaces, NoneMissing
  <2>5. QED
    BY <2>1, <2>2, <2>3, <2>4 DEF PlaceOf
<1>7. \A s, k, p : At(s, k, p)' = At(s, k, p) /\ (There(s, k, p)' <=> There(s, k, p))
  BY <1>t DEF At, There
<1>8. InPlace(c)'
  <2>1. ASSUME NEW k \in Own(c), NEW s \in Servers, NEW p \in Parts, There(s, k, p)
        PROVE  /\ Version(c, k)' # None /\ s \notin Skipped(c, k)'
               /\ p \in PlaceOf(c, k, s)' /\ Reached(c, k, s)'
    <3>1. latest[k] # None /\ s \notin missed[k] /\ p \in PlaceOf(c, k, s)
      BY <1>t, <2>1, SettledIdle
    <3>2. Reached(c, k, s)'
      BY <1>t, <3>1 DEF Reached
    <3>3. Putting(c, k)' => task.content # None
      BY <1>3 DEF Enter, Sendable
    <3>4. QED
      BY <1>6, <3>1, <3>2, <3>3
  <2>2. QED
    BY <1>7, <2>1 DEF InPlace, Own
<1>9. Current(c)'
  <2>1. ASSUME NEW k \in Own(c), NEW s \in Servers, NEW p \in Parts, ~Putting(c, k)'
        PROVE  /\ There(s, k, p) => At(s, k, p) = Cut(latest[k], p)
               /\ latest[k] # None /\ s \notin missed[k] /\ p \in PlaceOf(c, k, s)' =>
                    There(s, k, p)
    BY <1>6, <1>t, <2>1, SettledIdle
  <2>2. QED
    BY <1>7, <1>t, <2>1 DEF Current, Own
<1>10. Puts(c)'
  <2> DEFINE y == [k \in Paths |-> Version(c, k)']
  <2>1. \A k \in Own(c) : y[k] = IF task.op = "put" /\ k = key THEN task.content ELSE latest[k]
    BY <1>3, <1>6 DEF Own
  <2>2. \A x \in TaskTypes : KeyOf(c, x) \in Own(c)
    <3>1. Login[c][1] \in Users
      BY <1>t, OwnPath
    <3>2. QED
      BY <3>1 DEF KeyOf, Own, Paths, TaskTypes
  <2> HIDE DEF y
  <2>3. ASSUME NEW i \in 1..Len(rest), rest[i].op = "put"
        PROVE  /\ y[KeyOf(c, rest[i])] # None => Replaces(y[KeyOf(c, rest[i])], rest[i].content)
               /\ \A j \in 1..Len(rest) : /\ j < i /\ rest[j].op = "put"
                                          /\ KeyOf(c, rest[j]) = KeyOf(c, rest[i])
                                          => Replaces(rest[j].content, rest[i].content)
    <3> DEFINE l == i + 1
               k == KeyOf(c, rest[i])
    <3>1. l \in 1..Len(t) /\ rest[i] = t[l] /\ 1 < l /\ rest[i] \in TaskTypes
      BY <1>i
    <3>2. y[k] # None => Replaces(y[k], rest[i].content)
      <4>1. CASE task.op = "put" /\ k = key
        BY <1>4, <1>i, <2>1, <2>2, <2>3, <3>1, <4>1 DEF PutsReplace
      <4>2. CASE ~(task.op = "put" /\ k = key)
        <5>1. y[k] = latest[k]
          BY <2>1, <2>2, <3>1, <4>2
        <5>2. QED
          BY <1>4, <2>3, <3>1, <5>1 DEF PutsReplace
      <4>3. QED
        BY <4>1, <4>2
    <3>3. ASSUME NEW j \in 1..Len(rest), j < i, rest[j].op = "put",
                 KeyOf(c, rest[j]) = KeyOf(c, rest[i])
          PROVE  Replaces(rest[j].content, rest[i].content)
      <4>1. j + 1 \in 1..Len(t) /\ rest[j] = t[j + 1] /\ j + 1 < l
        BY <1>i, <3>3
      <4>2. QED
        BY <1>4, <2>3, <3>1, <3>3, <4>1 DEF PutsReplace
    <3>4. QED
      BY <3>2, <3>3
  <2>4. PutsReplace(c, rest, y)
    BY <2>3 DEF PutsReplace
  <2>5. PutsReplace(c, todo[c], [k \in Paths |-> Version(c, k)])'
    BY <1>t, <2>4 DEF PutsReplace, KeyOf, y
  <2>6. job'[c].task.op = "put" => (latest'[PathKey(c)'] # None => Outages = "never")
    BY <1>1, <1>2, <1>5, <1>t
  <2>7. QED
    BY <1>1, <2>5, <2>6 DEF Puts
<1>11. Gathered(c)' /\ Halfway(c)' /\ Seen(c)' /\ Result(c)'
  <2>1. \A s \in Servers : ~(s < job'[c].turn)
    BY <1>1, ClientAssumption DEF MAXSERVERS
  <2>2. QED
    BY <1>1, <2>1 DEF Gathered, Halfway, Seen, Result, Finished
<1>12. QED
  BY <1>8, <1>9, <1>10, <1>11 DEF SettledOK

\* A client between two servers can open one more file or socket.
LEMMA OwnDescriptor ==
  ASSUME AloneInv, NEW c \in Clients, cpc[c] = "connect"
  PROVE  Descriptor(c)
<1>1. /\ HeapOK(c) /\ todo[c] \in Seq(TaskTypes) /\ open[c] \in 0..MaxFiles /\ MaxFiles \in Nat
      /\ job[c] \in Jobs
  BY ClientAssumption, SessionTurn DEF AloneInv, CalmInv, HeapInv, StepInv, TypeInv, ClientTypeOK
<1>2. open[c] + 4 * Len(todo[c]) + Remaining(c) < MaxFiles /\ Len(todo[c]) \in Nat
  BY <1>1 DEF HeapOK
<1>3. Remaining(c) \in Nat
  BY <1>1 DEF Remaining, MAXSERVERS, Jobs
<1>4. QED
  BY <1>1, <1>2, <1>3 DEF Descriptor

\* A server that is missing.
LEMMA SettledOffline ==
  ASSUME AloneInv, Alone, NoneMissing, NEW c \in Clients, ServerOffline(c), SettledOK(c)
  PROVE  SettledOK(c)' /\ Outages # "never"
<1> DEFINE j == [job[c] EXCEPT !.offline = @ \cup {job[c].turn}]
           t == job[c].turn
           out == job[c].offline
           first == get_md5_mod(Digest[job[c].task.content])
<1>t. /\ TypeInv /\ ClientTypeOK /\ cpc[c] = "connect" /\ job[c] \in Jobs
      /\ UNCHANGED <<disk, latest, missed, todo>> /\ t \in Nat /\ t \in Servers
      /\ t \in 1..MAXSERVERS /\ t <= MAXSERVERS /\ (status[t] # "up" \/ ~Descriptor(c))
      /\ NextServer(c, j)
  <2>1. /\ UserStep(c) /\ cpc[c] = "connect" /\ ~LoopEnds(c) /\ NextServer(c, j)
        /\ UNCHANGED <<latest, missed, todo>> /\ (status[t] # "up" \/ ~Descriptor(c))
    BY DEF UserStep, ClientStep, ServerOffline, historyVars
  <2>2. TypeInv /\ ClientTypeOK /\ job[c] \in Jobs /\ t \in Nat /\ UNCHANGED disk
    BY <2>1, OwnStep
  <2>3. QED
    BY <2>1, <2>2, SessionTurn DEF MAXSERVERS
<1>1. /\ j \in Jobs /\ j.turn = t /\ j.task = job[c].task /\ j.want = job[c].want
      /\ j.bufs = job[c].bufs /\ j.seen = job[c].seen /\ j.offline = out \cup {t}
  BY <1>t DEF Jobs
<1> HIDE DEF j
<1>2. /\ cpc'[c] = "connect" /\ job'[c].turn = t + 1 /\ job'[c].task = job[c].task
      /\ job'[c].want = job[c].want /\ job'[c].bufs = job[c].bufs
      /\ job'[c].seen = job[c].seen /\ job'[c].offline = out \cup {t}
  <2>1. j.turn <= MAXSERVERS
    BY <1>1, <1>t
  <2>2. TypeInv /\ j \in Jobs /\ NextServer(c, j)
    BY <1>1, <1>t
  <2>3. /\ cpc'[c] = "connect" /\ job'[c].turn = j.turn + 1 /\ job'[c].task = j.task
        /\ job'[c].want = j.want /\ job'[c].bufs = j.bufs
        /\ job'[c].seen = j.seen /\ job'[c].offline = j.offline
    BY <2>1, <2>2, NextServerType
  <2>4. QED
    BY <1>1, <2>3
<1>3. Outages # "never"
  <2>1. Descriptor(c)
    BY <1>t, OwnDescriptor
  <2>2. status[t] # "up"
    BY <1>t, <2>1
  <2>3. QED
    BY <1>t, <2>2 DEF NoneMissing
\* A put that meets one is of a new file.
<1>4. job[c].task.op = "put" => latest[PathKey(c)] = None
  BY <1>3, <1>t DEF SettledOK, Puts
<1>5. PathKey(c)' = PathKey(c) /\ PathKey(c) \in Own(c)
  BY <1>2, <1>t, OwnPath DEF PathKey
<1>6. \A s, k, p : At(s, k, p)' = At(s, k, p) /\ (There(s, k, p)' <=> There(s, k, p))
  BY <1>t DEF At, There
<1>7. ASSUME NEW k \in Own(c)
      PROVE  /\ Putting(c, k)' <=> Putting(c, k)
             /\ Version(c, k)' = Version(c, k)
             /\ ~Putting(c, k) => /\ Skipped(c, k)' = Skipped(c, k)
                                  /\ \A s \in Servers : PlaceOf(c, k, s)' = PlaceOf(c, k, s)
             /\ Putting(c, k) => Skipped(c, k) = out /\ Skipped(c, k)' = out \cup {t}
  <2>1. Putting(c, k)' <=> Putting(c, k)
    BY <1>2, <1>5 DEF Putting
  <2>2. Version(c, k)' = Version(c, k)
    BY <1>2, <1>t, <2>1 DEF Version
  <2>3. /\ ~Putting(c, k) => Skipped(c, k)' = Skipped(c, k)
        /\ Putting(c, k) => Skipped(c, k) = out /\ Skipped(c, k)' = out \cup {t}
    BY <1>2, <1>t, <2>1 DEF Skipped
  <2>4. QED
    BY <2>1, <2>2, <2>3 DEF PlaceOf
<1>8. InPlace(c)'
  <2>1. ASSUME NEW k \in Own(c), NEW s \in Servers, NEW p \in Parts, There(s, k, p)
        PROVE  /\ Version(c, k)' # None /\ s \notin Skipped(c, k)'
               /\ p \in PlaceOf(c, k, s)' /\ Reached(c, k, s)'
    <3>1. /\ Version(c, k) # None /\ s \notin Skipped(c, k)
          /\ p \in PlaceOf(c, k, s) /\ Reached(c, k, s)
      BY <2>1 DEF SettledOK, InPlace
    <3>2. CASE ~Putting(c, k)
      BY <1>7, <3>1, <3>2 DEF Reached
    <3>3. CASE Putting(c, k)
      <4>1. job[c].task.op = "put" /\ k = PathKey(c) /\ latest[k] = None
        BY <1>4, <3>3 DEF Putting
      <4>2. s < t /\ s \in 1..t
        BY <1>t, <3>1, <3>3, <4>1, ClientAssumption DEF Reached, InSession, MAXSERVERS
      <4>3. Version(c, k) = job[c].task.content /\ first \in Pairs
        BY <1>t, <3>3, <4>1, OwnPairType DEF Version
      <4>4. PlaceOf(c, k, s)' = PlaceOf(c, k, s)
        <5> DEFINE f == first
                   o == out
                   n == t
        <5>1. /\ PlaceOf(c, k, s) = PairParts(PairAt(f, o, s))
              /\ PlaceOf(c, k, s)' = PairParts(PairAt(f, o \cup {n}, s))
          BY <1>7, <3>3, <4>3 DEF PlaceOf, Class
        <5>2. f \in Pairs /\ n \in 1..MAXSERVERS /\ s \in 1..n
          BY <1>t, <4>2, <4>3
        <5> HIDE DEF f, o, n
        <5>3. PairAt(f, o \cup {n}, s) = PairAt(f, o, s)
          BY <5>2, PairSteps
        <5>4. QED
          BY <5>1, <5>3
      <4>5. s < job'[c].turn /\ s # t
        BY <1>2, <1>t, <4>2
      <4>6. QED
        BY <1>7, <3>1, <3>3, <4>4, <4>5 DEF Reached
    <3>4. QED
      BY <3>2, <3>3
  <2>2. QED
    BY <1>6, <2>1 DEF InPlace, Own
<1>9. Current(c)'
  <2>1. ASSUME NEW k \in Own(c), NEW s \in Servers, NEW p \in Parts, ~Putting(c, k)'
        PROVE  /\ There(s, k, p) => At(s, k, p) = Cut(latest[k], p)
               /\ latest[k] # None /\ s \notin missed[k] /\ p \in PlaceOf(c, k, s)' =>
                    There(s, k, p)
    BY <1>7, <2>1 DEF SettledOK, Current
  <2>2. QED
    BY <1>6, <1>t, <2>1 DEF Current, Own
<1>10. Puts(c)'
  <2>1. \A k \in Own(c) : [l \in Paths |-> Version(c, l)][k] = [l \in Paths |-> Version(c, l)'][k]
    BY <1>7 DEF Own
  <2> DEFINE x == [k \in Paths |-> Version(c, k)]
             y == [k \in Paths |-> Version(c, k)']
  <2>2. PutsReplace(c, todo[c], x) /\ \A k \in Own(c) : x[k] = y[k]
    BY <2>1 DEF SettledOK, Puts
  <2>3. todo[c] \in Seq(TaskTypes)
    BY <1>t DEF ClientTypeOK
  <2>4. PutsReplace(c, todo[c], y)
    <3> HIDE DEF x, y
    <3>1. QED
      BY <1>t, <2>2, <2>3, SamePuts
  <2>5. PutsReplace(c, todo[c], [k \in Paths |-> Version(c, k)])'
    BY <1>t, <2>4 DEF PutsReplace, KeyOf
  <2>6. QED
    BY <1>2, <1>4, <1>5, <1>t, <2>5 DEF Puts
<1>11. Gathered(c)' /\ Seen(c)'
  <2>1. \A s \in Servers : s < job'[c].turn /\ s \notin job'[c].offline =>
          s < job[c].turn /\ s \notin job[c].offline
    BY <1>2, <1>t, ClientAssumption DEF MAXSERVERS
  <2>2. Gathered(c)'
    <3>1. job[c].task.op = "get" =>
            /\ \A s \in Servers, p \in Parts :
                 s < job'[c].turn /\ s \notin job'[c].offline /\ There(s, PathKey(c), p) =>
                   p \notin job[c].want
            /\ \A p \in Parts \ job[c].want :
                 latest[PathKey(c)] # None /\ job[c].bufs[p] = Cut(latest[PathKey(c)], p)
      BY <1>t, <2>1 DEF SettledOK, Gathered
    <3>2. QED
      BY <1>2, <1>5, <1>6, <1>t, <3>1 DEF Gathered
  <2>3. Seen(c)'
    <3>1. ASSUME job[c].task.op = "list", NEW s \in Servers, s < job'[c].turn,
                 s \notin job'[c].offline
          PROVE  Lists(job[c].seen, c, s)'
      <4>1. Lists(job[c].seen, c, s)
        BY <2>1, <3>1 DEF SettledOK, Seen
      <4>2. QED
        BY <1>2, <1>5, <1>6, <4>1 DEF Lists
    <3>2. QED
      BY <1>2, <3>1 DEF Seen
  <2>4. QED
    BY <2>2, <2>3
<1>12. Halfway(c)' /\ Result(c)'
  BY <1>2 DEF Halfway, Result, Finished
<1>13. QED
  BY <1>3, <1>8, <1>9, <1>10, <1>11, <1>12 DEF SettledOK

\* The servers the user of a get or a list is left with have every part.
LEMMA EveryPartIsThere ==
  ASSUME AloneInv, NEW c \in Clients, SettledOK(c), job[c].task.op # "put",
         latest[PathKey(c)] # None, Outs(c) <= 1, NEW p \in Parts
  PROVE  \E s \in Servers : s \notin job[c].offline /\ There(s, PathKey(c), p)
<1> DEFINE k == PathKey(c)
           first == Class(latest[k])
<1>t. /\ TypeInv /\ ClientTypeOK /\ k \in Own(c) /\ k \in Paths /\ job[c] \in Jobs
      /\ Current(c)
  <2>1. TypeInv /\ ClientTypeOK /\ job[c] \in Jobs
    BY SessionTurn DEF AloneInv, CalmInv, StepInv, TypeInv
  <2>2. QED
    BY <2>1, OwnPath DEF Own, SettledOK
<1>1. first \in Pairs /\ missed[k] \in SUBSET Servers /\ job[c].offline \in SUBSET Servers
  <2>1. latest[k] \in Contents /\ missed[k] \in SUBSET Servers
    BY <1>t DEF ClientTypeOK
  <2>2. QED
    BY <1>t, <2>1, DigestGivesPair, ClientAssumption DEF Class, Jobs
<1>2. PICK s \in Servers : /\ s \notin missed[k] \cup job[c].offline
                           /\ p \in PairParts(PairAt(first, missed[k], s))
  <2> HIDE DEF k, first
  <2>1. Cardinality(missed[k] \cup job[c].offline) <= 1
    BY DEF Outs, k
  <2>2. QED
    BY <1>1, <2>1, TheOthersHaveAll, ClientAssumption
<1>3. ~Putting(c, k) /\ p \in PlaceOf(c, k, s)
  BY <1>2 DEF Putting, PlaceOf, Version, Skipped
<1>4. There(s, k, p)
  BY <1>2, <1>3, <1>t DEF Current
<1>5. QED
  BY <1>2, <1>4

\* A command ends.
LEMMA SettledFinish ==
  ASSUME AloneInv, Alone, NEW c \in Clients, Finish(c), SettledOK(c)
  PROVE  SettledOK(c)'
<1> DEFINE k == PathKey(c)
           x == [l \in Paths |-> Version(c, l)]
           y == [l \in Paths |-> Version(c, l)']
<1>t. /\ TypeInv /\ ClientTypeOK /\ cpc[c] = "connect" /\ cpc'[c] = "idle"
      /\ UserStep(c) /\ UNCHANGED <<disk, todo>> /\ job'[c] = job[c] /\ job[c] \in Jobs
      /\ job[c].turn \in Nat /\ todo[c] \in Seq(TaskTypes) /\ LoopEnds(c)
      /\ k \in Own(c) /\ Own(c) \subseteq Paths /\ PathKey(c)' = k
  <2>1. /\ UserStep(c) /\ cpc[c] = "connect" /\ LoopEnds(c) /\ UNCHANGED todo
        /\ Step(c, "idle", job[c])
    BY DEF UserStep, ClientStep, Finish
  <2>2. TypeInv /\ ClientTypeOK /\ job[c] \in Jobs /\ job[c].turn \in Nat /\ UNCHANGED disk
    BY <2>1, OwnStep
  <2>3. cpc'[c] = "idle" /\ job'[c] = job[c] /\ todo[c] \in Seq(TaskTypes)
    BY <2>1, <2>2 DEF Step, ClientTypeOK
  <2>4. k \in Own(c) /\ Own(c) \subseteq Paths /\ PathKey(c)' = k
    BY <2>2, <2>3, OwnPath DEF Own, PathKey
  <2>5. QED
    BY <2>1, <2>2, <2>3, <2>4
<1>1. /\ job[c].task.op = "put" => latest'[k] = job[c].task.content
      /\ \A l \in Own(c) : ~Putting(c, l) => latest'[l] = latest[l] /\ missed'[l] = missed[l]
      /\ job[c].task.op = "put" => missed'[k] = job[c].offline
  BY <1>t DEF Finish, ClientTypeOK, Putting
<1>2. ASSUME NEW l \in Own(c)
      PROVE  /\ Putting(c, l)' <=> Putting(c, l)
             /\ Version(c, l)' = Version(c, l)
             /\ Skipped(c, l)' = Skipped(c, l)
             /\ \A s : PlaceOf(c, l, s)' = PlaceOf(c, l, s)
  <2>1. Putting(c, l)' <=> Putting(c, l)
    BY <1>t DEF Putting
  <2>2. Version(c, l)' = Version(c, l) /\ Skipped(c, l)' = Skipped(c, l)
    BY <1>1, <1>t, <2>1 DEF Version, Skipped
  <2>3. QED
    BY <2>1, <2>2 DEF PlaceOf
<1>3. \A s, l, p : At(s, l, p)' = At(s, l, p) /\ (There(s, l, p)' <=> There(s, l, p))
  BY <1>t DEF At, There
<1>4. InPlace(c)'
  <2>1. ASSUME NEW l \in Own(c), NEW s \in Servers, NEW p \in Parts, There(s, l, p)
        PROVE  /\ Version(c, l)' # None /\ s \notin Skipped(c, l)'
               /\ p \in PlaceOf(c, l, s)' /\ Reached(c, l, s)'
    <3>1. Version(c, l) # None /\ s \notin Skipped(c, l) /\ p \in PlaceOf(c, l, s)
      BY <2>1 DEF SettledOK, InPlace
    <3>2. Reached(c, l, s)'
      <4>1. Putting(c, l) => job[c].turn > MAXSERVERS
        BY <1>t DEF Putting, LoopEnds
      <4>2. Putting(c, l) => s < job[c].turn
        BY <1>t, <4>1, ClientAssumption DEF MAXSERVERS
      <4>3. QED
        BY <1>2, <1>t, <4>2 DEF Reached
    <3>3. QED
      BY <1>2, <3>1, <3>2
  <2>2. QED
    BY <1>3, <2>1 DEF InPlace, Own
<1>5. Current(c)'
  <2>1. ASSUME NEW l \in Own(c), NEW s \in Servers, NEW p \in Parts, ~Putting(c, l)
        PROVE  /\ There(s, l, p) => At(s, l, p) = Cut(latest'[l], p)
               /\ latest'[l] # None /\ s \notin missed'[l] /\ p \in PlaceOf(c, l, s)' =>
                    There(s, l, p)
    BY <1>1, <1>2, <2>1 DEF SettledOK, Current
  <2>2. QED
    BY <1>2, <1>3, <2>1 DEF Current, Own
<1>6. Puts(c)'
  <2>1. PutsReplace(c, todo[c], x) /\ \A l \in Own(c) : x[l] = y[l]
    BY <1>2, <1>t DEF SettledOK, Puts
  <2>2. PutsReplace(c, todo[c], y)
    <3> HIDE DEF x, y
    <3>1. QED
      BY <1>t, <2>1, SamePuts
  <2>3. PutsReplace(c, todo[c], [l \in Paths |-> Version(c, l)])'
    BY <1>t, <2>2 DEF PutsReplace, KeyOf
  <2>4. QED
    BY <1>1, <1>t, <2>3 DEF Puts
<1>7. ASSUME job[c].task.op # "put"
      PROVE  latest'[k] = latest[k] /\ missed'[k] = missed[k]
  BY <1>1, <1>7, <1>t DEF Putting
<1>8. Gathered(c)' /\ Halfway(c)' /\ Seen(c)'
  <2>1. Gathered(c)'
    BY <1>3, <1>7, <1>t DEF SettledOK, Gathered
  <2>2. job[c].task.op = "list" =>
          \A s \in Servers : s < job[c].turn /\ s \notin job[c].offline => Lists(job[c].seen, c, s)'
    BY <1>3, <1>t DEF SettledOK, Seen, Lists
  <2>3. QED
    BY <1>t, <2>1, <2>2 DEF Halfway, Seen
<1>9. Result(c)'
  <2>1. ASSUME job[c].task.op # "put", latest'[k] # None, Outs(c)' <= 1
        PROVE  \A p \in Parts : \E s \in Servers : s \notin job[c].offline /\ There(s, k, p)
    <3>1. latest[k] # None /\ Outs(c) <= 1
      BY <1>7, <1>t, <2>1 DEF Outs
    <3>2. QED
      BY <2>1, <3>1, EveryPartIsThere
  <2>2. job[c].turn > MAXSERVERS => \A s \in Servers : s < job[c].turn
    BY <1>t, ClientAssumption DEF MAXSERVERS
  <2>3. ASSUME job[c].task.op = "get", latest'[k] # None, Outs(c)' <= 1
        PROVE  job[c].want = {} /\ IsContent(file'[c], latest'[k])
    <3>1. job[c].want = {}
      <4>1. job[c].want # {} => \A s \in Servers : s < job[c].turn
        BY <1>t, <2>2 DEF LoopEnds
      <4>2. ASSUME NEW p \in job[c].want PROVE FALSE
        <5>1. p \in Parts
          BY <1>t DEF Jobs
        <5>2. PICK s \in Servers : s \notin job[c].offline /\ There(s, k, p)
          BY <2>1, <2>3, <5>1
        <5>3. p \notin job[c].want
          BY <2>3, <4>1, <4>2, <5>1, <5>2 DEF SettledOK, Gathered
        <5>4. QED
          BY <4>2, <5>3
      <4>3. QED
        BY <4>2
    <3>2. Descriptor(c)
      BY <1>t, OwnDescriptor
    <3>3. file'[c] = job[c].bufs
      BY <1>t, <2>3, <3>1, <3>2 DEF Finish, ClientTypeOK
    <3>4. \A p \in Parts : job[c].bufs[p] = Cut(latest[k], p)
      BY <1>t, <2>3, <3>1 DEF SettledOK, Gathered
    <3>5. QED
      BY <1>7, <2>3, <3>1, <3>3, <3>4 DEF IsContent
  <2>4. ASSUME job[c].task.op = "list", latest'[k] # None, Outs(c)' <= 1
        PROVE  job[c].task.name \in listed'[c]
    <3>1. ASSUME NEW p \in Parts PROVE <<job[c].task.name, p>> \in job[c].seen
      <4>1. PICK s \in Servers : s \notin job[c].offline /\ There(s, k, p)
        BY <2>1, <2>4
      <4>2. s < job[c].turn
        BY <1>t, <2>2, <2>4 DEF LoopEnds
      <4>3. Lists(job[c].seen, c, s)
        BY <2>4, <4>1, <4>2 DEF SettledOK, Seen
      <4>4. QED
        BY <4>1, <4>3 DEF Lists
    <3>2. job[c].task.name \in Names
      BY <1>t DEF Jobs, TaskTypes
    <3>3. listed'[c] = {n \in Names : {n} \X Parts \subseteq job[c].seen}
      BY <1>t, <2>4 DEF Finish, ClientTypeOK
    <3>4. QED
      BY <3>1, <3>2, <3>3
  <2>5. QED
    BY <1>t, <2>3, <2>4 DEF Result, Finished
<1>10. QED
  BY <1>4, <1>5, <1>6, <1>8, <1>9 DEF SettledOK

\* Every step of a client keeps what is known of all files.
LEMMA SettledClients ==
  ASSUME AloneInv, Alone, NoneMissing, NEW c \in Clients, UserStep(c),
         NEW d \in Clients, SettledOK(d)
  PROVE  SettledOK(d)'
<1>1. CASE d # c
  <2>1. TypeInv /\ Undisturbed(d)
    BY <1>1, AloneOthers DEF AloneInv, CalmInv, StepInv
  <2>2. QED
    BY <2>1, SettledUntouched
<1>2. CASE d = c
  BY <1>2, OwnActions, SettledEnter, SettledBegins, SettledOffline, SettledWrites,
     SettledListing, SettledNoMore, SettledReadsHeader, SettledReadsBytes, SettledFinish
<1>3. QED
  BY <1>1, <1>2

\* What a step of a client does to the servers skipped.
LEMMA ClientsMiss ==
  ASSUME AloneInv, Alone, NoneMissing, NEW c \in Clients, UserStep(c), SettledOK(c),
         Outages = "never"
  PROVE  /\ UNCHANGED status
         /\ \A d \in Clients : job'[d].offline = {}
         /\ \A k \in Paths : missed'[k] = {}
<1>t. /\ TypeInv /\ ClientTypeOK /\ job[c] \in Jobs /\ ~ServerOffline(c)
      /\ \A d \in Clients : job[d].offline = {}
      /\ \A k \in Paths : missed[k] = {}
  BY OwnStep, SettledOffline DEF NoneMissing
<1>1. ASSUME NEW d \in Clients \ {c} PROVE job'[d].offline = {}
  <2>1. SameClient(d)
    BY AloneOthers DEF Undisturbed
  <2>2. QED
    BY <1>t, <2>1 DEF SameClient
<1>2. \A x \in TaskTypes : NewJob(x).offline = {}
  BY DEF NewJob
<1>3. CASE Enter(c)
  <2> DEFINE x == Head(todo[c])
  <2>1. UNCHANGED <<status, missed>> /\ job' = [job EXCEPT ![c] = NewJob(x)]
    BY <1>3 DEF Enter, Step, serverVars, historyVars
  <2>2. job'[c].offline = {}
    <3>1. job'[c] = NewJob(x)
      BY <1>t, <2>1 DEF ClientTypeOK
    <3>2. QED
      BY <3>1 DEF NewJob
  <2>3. QED
    BY <1>1, <1>t, <2>1, <2>2
<1>4. CASE Finish(c)
  <2>1. UNCHANGED status /\ job' = job
    BY <1>t, <1>4 DEF Finish, Step, serverVars, ClientTypeOK
  <2>2. \A k \in Paths : missed'[k] = {}
    BY <1>t, <1>4 DEF Finish, ClientTypeOK
  <2>3. QED
    BY <1>t, <2>1, <2>2
<1>5. CASE ~Enter(c) /\ ~Finish(c)
  <2>1. \/ Connect(c) \/ LoginAccepted(c) \/ Write(c) \/ ReadListing(c) \/ NoMoreParts(c)
        \/ ReadHeader(c) \/ ReadBytes(c)
    BY <1>5, <1>t, OwnActions
  <2>2. UNCHANGED <<status, missed>>
    BY <2>1 DEF Connect, Accept, LoginAccepted, Write, ReadListing, NoMoreParts, ReadHeader,
                ReadBytes, storeVars, historyVars
  <2>3. job'[c].offline = job[c].offline
    <3>1. CASE InSession(c)
      BY <1>t, <3>1, ClientReaches, SessionMoves
    <3>2. CASE Connect(c)
      BY <1>t, <3>2 DEF Connect, Step, Jobs, ClientTypeOK
    <3>3. InSession(c) \/ Connect(c)
      BY <2>1 DEF InSession, LoginAccepted, Write, ReadListing, NoMoreParts, ReadHeader, ReadBytes
    <3>4. QED
      BY <3>1, <3>2, <3>3
  <2>4. QED
    BY <1>1, <1>t, <2>2, <2>3
<1>6. QED
  BY <1>3, <1>4, <1>5

\* Without outages no server is missing.
LEMMA StillNoneMissing ==
  ASSUME AloneInv, Alone, NoneMissing, \A c \in Clients : SettledOK(c), [Next]_vars
  PROVE  NoneMissing'
<1> SUFFICES ASSUME Outages = "never"
             PROVE  /\ \A s \in Servers : status'[s] = "up"
                    /\ \A c \in Clients : job'[c].offline = {}
                    /\ \A k \in Paths : missed'[k] = {}
  BY DEF NoneMissing
<1>t. /\ \A s \in Servers : status[s] = "up"
      /\ \A c \in Clients : job[c].offline = {}
      /\ \A k \in Paths : missed[k] = {}
      /\ CalmServers
  BY DEF NoneMissing, AloneInv, CalmInv
<1>1. CASE UNCHANGED <<status, job, missed>>
  BY <1>1, <1>t
<1>2. ASSUME NEW h \in Handlers, ServerStep(h)
      PROVE  UNCHANGED <<status, job, missed>>
  <2>1. HandlerStep(h) /\ UNCHANGED <<job, missed>> /\ ~UserDirectoryExists(h)
    BY <1>2, <1>t DEF ServerStep, CalmServers, BrokenPipe, UserDirectoryExists, clientVars,
                      historyVars
  <2>2. ~ListUnopened(h)
    BY <1>t DEF ListUnopened, CalmServers, DirectoryReady, Opens, Tree
  <2>3. UNCHANGED status
    BY <2>1, <2>2 DEF HandlerStep, Authenticate, ScanForDirectory, MakeUserDirectory,
       ReadCommand, List, OpenPart, WritePart, Spin, ReadRequest, ServeHeader, SendPart,
       ServeNothing, ServeUnopened, storeVars
  <2>4. QED
    BY <2>1, <2>3
<1>3. ASSUME NEW c \in Clients, UserStep(c)
      PROVE  /\ UNCHANGED status
             /\ \A d \in Clients : job'[d].offline = {}
             /\ \A k \in Paths : missed'[k] = {}
  BY <1>3, ClientsMiss
<1>4. ASSUME NEW s \in Servers, Outage(s)
      PROVE  FALSE
  BY <1>4 DEF Outage
<1>5. CASE UNCHANGED vars
  BY <1>1, <1>5 DEF vars, serverVars, clientVars, historyVars
<1>6. QED
  BY <1>1, <1>2, <1>3, <1>4, <1>5, <1>t DEF Next, UserStep

\* Every step keeps all of it.
LEMMA NextSettledInv ==
  ASSUME Alone
  PROVE  SettledInv /\ [Next]_vars => SettledInv'
<1> SUFFICES ASSUME SettledInv, [Next]_vars PROVE SettledInv'
  OBVIOUS
<1>t. /\ AloneInv /\ NoneMissing /\ \A c \in Clients : SettledOK(c)
      /\ TypeInv /\ CalmServers
  BY DEF SettledInv, AloneInv, CalmInv, StepInv
<1>1. AloneInv' /\ NoneMissing'
  BY <1>t, NextAloneInv, StillNoneMissing
<1>2. ASSUME NEW h \in Handlers, ServerStep(h), NEW c \in Clients PROVE SettledOK(c)'
  <2>1. HandlerStep(h) /\ UNCHANGED <<clientVars, historyVars>>
    BY <1>2, <1>t DEF ServerStep, CalmServers, BrokenPipe
  <2>2. QED
    BY <1>t, <2>1, HandlerSettled
<1>3. ASSUME NEW c \in Clients, UserStep(c), NEW d \in Clients PROVE SettledOK(d)'
  BY <1>3, <1>t, SettledClients
<1>4. ASSUME NEW s \in Servers, Outage(s), NEW c \in Clients PROVE SettledOK(c)'
  BY <1>4, <1>t, AloneFaults, SettledUntouched
<1>5. ASSUME UNCHANGED vars, NEW c \in Clients PROVE SettledOK(c)'
  BY <1>5, <1>t, Stutters, SettledUntouched
<1>6. QED
  BY <1>1, <1>2, <1>3, <1>4, <1>5 DEF SettledInv, Next, UserStep

\* The servers start with every file in the places of a put that reached all.
LEMMA InitSettledInv ==
  ASSUME Alone, Settled, Init
  PROVE  SettledInv
<1>1. AloneInv
  BY InitAloneInv
<1>2. NoneMissing
  BY DEF Init, ServerInit, NewJob, NoneMissing
<1>3. ASSUME NEW c \in Clients PROVE SettledOK(c)
  <2>1. /\ cpc[c] = "idle" /\ job[c].task.op = "MKDIR" /\ disk = StoredDisk
        /\ latest = Stored /\ todo[c] \in Plans[c] /\ \A k \in Paths : missed[k] = {}
    BY <1>3 DEF Init, NewJob
  <2>2. \A k : ~Putting(c, k) /\ Version(c, k) = Stored[k]
    BY <2>1 DEF Putting, Version
  <2>3. ASSUME NEW k \in Own(c), NEW s \in Servers, NEW p \in Parts
        PROVE  /\ Skipped(c, k) = {}
               /\ Stored[k] # None /\ p \in PlaceOf(c, k, s) => At(s, k, p) = Cut(Stored[k], p)
               /\ ~(Stored[k] # None /\ p \in PlaceOf(c, k, s)) => At(s, k, p) = Absent
    <3>1. k \in Paths /\ k = <<k[1], k[2], k[3]>> /\ <<k[1], k[2], k[3], p>> \in Slots
      BY DEF Own, Paths, Slots, Parts
    <3>2. Skipped(c, k) = {}
      BY <2>1, <2>2, <3>1 DEF Skipped
    <3>3. Stored[k] # None => PlaceOf(c, k, s) = PairParts(Layout(Class(Stored[k]))[s])
      <4> DEFINE f == Class(Stored[k])
      <4>1. ASSUME Stored[k] # None PROVE f \in Pairs
        BY <3>1, <4>1, PlansAssumption, ClientAssumption, DigestGivesPair DEF Class
      <4>2. PlaceOf(c, k, s) = PairParts(PairAt(f, {}, s))
        BY <2>2, <3>2 DEF PlaceOf
      <4>3. s \in 1..MAXSERVERS
        BY ClientAssumption
      <4> HIDE DEF f
      <4>4. f \in Pairs => PairAt(f, {}, s) = Layout(f)[s]
        BY <4>3, PairsInOrder
      <4>5. QED
        BY <4>1, <4>2, <4>4 DEF f
    <3>4. At(s, k, p) = IF Stored[k] # None /\ p \in PairParts(Layout(Class(Stored[k]))[s])
                          THEN Cut(Stored[k], p) ELSE Absent
      BY <2>1, <3>1 DEF At, StoredDisk, Class
    <3>5. QED
      BY <3>2, <3>3, <3>4
  <2>4. \A x, p : Cut(x, p).kind # "absent" /\ Absent.kind = "absent"
    BY DEF Cut, Zeros, Piece, Absent
  <2>5. \A k \in Own(c), s \in Servers, p \in Parts :
          There(s, k, p) <=> Stored[k] # None /\ p \in PlaceOf(c, k, s)
    BY <2>3, <2>4 DEF There
  <2>6. InPlace(c)
    BY <2>2, <2>3, <2>5 DEF InPlace, Reached
  <2>7. Current(c)
    BY <2>1, <2>3, <2>5 DEF Current
  <2>8. Puts(c)
    <3> DEFINE x == [k \in Paths |-> Version(c, k)]
    <3>1. \A k \in Paths : x[k] = Stored[k]
      BY <2>2
    <3>2. PutsReplace(c, todo[c], Stored)
      BY <2>1 DEF Settled
    <3>3. todo[c] \in Seq(TaskTypes) /\ TypeInv
      BY <1>1 DEF AloneInv, CalmInv, StepInv, TypeInv, ClientTypeOK
    <3>4. \A k \in Own(c) : Stored[k] = x[k]
      BY <3>1 DEF Own
    <3>5. PutsReplace(c, todo[c], x)
      <4> HIDE DEF x
      <4>1. QED
        BY <3>2, <3>3, <3>4, SamePuts
    <3>6. QED
      BY <2>1, <3>5 DEF Puts
  <2>9. Gathered(c) /\ Halfway(c) /\ Seen(c) /\ Result(c)
    BY <2>1 DEF Gathered, Halfway, Seen, Result, Finished
  <2>10. QED
    BY <2>6, <2>7, <2>8, <2>9 DEF SettledOK
<1>4. QED
  BY <1>1, <1>2, <1>3 DEF SettledInv

(***************************************************************************)
(* A get returns the file that was put and list calls it complete, with    *)
(* one server out of reach when it was put or now (readme.txt:19-27): any  *)
(* accounts, files, contents and commands, where a file stays in its place.*)
(***************************************************************************)
THEOREM OutageIsSurvived ==
  ASSUME Alone, Settled
  PROVE  Spec => []SurvivesOneOutage
<1>1. SettledInv => SurvivesOneOutage
  BY DEF SettledInv, SettledOK, Result, SurvivesOneOutage
<1>2. QED
  BY <1>1, InitSettledInv, NextSettledInv, PTL DEF Spec

-----------------------------------------------------------------------------
\* The parts of a file tell which content it is, but for the empty one.
OneEmpty == \A x, y \in Contents : Length[x] = 0 /\ Length[y] = 0 => x = y
\* The file get writes tells which content it is.
LEMMA ContentTold ==
  ASSUME OneEmpty, NEW f, NEW x \in Contents, IsContent(f, x)
  PROVE  ContentOf(f) = x
<1>1. ASSUME NEW y \in Contents, IsContent(f, y) PROVE y = x
  <2>1. Cut(x, 4) = Cut(y, 4)
    BY <1>1 DEF IsContent, Parts
  <2>2. \A z \in Contents : /\ Length[z] = 0 => Cut(z, 4) = Zeros(0)
                            /\ Length[z] # 0 => /\ Cut(z, 4).kind = "whole"
                                                /\ Cut(z, 4).content = z
    <3> SUFFICES ASSUME NEW z \in Contents
                 PROVE  /\ Length[z] = 0 => Cut(z, 4) = Zeros(0)
                        /\ Length[z] # 0 => Cut(z, 4).kind = "whole" /\ Cut(z, 4).content = z
      OBVIOUS
    <3> DEFINE n == Length[z]
    <3>1. n \in Nat /\ part_size(n, 4) = n - 3 * (n \div 4)
      BY ConstantsAssumption DEF part_size
    <3>2. /\ n = 0 => n - 3 * (n \div 4) = 0
          /\ n # 0 => n - 3 * (n \div 4) # 0
      <4> HIDE DEF n
      <4>1. QED
        BY <3>1, Z3
    <3>3. QED
      BY <3>1, <3>2 DEF Cut, Piece
  <2>3. Zeros(0).kind = "zeros"
    BY DEF Zeros, Piece
  <2>4. QED
    BY <2>1, <2>2, <2>3 DEF OneEmpty
<1>2. f # NoBufs
  <2>1. 1 \in Parts /\ f[1] = Cut(x, 1)
    BY DEF IsContent, Parts
  <2>2. Cut(x, 1).kind # "absent"
    BY DEF Cut, Zeros, Piece
  <2>3. QED
    BY <2>1, <2>2 DEF NoBufs, Absent, Piece
<1>3. QED
  BY <1>1, <1>2 DEF ContentOf

\* A step of a client is a put, a get or nothing to the user.
LEMMA UserSeesPutsAndGets ==
  ASSUME SettledInv, Alone, OneEmpty, NEW c \in Clients, UserStep(c)
  PROVE  [Promise!Next]_(Promise!storeVars)
<1> DEFINE k == PathKey(c)
           local == [d \in Clients |-> ContentOf(file[d])]
<1>t. /\ AloneInv /\ SettledOK(c) /\ TypeInv /\ ClientTypeOK /\ job[c] \in Jobs
      /\ k \in Paths
  <2>1. AloneInv /\ SettledOK(c)
    BY DEF SettledInv
  <2>2. TypeInv /\ ClientTypeOK /\ job[c] \in Jobs
    BY <2>1, OwnStep
  <2>3. QED
    BY <2>1, <2>2, OwnPath DEF Own
<1>1. ASSUME UNCHANGED <<latest, file>>
      PROVE  [Promise!Next]_(Promise!storeVars)
  BY <1>1 DEF Promise!storeVars
<1>2. CASE ~Finish(c)
  <2>1. CASE InSession(c)
    BY <1>1, <1>t, <2>1, ClientReaches, SessionMoves DEF historyVars
  <2>2. CASE Enter(c) \/ Connect(c) \/ ServerOffline(c)
    BY <1>1, <2>2 DEF Enter, Connect, ServerOffline, historyVars
  <2>3. InSession(c) \/ Enter(c) \/ Connect(c) \/ ServerOffline(c)
    <3>1. \/ Enter(c) \/ Connect(c) \/ ServerOffline(c) \/ LoginAccepted(c) \/ Write(c)
          \/ ReadListing(c) \/ NoMoreParts(c) \/ ReadHeader(c) \/ ReadBytes(c)
      BY <1>2, <1>t, OwnActions
    <3>2. QED
      BY <3>1 DEF InSession, LoginAccepted, Write, ReadListing, NoMoreParts, ReadHeader, ReadBytes
  <2>4. QED
    BY <2>1, <2>2, <2>3
<1>3. CASE Finish(c) /\ job[c].task.op = "put"
  <2> DEFINE x == job[c].task.content
  <2>1. latest' = [latest EXCEPT ![k] = x] /\ file' = file
    BY <1>3 DEF Finish
  <2>2. x \in Contents
    BY <1>3, <1>t DEF Jobs, TaskTypes, TypeInv, SessionOK
  <2>3. Promise!Put(k, x)
    BY <2>1 DEF Promise!Put
  <2>4. QED
    BY <1>t, <2>2, <2>3 DEF Promise!Next
<1>4. CASE Finish(c) /\ job[c].task.op = "get" /\ job[c].want = {} /\ Descriptor(c)
  <2>1. latest' = latest /\ file' = [file EXCEPT ![c] = job[c].bufs]
    BY <1>4 DEF Finish
  <2>2. latest[k] # None /\ IsContent(job[c].bufs, latest[k])
    <3>1. cpc[c] = "connect" /\ Gathered(c)
      BY <1>4, <1>t DEF Finish, SettledOK
    <3>2. \A p \in Parts : latest[k] # None /\ job[c].bufs[p] = Cut(latest[k], p)
      BY <1>4, <3>1 DEF Gathered
    <3>3. QED
      BY <3>2 DEF IsContent, Parts
  <2>3. ContentOf(job[c].bufs) = latest[k]
    <3>1. latest[k] \in Contents
      BY <1>t, <2>2 DEF ClientTypeOK
    <3>2. QED
      BY <2>2, <3>1, ContentTold
  <2>4. [d \in Clients |-> ContentOf(file'[d])] = [local EXCEPT ![c] = latest[k]]
    <3>1. \A d \in Clients : file'[d] = IF d = c THEN job[c].bufs ELSE file[d]
      BY <1>t, <2>1 DEF ClientTypeOK
    <3>2. QED
      BY <2>3, <3>1
  <2>5. Promise!Get(c, k)
    BY <2>1, <2>2, <2>4 DEF Promise!Get
  <2>6. QED
    BY <1>t, <2>5 DEF Promise!Next
<1>5. CASE Finish(c) /\ job[c].task.op # "put"
           /\ ~(job[c].task.op = "get" /\ job[c].want = {} /\ Descriptor(c))
  BY <1>1, <1>5 DEF Finish
<1>6. QED
  BY <1>2, <1>3, <1>4, <1>5

(***************************************************************************)
(* Four servers, connections and parts amount to a store of whole files:   *)
(* every step is a put of a content, a get of the last one put, or nothing *)
(* to the user (readme.txt:22-27).                                         *)
(***************************************************************************)
THEOREM FileStoreIsImplemented ==
  ASSUME Alone, Settled, OneEmpty
  PROVE  Spec => ImplementsFileStore
<1>1. Init => Promise!Init
  <2> SUFFICES ASSUME Init PROVE Promise!Init
    OBVIOUS
  <2>1. latest \in [Paths -> Contents \cup {None}] /\ \A c \in Clients : file[c] = NoBufs
    BY PlansAssumption DEF Init
  <2>2. QED
    BY <2>1 DEF Promise!Init, ContentOf
<1>2. SettledInv /\ [Next]_vars => [Promise!Next]_(Promise!storeVars)
  <2> SUFFICES ASSUME SettledInv, [Next]_vars PROVE [Promise!Next]_(Promise!storeVars)
    OBVIOUS
  <2>1. ASSUME UNCHANGED <<latest, file>>
        PROVE  [Promise!Next]_(Promise!storeVars)
    BY <2>1 DEF Promise!storeVars
  <2>2. ASSUME NEW h \in Handlers, ServerStep(h) PROVE UNCHANGED <<latest, file>>
    BY <2>2 DEF ServerStep, clientVars, historyVars
  <2>3. ASSUME NEW s \in Servers, Outage(s) PROVE UNCHANGED <<latest, file>>
    BY <2>3 DEF Outage, clientVars, historyVars
  <2>4. CASE UNCHANGED vars
    BY <2>1, <2>4 DEF vars, clientVars, historyVars
  <2>5. QED
    BY <2>1, <2>2, <2>3, <2>4, UserSeesPutsAndGets DEF Next, UserStep
<1>3. QED
  BY <1>1, <1>2, InitSettledInv, NextSettledInv, PTL DEF Spec, ImplementsFileStore, Promise!Spec
=============================================================================
