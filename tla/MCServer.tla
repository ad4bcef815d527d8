------------------------------ MODULE MCServer ------------------------------
(***************************************************************************)
(* Instances of DFSServerOpen for TLC.                                     *)
(***************************************************************************)
EXTENDS DFSServerOpen, TLC

CONSTANTS s1, t1, t2, ann, bob, pwA, pwB, f, sub, base, a1, a2, b1, none

MCServers == {s1}
OneThread == {t1}
TwoThreads == {t1, t2}
\* The threads of a server are alike.
Alike == Permutations(TwoThreads)
OneUser == {ann}
TwoUsers == {ann, bob}
MCPasswords == {pwA, pwB}
OneAccount == {<<ann, pwA>>}
TwoAccounts == {<<ann, pwA>>, <<bob, pwB>>}
NoPrefixes == {}
AnnIsPrefix == {<<ann, bob>>}
Nobody == {}
OnlyBob == {bob}
MCNames == {f}
NoSubs == {}
OneSub == {sub}

\* a1 and a2 are ann's, b1 is bob's.  Parts of 2, 2, 2 and 3 bytes, of no
\* bytes but in the last part, or of different sizes.
MCContents == {a1, a2, b1}
SameLengths  == (a1 :> 9 @@ a2 :> 9 @@ b1 :> 9)
SomeEmpty    == (a1 :> 9 @@ a2 :> 9 @@ b1 :> 3)
OtherLengths == (a1 :> 17 @@ a2 :> 9 @@ b1 :> 9)

Session(user, pass, op, dir, content, pair, asked) ==
  [login |-> <<user, pass>>, command |-> [op |-> op, name |-> f, dir |-> dir],
   content |-> content, pair |-> pair, asked |-> asked]

\* ann stores two contents and reads them back; someone tries her password.
AnnSessions ==
  {Session(ann, pwA, "put", base, a1, 2, {}),
   Session(ann, pwA, "put", base, a2, 2, {}),
   Session(ann, pwA, "get", base, a1, 0, Parts),
   Session(ann, pwB, "put", base, b1, 3, {})}
\* ann, whose name is a prefix of bob's, has no directory where bob has one;
\* bob stores two contents, lists them and reads them back.
FaultSessions ==
  {Session(ann, pwA, "put", base, a1, 0, {}),
   Session(ann, pwA, "get", base, a1, 0, Parts),
   Session(ann, pwA, "list", base, a1, 0, {}),
   Session(bob, pwB, "put", base, a2, 2, {}),
   Session(bob, pwB, "put", base, b1, 2, {}),
   Session(bob, pwB, "get", base, b1, 2, {3, 4}),
   Session(bob, pwB, "list", base, b1, 2, {})}
\* bob stores in a subdirectory he need not have made.
BobSessions ==
  {Session(bob, pwB, "MKDIR", sub, b1, 0, {}),
   Session(bob, pwB, "put", sub, b1, 3, {})}
\* His password is the one that is tried on ann's account.
SharedSessions == AnnSessions \cup BobSessions
=============================================================================
