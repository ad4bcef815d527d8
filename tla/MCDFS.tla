-------------------------------- MODULE MCDFS --------------------------------
(***************************************************************************)
(* Instances of DFS for TLC: four servers, as the client requires.         *)
(***************************************************************************)
EXTENDS DFS, TLC

CONSTANTS t1, t2, c1, c2, ann, bob, pwA, pwB, f, base, v1, v2, none

MCServers == 1..4
OneThread == {t1}
TwoThreads == {t1, t2}
OneClient == {c1}
JustAnn == {ann}
MCPasswords == {pwA, pwB}
MCAccounts == {<<ann, pwA>>}
NoPrefixes == {}
AnnLogin == [c \in Clients |-> <<ann, pwA>>]
MCNames == {f}
NoSubs == {}
OneContent == {v1}
TwoContents == {v1, v2}
Lengths == [x \in Contents |-> 9]
\* The first hexadecimal digit of byte 8 of the digests: 5 and 0 are the
\* pairs 1 and 0, 5 and 1 both the pair 1.
OtherDigests == [x \in Contents |-> IF x = v1 THEN 5 ELSE 0]
SameDigests  == [x \in Contents |-> IF x = v1 THEN 5 ELSE 1]

Task(op, content) == [op |-> op, name |-> f, dir |-> base, content |-> content]
Put(x) == Task("put", x)
Get == Task("get", none)
ListTask == Task("list", none)
MakeDir == Task("MKDIR", none)
Nothing == [k \in Paths |-> None]
FirstVersion == [k \in Paths |-> v1]

Everyone(plans) == [c \in Clients |-> plans]
PutThenRead == Everyone({<<Get, Put(v1), Get>>, <<Put(v1), ListTask>>})
PutMissing == Everyone({<<Get, Put(none)>>, <<Put(v1), Put(none)>>})
ManyGets == Everyone({<<Get, Get, Get>>})
PutThenGet == Everyone({<<Put(v1), Get>>})
PutTwice == Everyone({<<Put(v1), Put(v1), Get>>})
PutOther == Everyone({<<Put(v2), Get>>})
Rewrites == Everyone({<<Get, Put(v2), Get>>, <<Put(v2), Put(v1), Get, ListTask>>})
FewCommands == Everyone({<<Get, ListTask>>, <<MakeDir>>, <<Get, Get, Put(v1)>>})
JustGet == Everyone({<<Get>>})
=============================================================================
