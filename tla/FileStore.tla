------------------------------ MODULE FileStore ------------------------------
(***************************************************************************)
(* What the distributed file system promises its users, without servers,   *)
(* parts or connections: put replaces the file at a path and get copies it *)
(* to the client's directory (readme.txt:22-27).                           *)
(***************************************************************************)
CONSTANTS Paths, Clients, Contents, None
VARIABLES
  stored,  \* stored[k]: the content at path k, None without a file
  local    \* local[c]: the content of the file in the directory of client c

storeVars == <<stored, local>>

Init == /\ stored \in [Paths -> Contents \cup {None}]
        /\ local = [c \in Clients |-> None]

Put(k, x) == /\ stored' = [stored EXCEPT ![k] = x]
             /\ UNCHANGED local
Get(c, k) == /\ stored[k] # None
             /\ local' = [local EXCEPT ![c] = stored[k]]
             /\ UNCHANGED stored

Next == \/ \E k \in Paths, x \in Contents : Put(k, x)
        \/ \E c \in Clients, k \in Paths : Get(c, k)

Spec == Init /\ [][Next]_storeVars
=============================================================================
