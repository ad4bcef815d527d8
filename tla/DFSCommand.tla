----------------------------- MODULE DFSCommand -----------------------------
(***************************************************************************)
(* A command of a DFS client: the variables of main that belong to it, and *)
(* what it writes to each server.                                          *)
(***************************************************************************)
EXTENDS DFSServer

\* What the user types.
TaskTypes == [op : Ops \ {"none"}, name : Names, dir : Dirs,
              content : Contents \cup {None}]

\* The variables of the command while it is carried out.
Jobs == [task : TaskTypes,
         turn : 1..(MAXSERVERS + 1),          \* i + 1
         pair : 0..4,                         \* pair_to_send
         round : 1..2,                        \* j + 1
         want : SUBSET Parts,                 \* ask_parts
         bufs : [Parts -> Pieces],            \* file_bufs and part_size
         seen : SUBSET (Names \X (0..4)),     \* ret_files
         lost : BOOLEAN,  \* something was written after the server closed
         offline : SUBSET Servers]            \* servers skipped (history)

\* What is written to a server once the login is accepted.
Script(j) ==
  LET command == Message("command", [op |-> j.task.op, name |-> j.task.name,
                                     dir |-> j.task.dir])
      pair == WrapPair(j.pair)
  IN  <<command>> \o
      CASE j.task.op = "put" -> PartMessages(j.task.content, PartSent(pair, 0))
                             \o PartMessages(j.task.content, PartSent(pair, 1))
        [] j.task.op = "get" -> <<Message("request", j.want)>>
        [] OTHER -> <<>>

=============================================================================
