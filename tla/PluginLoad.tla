----------------------------- MODULE PluginLoad -----------------------------
(***************************************************************************)
(* The start of the program: the window runs the file of each plug-in as a *)
(* task (collect_plugins of src/bld/conf/utils/plugin_system_engine.lua),  *)
(* waits a second for its configuration, and joins a task that sent none.  *)
(* The wait takes whatever lies in the window's mailbox, and a plug-in     *)
(* that was good but slow is joined while it waits for its QUIT.           *)
(*                                                                         *)
(* The window runs nothing else meanwhile, and no other task posts to its  *)
(* mailbox: the sender's reports go to its port.                           *)
(***************************************************************************)
EXTENDS Naturals, Sequences

CONSTANT MaxFiles   \* bound: files in the directory of plug-ins

ASSUME FilesAssumption == MaxFiles \in Nat

\* What a file is: a plug-in, one of a wrong type, one that cannot be read or
\* run, one that returns something without a name.
FileKind == {"good", "wrong", "silent", "broken"}

\* The message of a plug-in of a wrong type; a configuration is a number > 0.
NoConf == 0

\* The window has no task in hand: it dropped the last one's handle.
NoTask == [kind |-> "silent", at |-> "ended"]

VARIABLES
    win,          \* where the window is: its loop, the wait, the join, up, dead
    files,        \* how many files it has run
    plugs_no,
    mail,         \* its mailbox
    hurt,         \* its abortion signal
    task,         \* the task in hand: the kind of its file, and where it is
    serves,       \* the configuration of the task of each number, or NoConf
    posted,       \* configurations posted
    list,         \* Flags.Plugins
    ranOut        \* history: a wait ran out before the message it was for

loadVars == << win, files, plugs_no, mail, hurt, task, serves, posted, list,
               ranOut >>

LoadInit ==
    /\ win = "dir" /\ files = 0 /\ plugs_no = 0 /\ mail = << >> /\ hurt = FALSE
    /\ task = NoTask
    /\ serves = [n \in 0..MaxFiles |-> NoConf] /\ posted = 0 /\ list = << >>
    /\ ranOut = FALSE

-----------------------------------------------------------------------------
(* The task of a plug-in, up to its loop. *)

\* The configuration, and on to the loop, which is left with QUIT.
TaskServes ==
    /\ task.at = "loading" /\ task.kind = "good" /\ task' = [task EXCEPT !.at = "loop"]
    /\ posted' = posted + 1 /\ mail' = Append(mail, posted + 1)
    /\ serves' = [serves EXCEPT ![plugs_no] = posted + 1]
    /\ UNCHANGED << win, files, plugs_no, hurt, list, ranOut >>

WrongGoesOn ==
    /\ task.at = "loading" /\ task.kind = "wrong" /\ task' = [task EXCEPT !.at = "loop"]
    /\ mail' = Append(mail, NoConf)
    /\ UNCHANGED << win, files, plugs_no, hurt, serves, posted, list, ranOut >>
TaskIsWrong ==
    /\ task.at = "loading" /\ task.kind = "wrong" /\ task' = [task EXCEPT !.at = "ended"]
    /\ mail' = Append(mail, NoConf)
    /\ UNCHANGED << win, files, plugs_no, hurt, serves, posted, list, ranOut >>

\* Without a word; a Lua error also signals the window.
TaskEnds ==
    /\ task.at = "loading" /\ task.kind \in {"silent", "broken"}
    /\ task' = [task EXCEPT !.at = "ended"]
    /\ hurt' = (task.kind = "broken")
    /\ UNCHANGED << win, files, plugs_no, mail, serves, posted, list, ranOut >>

-----------------------------------------------------------------------------
(* The window. *)

RunFile ==
    /\ win = "dir" /\ files < MaxFiles
    /\ win' = "waiting" /\ files' = files + 1
    /\ \E k \in FileKind : task' = [kind |-> k, at |-> "loading"]
    /\ UNCHANGED << plugs_no, mail, hurt, serves, posted, list, ranOut >>

\* exec.waitmsg(1000) raises what a task's Lua error signalled: the end of the
\* program, of which only this is said.
Raised ==
    /\ win = "waiting" /\ hurt /\ win' = "dead"
    /\ UNCHANGED << files, plugs_no, mail, hurt, task, serves, posted, list,
                    ranOut >>

ListAnything ==
    /\ win = "waiting" /\ mail # << >> /\ mail' = Tail(mail)
    /\ win' = "dir"
    /\ list' = Append(list, [name |-> plugs_no, conf |-> Head(mail)])
    /\ plugs_no' = plugs_no + 1 /\ task' = NoTask
    /\ UNCHANGED << files, hurt, serves, posted, ranOut >>
ListPlugin ==
    /\ win = "waiting" /\ mail # << >> /\ Head(mail) # NoConf
    /\ mail' = Tail(mail) /\ win' = "dir"
    /\ list' = Append(list, [name |-> plugs_no, conf |-> Head(mail)])
    /\ plugs_no' = plugs_no + 1 /\ task' = NoTask
    /\ UNCHANGED << files, hurt, serves, posted, ranOut >>

\* task:join() after an empty message, or after none for a second.
RefusePlugin ==
    /\ win = "waiting" /\ mail # << >> /\ Head(mail) = NoConf
    /\ mail' = Tail(mail) /\ win' = "joining"
    /\ UNCHANGED << files, plugs_no, hurt, task, serves, posted, list, ranOut >>
WaitRunsOut ==
    /\ win = "waiting" /\ mail = << >> /\ ~hurt /\ win' = "joining"
    /\ ranOut' = (ranOut \/ (task.at = "loading" /\ task.kind \in {"good", "wrong"}))
    /\ UNCHANGED << files, plugs_no, mail, hurt, task, serves, posted, list >>

\* The task has ended and its name is free.  The join swallows its abortion
\* signal (abort = false); exec.getsignals leaves messages where they are.
Joined ==
    /\ win = "joining" /\ task.at = "ended"
    /\ win' = "dir" /\ hurt' = FALSE /\ task' = NoTask
    /\ UNCHANGED << files, plugs_no, mail, serves, posted, list, ranOut >>

\* The directory holds no more files: on to the window itself.
AllLoaded ==
    /\ win = "dir" /\ win' = "up" /\ files' = MaxFiles
    /\ UNCHANGED << plugs_no, mail, hurt, task, serves, posted, list,
                    ranOut >>

LoadNext ==
    \/ TaskServes \/ TaskIsWrong \/ TaskEnds
    \/ RunFile \/ Raised \/ ListPlugin \/ RefusePlugin \/ WaitRunsOut \/ Joined
    \/ AllLoaded

-----------------------------------------------------------------------------
(* What the start promises. *)

\* The list shows under each task's name the configuration of that very task,
\* and each task that serves is listed or about to be: a message left behind by
\* an earlier file never ends up under another's name.
ListIsServed ==
    /\ \A i \in 1..Len(list) :
          list[i].conf # NoConf /\ serves[list[i].name] = list[i].conf
    /\ win = "up" => \A n \in 0..MaxFiles :
          serves[n] # NoConf => \E i \in 1..Len(list) : list[i].name = n

\* The window comes up, or the program ends of a plug-in's error, unless the
\* wait for a plug-in that had a message to send ran out.
StartupEnds == <>(win \in {"up", "dead"} \/ ranOut)

=============================================================================
