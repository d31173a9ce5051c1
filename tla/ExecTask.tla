------------------------------ MODULE ExecTask ------------------------------
(***************************************************************************)
(* Tasks, their names and their mailboxes: tek.lib.exec over the exec      *)
(* kernel (exec_lua.c, exec_doexec.c, exec_api.c).  The application task   *)
(* runs children; a child's name is an atom, a lock of the kernel whose    *)
(* data is the task.  The kernel is a task of its own: it takes one        *)
(* request after the other from its port, and a task that sent one sleeps  *)
(* until the answer is in its sync port.  A request and its handling are   *)
(* one step here: the port keeps the order of the requests, and nothing    *)
(* else reads or writes what the kernel's handlers do.                     *)
(***************************************************************************)
EXTENDS Naturals, Sequences, FiniteSets, Lists

CONSTANTS Children,  \* the tasks that can be created, each at most once
          Names,     \* the names the program gives them
          Aborts,    \* the values of "abort" it gives Exec.run
          MaxCalls,  \* bound: calls of the library by the application
          MaxOps     \* bound: calls by a child

Main == "main"       \* the application task
NoOne == "nobody"
NoName == "nameless"

ASSUME ExecAssumption == /\ Main \notin Children \cup Names
                         /\ NoOne \notin Children
                         /\ NoName \notin Names
                         /\ Aborts \subseteq BOOLEAN
                         /\ MaxCalls \in Nat /\ MaxOps \in Nat

Tasks == Children \cup {Main}

VARIABLES mem,      \* the memory of a child: absent, live or freed
          status,   \* tsk_Status
          name,     \* ctx->taskname
          abort,    \* ctx->abort
          outcome,  \* how the Lua program of a task ended
          pc,       \* where a task is
          op,       \* what it is at: the name it locked, the task it addresses
          sig,      \* its pending signals, of USER and ABORT
          box,      \* its user port: the senders of the messages
          atoms,    \* the kernel's atoms
          reply,    \* the kernel's answer to the task's last request
          inits,    \* texb_TaskInitList
          exits,    \* texb_TaskExitList
          flags,    \* CHILDINIT, CHILDEXIT pending at the kernel
          left      \* calls a task may still make (bound)

vars == <<mem, status, name, abort, outcome, pc, op, sig, box, atoms, reply,
          inits, exits, flags, left>>
lua == <<name, abort, outcome, left>>
lists == <<inits, exits, flags>>
locks == <<atoms, reply>>
mail == <<op, sig, box>>

NoAtom == [mode |-> "absent", nest |-> 0, owner |-> NoOne, task |-> NoOne,
           waiters |-> <<>>]
Idle == [name |-> NoName, task |-> NoOne]

Init == /\ mem = [c \in Children |-> "absent"]
        /\ status = [c \in Children |-> "none"]
        /\ name = [c \in Children |-> NoName]
        /\ abort = [c \in Children |-> TRUE]
        /\ outcome = [t \in Tasks |-> "none"]
        /\ pc = [t \in Tasks |-> IF t = Main THEN "lua" ELSE "none"]
        /\ op = [t \in Tasks |-> Idle]
        /\ sig = [t \in Tasks |-> {}]
        /\ box = [t \in Tasks |-> <<>>]
        /\ atoms = [n \in Names |-> NoAtom]
        /\ reply = [t \in Tasks |-> "none"]
        /\ inits = {} /\ exits = {} /\ flags = {}
        /\ left = [t \in Tasks |-> IF t = Main THEN MaxCalls ELSE MaxOps]

At(t, p) == pc[t] = p
Goto(t, p) == pc' = [pc EXCEPT ![t] = p]
Signal(t, s) == sig' = [sig EXCEPT ![t] = @ \cup s]
Calls(t) == At(t, "lua") /\ left[t] > 0 /\ left' = [left EXCEPT ![t] = @ - 1]

Answered(t) == reply[t] # "none"
Granted(t) == reply[t] = "yes"

----------------------------------------------------------------------------
(* The kernel's atoms.                                                     *)

Answer(ts, r) == reply' = [t \in Tasks |-> IF t \in ts THEN r ELSE reply[t]]

\* exec_lockatom with TATOMF_CREATE | TATOMF_TRY: an atom that exists is
\* denied; a new one is locked, by no one the kernel knows
CreateAtom(t, n) ==
    \/ /\ atoms[n].mode = "absent"
       /\ atoms' = [atoms EXCEPT ![n] = [NoAtom EXCEPT !.mode = "excl",
                                                       !.nest = 1]]
       /\ Answer({t}, "yes")
    \/ /\ atoms[n].mode # "absent"
       /\ Answer({t}, "no") /\ UNCHANGED atoms

\* exec_lockatom, the other modes: a task that must wait is not answered
Nests(a, t, mode) == \/ a.mode = "shared" /\ mode = "shared"
                     \/ a.mode = "excl" /\ a.owner = t

LockAtom(t, n, mode) ==
    LET a == atoms[n]
    IN \/ /\ a.mode = "absent"
          /\ Answer({t}, "no") /\ UNCHANGED atoms
       \/ /\ a.mode = "free"
          /\ atoms' = [atoms EXCEPT ![n] =
                [@ EXCEPT !.mode = mode, !.nest = 1,
                          !.owner = IF mode = "shared" THEN NoOne ELSE t]]
          /\ Answer({t}, "yes")
       \/ /\ Nests(a, t, mode)
          /\ atoms' = [atoms EXCEPT ![n].nest = @ + 1]
          /\ Answer({t}, "yes")
       \/ /\ a.mode \in {"shared", "excl"} /\ ~Nests(a, t, mode)
          /\ atoms' = [atoms EXCEPT
                ![n].waiters = Append(@, [task |-> t, mode |-> mode])]
          /\ Answer({t}, "none")

\* exec_unlockatom: the first waiter gets the atom, and with a shared waiter
\* every other shared one
TasksOf(ws) == {ws[i].task : i \in 1..Len(ws)}
InMode(ws, mode) == Picked(ws, {i \in 1..Len(ws) : ws[i].mode = mode})
Restarted(ws) == CASE ws = <<>> -> <<>>
                   [] ws # <<>> /\ ws[1].mode = "excl" -> <<ws[1]>>
                   [] OTHER -> InMode(ws, "shared")
StillWaiting(ws) == CASE ws = <<>> -> <<>>
                      [] ws # <<>> /\ ws[1].mode = "excl" -> Tail(ws)
                      [] OTHER -> InMode(ws, "excl")

Released(a) ==
    LET go == Restarted(a.waiters)
    IN [a EXCEPT !.nest = Len(go),
                 !.mode = IF go = <<>> THEN "free" ELSE go[1].mode,
                 !.owner = IF go # <<>> /\ go[1].mode = "excl"
                           THEN go[1].task ELSE NoOne,
                 !.waiters = StillWaiting(a.waiters)]

\* a mutant: the first unlock lets everyone in
UnlockAll(n) == /\ atoms' = [atoms EXCEPT ![n] = Released(@)]
                /\ Answer(TasksOf(Restarted(atoms[n].waiters)), "yes")

\* an unlock that leaves other holders only counts down
UnlockAtom(n) ==
    \/ /\ atoms[n].nest > 1
       /\ atoms' = [atoms EXCEPT ![n].nest = @ - 1]
       /\ UNCHANGED reply
    \/ /\ atoms[n].nest = 1
       /\ atoms' = [atoms EXCEPT ![n] = Released(@)]
       /\ Answer(TasksOf(Restarted(atoms[n].waiters)), "yes")

\* TATOMF_DESTROY: the atom goes, its waiters are turned away
DestroyAtom(n) == /\ atoms' = [atoms EXCEPT ![n] = NoAtom]
                  /\ Answer(TasksOf(atoms[n].waiters), "no")

----------------------------------------------------------------------------
(* Birth of a child: exec_taskentryfunc, TMSG_INITTASK.                    *)

\* Exec.run, TTREQ_CREATETASK: exec_newtask, exec_createtask
Run(c, n, ab) == /\ Calls(Main)
                 /\ mem[c] = "absent"
                 /\ name' = [name EXCEPT ![c] = n]
                 /\ abort' = [abort EXCEPT ![c] = ab]
                 /\ mem' = [mem EXCEPT ![c] = "live"]
                 /\ status' = [status EXCEPT ![c] = "initializing"]
                 /\ inits' = inits \cup {c}
                 /\ pc' = [pc EXCEPT ![c] = "born", ![Main] = "creating"]
                 /\ Answer({Main}, "none")
                 /\ UNCHANGED <<outcome, mail, atoms, exits, flags>>

Ran == /\ At(Main, "creating") /\ Answered(Main)
       /\ Goto(Main, "lua")
       /\ UNCHANGED <<mem, status, lua, mail, locks, lists>>

\* a mutant: TATOMF_TRY is left out, the second task waits for the name
ClaimWaits(c) == /\ At(c, "born")
                 /\ \/ atoms[name[c]].mode = "absent" /\ CreateAtom(c, name[c])
                    \/ /\ atoms[name[c]].mode # "absent"
                       /\ LockAtom(c, name[c], "excl")
                 /\ Goto(c, "claiming")
                 /\ UNCHANGED <<mem, status, lua, mail, lists>>

\* the name is claimed: TATOMF_CREATE | TATOMF_NAME | TATOMF_TRY
ClaimName(c) == /\ At(c, "born")
                /\ CreateAtom(c, name[c])
                /\ Goto(c, "claiming")
                /\ UNCHANGED <<mem, status, lua, mail, lists>>

\* TSetAtomData, and the atom is unlocked
NameClaimed(c) ==
    /\ At(c, "claiming") /\ Granted(c)
    /\ LET a == [atoms[name[c]] EXCEPT !.task = c]
       IN /\ atoms' = [atoms EXCEPT ![name[c]] = Released(a)]
          /\ Answer(TasksOf(Restarted(a.waiters)), "yes")
    /\ Goto(c, "named")
    /\ UNCHANGED <<mem, status, lua, mail, lists>>

\* tsk_Status is set, and the kernel is signalled after it
Initialized(c) ==
    /\ \/ At(c, "named") /\ status' = [status EXCEPT ![c] = "running"]
       \/ /\ At(c, "claiming") /\ ~Granted(c)
          /\ status' = [status EXCEPT ![c] = "failed"]
    /\ Goto(c, "initialized")
    /\ UNCHANGED <<mem, lua, mail, locks, lists>>

TellInit(c) == /\ At(c, "initialized")
               /\ flags' = flags \cup {"CHILDINIT"}
               /\ Goto(c, IF status[c] = "failed" THEN "dead" ELSE "lua")
               /\ UNCHANGED <<mem, status, lua, mail, locks, inits, exits>>

\* exec_childinit: a task that failed is freed, and its thread joined; the
\* creator is answered
ChildInit ==
    /\ "CHILDINIT" \in flags
    /\ LET failed == {c \in inits : status[c] = "failed"}
           up == {c \in inits : status[c] \in {"running", "finished"}}
       IN /\ \A c \in failed : At(c, "dead")
          /\ mem' = [c \in Children |-> IF c \in failed THEN "freed"
                                        ELSE mem[c]]
          /\ inits' = inits \ (failed \cup up)
          /\ Answer(IF failed \cup up = {} THEN {} ELSE {Main},
                    IF failed = {} THEN "yes" ELSE "no")
    /\ flags' = flags \ {"CHILDINIT"}
    /\ UNCHANGED <<status, lua, pc, mail, atoms, exits>>

----------------------------------------------------------------------------
(* Messages.                                                               *)

\* Exec.sendmsg(name): the name is locked shared
SendByName(t, n) == /\ Calls(t)
                    /\ op' = [op EXCEPT ![t].name = n]
                    /\ LockAtom(t, n, "shared")
                    /\ Goto(t, "finding")
                    /\ UNCHANGED <<mem, status, name, abort, outcome, sig, box,
                                   lists>>

NobodyThere(t) == /\ At(t, "finding") /\ Answered(t) /\ ~Granted(t)
                  /\ op' = [op EXCEPT ![t] = Idle]
                  /\ Goto(t, "lua")
                  /\ UNCHANGED <<mem, status, lua, sig, box, locks, lists>>

\* TPutMsg: the message is queued, then its owner is signalled
PutTo(t, u) == /\ op' = [op EXCEPT ![t].task = u]
               /\ box' = [box EXCEPT ![u] = Append(@, t)]
               /\ Goto(t, "signalling")

\* a mutant: the name is unlocked before the signal
FoundUnlocks(t) == /\ At(t, "finding") /\ Granted(t)
                   /\ LET u == atoms[op[t].name].task
                      IN /\ op' = [op EXCEPT ![t] = [Idle EXCEPT !.task = u]]
                         /\ box' = [box EXCEPT ![u] = Append(@, t)]
                   /\ UnlockAtom(op[t].name)
                   /\ Goto(t, "signalling")
                   /\ UNCHANGED <<mem, status, lua, sig, lists>>

Found(t) == /\ At(t, "finding") /\ Granted(t)
            /\ PutTo(t, atoms[op[t].name].task)
            /\ UNCHANGED <<mem, status, lua, sig, locks, lists>>

\* Exec.sendmsg("*p") and child:sendmsg: the task is at hand, nothing is
\* locked
SendTo(t, u) == /\ Calls(t)
                /\ IF t = Main THEN mem[u] = "live" ELSE u = Main
                /\ PutTo(t, u)
                /\ UNCHANGED <<mem, status, name, abort, outcome, sig, locks,
                               lists>>

PutSignal(t) == /\ At(t, "signalling")
                /\ Signal(op[t].task, {"USER"})
                /\ IF op[t].name = NoName THEN UNCHANGED locks
                                          ELSE UnlockAtom(op[t].name)
                /\ op' = [op EXCEPT ![t] = Idle]
                /\ Goto(t, "lua")
                /\ UNCHANGED <<mem, status, lua, box, lists>>

\* Exec.waitmsg by a child: ABORT is looked for, and left where it is
WaitMsg(c) == /\ Calls(c)
              /\ "ABORT" \notin sig[c]
              /\ Goto(c, "looking")
              /\ UNCHANGED <<mem, status, name, abort, outcome, mail, locks,
                             lists>>

\* the port is looked at under its lock; a message there is taken
Look(c) == /\ At(c, "looking")
           /\ IF box[c] # <<>>
              THEN /\ box' = [box EXCEPT ![c] = Tail(@)]
                   /\ Goto(c, "lua")
              ELSE UNCHANGED box /\ Goto(c, "empty")
           /\ UNCHANGED <<mem, status, lua, op, sig, locks, lists>>

\* a mutant: old signals are cleared before the task sleeps
SleepClears(c) == /\ At(c, "empty")
                  /\ sig' = [sig EXCEPT ![c] = @ \ {"USER"}]
                  /\ Goto(c, "asleep")
                  /\ UNCHANGED <<mem, status, lua, op, box, locks, lists>>

\* the port is unlocked, the task goes to sleep
Sleep(c) == /\ At(c, "empty")
            /\ Goto(c, "asleep")
            /\ UNCHANGED <<mem, status, lua, mail, locks, lists>>

\* TWaitTime(pdt, USER | ABORT) returns a message's signal
Wake(c) == /\ At(c, "asleep")
           /\ "USER" \in sig[c] /\ "ABORT" \notin sig[c]
           /\ sig' = [sig EXCEPT ![c] = @ \ {"USER"}]
           /\ Goto(c, "looking")
           /\ UNCHANGED <<mem, status, lua, op, box, locks, lists>>

\* the time is over: one last look, and the call returns
TimeOut(c) == /\ At(c, "asleep")
              /\ sig[c] = {}
              /\ box' = [box EXCEPT ![c] = IF @ = <<>> THEN @ ELSE Tail(@)]
              /\ Goto(c, "lua")
              /\ UNCHANGED <<mem, status, lua, op, sig, locks, lists>>

\* the application takes its messages between two waits for the window
GetMsg == /\ At(Main, "lua") /\ box[Main] # <<>>
          /\ box' = [box EXCEPT ![Main] = Tail(@)]
          /\ sig' = [sig EXCEPT ![Main] = @ \ {"USER"}]
          /\ UNCHANGED <<mem, status, lua, pc, op, locks, lists>>

----------------------------------------------------------------------------
(* The end of a child: tek_lib_exec_runchild, TMSG_RUNTASK.                *)

\* its program returns, or fails: then ABORT goes to the parent, whatever
\* ctx->abort says
Finish(c, result) ==
    /\ At(c, "lua")
    /\ outcome' = [outcome EXCEPT ![c] = result]
    /\ Signal(Main, IF result = "error" THEN {"ABORT"} ELSE {})
    /\ Goto(c, "closing")
    /\ UNCHANGED <<mem, status, name, abort, left, op, box, locks, lists>>

\* checkabort, in waitmsg and in the hook that runs every 128 instructions
Abort(c) == /\ pc[c] \in {"lua", "asleep"}
            /\ "ABORT" \in sig[c]
            /\ sig' = [sig EXCEPT
                 ![c] = IF At(c, "lua") THEN @ ELSE @ \ {"USER", "ABORT"},
                 ![Main] = @ \cup {"ABORT"}]
            /\ outcome' = [outcome EXCEPT ![c] = "error"]
            /\ Goto(c, "closing")
            /\ UNCHANGED <<mem, status, name, abort, left, op, box, locks,
                           lists>>

\* the name is given up: locked by its task alone, and destroyed
GiveUpName(c) == /\ At(c, "closing")
                 /\ LockAtom(c, name[c], "excl")
                 /\ Goto(c, "leaving")
                 /\ UNCHANGED <<mem, status, lua, mail, lists>>

DropName(c) == /\ At(c, "leaving") /\ Granted(c)
               /\ DestroyAtom(name[c])
               /\ Goto(c, "unnamed")
               /\ UNCHANGED <<mem, status, lua, mail, lists>>

Finished(c) == /\ At(c, "unnamed")
               /\ status' = [status EXCEPT ![c] = "finished"]
               /\ Goto(c, "finished")
               /\ UNCHANGED <<mem, lua, mail, locks, lists>>

TellExit(c) == /\ At(c, "finished")
               /\ flags' = flags \cup {"CHILDEXIT"}
               /\ Goto(c, "dead")
               /\ UNCHANGED <<mem, status, lua, mail, locks, inits, exits>>

\* exec_childexit: the joiner of a finished task is answered
ChildExit ==
    /\ "CHILDEXIT" \in flags
    /\ LET gone == {c \in exits : status[c] = "finished"}
       IN /\ exits' = exits \ gone
          /\ Answer(IF gone = {} THEN {} ELSE {Main}, "yes")
    /\ flags' = flags \ {"CHILDEXIT"}
    /\ UNCHANGED <<mem, status, lua, pc, mail, atoms, inits>>

----------------------------------------------------------------------------
(* The end of the application, and the join of a child.                    *)

\* "received abort signal": in the window's wait, to which the application
\* always returns
Raise == /\ At(Main, "lua") /\ "ABORT" \in sig[Main]
         /\ outcome' = [outcome EXCEPT ![Main] = "error"]
         /\ Goto(Main, "quitting")
         /\ UNCHANGED <<mem, status, name, abort, left, mail, locks, lists>>

Quit == /\ At(Main, "lua")
        /\ outcome' = [outcome EXCEPT ![Main] = "ok"]
        /\ Goto(Main, "quitting")
        /\ UNCHANGED <<mem, status, name, abort, left, mail, locks, lists>>

\* a mutant: the kernel does not look at the list when a request comes
SigJoinUnforced(c, s, p) ==
    /\ mem[c] = "live"
    /\ Signal(c, s)
    /\ op' = [op EXCEPT ![Main] = [Idle EXCEPT !.task = c]]
    /\ exits' = exits \cup {c}
    /\ Answer({Main}, "none")
    /\ Goto(Main, p)
    /\ UNCHANGED <<mem, status, name, abort, outcome, box, atoms, inits, flags>>

\* child:join() and child:abort(), and lua_close, which collects the handles
\* that are left.  TTREQ_DESTROYTASK: the kernel goes through its list of
\* exiting tasks at once
SigJoin(c, s, p) == /\ mem[c] = "live"
                    /\ Signal(c, s)
                    /\ op' = [op EXCEPT ![Main] = [Idle EXCEPT !.task = c]]
                    /\ exits' = exits \cup {c}
                    /\ flags' = flags \cup {"CHILDEXIT"}
                    /\ Answer({Main}, "none")
                    /\ Goto(Main, p)
                    /\ UNCHANGED <<mem, status, name, abort, outcome, box,
                                   atoms, inits>>

Join(c) == \E s \in {{}, {"ABORT"}} : Calls(Main) /\ SigJoin(c, s, "joining")

Collect(c) == /\ At(Main, "quitting")
              /\ SigJoin(c, {"ABORT"}, "collecting")
              /\ UNCHANGED left

\* an ABORT while it waits is forwarded to the child, and raised at the end
\* if the child was to propagate its errors
Forward == /\ pc[Main] \in {"joining", "collecting"}
           /\ ~Answered(Main)
           /\ "ABORT" \in sig[Main]
           /\ sig' = [sig EXCEPT ![Main] = @ \ {"ABORT"},
                                 ![op[Main].task] = @ \cup {"ABORT"}]
           /\ op' = [op EXCEPT ![Main].name = IF abort[op[Main].task]
                                              THEN Main ELSE @]
           /\ UNCHANGED <<mem, status, lua, pc, box, locks, lists>>

\* the answer: TWait has cleared an ABORT that came with it.  TFreeTask joins
\* the thread
Joined == /\ pc[Main] \in {"joining", "collecting"} /\ Answered(Main)
          /\ At(op[Main].task, "dead")
          /\ mem' = [mem EXCEPT ![op[Main].task] = "freed"]
          /\ sig' = [sig EXCEPT ![Main] = @ \ {"ABORT"}]
          /\ LET raises == At(Main, "joining") /\ op[Main].name = Main
             IN /\ Goto(Main, IF At(Main, "collecting") \/ raises
                              THEN "quitting" ELSE "lua")
                /\ outcome' = [outcome EXCEPT
                                 ![Main] = IF raises THEN "error" ELSE @]
          /\ op' = [op EXCEPT ![Main] = Idle]
          /\ UNCHANGED <<status, name, abort, left, box, locks, lists>>

End == /\ At(Main, "quitting")
       /\ \A c \in Children : mem[c] # "live"
       /\ Goto(Main, "ended")
       /\ UNCHANGED <<mem, status, lua, mail, locks, lists>>

----------------------------------------------------------------------------
\* what a task does by itself once it is under way
MessageStep(t) == NobodyThere(t) \/ Found(t) \/ PutSignal(t)

ChildStep(c) == \/ ClaimName(c) \/ NameClaimed(c) \/ Initialized(c)
                \/ TellInit(c) \/ MessageStep(c) \/ Look(c)
                \/ Sleep(c) \/ Wake(c)
                \/ Abort(c) \/ GiveUpName(c) \/ DropName(c)
                \/ Finished(c) \/ TellExit(c)

MainStep == \/ Ran \/ MessageStep(Main) \/ GetMsg \/ Raise
            \/ Forward \/ Joined \/ End
            \/ \E c \in Children : Collect(c)

Kernel == ChildInit \/ ChildExit

\* what the programs of the tasks choose to do
Choice == \/ \E t \in Tasks : \/ \E n \in Names : SendByName(t, n)
                              \/ \E u \in Tasks \ {t} : SendTo(t, u)
          \/ \E c \in Children : \/ WaitMsg(c) \/ TimeOut(c)
                                 \/ \E r \in {"ok", "error"} : Finish(c, r)
                                 \/ \E n \in Names, ab \in Aborts :
                                        Run(c, n, ab)
                                 \/ Join(c)
          \/ Quit

Next == \/ \E c \in Children : ChildStep(c)
        \/ MainStep \/ Kernel \/ Choice

Spec == Init /\ [][Next]_vars

\* every thread gets its turn, and so does the kernel; what a program calls
\* next, when it ends and when a wait times out are its own business
LiveSpec == /\ Spec
            /\ \A c \in Children : WF_vars(ChildStep(c))
            /\ WF_vars(MainStep) /\ WF_vars(Kernel)

----------------------------------------------------------------------------
Alive(t) == IF t = Main THEN pc[Main] # "ended" ELSE mem[t] = "live"

\* No task touches another one that is freed: the task a message is put to,
\* also between the put and the signal, when its owner may have read it and
\* ended; the parent a child signals at its end; a task on one of the kernel's
\* lists or waiting for an atom.
LiveTargets ==
    /\ \A t \in Tasks : At(t, "signalling") => Alive(op[t].task)
    /\ \A c \in Children : mem[c] = "live" => Alive(Main)
    /\ \A n \in Names : \A t \in TasksOf(atoms[n].waiters) : Alive(t)
    /\ \A c \in inits \cup exits : Alive(c)

Unnamed == {"none", "born", "claiming", "unnamed", "finished", "dead"}

\* A name means one task: from its start until it leaves, a child is what its
\* name finds, and what a name finds is not freed.
NamesKept ==
    /\ \A c \in Children : pc[c] \notin Unnamed /\ status[c] # "failed" =>
         atoms[name[c]].mode # "absent" /\ atoms[name[c]].task = c
    /\ \A n \in Names : atoms[n].task # NoOne => Alive(atoms[n].task)

Holds(t, n) == \/ /\ t \in Children /\ name[t] = n /\ Granted(t)
                  /\ pc[t] \in {"claiming", "leaving"}
               \/ /\ op[t].name = n
                  /\ \/ At(t, "signalling")
                     \/ At(t, "finding") /\ Granted(t)

\* An atom counts the tasks that hold it, also across the waiters that are
\* restarted together; exclusive means one.
HoldersCounted ==
    \A n \in Names :
        /\ atoms[n].nest = Cardinality({t \in Tasks : Holds(t, n)})
        /\ atoms[n].mode = "excl" => atoms[n].nest = 1

\* No wakeup is lost: a child that looked, found nothing and sleeps while a
\* message is in its box has the signal, or its sender is about to give it.
NoLostWakeup == \A c \in Children : At(c, "asleep") /\ box[c] # <<>> =>
    \/ "USER" \in sig[c]
    \/ \E t \in Tasks : At(t, "signalling") /\ op[t].task = c

\* When the application quits, every child is aborted, joined and freed, and
\* the application ends.
QuitEnds == At(Main, "quitting") ~> At(Main, "ended")

\* Exec.run (exec_lua.c:703): "abort" says whether errors in the child should
\* be propagated to the parent task.  An application that ends with an error
\* was given it by a child that was to propagate it.
AbortSuppressed == outcome[Main] = "error" =>
    \E c \in Children : abort[c] /\ outcome[c] = "error"
=============================================================================
