------------------------------ MODULE TaskProofs ------------------------------
(***************************************************************************)
(* Tasks, names and locks, for any number of tasks, names and calls: no    *)
(* wakeup is lost, an atom counts its holders, a name finds a task that is *)
(* there, and no task touches one that is freed.                           *)
(***************************************************************************)
EXTENDS ExecTask, ListProofs

USE ExecAssumption

\* The state that matters is made of functions over the tasks, op of records.
Functions == /\ pc = [t \in Tasks |-> pc[t]]
             /\ sig = [t \in Tasks |-> sig[t]]
             /\ box = [t \in Tasks |-> box[t]]
             /\ mem = [c \in Children |-> mem[c]]
             /\ op = [t \in Tasks |-> [name |-> op[t].name,
                                       task |-> op[t].task]]

\* A message put while its receiver looks elsewhere: the port was empty when
\* the receiver left it, so the message is newer than the look, and its signal
\* is pending or still to come, from the time the receiver leaves the port.
Noticed(c) == pc[c] \in {"empty", "asleep"} /\ box[c] # <<>> =>
    \/ "USER" \in sig[c]
    \/ \E t \in Tasks : pc[t] = "signalling" /\ op[t].task = c

Unborn(c) == mem[c] = "absent" => pc[c] = "none"

WakeInv == Functions /\ \A c \in Children : Noticed(c) /\ Unborn(c)

\* A task that moves, and is not signalling before, disturbs no one it puts no
\* message to, while signals are only added for the others.
LEMMA MovesKeep ==
    ASSUME WakeInv, NEW t \in Tasks, pc[t] # "signalling",
           pc' = [pc EXCEPT ![t] = pc'[t]],
           Functions',
           \A u \in Tasks \ {t} : op'[u] = op[u] /\ sig[u] \subseteq sig'[u]
                                  /\ box'[u] = box[u],
           pc'[t] \notin {"empty", "asleep"}, pc[t] # "none",
           \A c \in Children : mem'[c] = "absent" => mem[c] = "absent"
    PROVE  WakeInv'
<1>1. \A u \in Tasks \ {t} : pc'[u] = pc[u] BY DEF WakeInv, Functions
<1>2. ASSUME NEW c \in Children PROVE Noticed(c)'
  <2>1. CASE c = t BY <2>1 DEF Noticed
  <2>2. CASE c # t
    <3>1. c \in Tasks \ {t} BY <2>2 DEF Tasks
    <3>2. Noticed(c) BY DEF WakeInv
    <3>3. pc'[c] = pc[c] /\ box'[c] = box[c] /\ sig[c] \subseteq sig'[c]
          BY <1>1, <3>1
    <3>4. \A u \in Tasks : pc[u] = "signalling" /\ op[u].task = c =>
             pc'[u] = "signalling" /\ op'[u].task = c
          BY <1>1
    <3> QED BY <3>2, <3>3, <3>4 DEF Noticed
  <2> QED BY <2>1, <2>2
<1>3. \A c \in Children : Unborn(c)'
      BY <1>1 DEF WakeInv, Unborn, Tasks
<1> QED BY <1>2, <1>3 DEF WakeInv

\* A message is put: its sender will signal.
LEMMA PutKeeps ==
    ASSUME WakeInv, NEW t \in Tasks, pc[t] \notin {"signalling", "none"}, NEW u,
           PutTo(t, u), sig' = sig, mem' = mem
    PROVE  WakeInv'
<1>1. Functions'
  <2>1. (pc = [v \in Tasks |-> pc[v]])' BY DEF WakeInv, Functions, PutTo, Goto
  <2>2. (box = [v \in Tasks |-> box[v]])' BY DEF WakeInv, Functions, PutTo
  <2>3. (op = [v \in Tasks |-> [name |-> op[v].name, task |-> op[v].task]])'
        BY DEF WakeInv, Functions, PutTo
  <2>4. (sig = [v \in Tasks |-> sig[v]])' /\ (mem = [c \in Children |-> mem[c]])'
        BY DEF WakeInv, Functions
  <2> QED BY <2>1, <2>2, <2>3, <2>4 DEF Functions
<1>2. pc' = [pc EXCEPT ![t] = "signalling"] /\ op'[t].task = u
      /\ box' = [box EXCEPT ![u] = Append(@, t)]
      BY DEF WakeInv, Functions, PutTo, Goto
<1>3. pc'[t] = "signalling" /\ \A v \in Tasks \ {t} : pc'[v] = pc[v]
      BY <1>2 DEF WakeInv, Functions
<1>4. \A v \in Tasks \ {t} : op'[v] = op[v] BY DEF WakeInv, Functions, PutTo
<1>5. ASSUME NEW c \in Children PROVE Noticed(c)'
  <2>1. CASE c = u BY <1>2, <1>3, <2>1 DEF Noticed
  <2>2. CASE c # u
    <3>1. box'[c] = box[c] BY <1>2, <2>2 DEF WakeInv, Functions, Tasks
    <3>2. Noticed(c) BY DEF WakeInv
    <3>3. pc'[c] \in {"empty", "asleep"} => pc'[c] = pc[c]
          BY <1>3 DEF Tasks
    <3>4. \A v \in Tasks : pc[v] = "signalling" /\ op[v].task = c =>
             pc'[v] = "signalling" /\ op'[v].task = c
          BY <1>3, <1>4
    <3> QED BY <3>1, <3>2, <3>3, <3>4 DEF Noticed
  <2> QED BY <2>1, <2>2
<1>6. \A c \in Children : Unborn(c)'
      BY <1>3 DEF WakeInv, Unborn, Tasks
<1> QED BY <1>1, <1>5, <1>6 DEF WakeInv

LEMMA SignalKeeps ==
    ASSUME WakeInv, NEW t \in Tasks, PutSignal(t)
    PROVE  WakeInv'
<1> DEFINE u == op[t].task
<1>1. /\ pc[t] = "signalling" /\ pc' = [pc EXCEPT ![t] = "lua"]
      /\ sig' = [sig EXCEPT ![u] = @ \cup {"USER"}]
      /\ op' = [op EXCEPT ![t] = Idle] /\ box' = box /\ mem' = mem
      BY DEF PutSignal, At, Goto, Signal
<1>2. Functions' BY <1>1 DEF WakeInv, Functions, Idle
<1>3. \A v \in Tasks \ {t} : pc'[v] = pc[v] /\ op'[v] = op[v]
      BY <1>1 DEF WakeInv, Functions
<1>4. ASSUME NEW c \in Children PROVE Noticed(c)'
  <2>1. c \in Tasks BY DEF Tasks
  <2>2. CASE c = u
    <3>1. "USER" \in sig'[c] BY <1>1, <2>1, <2>2 DEF WakeInv, Functions
    <3> QED BY <3>1 DEF Noticed
  <2>3. CASE c # u
    <3>1. sig'[c] = sig[c] BY <1>1, <2>1, <2>3 DEF WakeInv, Functions
    <3>2. Noticed(c) BY DEF WakeInv
    <3>3. pc'[c] \in {"empty", "asleep"} => pc'[c] = pc[c]
      <4>1. pc'[t] = "lua" BY <1>1 DEF WakeInv, Functions
      <4> QED BY <1>3, <2>1, <4>1
    <3>4. \A v \in Tasks : pc[v] = "signalling" /\ op[v].task = c =>
             pc'[v] = "signalling" /\ op'[v].task = c
          BY <1>3, <2>3
    <3> QED BY <1>1, <3>1, <3>2, <3>3, <3>4 DEF Noticed
  <2> QED BY <2>2, <2>3
<1>5. \A c \in Children : Unborn(c)'
      BY <1>1, <1>3 DEF WakeInv, Unborn, Tasks
<1> QED BY <1>2, <1>4, <1>5 DEF WakeInv
\* A task that stays, or goes where nothing is looked for, with the ports and
\* the senders as they are and no signal taken from anyone else.
Quietly(t) ==
    /\ pc[t] \notin {"signalling", "none"}
    /\ pc'[t] \notin {"empty", "asleep"}
    /\ \A u \in Tasks \ {t} : /\ pc'[u] = pc[u] /\ op'[u] = op[u]
                              /\ box'[u] = box[u] /\ sig[u] \subseteq sig'[u]
    /\ \A c \in Children : mem'[c] = "absent" => mem[c] = "absent"
    /\ Functions'

LEMMA QuietKeeps ==
    ASSUME WakeInv, NEW t \in Tasks, Quietly(t)
    PROVE  WakeInv'
<1>1. pc' = [pc EXCEPT ![t] = pc'[t]]
      BY DEF Quietly, WakeInv, Functions
<1> QED BY <1>1, MovesKeep DEF Quietly

\* A child that found nothing, and goes to sleep.
LEMMA EmptyKeeps ==
    ASSUME WakeInv, NEW c \in Children, NEW p \in {"empty", "asleep"},
           \/ pc[c] = "looking" /\ box[c] = <<>>
           \/ pc[c] = "empty",
           pc' = [pc EXCEPT ![c] = p], UNCHANGED <<mem, op, sig, box>>
    PROVE  WakeInv'
<1>1. c \in Tasks BY DEF Tasks
<1>2. Functions' BY DEF WakeInv, Functions
<1>3. pc'[c] = p /\ \A v \in Tasks \ {c} : pc'[v] = pc[v]
      BY <1>1 DEF WakeInv, Functions
<1>4. \A v \in Tasks : pc[v] = "signalling" => pc'[v] = "signalling"
      BY <1>3
<1>5. ASSUME NEW d \in Children PROVE Noticed(d)' /\ Unborn(d)'
  <2>1. Noticed(d) /\ Unborn(d) /\ d \in Tasks BY DEF WakeInv, Tasks
  <2>2. CASE d = c BY <1>3, <1>4, <2>1, <2>2 DEF Noticed, Unborn
  <2>3. CASE d # c BY <1>3, <1>4, <2>1, <2>3 DEF Noticed, Unborn
  <2> QED BY <2>2, <2>3
<1> QED BY <1>2, <1>5 DEF WakeInv

\* A child that its parent ends: no signal is taken from anyone else.
LEMMA AbortKeeps ==
    ASSUME WakeInv, NEW c \in Children, Abort(c)
    PROVE  WakeInv'
<1>1. c \in Tasks /\ c # Main /\ Main \in Tasks BY ExecAssumption DEF Tasks
<1>2. /\ pc[c] \in {"lua", "asleep"} /\ pc' = [pc EXCEPT ![c] = "closing"]
      /\ mem' = mem /\ op' = op /\ box' = box
      /\ sig' = [sig EXCEPT
            ![c] = IF pc[c] = "lua" THEN @ ELSE @ \ {"USER", "ABORT"},
            ![Main] = @ \cup {"ABORT"}]
      BY DEF Abort, At, Goto, locks, lists
<1>3. Functions BY DEF WakeInv
<1>4. pc'[c] = "closing" /\ \A u \in Tasks \ {c} : pc'[u] = pc[u]
      BY <1>1, <1>2, <1>3 DEF Functions
<1>5. \A u \in Tasks \ {c} : sig[u] \subseteq sig'[u]
      BY <1>1, <1>2, <1>3 DEF Functions
<1>6. Functions' BY <1>2, <1>3 DEF Functions
<1>7. Quietly(c) BY <1>2, <1>4, <1>5, <1>6 DEF Quietly
<1> QED BY <1>1, <1>7, QuietKeeps

\* The parent passes its own abort on to the child it waits for.
LEMMA PassOnKeeps ==
    ASSUME WakeInv, Forward PROVE WakeInv'
<1> DEFINE c == op[Main].task
<1>1. Main \in Tasks BY DEF Tasks
<1>2. /\ pc[Main] \in {"joining", "collecting"}
      /\ pc' = pc /\ box' = box /\ mem' = mem
      /\ sig' = [sig EXCEPT ![Main] = @ \ {"ABORT"}, ![c] = @ \cup {"ABORT"}]
      /\ \E n : op' = [op EXCEPT ![Main].name = n]
      BY DEF Forward, Goto, At, mail, locks, lists, lua
<1>3. PICK n : op' = [op EXCEPT ![Main].name = n] BY <1>2
<1> HIDE DEF c
<1>4. Functions BY DEF WakeInv
<1>5. \A u \in Tasks \ {Main} : sig[u] \subseteq sig'[u]
      BY <1>1, <1>2, <1>4 DEF Functions
<1>6. \A u \in Tasks \ {Main} : op'[u] = op[u] BY <1>3
<1>7. sig' = [v \in Tasks |-> sig'[v]] BY <1>2, <1>4 DEF Functions
<1>8. op' = [v \in Tasks |-> [name |-> op'[v].name, task |-> op'[v].task]]
      BY <1>1, <1>3, <1>4 DEF Functions
<1>9. Functions' BY <1>2, <1>4, <1>7, <1>8 DEF Functions
<1>10. Quietly(Main) BY <1>2, <1>5, <1>6, <1>9 DEF Quietly
<1> QED BY <1>1, <1>10, QuietKeeps

\* A child by itself.
LEMMA ChildKeeps ==
    ASSUME WakeInv, NEW c \in Children, ChildStep(c)
    PROVE  WakeInv'
<1>0. c \in Tasks /\ c # Main /\ Main \in Tasks BY DEF Tasks
<1> USE DEF WakeInv, Functions, Quietly, At, Goto, Signal, mail, locks, lists, lua
<1>1. CASE ClaimName(c) BY <1>0, <1>1, QuietKeeps DEF ClaimName
<1>2. CASE NameClaimed(c) BY <1>0, <1>2, QuietKeeps DEF NameClaimed
<1>3. CASE Initialized(c) BY <1>0, <1>3, QuietKeeps DEF Initialized
<1>4. CASE TellInit(c) BY <1>0, <1>4, QuietKeeps DEF TellInit
<1>5. CASE NobodyThere(c) BY <1>0, <1>5, QuietKeeps DEF NobodyThere, Idle
<1>6. CASE Found(c) BY <1>0, <1>6, PutKeeps DEF Found
<1>7. CASE PutSignal(c) BY <1>0, <1>7, SignalKeeps
<1>8. CASE Look(c)
  <2>1. /\ pc[c] = "looking" /\ UNCHANGED <<mem, op, sig>>
        /\ box[c] # <<>> => pc' = [pc EXCEPT ![c] = "lua"]
                            /\ box' = [box EXCEPT ![c] = Tail(@)]
        /\ box[c] = <<>> => pc' = [pc EXCEPT ![c] = "empty"] /\ box' = box
        BY <1>8 DEF Look
  <2>2. CASE box[c] # <<>> BY <1>0, <2>1, <2>2, QuietKeeps
  <2>3. CASE box[c] = <<>> BY <1>0, <2>1, <2>3, EmptyKeeps
  <2> QED BY <2>2, <2>3
<1>9. CASE Sleep(c)
  <2>1. /\ pc[c] = "empty" /\ UNCHANGED <<mem, op, sig, box>>
        /\ pc' = [pc EXCEPT ![c] = "asleep"]
        BY <1>9 DEF Sleep
  <2> QED BY <2>1, EmptyKeeps
<1>10. CASE Wake(c) BY <1>0, <1>10, QuietKeeps DEF Wake
<1>11. CASE Abort(c) BY <1>11, AbortKeeps
<1>12. CASE GiveUpName(c) BY <1>0, <1>12, QuietKeeps DEF GiveUpName
<1>13. CASE DropName(c) BY <1>0, <1>13, QuietKeeps DEF DropName
<1>14. CASE Finished(c) BY <1>0, <1>14, QuietKeeps DEF Finished
<1>15. CASE TellExit(c) BY <1>0, <1>15, QuietKeeps DEF TellExit
<1> QED BY <1>1, <1>2, <1>3, <1>4, <1>5, <1>6, <1>7, <1>8, <1>9, <1>10, <1>11,
           <1>12, <1>13, <1>14, <1>15 DEF ChildStep, MessageStep

LEMMA JoinKeeps ==
    ASSUME WakeInv, NEW c \in Children, NEW s,
           NEW p \in {"joining", "collecting"},
           pc[Main] \in {"lua", "quitting"}, SigJoin(c, s, p)
    PROVE  WakeInv'
<1>0. Main \in Tasks BY DEF Tasks
<1>1. /\ pc' = [pc EXCEPT ![Main] = p] /\ UNCHANGED <<box, mem>>
      /\ sig' = [sig EXCEPT ![c] = @ \cup s]
      /\ op' = [op EXCEPT ![Main] = [Idle EXCEPT !.task = c]]
      BY DEF SigJoin, Goto, Signal
<1>2. [Idle EXCEPT !.task = c] = [name |-> NoName, task |-> c] BY DEF Idle
<1>3. Functions' BY <1>1, <1>2 DEF WakeInv, Functions
<1>4. \A u \in Tasks \ {Main} : /\ pc'[u] = pc[u] /\ op'[u] = op[u]
                                /\ sig[u] \subseteq sig'[u]
      BY <1>1 DEF WakeInv, Functions
<1>5. pc'[Main] = p BY <1>0, <1>1 DEF WakeInv, Functions
<1>6. Quietly(Main) BY <1>1, <1>3, <1>4, <1>5 DEF Quietly
<1> QED BY <1>0, <1>6, QuietKeeps

\* The application by itself, and the kernel.
LEMMA MainKeeps ==
    ASSUME WakeInv, MainStep \/ Kernel
    PROVE  WakeInv'
<1>0. Main \in Tasks /\ Main \notin Children BY DEF Tasks
<1> USE DEF WakeInv, Functions, Quietly, At, Goto, Signal, mail, locks, lists,
            lua
<1>1. CASE Ran BY <1>0, <1>1, QuietKeeps DEF Ran
<1>2. CASE NobodyThere(Main) BY <1>0, <1>2, QuietKeeps DEF NobodyThere, Idle
<1>3. CASE Found(Main) BY <1>0, <1>3, PutKeeps DEF Found
<1>4. CASE PutSignal(Main) BY <1>0, <1>4, SignalKeeps
<1>5. CASE GetMsg BY <1>0, <1>5, QuietKeeps DEF GetMsg
<1>6. CASE Raise BY <1>0, <1>6, QuietKeeps DEF Raise
<1>7. CASE Forward BY <1>7, PassOnKeeps
<1>8. CASE Joined
  <2>1. /\ pc[Main] \in {"joining", "collecting"}
        /\ box' = box
        /\ mem' = [mem EXCEPT ![op[Main].task] = "freed"]
        /\ sig' = [sig EXCEPT ![Main] = @ \ {"ABORT"}]
        /\ op' = [op EXCEPT ![Main] = Idle]
        /\ \E p \in {"quitting", "lua"} : pc' = [pc EXCEPT ![Main] = p]
        BY <1>8 DEF Joined
  <2>2. PICK p \in {"quitting", "lua"} : pc' = [pc EXCEPT ![Main] = p]
        BY <2>1
  <2>3. \A c \in Children : mem'[c] = "absent" => mem[c] = "absent" BY <2>1
  <2>4. Functions' BY <2>1, <2>2 DEF Idle
  <2> QED BY <1>0, <2>1, <2>2, <2>3, <2>4, QuietKeeps
<1>9. CASE End BY <1>0, <1>9, QuietKeeps DEF End
<1>10. ASSUME NEW c \in Children, Collect(c) PROVE WakeInv'
       BY <1>10, JoinKeeps DEF Collect
<1>11. CASE Kernel
  <2>1. UNCHANGED <<pc, op, sig, box>>
        BY <1>11 DEF Kernel, ChildInit, ChildExit
  <2>2. /\ mem' = [c \in Children |-> mem'[c]]
        /\ \A c \in Children : mem'[c] = "absent" => mem[c] = "absent"
        BY <1>11 DEF Kernel, ChildInit, ChildExit
  <2>3. Functions' BY <2>1, <2>2
  <2>4. ASSUME NEW c \in Children PROVE Noticed(c)' /\ Unborn(c)'
    <3>1. Noticed(c) /\ Unborn(c) OBVIOUS
    <3> QED BY <2>1, <2>2, <3>1 DEF Noticed, Unborn
  <2> QED BY <2>3, <2>4
<1> QED BY <1>1, <1>2, <1>3, <1>4, <1>5, <1>6, <1>7, <1>8, <1>9, <1>10, <1>11
        DEF MainStep, MessageStep

\* What the programs choose.
LEMMA ChoiceKeeps ==
    ASSUME WakeInv, Choice
    PROVE  WakeInv'
<1>0. Main \in Tasks /\ Main \notin Children /\ Children \subseteq Tasks
      BY DEF Tasks
<1> USE DEF WakeInv, Functions, Quietly, At, Goto, Signal, Calls, mail, locks,
            lists, lua
<1>1. ASSUME NEW t \in Tasks, NEW n \in Names, SendByName(t, n)
      PROVE  WakeInv'
  <2>1. /\ pc[t] = "lua" /\ pc' = [pc EXCEPT ![t] = "finding"]
        /\ op' = [op EXCEPT ![t].name = n] /\ UNCHANGED <<sig, box, mem>>
        BY <1>1 DEF SendByName
  <2>2. op' = [v \in Tasks |-> [name |-> op'[v].name, task |-> op'[v].task]]
        BY <2>1
  <2> QED BY <2>1, <2>2, QuietKeeps
<1>2. ASSUME NEW t \in Tasks, NEW u \in Tasks \ {t}, SendTo(t, u)
      PROVE  WakeInv'
      BY <1>0, <1>2, PutKeeps DEF SendTo
<1>3. ASSUME NEW c \in Children, WaitMsg(c) PROVE WakeInv'
      BY <1>0, <1>3, QuietKeeps DEF WaitMsg
<1>4. ASSUME NEW c \in Children, TimeOut(c) PROVE WakeInv'
      BY <1>0, <1>4, QuietKeeps DEF TimeOut
<1>5. ASSUME NEW c \in Children, NEW r \in {"ok", "error"}, Finish(c, r)
      PROVE  WakeInv'
      BY <1>0, <1>5, QuietKeeps DEF Finish
<1>6. ASSUME NEW c \in Children, Join(c) PROVE WakeInv'
      BY <1>6, JoinKeeps DEF Join
<1>7. CASE Quit BY <1>0, <1>7, QuietKeeps DEF Quit
<1>8. ASSUME NEW c \in Children, NEW n \in Names, NEW ab \in Aborts,
             Run(c, n, ab)
      PROVE  WakeInv'
  <2>1. /\ pc[Main] = "lua" /\ mem[c] = "absent"
        /\ UNCHANGED <<op, sig, box>>
        /\ pc' = [pc EXCEPT ![c] = "born", ![Main] = "creating"]
        /\ mem' = [mem EXCEPT ![c] = "live"]
        BY <1>8 DEF Run
  <2>2. pc[c] = "none" BY <2>1 DEF Unborn
  <2>3. /\ pc'[c] = "born" /\ pc'[Main] = "creating"
        /\ \A v \in Tasks \ {c, Main} : pc'[v] = pc[v]
        BY <1>0, <2>1
  <2>4. Functions' BY <2>1
  <2>5. \A v \in Tasks : pc[v] = "signalling" => pc'[v] = "signalling"
        BY <2>1, <2>2, <2>3
  <2>6. \A d \in Children : d # c => mem'[d] = mem[d] /\ d \in Tasks \ {c, Main}
        BY <1>0, <2>1
  <2>7. ASSUME NEW d \in Children PROVE Noticed(d)' /\ Unborn(d)'
    <3>1. Noticed(d) /\ Unborn(d) OBVIOUS
    <3>2. CASE d = c BY <2>1, <2>3, <3>2 DEF Noticed, Unborn
    <3>3. CASE d # c BY <2>1, <2>3, <2>5, <2>6, <3>1, <3>3 DEF Noticed, Unborn
    <3> QED BY <3>2, <3>3
  <2> QED BY <2>4, <2>7
<1> QED BY <1>1, <1>2, <1>3, <1>4, <1>5, <1>6, <1>7, <1>8 DEF Choice

LEMMA WakeInit == Init => WakeInv
BY DEF Init, WakeInv, Functions, Noticed, Unborn, Idle, Tasks

LEMMA WakeNext == WakeInv /\ [Next]_vars => WakeInv'
<1> SUFFICES ASSUME WakeInv, [Next]_vars PROVE WakeInv' OBVIOUS
<1>1. CASE UNCHANGED vars
  <2>1. UNCHANGED <<pc, sig, box, mem, op>> BY <1>1 DEF vars
  <2>2. Functions' BY <2>1 DEF WakeInv, Functions
  <2>3. ASSUME NEW c \in Children PROVE Noticed(c)' /\ Unborn(c)'
    <3>1. Noticed(c) /\ Unborn(c) BY DEF WakeInv
    <3> QED BY <2>1, <3>1 DEF Noticed, Unborn
  <2> QED BY <2>2, <2>3 DEF WakeInv
<1> QED BY <1>1, ChildKeeps, MainKeeps, ChoiceKeeps DEF Next

\* Exec.waitmsg and Exec.sendmsg: a child that looked, found nothing and went
\* to sleep has the signal of every message that was put to it since, or its
\* sender is on the way to the signal; for any number of tasks, whoever sends
\* and however the sends fall between the look and the sleep.
THEOREM NoWakeupIsLost == Spec => []NoLostWakeup
<1>1. WakeInv => NoLostWakeup
      BY DEF WakeInv, Noticed, NoLostWakeup, At
<1> QED BY <1>1, WakeInit, WakeNext, PTL DEF Spec


-----------------------------------------------------------------------------
(* Names and locks. *)

Waiter == [task : Tasks, mode : {"shared", "excl"}]
Atom == [mode : {"absent", "free", "shared", "excl"}, nest : Nat,
         owner : Tasks \cup {NoOne}, task : Children \cup {NoOne},
         waiters : Seq(Waiter)]

DistinctTasks(ws) == \A i, j \in 1..Len(ws) : ws[i].task = ws[j].task => i = j

\* An atom with the tasks H that hold it, X of them alone, L of these to leave;
\* WS and WE wait for it.
LockOK(a, X, L, H, WS, WE) ==
    /\ a \in Atom
    /\ a.mode \in {"absent", "free"} => a.nest = 0
    /\ IsFiniteSet(H) /\ a.nest = Cardinality(H)
    /\ a.mode = "excl" => a.nest = 1 /\ a.owner \in L \cup {NoOne}
    /\ X # {} => a.mode = "excl"
    /\ DistinctTasks(a.waiters)
    /\ \A i \in 1..Len(a.waiters) :
          a.waiters[i].task \in IF a.waiters[i].mode = "shared" THEN WS ELSE WE

-----------------------------------------------------------------------------
(* Waiters. *)

LEMMA TasksCounted ==
    ASSUME NEW ws \in Seq(Waiter), DistinctTasks(ws)
    PROVE  IsFiniteSet(TasksOf(ws)) /\ Cardinality(TasksOf(ws)) = Len(ws)
<1> DEFINE f == [i \in 1..Len(ws) |-> ws[i].task]
           T == TasksOf(ws)
<1>1. f \in [1..Len(ws) -> T] BY DEF TasksOf
<1>2. \A i, j \in 1..Len(ws) : f[i] = f[j] => i = j BY DEF DistinctTasks
<1>3. \A t \in T : \E i \in 1..Len(ws) : f[i] = t BY DEF TasksOf
<1>4. Len(ws) \in Nat OBVIOUS
<1>5. IsFiniteSet(1..Len(ws)) /\ Cardinality(1..Len(ws)) = Len(ws)
      BY <1>4, FS_Interval
<1> HIDE DEF f, T
<1>6. f \in Bijection(1..Len(ws), T) BY <1>1, <1>2, <1>3, Fun_IsBij
<1>7. ExistsBijection(1..Len(ws), T) BY <1>6, Fun_ExistsBij
<1> QED BY <1>5, <1>7, FS_Bijection DEF T

\* The waiters of one mode, in their order.
LEMMA InModeList ==
    ASSUME NEW ws \in Seq(Waiter), NEW m, DistinctTasks(ws)
    PROVE  /\ InMode(ws, m) \in Seq(Waiter) /\ DistinctTasks(InMode(ws, m))
           /\ \A k \in 1..Len(InMode(ws, m)) :
                 \E i \in 1..Len(ws) : ws[i].mode = m /\ InMode(ws, m)[k] = ws[i]
           /\ \A i \in 1..Len(ws) : ws[i].mode = m =>
                 \E k \in 1..Len(InMode(ws, m)) : InMode(ws, m)[k] = ws[i]
<1> DEFINE I == {i \in 1..Len(ws) : ws[i].mode = m}
           P == Picked(ws, I)
<1>1. I \in SUBSET (1..Len(ws)) /\ \A i \in I : ws[i].mode = m OBVIOUS
<1>2. \A i \in 1..Len(ws) : ws[i].mode = m => i \in I OBVIOUS
<1>3. InMode(ws, m) = P BY DEF InMode
<1> HIDE DEF I
<1>4. /\ P \in Seq(Waiter) /\ Len(P) = Cardinality(I)
      /\ \A k \in 1..Cardinality(I) : \E i \in I : Rank(I, i) = k /\ P[k] = ws[i]
      /\ \A i \in I : Rank(I, i) \in 1..Cardinality(I) /\ P[Rank(I, i)] = ws[i]
  <2>1. I \in SUBSET (1..Len(ws)) BY <1>1
  <2> QED BY <2>1, PickedList, Zenon
<1> HIDE DEF P
<1>5. DistinctTasks(P)
  <2>1. ASSUME NEW k \in 1..Len(P), NEW l \in 1..Len(P), P[k].task = P[l].task
        PROVE  k = l
    <3>1. PICK i \in I : Rank(I, i) = k /\ P[k] = ws[i] BY <1>4
    <3>2. PICK j \in I : Rank(I, j) = l /\ P[l] = ws[j] BY <1>4
    <3>3. i = j BY <1>1, <2>1, <3>1, <3>2 DEF DistinctTasks
    <3> QED BY <3>1, <3>2, <3>3
  <2> QED BY <2>1 DEF DistinctTasks
<1>6. \A k \in 1..Len(P) : \E i \in 1..Len(ws) : ws[i].mode = m /\ P[k] = ws[i]
      BY <1>1, <1>4
<1>7. \A i \in 1..Len(ws) : ws[i].mode = m => \E k \in 1..Len(P) : P[k] = ws[i]
      BY <1>2, <1>4
<1> QED BY <1>3, <1>4, <1>5, <1>6, <1>7

\* The waiters an unlock restarts: one to hold the atom alone, or all that
\* share it; what is left of the list.
LEMMA RestartedList ==
    ASSUME NEW ws \in Seq(Waiter), DistinctTasks(ws)
    PROVE  LET go == Restarted(ws)
               st == StillWaiting(ws)
           IN  /\ go \in Seq(Waiter) /\ DistinctTasks(go)
               /\ st \in Seq(Waiter) /\ DistinctTasks(st)
               /\ \A k \in 1..Len(go) : \E i \in 1..Len(ws) : go[k] = ws[i]
               /\ \A k \in 1..Len(st) :
                     /\ \E i \in 1..Len(ws) : st[k] = ws[i]
                     /\ st[k].task \notin TasksOf(go)
               /\ \/ go = <<>>
                  \/ go # <<>> /\ \A k \in 1..Len(go) : go[k].mode = "shared"
                  \/ Len(go) = 1 /\ go[1].mode = "excl"
<1> DEFINE go == Restarted(ws)
           st == StillWaiting(ws)
<1>0. Len(ws) \in Nat /\ \A i \in 1..Len(ws) : ws[i] \in Waiter OBVIOUS
<1>1. CASE ws = <<>>
  <2>1. go = <<>> /\ st = <<>> BY <1>1 DEF Restarted, StillWaiting
  <2>2. <<>> \in Seq(Waiter) /\ Len(<<>>) = 0 OBVIOUS
  <2>3. DistinctTasks(<<>>) BY <2>2 DEF DistinctTasks
  <2> HIDE DEF go, st
  <2> QED BY <2>1, <2>2, <2>3 DEF go, st
<1>2. CASE ws # <<>> /\ ws[1].mode = "excl"
  <2>1. go = <<ws[1]>> /\ st = Tail(ws) BY <1>2 DEF Restarted, StillWaiting
  <2>2. 1 \in 1..Len(ws) /\ ws[1] \in Waiter BY <1>0, <1>2
  <2>3. go \in Seq(Waiter) /\ Len(go) = 1 /\ go[1] = ws[1] BY <2>1, <2>2
  <2>4. /\ st \in Seq(Waiter) /\ Len(st) = Len(ws) - 1
        /\ \A k \in 1..Len(st) : st[k] = ws[k + 1]
        BY <1>2, <2>1, HeadTailProperties
  <2> HIDE DEF go, st
  <2>5. DistinctTasks(go) BY <2>3 DEF DistinctTasks
  <2>6. \A k \in 1..Len(st) : k + 1 \in 1..Len(ws) /\ k + 1 # 1 BY <1>0, <2>4
  <2>7. DistinctTasks(st)
    <3>1. ASSUME NEW k \in 1..Len(st), NEW l \in 1..Len(st),
                 st[k].task = st[l].task
          PROVE  k = l
      <4>1. k + 1 = l + 1 BY <2>4, <2>6, <3>1 DEF DistinctTasks
      <4>2. k \in Nat /\ l \in Nat OBVIOUS
      <4> QED BY <4>1, <4>2
    <3> QED BY <3>1 DEF DistinctTasks
  <2>8. TasksOf(go) = {ws[1].task} BY <2>3 DEF TasksOf
  <2>9. \A k \in 1..Len(st) : st[k].task # ws[1].task
        BY <2>2, <2>4, <2>6 DEF DistinctTasks
  <2>10. \A k \in 1..Len(go) : go[k] = ws[1] BY <2>3
  <2> QED BY <1>2, <2>2, <2>3, <2>4, <2>5, <2>6, <2>7, <2>8, <2>9, <2>10 DEF go, st
<1>3. CASE ws # <<>> /\ ws[1].mode # "excl"
  <2>1. go = InMode(ws, "shared") /\ st = InMode(ws, "excl")
        BY <1>3 DEF Restarted, StillWaiting
  <2> HIDE DEF go, st
  <2>2. /\ go \in Seq(Waiter) /\ DistinctTasks(go)
        /\ \A k \in 1..Len(go) :
              \E i \in 1..Len(ws) : ws[i].mode = "shared" /\ go[k] = ws[i]
    <3>1. /\ InMode(ws, "shared") \in Seq(Waiter) /\ DistinctTasks(InMode(ws, "shared"))
          /\ \A k \in 1..Len(InMode(ws, "shared")) :
                \E i \in 1..Len(ws) :
                   ws[i].mode = "shared" /\ InMode(ws, "shared")[k] = ws[i]
          BY InModeList
    <3> QED BY <2>1, <3>1, Zenon
  <2>3. /\ st \in Seq(Waiter) /\ DistinctTasks(st)
        /\ \A k \in 1..Len(st) :
              \E i \in 1..Len(ws) : ws[i].mode = "excl" /\ st[k] = ws[i]
    <3>1. /\ InMode(ws, "excl") \in Seq(Waiter) /\ DistinctTasks(InMode(ws, "excl"))
          /\ \A k \in 1..Len(InMode(ws, "excl")) :
                \E i \in 1..Len(ws) :
                   ws[i].mode = "excl" /\ InMode(ws, "excl")[k] = ws[i]
          BY InModeList
    <3> QED BY <2>1, <3>1, Zenon
  <2>4. ASSUME NEW k \in 1..Len(st) PROVE st[k].task \notin TasksOf(go)
    <3>1. PICK i \in 1..Len(ws) : ws[i].mode = "excl" /\ st[k] = ws[i] BY <2>3
    <3>2. ASSUME NEW l \in 1..Len(go), go[l].task = st[k].task PROVE FALSE
      <4>1. PICK j \in 1..Len(ws) : ws[j].mode = "shared" /\ go[l] = ws[j]
            BY <2>2
      <4>2. i = j BY <3>1, <3>2, <4>1 DEF DistinctTasks
      <4> QED BY <3>1, <4>1, <4>2
    <3> QED BY <3>2 DEF TasksOf
  <2>5. \A k \in 1..Len(go) : go[k].mode = "shared" BY <2>2
  <2> QED BY <2>2, <2>3, <2>4, <2>5 DEF go, st
<1> QED BY <1>1, <1>2, <1>3
-----------------------------------------------------------------------------
(* What the kernel does to an atom. *)

LEMMA AddHolder ==
    ASSUME NEW H, IsFiniteSet(H), NEW t, t \notin H
    PROVE  /\ IsFiniteSet(H \cup {t}) /\ Cardinality(H) \in Nat
           /\ Cardinality(H \cup {t}) = Cardinality(H) + 1
BY FS_AddElement, FS_CardinalityType

LEMMA OneHolder ==
    ASSUME NEW H, IsFiniteSet(H), Cardinality(H) = 1, NEW h \in H
    PROVE  H = {h}
<1>1. \E x : H = {x} BY FS_Singleton
<1> QED BY <1>1

LEMMA NoHolder ==
    ASSUME NEW H, IsFiniteSet(H), Cardinality(H) = 0
    PROVE  H = {}
BY FS_EmptySet

\* TATOMF_CREATE: who creates the atom holds it alone.
LEMMA CreateOK ==
    ASSUME NEW a, NEW X, NEW L, NEW H, NEW WS, NEW WE, LockOK(a, X, L, H, WS, WE),
           a.mode = "absent", NEW t,
           NEW b, b = [NoAtom EXCEPT !.mode = "excl", !.nest = 1]
    PROVE  H = {} /\ LockOK(b, X \cup {t}, L, H \cup {t}, WS, WE)
<1>1. H = {} BY NoHolder DEF LockOK
<1>2. IsFiniteSet({t}) /\ Cardinality({t}) = 1 /\ H \cup {t} = {t}
      BY <1>1, FS_Singleton
<1>3. /\ b.mode = "excl" /\ b.nest = 1 /\ b.owner = NoOne /\ b.waiters = <<>>
      /\ b.task = NoOne
      /\ b = [mode |-> "excl", nest |-> 1, owner |-> NoOne, task |-> NoOne,
              waiters |-> <<>>]
      BY DEF NoAtom
<1>4. b \in Atom
  <2>1. <<>> \in Seq(Waiter) OBVIOUS
  <2>2. NoAtom \in Atom BY <2>1 DEF NoAtom, Atom
  <2> QED BY <2>2 DEF Atom
<1>5. DistinctTasks(b.waiters) /\ Len(b.waiters) = 0
  <2>1. Len(<<>>) = 0 OBVIOUS
  <2> QED BY <1>3, <2>1 DEF DistinctTasks
<1>6. \A i \in 1..Len(b.waiters) : FALSE BY <1>5
<1> QED BY <1>1, <1>2, <1>3, <1>4, <1>5, <1>6 DEF LockOK

\* A lock that is given at once: to one alone, or to one more that shares it.
LEMMA GrantShared ==
    ASSUME NEW a, NEW X, NEW L, NEW H, NEW WS, NEW WE, LockOK(a, X, L, H, WS, WE),
           NEW t, a.mode = "free", X \subseteq H,
           NEW b \in Atom, b.mode = "shared", b.nest = 1, b.waiters = a.waiters
    PROVE  LockOK(b, X, L, H \cup {t}, WS, WE)
<1>1. H = {} /\ X = {} BY NoHolder DEF LockOK
<1>2. IsFiniteSet({t}) /\ Cardinality({t}) = 1 /\ H \cup {t} = {t}
      BY <1>1, FS_Singleton
<1> QED BY <1>1, <1>2 DEF LockOK

LEMMA GrantAlone ==
    ASSUME NEW a, NEW X, NEW L, NEW H, NEW WS, NEW WE, LockOK(a, X, L, H, WS, WE),
           NEW t, a.mode = "free", X \subseteq H,
           NEW b \in Atom, b.mode = "excl", b.nest = 1, b.owner = t,
           b.waiters = a.waiters
    PROVE  LockOK(b, X \cup {t}, L \cup {t}, H \cup {t}, WS, WE)
<1>1. H = {} /\ X = {} BY NoHolder DEF LockOK
<1>2. IsFiniteSet({t}) /\ Cardinality({t}) = 1 /\ H \cup {t} = {t}
      BY <1>1, FS_Singleton
<1>3. /\ DistinctTasks(a.waiters)
      /\ \A i \in 1..Len(a.waiters) :
            a.waiters[i].task \in IF a.waiters[i].mode = "shared" THEN WS ELSE WE
      BY DEF LockOK
<1>4. t \in (L \cup {t}) \cup {NoOne} OBVIOUS
<1>5. IsFiniteSet(H \cup {t}) /\ b.nest = Cardinality(H \cup {t})
      BY <1>2
<1>6. b.mode \notin {"absent", "free"} OBVIOUS
<1>7. /\ DistinctTasks(b.waiters)
      /\ \A i \in 1..Len(b.waiters) :
            b.waiters[i].task \in IF b.waiters[i].mode = "shared" THEN WS ELSE WE
      BY <1>3
<1>8. b.owner \in (L \cup {t}) \cup {NoOne} BY <1>4, Zenon
<1> QED BY <1>5, <1>6, <1>7, <1>8, Zenon DEF LockOK

LEMMA ShareOK ==
    ASSUME NEW a, NEW X, NEW L, NEW H, NEW WS, NEW WE, LockOK(a, X, L, H, WS, WE),
           NEW t \in Tasks, t \notin H, a.mode = "shared", X \subseteq H,
           NEW b, b = [a EXCEPT !.nest = @ + 1]
    PROVE  LockOK(b, X, L, H \cup {t}, WS, WE)
<1>1. a \in Atom /\ IsFiniteSet(H) /\ a.nest = Cardinality(H) BY DEF LockOK
<1>2. IsFiniteSet(H \cup {t}) /\ Cardinality(H \cup {t}) = a.nest + 1
      BY <1>1, AddHolder
<1>3. /\ b \in Atom /\ b.mode = a.mode /\ b.nest = a.nest + 1
      /\ b.waiters = a.waiters /\ b.owner = a.owner
      BY <1>1 DEF Atom
<1> QED BY <1>1, <1>2, <1>3 DEF LockOK

\* A lock that has to wait: at the end of the list.
LEMMA WaitOK ==
    ASSUME NEW a, NEW X, NEW L, NEW H, NEW WS, NEW WE, LockOK(a, X, L, H, WS, WE),
           NEW t \in Tasks, t \notin WS \cup WE, NEW mode \in {"shared", "excl"},
           NEW b \in Atom, b.mode = a.mode, b.nest = a.nest, b.owner = a.owner,
           b.waiters = Append(a.waiters, [task |-> t, mode |-> mode])
    PROVE  /\ mode = "shared" => LockOK(b, X, L, H, WS \cup {t}, WE)
           /\ mode = "excl" => LockOK(b, X, L, H, WS, WE \cup {t})
<1> DEFINE w == [task |-> t, mode |-> mode]
           ws == a.waiters
           vs == Append(ws, w)
           WS2 == IF mode = "shared" THEN WS \cup {t} ELSE WS
           WE2 == IF mode = "excl" THEN WE \cup {t} ELSE WE
<1>0. /\ WS \subseteq WS2 /\ WE \subseteq WE2
      /\ t \in IF mode = "shared" THEN WS2 ELSE WE2 OBVIOUS
<1> HIDE DEF WS2, WE2
<1>1. a \in Atom /\ w \in Waiter /\ w.task = t /\ w.mode = mode
      BY DEF LockOK, Waiter
<1>2. ws \in Seq(Waiter) /\ Len(ws) \in Nat BY <1>1 DEF Atom
<1>3. b.waiters = vs OBVIOUS
<1>a. DistinctTasks(ws)
      /\ \A i \in 1..Len(ws) :
            ws[i].task \in IF ws[i].mode = "shared" THEN WS ELSE WE
      BY DEF LockOK
<1> HIDE DEF ws, w
<1>4. /\ vs \in Seq(Waiter) /\ Len(vs) = Len(ws) + 1 /\ vs[Len(ws) + 1] = w
      /\ \A i \in 1..Len(ws) : vs[i] = ws[i]
      BY <1>1, <1>2
<1> HIDE DEF vs
<1>5. /\ b \in Atom /\ b.mode = a.mode /\ b.nest = a.nest
      /\ b.waiters = vs /\ b.owner = a.owner
      BY <1>3
<1>6. \A i \in 1..Len(vs) : i \in 1..Len(ws) \/ i = Len(ws) + 1
      BY <1>2, <1>4
<1>7. DistinctTasks(vs)
  <2>1. \A i \in 1..Len(ws) : vs[i].task # t BY <1>4, <1>a
  <2> QED BY <1>1, <1>4, <1>6, <1>a, <2>1 DEF DistinctTasks
<1>8. \A i \in 1..Len(vs) :
         vs[i].task \in IF vs[i].mode = "shared" THEN WS2 ELSE WE2
      BY <1>0, <1>1, <1>4, <1>6, <1>a
<1>9. LockOK(b, X, L, H, WS2, WE2) BY <1>5, <1>7, <1>8 DEF LockOK
<1>10. /\ mode = "shared" => WS2 = WS \cup {t} /\ WE2 = WE
       /\ mode = "excl" => WS2 = WS /\ WE2 = WE \cup {t}
       BY DEF WS2, WE2
<1> QED BY <1>9, <1>10

\* An unlock that leaves other holders.
LEMMA CountDownOK ==
    ASSUME NEW a, NEW X, NEW L, NEW H, NEW WS, NEW WE, LockOK(a, X, L, H, WS, WE),
           NEW t \in H, a.nest > 1, NEW b, b = [a EXCEPT !.nest = @ - 1]
    PROVE  LockOK(b, X, L, H \ {t}, WS, WE)
<1>1. a \in Atom /\ IsFiniteSet(H) /\ a.nest = Cardinality(H) BY DEF LockOK
<1>2. IsFiniteSet(H \ {t}) /\ Cardinality(H \ {t}) = a.nest - 1
      BY <1>1, FS_RemoveElement
<1>3. a.nest - 1 \in Nat /\ a.nest - 1 # 0 BY <1>1 DEF Atom
<1>4. /\ b \in Atom /\ b.mode = a.mode /\ b.nest = a.nest - 1
      /\ b.waiters = a.waiters /\ b.owner = a.owner
      BY <1>1, <1>3 DEF Atom
<1>5. a.mode # "excl" /\ a.mode \notin {"absent", "free"}
  <2>1. a.nest \in Nat BY <1>1 DEF Atom
  <2>2. a.mode = "excl" => a.nest = 1 BY DEF LockOK
  <2>3. a.mode \in {"absent", "free"} => a.nest = 0 BY DEF LockOK
  <2>4. a.nest # 1 /\ a.nest # 0 BY <2>1
  <2> QED BY <2>2, <2>3, <2>4, Zenon
<1> QED BY <1>1, <1>2, <1>4, <1>5 DEF LockOK

\* The last unlock: the atom is held by the waiters that are restarted, by one
\* of them alone or by some that share it.
Queued(a, WS, WE) ==
    /\ DistinctTasks(a.waiters)
    /\ \A i \in 1..Len(a.waiters) :
          a.waiters[i].task \in IF a.waiters[i].mode = "shared" THEN WS ELSE WE

Passed(a, b, G, WS, WE) ==
    /\ b.task = a.task /\ b.mode # "absent" /\ G \subseteq WS \cup WE
    /\ \/ /\ G \subseteq WS
          /\ LockOK(b, {}, {}, G, WS \ G, WE \ G)
       \/ /\ G \subseteq WE
          /\ LockOK(b, G, G, G, WS \ G, WE \ G)

LEMMA ReleaseOK ==
    ASSUME NEW a, a \in Atom, NEW WS, NEW WE, Queued(a, WS, WE)
    PROVE  Passed(a, Released(a), TasksOf(Restarted(a.waiters)), WS, WE)
<1> DEFINE ws == a.waiters
           go == Restarted(ws)
           st == StillWaiting(ws)
           G == TasksOf(go)
           mode == IF go = <<>> THEN "free" ELSE go[1].mode
           owner == IF go # <<>> /\ go[1].mode = "excl" THEN go[1].task ELSE NoOne
           b == [a EXCEPT !.nest = Len(go), !.mode = mode, !.owner = owner,
                          !.waiters = st]
<1>0. Released(a) = b BY DEF Released
<1>1. ws \in Seq(Waiter) BY DEF Atom
<1>w. DistinctTasks(ws)
      /\ \A i \in 1..Len(ws) :
            ws[i].task \in IF ws[i].mode = "shared" THEN WS ELSE WE
      BY DEF Queued
<1> HIDE DEF ws
<1>2. /\ go \in Seq(Waiter) /\ DistinctTasks(go)
      /\ st \in Seq(Waiter) /\ DistinctTasks(st)
      /\ \A k \in 1..Len(go) : \E i \in 1..Len(ws) : go[k] = ws[i]
      /\ \A k \in 1..Len(st) : /\ \E i \in 1..Len(ws) : st[k] = ws[i]
                               /\ st[k].task \notin TasksOf(go)
      /\ \/ go = <<>>
         \/ go # <<>> /\ \A k \in 1..Len(go) : go[k].mode = "shared"
         \/ Len(go) = 1 /\ go[1].mode = "excl"
      BY <1>1, <1>w, RestartedList
<1> HIDE DEF go, st
<1>3. IsFiniteSet(G) /\ Cardinality(G) = Len(go) /\ Len(go) \in Nat
      BY <1>2, TasksCounted
<1>4. go # <<>> => 1 \in 1..Len(go) /\ go[1] \in Waiter BY <1>2
<1>5. mode \in {"free", "shared", "excl"} BY <1>4 DEF Waiter
<1>6. owner \in Tasks \cup {NoOne} BY <1>4 DEF Waiter
<1> HIDE DEF mode, owner
<1>7. /\ b \in Atom /\ b.mode = mode /\ b.nest = Len(go) /\ b.owner = owner
      /\ b.waiters = st /\ b.task = a.task
      BY <1>2, <1>3, <1>5, <1>6 DEF Atom
<1> HIDE DEF b
<1>8. \A k \in 1..Len(go) : go[k].task \in IF go[k].mode = "shared" THEN WS ELSE WE
      BY <1>2, <1>w
<1>9. \A k \in 1..Len(st) :
         st[k].task \in IF st[k].mode = "shared" THEN WS \ G ELSE WE \ G
      BY <1>2, <1>w
<1>10. \A t \in G : \E k \in 1..Len(go) : t = go[k].task BY DEF TasksOf
<1>11. CASE go = <<>>
  <2>1. Len(go) = 0 /\ mode = "free" /\ G = {}
    <3>1. Len(go) = 0 BY <1>11
    <3> QED BY <1>10, <1>11, <3>1 DEF mode
  <2>2. LockOK(b, {}, {}, G, WS \ G, WE \ G)
        BY <1>2, <1>3, <1>7, <1>9, <2>1 DEF LockOK
  <2> QED BY <1>0, <1>7, <2>1, <2>2 DEF b, G, go, ws, Passed
<1>12. CASE go # <<>> /\ \A k \in 1..Len(go) : go[k].mode = "shared"
  <2>1. mode = "shared" BY <1>4, <1>12 DEF mode
  <2>2. G \subseteq WS BY <1>8, <1>10, <1>12
  <2>3. LockOK(b, {}, {}, G, WS \ G, WE \ G)
        BY <1>2, <1>3, <1>7, <1>9, <2>1 DEF LockOK
  <2> QED BY <1>0, <1>7, <2>1, <2>2, <2>3 DEF b, G, go, ws, Passed
<1>13. CASE Len(go) = 1 /\ go[1].mode = "excl"
  <2>0. go # <<>> BY <1>13
  <2>1. mode = "excl" /\ owner = go[1].task BY <2>0, <1>13 DEF mode, owner
  <2>2. \A k \in 1..Len(go) : k = 1 BY <1>13
  <2>3. G \subseteq WE BY <1>8, <1>10, <1>13, <2>2
  <2>4. owner \in G
    <3>1. 1 \in 1..Len(go) BY <1>13
    <3> QED BY <2>1, <3>1 DEF TasksOf
  <2>5. LockOK(b, G, G, G, WS \ G, WE \ G)
        BY <1>2, <1>3, <1>7, <1>9, <1>13, <2>1, <2>4 DEF LockOK
  <2> QED BY <1>0, <1>7, <2>1, <2>3, <2>5 DEF b, G, go, ws, Passed
<1> QED BY <1>2, <1>11, <1>12, <1>13

\* TATOMF_DESTROY: nothing is left.
LEMMA DestroyOK ==
    ASSUME NEW WS, NEW WE
    PROVE  LockOK(NoAtom, {}, {}, {}, WS, WE)
<1>1. /\ NoAtom.mode = "absent" /\ NoAtom.nest = 0 /\ NoAtom.waiters = <<>>
      /\ NoAtom.owner = NoOne /\ NoAtom.task = NoOne BY DEF NoAtom
<1>2. <<>> \in Seq(Waiter) /\ Len(<<>>) = 0 OBVIOUS
<1>3. NoAtom \in Atom BY <1>2 DEF NoAtom, Atom
<1>4. DistinctTasks(<<>>) BY <1>2 DEF DistinctTasks
<1>5. IsFiniteSet({}) /\ Cardinality({}) = 0 BY FS_EmptySet
<1>6. \A i \in 1..Len(NoAtom.waiters) : FALSE BY <1>1, <1>2
<1> QED BY <1>1, <1>3, <1>4, <1>5, <1>6 DEF LockOK
-----------------------------------------------------------------------------
(* The invariant. *)

\* The tasks that hold an atom: to claim its name, to give it up, to send a
\* message to the task it names; those that wait for it, to share it or to have
\* it alone; and the task that bears its name.
Claimers(n) ==
    {c \in Children : name[c] = n /\ pc[c] = "claiming" /\ reply[c] = "yes"}
Leavers(n) ==
    {c \in Children : name[c] = n /\ pc[c] = "leaving" /\ reply[c] = "yes"}
Senders(n) ==
    {t \in Tasks : op[t].name = n /\ \/ pc[t] = "signalling"
                                     \/ pc[t] = "finding" /\ reply[t] = "yes"}
Sharing(n) ==
    {t \in Tasks : op[t].name = n /\ pc[t] = "finding" /\ reply[t] = "none"}
Outwaiting(n) ==
    {c \in Children : name[c] = n /\ pc[c] = "leaving" /\ reply[c] = "none"}
Bearers(n) ==
    {c \in Children : name[c] = n /\ pc[c] \notin Unnamed /\ status[c] # "failed"}

Only(n) == Claimers(n) \cup Leavers(n)
Holders(n) == Only(n) \cup Senders(n)

Counted(n) == LockOK(atoms[n], Only(n), Leavers(n), Holders(n), Sharing(n),
                     Outwaiting(n))

\* An atom's task is the one that bears the name; it has none while the name is
\* being claimed.
Named(n) ==
    /\ \A c \in Children : atoms[n].task = c <=> c \in Bearers(n)
    /\ Claimers(n) # {} => atoms[n].task = NoOne
    /\ atoms[n].task = NoOne /\ atoms[n].mode # "absent" => Claimers(n) # {}
    /\ atoms[n].mode = "absent" => atoms[n].task = NoOne

Shapes ==
    /\ pc = [t \in Tasks |-> pc[t]]
    /\ op \in [Tasks -> [name : Names \cup {NoName, Main},
                         task : Tasks \cup {NoOne}]]
    /\ reply \in [Tasks -> {"none", "yes", "no"}]
    /\ mem \in [Children -> {"absent", "live", "freed"}]
    /\ status = [c \in Children |-> status[c]]
    /\ name \in [Children -> Names \cup {NoName}]
    /\ atoms = [n \in Names |-> atoms[n]]
    /\ inits \in SUBSET Children /\ exits \in SUBSET Children

Life(c) ==
    /\ mem[c] = "absent" <=> pc[c] = "none"
    /\ mem[c] = "freed" => pc[c] = "dead"
    /\ pc[c] # "none" => name[c] \in Names
    /\ status[c] = "failed" => pc[c] \in {"initialized", "dead"}

\* What a task addresses: a name it looks for, and the task that bears it while
\* the name is locked; without a name, the parent or a child that is not joined.
Address(t) ==
    /\ pc[t] \notin {"finding", "signalling", "joining", "collecting"} =>
         op[t].name = NoName
    /\ pc[t] = "finding" => op[t].name \in Names
    /\ pc[t] = "signalling" /\ op[t].name \in Names =>
         op[t].task = atoms[op[t].name].task /\ op[t].task # NoOne
    /\ pc[t] = "signalling" /\ op[t].name \notin Names =>
         /\ op[t].name = NoName
         /\ t = Main => op[t].task \in Children /\ mem[op[t].task] = "live"
         /\ t # Main => op[t].task = Main
    /\ pc[t] \in {"joining", "collecting"} =>
         t = Main /\ op[t].name \in {NoName, Main} /\ op[t].task \in Children

\* The application waits for the one child the kernel is to start or to join.
Parent ==
    /\ inits # {} => /\ pc[Main] = "creating" /\ reply[Main] = "none"
                     /\ \E c \in Children : inits = {c}
    /\ exits # {} => /\ pc[Main] \in {"joining", "collecting"}
                     /\ reply[Main] = "none" /\ exits = {op[Main].task}
    /\ \A c \in inits \cup exits : mem[c] = "live"
    /\ pc[Main] = "ended" => \A c \in Children : mem[c] # "live"

NameInv ==
    /\ Shapes /\ Parent
    /\ \A c \in Children : Life(c)
    /\ \A t \in Tasks : Address(t)
    /\ \A n \in Names : Counted(n) /\ Named(n)

-----------------------------------------------------------------------------
(* A step leaves the tasks alone that it does not move. *)

Same(u) ==
    /\ pc'[u] = pc[u] /\ op'[u] = op[u] /\ reply'[u] = reply[u]
    /\ u \in Children => /\ name'[u] = name[u] /\ status'[u] = status[u]
                         /\ mem'[u] = mem[u]

\* The step does not change what the task has to do with the name.
Steady(u, n) ==
    /\ u \in Claimers(n)' <=> u \in Claimers(n)
    /\ u \in Leavers(n)' <=> u \in Leavers(n)
    /\ u \in Senders(n)' <=> u \in Senders(n)
    /\ u \in Bearers(n)' <=> u \in Bearers(n)
    /\ u \in Sharing(n) => u \in Sharing(n)'
    /\ u \in Outwaiting(n) => u \in Outwaiting(n)'

LEMMA MainApart == Main \in Tasks /\ Main \notin Children /\ Children \subseteq Tasks
                   /\ Main # NoOne /\ NoOne \notin Tasks /\ NoOne \notin Children
                   /\ Main \notin Names /\ NoName \notin Names /\ Main # NoName
<1>1. Main # NoOne /\ Main # NoName BY DEF Main, NoOne, NoName
<1> QED BY <1>1 DEF Tasks

LEMMA SameSteady ==
    ASSUME NEW u \in Tasks, NEW n, Same(u)
    PROVE  Steady(u, n)
BY DEF Same, Steady, Claimers, Leavers, Senders, Bearers, Sharing, Outwaiting

LEMMA SteadySets ==
    ASSUME NEW n, \A u \in Tasks : Steady(u, n)
    PROVE  /\ Claimers(n)' = Claimers(n) /\ Leavers(n)' = Leavers(n)
           /\ Senders(n)' = Senders(n) /\ Bearers(n)' = Bearers(n)
           /\ Only(n)' = Only(n) /\ Holders(n)' = Holders(n)
           /\ Sharing(n) \subseteq Sharing(n)'
           /\ Outwaiting(n) \subseteq Outwaiting(n)'
<1>0. Children \subseteq Tasks BY MainApart
<1>1. Claimers(n) \subseteq Tasks /\ Claimers(n)' \subseteq Tasks
      BY <1>0 DEF Claimers
<1>2. Leavers(n) \subseteq Tasks /\ Leavers(n)' \subseteq Tasks
      BY <1>0 DEF Leavers
<1>3. Senders(n) \subseteq Tasks /\ Senders(n)' \subseteq Tasks BY DEF Senders
<1>4. Bearers(n) \subseteq Tasks /\ Bearers(n)' \subseteq Tasks
      BY <1>0 DEF Bearers
<1>5. Sharing(n) \subseteq Tasks /\ Outwaiting(n) \subseteq Tasks
      BY <1>0 DEF Sharing, Outwaiting
<1>6. /\ Claimers(n)' = Claimers(n) /\ Leavers(n)' = Leavers(n)
      /\ Senders(n)' = Senders(n) /\ Bearers(n)' = Bearers(n)
      BY <1>1, <1>2, <1>3, <1>4 DEF Steady
<1>7. Only(n)' = Only(n) /\ Holders(n)' = Holders(n) BY <1>6 DEF Only, Holders
<1> QED BY <1>5, <1>6, <1>7 DEF Steady

\* More tasks may wait than an atom has on its list.
LEMMA MoreWaiting ==
    ASSUME NEW a, NEW X, NEW L, NEW H, NEW WS, NEW WE, LockOK(a, X, L, H, WS, WE),
           NEW WS2, NEW WE2, WS \subseteq WS2, WE \subseteq WE2
    PROVE  LockOK(a, X, L, H, WS2, WE2)
BY DEF LockOK

LEMMA SteadyName ==
    ASSUME NEW n, atoms'[n] = atoms[n], Counted(n), Named(n),
           \A u \in Tasks : Steady(u, n)
    PROVE  Counted(n)' /\ Named(n)'
<1>1. /\ Claimers(n)' = Claimers(n) /\ Leavers(n)' = Leavers(n)
      /\ Bearers(n)' = Bearers(n)
      /\ Only(n)' = Only(n) /\ Holders(n)' = Holders(n)
      /\ Sharing(n) \subseteq Sharing(n)'
      /\ Outwaiting(n) \subseteq Outwaiting(n)'
      BY SteadySets
<1>2. LockOK(atoms[n], Only(n), Leavers(n), Holders(n), Sharing(n)', Outwaiting(n)')
      BY <1>1, MoreWaiting DEF Counted
<1>3. LockOK(atoms[n]', Only(n)', Leavers(n)', Holders(n)', Sharing(n)',
             Outwaiting(n)')
      BY <1>1, <1>2
<1> QED BY <1>1, <1>3 DEF Counted, Named

\* A step of the tasks T that changes at most one atom, and the task of an atom
\* only when no one is about to signal that task.
LEMMA Frame ==
    ASSUME NameInv, NEW T \in SUBSET Tasks, NEW N \in SUBSET Names,
           Shapes', Parent',
           \A u \in Tasks \ T : Same(u),
           \A u \in T : Address(u)' /\ (u \in Children => Life(u)'),
           \A u \in T : \A m \in Names \ N : Steady(u, m),
           \A m \in Names \ N : atoms'[m] = atoms[m],
           \A m \in N : Counted(m)' /\ Named(m)',
           \A m \in N : atoms'[m].task = atoms[m].task \/ Senders(m) \subseteq T,
           mem' = mem \/ Main \in T
    PROVE  NameInv'
<1>0. Main \in Tasks /\ Main \notin Children /\ Children \subseteq Tasks
      BY MainApart
<1>1. ASSUME NEW c \in Children PROVE Life(c)'
  <2>1. CASE c \in T BY <2>1
  <2>2. CASE c \notin T
    <3>1. Same(c) /\ Life(c) BY <1>0, <2>2 DEF NameInv
    <3> QED BY <3>1 DEF Same, Life
  <2> QED BY <2>1, <2>2
<1>2. ASSUME NEW u \in Tasks PROVE Address(u)'
  <2>1. CASE u \in T BY <2>1
  <2>2. CASE u \notin T
    <3>1. Same(u) /\ Address(u) BY <2>2 DEF NameInv
    <3>2. pc'[u] = pc[u] /\ op'[u] = op[u] BY <3>1 DEF Same
    <3>3. ASSUME pc[u] = "signalling", op[u].name \in Names
          PROVE  atoms'[op[u].name].task = atoms[op[u].name].task
      <4> DEFINE m == op[u].name
      <4>1. u \in Senders(m) BY <3>3 DEF Senders
      <4>2. CASE m \in N BY <2>2, <4>1, <4>2
      <4>3. CASE m \notin N BY <3>3, <4>3
      <4> QED BY <4>2, <4>3
    <3>4. u = Main => mem' = mem BY <2>2
    <3> QED BY <3>1, <3>2, <3>3, <3>4 DEF Address
  <2> QED BY <2>1, <2>2
<1>3. ASSUME NEW m \in Names PROVE Counted(m)' /\ Named(m)'
  <2>1. CASE m \in N BY <2>1
  <2>2. CASE m \notin N
    <3>1. \A u \in Tasks : Steady(u, m) BY <2>2, SameSteady
    <3>2. atoms'[m] = atoms[m] /\ Counted(m) /\ Named(m)
          BY <2>2 DEF NameInv
    <3> QED BY <3>1, <3>2, SteadyName
  <2> QED BY <2>1, <2>2
<1> QED BY <1>1, <1>2, <1>3 DEF NameInv

\* The same, when the locks are left alone.
LEMMA QuietFrame ==
    ASSUME NameInv, NEW T \in SUBSET Tasks, Shapes', Parent', atoms' = atoms,
           \A u \in Tasks \ T : Same(u),
           \A u \in T : Address(u)' /\ (u \in Children => Life(u)'),
           \A u \in T : \A m \in Names : Steady(u, m),
           mem' = mem \/ Main \in T
    PROVE  NameInv'
<1>1. {} \in SUBSET Names /\ \A m \in Names \ {} : m \in Names OBVIOUS
<1> QED BY <1>1, Frame

LEMMA ParentSame ==
    ASSUME Parent, Same(Main), mem' = mem, inits' = inits, exits' = exits
    PROVE  Parent'
BY DEF Parent, Same
-----------------------------------------------------------------------------
(* Steps that leave the locks alone. *)

Bears(c) == pc[c] \notin Unnamed /\ status[c] # "failed"

\* A task that has no lock and seeks none, before and after.
LEMMA AwaySteady ==
    ASSUME NEW u \in Tasks, NEW n, pc[u] \notin {"finding", "signalling"},
           pc'[u] \notin {"finding", "signalling"},
           u \in Children => /\ name'[u] = name[u] /\ (Bears(u)' <=> Bears(u))
                             /\ pc[u] \notin {"claiming", "leaving"}
                             /\ pc'[u] \notin {"claiming", "leaving"}
    PROVE  Steady(u, n)
<1>1. u \notin Senders(n) /\ u \notin Senders(n)' /\ u \notin Sharing(n)
      BY DEF Senders, Sharing
<1>2. u \notin Claimers(n) /\ u \notin Claimers(n)' /\ u \notin Outwaiting(n)
      BY DEF Claimers, Outwaiting
<1>3. u \notin Leavers(n) /\ u \notin Leavers(n)' BY DEF Leavers
<1>4. u \in Bearers(n)' <=> u \in Bearers(n) BY DEF Bearers, Bears
<1> QED BY <1>1, <1>2, <1>3, <1>4 DEF Steady

\* One task moves, and no lock is touched.
LEMMA MoveKeeps ==
    ASSUME NameInv, NEW t \in Tasks,
           pc' = [pc EXCEPT ![t] = pc'[t]],
           \A u \in Tasks \ {t} : op'[u] = op[u],
           op'[t] \in [name : Names \cup {NoName, Main}, task : Tasks \cup {NoOne}],
           op' = [u \in Tasks |-> op'[u]],
           \A c \in Children \ {t} : status'[c] = status[c],
           status' = [c \in Children |-> status'[c]],
           UNCHANGED <<mem, name, atoms, reply, inits, exits>>,
           Address(t)', t \in Children => Life(t)',
           \A n \in Names : Steady(t, n),
           t = Main => Parent'
    PROVE  NameInv'
<1>0. Main \in Tasks /\ Main \notin Children /\ Children \subseteq Tasks
      BY MainApart
<1>1. Shapes /\ Parent BY DEF NameInv
<1>2. \A u \in Tasks \ {t} : pc'[u] = pc[u] BY <1>1 DEF Shapes
<1>3. \A u \in Tasks \ {t} : Same(u) BY <1>2 DEF Same
<1>4. Shapes'
  <2>1. (pc = [u \in Tasks |-> pc[u]])' BY <1>1 DEF Shapes
  <2>2. \A u \in Tasks : op'[u] \in [name : Names \cup {NoName, Main},
                                     task : Tasks \cup {NoOne}]
        BY <1>1 DEF Shapes
  <2>3. op' \in [Tasks -> [name : Names \cup {NoName, Main},
                           task : Tasks \cup {NoOne}]] BY <2>2
  <2> QED BY <1>1, <2>1, <2>3 DEF Shapes
<1>5. Parent'
  <2>1. CASE t = Main BY <2>1
  <2>2. CASE t # Main BY <1>0, <1>1, <1>3, <2>2, ParentSame
  <2> QED BY <2>1, <2>2
<1> DEFINE T == {t}
<1>6. T \in SUBSET Tasks /\ \A u \in T : u = t OBVIOUS
<1>7. /\ \A u \in Tasks \ T : Same(u)
      /\ \A u \in T : Address(u)' /\ (u \in Children => Life(u)')
      /\ \A u \in T : \A n \in Names : Steady(u, n) BY <1>3, <1>6
<1> HIDE DEF T
<1>8. atoms' = atoms /\ mem' = mem OBVIOUS
<1> QED BY <1>4, <1>5, <1>6, <1>7, <1>8, QuietFrame

\* A child that goes from one place to another where it addresses no one and
\* locks nothing.
Elsewhere == {"named", "initialized", "lua", "looking", "empty", "asleep",
              "closing", "unnamed", "finished", "dead"}

LEMMA ChildMoves ==
    ASSUME NameInv, NEW c \in Children, NEW p \in Elsewhere,
           pc[c] \in Elsewhere, pc' = [pc EXCEPT ![c] = p],
           \/ status' = status
           \/ \E s \in {"running", "finished"} : status' = [status EXCEPT ![c] = s],
           (p \notin Unnamed /\ status'[c] # "failed") <=> Bears(c),
           status[c] = "failed" =>
              status' = status /\ p \in {"initialized", "dead"},
           mem[c] = "freed" => p = "dead",
           UNCHANGED <<mem, name, atoms, reply, inits, exits, op>>
    PROVE  NameInv'
<1>0. c \in Tasks /\ c # Main BY MainApart
<1>1. Shapes /\ Life(c) /\ Address(c) BY <1>0 DEF NameInv
<1>2. pc'[c] = p BY <1>0, <1>1 DEF Shapes
<1>3. \/ status'[c] = status[c]
      \/ status[c] # "failed" /\ status'[c] \in {"running", "finished"}
  <2>1. CASE status' = status
    <3>1. status'[c] = status[c] BY <2>1
    <3> QED BY <3>1
  <2>2. CASE status' # status
    <3>1. PICK s \in {"running", "finished"} : status' = [status EXCEPT ![c] = s]
          BY <2>2
    <3>2. status'[c] = s BY <1>1, <3>1 DEF Shapes
    <3> QED BY <2>2, <3>2
  <2> QED BY <2>1, <2>2
<1>4. /\ \A d \in Children \ {c} : status'[d] = status[d]
      /\ status' = [d \in Children |-> status'[d]]
      BY <1>1 DEF Shapes
<1>5. Life(c)' BY <1>1, <1>2, <1>3 DEF Life, Elsewhere
<1>6. Address(c)'
  <2>1. op[c].name = NoName BY <1>1 DEF Address, Elsewhere
  <2> QED BY <1>2, <2>1 DEF Address, Elsewhere
<1>7. Bears(c)' <=> Bears(c) BY <1>2 DEF Bears
<1>8. \A n \in Names : Steady(c, n)
      BY <1>0, <1>2, <1>7, AwaySteady DEF Elsewhere
<1>9. op'[c] \in [name : Names \cup {NoName, Main}, task : Tasks \cup {NoOne}]
      /\ op' = [u \in Tasks |-> op'[u]]
      BY <1>0, <1>1 DEF Shapes
<1>10. pc' = [pc EXCEPT ![c] = pc'[c]] BY <1>2
<1> QED BY <1>0, <1>4, <1>5, <1>6, <1>8, <1>9, <1>10, MoveKeeps
\* The steps of a child that lock nothing and write to no one.
LEMMA ChildQuiet ==
    ASSUME NameInv, NEW c \in Children,
           \/ Initialized(c) \/ TellInit(c) \/ WaitMsg(c) \/ Look(c) \/ Sleep(c)
           \/ Wake(c) \/ TimeOut(c) \/ Abort(c) \/ Finished(c) \/ TellExit(c)
           \/ \E r \in {"ok", "error"} : Finish(c, r)
    PROVE  NameInv'
<1>0. c \in Tasks /\ Shapes /\ Life(c) BY MainApart DEF NameInv
<1>m. pc[c] # "dead" => mem[c] # "freed" BY <1>0 DEF Life
<1> USE DEF At, Goto, lists, locks, mail, lua
<1>1. CASE At(c, "named") /\ Initialized(c)
  <2>1. /\ pc[c] = "named" /\ pc' = [pc EXCEPT ![c] = "initialized"]
        /\ status' = [status EXCEPT ![c] = "running"]
        /\ UNCHANGED <<mem, name, atoms, reply, inits, exits, op>>
        BY <1>1 DEF Initialized
  <2>2. status[c] # "failed" /\ status'[c] = "running"
        BY <1>0, <2>1 DEF Life, Shapes
  <2> QED BY <1>m, <2>1, <2>2, ChildMoves DEF Elsewhere, Unnamed, Bears
<1>2. CASE At(c, "claiming") /\ Initialized(c)
  <2>1. /\ pc[c] = "claiming" /\ reply[c] # "yes"
        /\ pc' = [pc EXCEPT ![c] = "initialized"]
        /\ status' = [status EXCEPT ![c] = "failed"]
        /\ UNCHANGED <<mem, name, atoms, reply, inits, exits, op>>
        BY <1>2 DEF Initialized, Granted
  <2>2. pc'[c] = "initialized" /\ status'[c] = "failed"
        BY <1>0, <2>1 DEF Shapes
  <2>3. \A n \in Names : Steady(c, n)
        BY <2>1, <2>2 DEF Steady, Claimers, Leavers, Senders, Bearers, Sharing,
                          Outwaiting, Unnamed
  <2>4. Life(c)' BY <1>0, <2>1, <2>2 DEF Life
  <2>5. Address(c) BY <1>0 DEF NameInv
  <2>6. Address(c)' BY <2>1, <2>2, <2>5 DEF Address
  <2>7. /\ \A d \in Children \ {c} : status'[d] = status[d]
        /\ status' = [d \in Children |-> status'[d]]
        BY <1>0, <2>1 DEF Shapes
  <2>8. op'[c] \in [name : Names \cup {NoName, Main}, task : Tasks \cup {NoOne}]
        /\ op' = [u \in Tasks |-> op'[u]]
        BY <1>0, <2>1 DEF Shapes
  <2>9. c # Main BY MainApart
  <2> QED BY <1>0, <2>1, <2>2, <2>3, <2>4, <2>6, <2>7, <2>8, <2>9, MoveKeeps
<1>3. CASE TellInit(c)
  <2>1. PICK p \in {"dead", "lua"} :
           /\ pc[c] = "initialized" /\ pc' = [pc EXCEPT ![c] = p]
           /\ p = "dead" <=> status[c] = "failed"
           /\ UNCHANGED <<mem, status, name, atoms, reply, inits, exits, op>>
        BY <1>3 DEF TellInit
  <2> QED BY <1>m, <2>1, ChildMoves DEF Elsewhere, Unnamed, Bears
<1>4. CASE Look(c)
  <2>1. PICK p \in {"lua", "empty"} :
           /\ pc[c] = "looking" /\ pc' = [pc EXCEPT ![c] = p]
           /\ UNCHANGED <<mem, status, name, atoms, reply, inits, exits, op>>
        BY <1>4 DEF Look
  <2>2. status[c] # "failed" BY <1>0, <2>1 DEF Life
  <2> QED BY <1>m, <2>1, <2>2, ChildMoves DEF Elsewhere, Unnamed, Bears
<1>5. CASE Finished(c)
  <2>1. /\ pc[c] = "unnamed" /\ pc' = [pc EXCEPT ![c] = "finished"]
        /\ status' = [status EXCEPT ![c] = "finished"]
        /\ UNCHANGED <<mem, name, atoms, reply, inits, exits, op>>
        BY <1>5 DEF Finished
  <2>2. status[c] # "failed" BY <1>0, <2>1 DEF Life
  <2> QED BY <1>m, <2>1, <2>2, ChildMoves DEF Elsewhere, Unnamed, Bears
<1>6. CASE TellExit(c)
  <2>1. /\ pc[c] = "finished" /\ pc' = [pc EXCEPT ![c] = "dead"]
        /\ UNCHANGED <<mem, status, name, atoms, reply, inits, exits, op>>
        BY <1>6 DEF TellExit
  <2>2. status[c] # "failed" BY <1>0, <2>1 DEF Life
  <2> QED BY <1>m, <2>1, <2>2, ChildMoves DEF Elsewhere, Unnamed, Bears
<1>7. CASE \/ WaitMsg(c) \/ Sleep(c) \/ Wake(c) \/ TimeOut(c) \/ Abort(c)
           \/ \E r \in {"ok", "error"} : Finish(c, r)
  <2>1. PICK p \in {"looking", "asleep", "lua", "closing"} :
           /\ pc[c] \in {"lua", "empty", "asleep"} /\ pc' = [pc EXCEPT ![c] = p]
           /\ UNCHANGED <<mem, status, name, atoms, reply, inits, exits, op>>
        BY <1>7 DEF WaitMsg, Calls, Sleep, Wake, TimeOut, Abort, Finish
  <2>2. status[c] # "failed" BY <1>0, <2>1 DEF Life
  <2> QED BY <1>m, <2>1, <2>2, ChildMoves DEF Elsewhere, Unnamed, Bears
<1> QED BY <1>1, <1>2, <1>3, <1>4, <1>5, <1>6, <1>7 DEF Initialized
-----------------------------------------------------------------------------
(* Messages. *)

LEMMA ParentHolds ==
    ASSUME Parent, \A c \in Children : mem'[c] = mem[c],
           UNCHANGED <<reply, inits, exits>>, inits = {}, exits = {},
           pc'[Main] # "ended"
    PROVE  Parent'
BY DEF Parent

\* No one bears the name: nothing was locked.
LEMMA NobodyKeeps ==
    ASSUME NameInv, NEW t \in Tasks, NobodyThere(t)
    PROVE  NameInv'
<1>0. Shapes /\ Parent /\ Address(t) BY DEF NameInv
<1>1. /\ pc[t] = "finding" /\ reply[t] # "none" /\ reply[t] # "yes"
      /\ op' = [op EXCEPT ![t] = Idle] /\ pc' = [pc EXCEPT ![t] = "lua"]
      /\ UNCHANGED <<mem, status, name, atoms, reply, inits, exits>>
      BY DEF NobodyThere, At, Goto, lua, lists, locks, Answered, Granted
<1>2. pc'[t] = "lua" /\ op'[t] = Idle /\ Idle.name = NoName
      /\ Idle \in [name : Names \cup {NoName, Main}, task : Tasks \cup {NoOne}]
      BY <1>0, <1>1 DEF Shapes, Idle
<1>3. \A u \in Tasks \ {t} : op'[u] = op[u] BY <1>0, <1>1 DEF Shapes
<1>4. op' = [u \in Tasks |-> op'[u]] BY <1>0, <1>1 DEF Shapes
<1>5. Address(t)' BY <1>2 DEF Address
<1>6. t \in Children => Life(t)'
  <2>1. t \in Children => Life(t) BY DEF NameInv
  <2> QED BY <1>1, <1>2, <2>1 DEF Life
<1>7. ASSUME NEW n \in Names PROVE Steady(t, n)
  <2>1. NoName # n BY MainApart
  <2>2. t \notin Senders(n) /\ t \notin Senders(n)' /\ t \notin Sharing(n)
        BY <1>1, <1>2, <2>1 DEF Senders, Sharing
  <2>3. /\ t \notin Claimers(n) /\ t \notin Claimers(n)' /\ t \notin Outwaiting(n)
        /\ t \notin Leavers(n) /\ t \notin Leavers(n)'
        BY <1>1, <1>2 DEF Claimers, Leavers, Outwaiting
  <2>4. t \in Bearers(n)' <=> t \in Bearers(n)
        BY <1>1, <1>2 DEF Bearers, Unnamed
  <2> QED BY <2>2, <2>3, <2>4 DEF Steady
<1>8. t = Main => Parent'
  <2>1. ASSUME t = Main PROVE inits = {} /\ exits = {}
        BY <1>0, <1>1, <2>1 DEF Parent
  <2> QED BY <1>0, <1>1, <1>2, <2>1, ParentHolds
<1>9. pc' = [pc EXCEPT ![t] = pc'[t]] /\ status' = [c \in Children |-> status'[c]]
      /\ \A c \in Children \ {t} : status'[c] = status[c]
      BY <1>0, <1>1, <1>2 DEF Shapes
<1> QED BY <1>1, <1>2, <1>3, <1>4, <1>5, <1>6, <1>7, <1>8, <1>9, MoveKeeps

\* A task that holds an atom alone is its only holder.
LEMMA AloneHolds ==
    ASSUME NameInv, NEW n \in Names, NEW c \in Only(n)
    PROVE  Holders(n) = {c} /\ atoms[n].mode = "excl" /\ atoms[n].nest = 1
<1>1. Counted(n) /\ c \in Holders(n) BY DEF NameInv, Holders
<1>2. /\ atoms[n].mode = "excl" /\ atoms[n].nest = 1
      /\ IsFiniteSet(Holders(n)) /\ Cardinality(Holders(n)) = 1
      BY <1>1 DEF Counted, LockOK
<1> QED BY <1>1, <1>2, OneHolder

\* The name is found: it is locked, so it means a task that bears it.
LEMMA FoundTask ==
    ASSUME NameInv, NEW t \in Tasks, pc[t] = "finding", reply[t] = "yes"
    PROVE  /\ op[t].name \in Names /\ atoms[op[t].name].mode # "absent"
           /\ atoms[op[t].name].task \in Bearers(op[t].name)
<1> DEFINE n == op[t].name
<1>1. n \in Names BY DEF NameInv, Address
<1>2. Counted(n) /\ Named(n) BY <1>1 DEF NameInv
<1>3. t \in Senders(n) /\ t \in Holders(n) BY DEF Senders, Holders
<1>4. Holders(n) # {} /\ IsFiniteSet(Holders(n)) BY <1>2, <1>3 DEF Counted, LockOK
<1>5. atoms[n].mode # "absent"
  <2>1. Cardinality(Holders(n)) # 0 BY <1>4, NoHolder
  <2> QED BY <1>2, <2>1 DEF Counted, LockOK
<1>6. Claimers(n) = {}
  <2> SUFFICES ASSUME NEW c \in Claimers(n) PROVE FALSE OBVIOUS
  <2>1. c \in Only(n) BY DEF Only
  <2>2. Holders(n) = {c} BY <1>1, <2>1, AloneHolds
  <2>3. c = t BY <1>3, <2>2
  <2> QED BY <2>3 DEF Claimers
<1>7. atoms[n].task # NoOne BY <1>2, <1>5, <1>6 DEF Named
<1>8. atoms[n].task \in Children \cup {NoOne} BY <1>2 DEF Counted, LockOK, Atom
<1>9. atoms[n].task \in Bearers(n) BY <1>2, <1>7, <1>8 DEF Named
<1> QED BY <1>1, <1>5, <1>9

\* A message is put: to a task that is found, or one at hand.
LEMMA PutKeeps2 ==
    ASSUME NameInv, NEW t \in Tasks, NEW u \in Tasks, PutTo(t, u),
           UNCHANGED <<mem, status, name, atoms, reply, inits, exits>>,
           \/ pc[t] = "finding" /\ reply[t] = "yes" /\ u = atoms[op[t].name].task
           \/ /\ pc[t] = "lua"
              /\ IF t = Main THEN u \in Children /\ mem[u] = "live" ELSE u = Main
    PROVE  NameInv'
<1>0. Shapes /\ Parent /\ Address(t) BY DEF NameInv
<1>1. /\ op' = [op EXCEPT ![t].task = u] /\ pc' = [pc EXCEPT ![t] = "signalling"]
      BY DEF PutTo, Goto
<1>2. /\ pc'[t] = "signalling" /\ op'[t].name = op[t].name /\ op'[t].task = u
      /\ op'[t] \in [name : Names \cup {NoName, Main}, task : Tasks \cup {NoOne}]
      /\ \A v \in Tasks \ {t} : op'[v] = op[v]
      /\ op' = [v \in Tasks |-> op'[v]]
  <2>1. op[t] \in [name : Names \cup {NoName, Main}, task : Tasks \cup {NoOne}]
        BY <1>0 DEF Shapes
  <2>2. op'[t] = [op[t] EXCEPT !.task = u] BY <1>0, <1>1 DEF Shapes
  <2>3. /\ op'[t].name = op[t].name /\ op'[t].task = u
        /\ op'[t] \in [name : Names \cup {NoName, Main}, task : Tasks \cup {NoOne}]
        BY <2>1, <2>2
  <2>4. /\ pc'[t] = "signalling" /\ \A v \in Tasks \ {t} : op'[v] = op[v]
        /\ op' = [v \in Tasks |-> op'[v]]
        BY <1>0, <1>1 DEF Shapes
  <2> QED BY <2>3, <2>4
<1>3. u # NoOne BY MainApart
<1>4. pc[t] = "finding" => op[t].name \in Names BY <1>0 DEF Address
<1>5. pc[t] = "lua" => op[t].name = NoName /\ NoName \notin Names
      BY <1>0, MainApart DEF Address
<1>6. Address(t)'
  <2>1. CASE pc[t] = "finding" BY <1>2, <1>3, <1>4, <2>1 DEF Address
  <2>2. CASE pc[t] = "lua" BY <1>2, <1>3, <1>5, <2>2 DEF Address
  <2> QED BY <2>1, <2>2
<1>7. t \in Children => Life(t)'
  <2>1. t \in Children => Life(t) BY DEF NameInv
  <2> QED BY <1>2, <2>1 DEF Life
<1>8. ASSUME NEW n \in Names PROVE Steady(t, n)
  <2>1. t \in Senders(n)' <=> t \in Senders(n)
        BY <1>2, <1>4, <1>5 DEF Senders
  <2>2. t \notin Sharing(n)
        BY <1>4, <1>5 DEF Sharing
  <2>3. /\ t \notin Claimers(n) /\ t \notin Claimers(n)' /\ t \notin Outwaiting(n)
        /\ t \notin Leavers(n) /\ t \notin Leavers(n)'
        BY <1>2 DEF Claimers, Leavers, Outwaiting
  <2>4. t \in Bearers(n)' <=> t \in Bearers(n)
        BY <1>2 DEF Bearers, Unnamed
  <2> QED BY <2>1, <2>2, <2>3, <2>4 DEF Steady
<1>9. t = Main => Parent'
  <2>1. ASSUME t = Main PROVE inits = {} /\ exits = {}
        BY <1>0, <2>1 DEF Parent
  <2> QED BY <1>0, <1>2, <2>1, ParentHolds
<1>10. pc' = [pc EXCEPT ![t] = pc'[t]] /\ status' = [c \in Children |-> status'[c]]
       /\ \A c \in Children \ {t} : status'[c] = status[c]
       BY <1>0, <1>1, <1>2 DEF Shapes
<1> QED BY <1>2, <1>6, <1>7, <1>8, <1>9, <1>10, MoveKeeps

LEMMA FoundKeeps ==
    ASSUME NameInv, NEW t \in Tasks, Found(t)
    PROVE  NameInv'
<1> DEFINE u == atoms[op[t].name].task
<1>1. pc[t] = "finding" /\ reply[t] = "yes" BY DEF Found, At, Granted
<1>2. u \in Children BY <1>1, FoundTask DEF Bearers
<1>3. u \in Tasks BY <1>2, MainApart
<1>4. PutTo(t, u) /\ UNCHANGED <<mem, status, name, atoms, reply, inits, exits>>
      BY DEF Found, lua, locks, lists
<1> HIDE DEF u
<1> QED BY <1>1, <1>3, <1>4, PutKeeps2 DEF u

LEMMA SendToKeeps ==
    ASSUME NameInv, NEW t \in Tasks, NEW u \in Tasks \ {t}, SendTo(t, u)
    PROVE  NameInv'
<1>1. /\ pc[t] = "lua" /\ PutTo(t, u)
      /\ UNCHANGED <<mem, status, name, atoms, reply, inits, exits>>
      /\ IF t = Main THEN mem[u] = "live" ELSE u = Main
      BY DEF SendTo, Calls, At, lua, locks, lists
<1>2. t = Main => u \in Children BY DEF Tasks
<1> QED BY <1>1, <1>2, PutKeeps2
-----------------------------------------------------------------------------
(* The application and the kernel. *)

\* The application moves where it addresses no one and waits for no one.
LEMMA MainMoves ==
    ASSUME NameInv, NEW p \in {"lua", "quitting", "ended"},
           pc[Main] \notin {"finding", "signalling", "joining", "collecting"},
           pc' = [pc EXCEPT ![Main] = p], inits = {}, exits = {},
           p = "ended" => \A c \in Children : mem[c] # "live",
           UNCHANGED <<mem, status, name, atoms, reply, inits, exits, op>>
    PROVE  NameInv'
<1>0. Main \in Tasks /\ Main \notin Children BY MainApart
<1>1. Shapes /\ Parent /\ Address(Main) BY <1>0 DEF NameInv
<1>2. pc'[Main] = p BY <1>0, <1>1 DEF Shapes
<1>3. Address(Main)' BY <1>1, <1>2 DEF Address
<1>4. \A n \in Names : Steady(Main, n) BY <1>0, <1>2, AwaySteady
<1>5. Parent' BY <1>1, <1>2 DEF Parent
<1>6. /\ pc' = [pc EXCEPT ![Main] = pc'[Main]]
      /\ status' = [c \in Children |-> status'[c]]
      /\ \A u \in Tasks \ {Main} : op'[u] = op[u]
      /\ op'[Main] \in [name : Names \cup {NoName, Main}, task : Tasks \cup {NoOne}]
      /\ op' = [u \in Tasks |-> op'[u]]
      BY <1>0, <1>1, <1>2 DEF Shapes
<1> QED BY <1>0, <1>3, <1>4, <1>5, <1>6, MoveKeeps

LEMMA MainQuiet ==
    ASSUME NameInv, Ran \/ GetMsg \/ Raise \/ Quit \/ End
    PROVE  NameInv'
<1>0. Main \in Tasks /\ Main \notin Children /\ Shapes /\ Parent
      BY MainApart DEF NameInv
<1> USE DEF At, Goto, lists, locks, mail, lua
<1>1. CASE Ran
  <2>1. /\ pc[Main] = "creating" /\ reply[Main] # "none"
        /\ pc' = [pc EXCEPT ![Main] = "lua"]
        /\ UNCHANGED <<mem, status, name, atoms, reply, inits, exits, op>>
        BY <1>1 DEF Ran, Answered
  <2>2. inits = {} /\ exits = {} BY <1>0, <2>1 DEF Parent
  <2> QED BY <2>1, <2>2, MainMoves
<1>2. CASE GetMsg
  <2>1. UNCHANGED <<pc, mem, status, name, atoms, reply, inits, exits, op>>
        BY <1>2 DEF GetMsg
  <2>2. pc[Main] = "lua" /\ inits = {} /\ exits = {}
        BY <1>0, <1>2 DEF GetMsg, Parent
  <2>3. pc' = [pc EXCEPT ![Main] = "lua"] BY <1>0, <2>1, <2>2 DEF Shapes
  <2> QED BY <2>1, <2>2, <2>3, MainMoves
<1>3. CASE Raise \/ Quit
  <2>1. /\ pc[Main] = "lua" /\ pc' = [pc EXCEPT ![Main] = "quitting"]
        /\ UNCHANGED <<mem, status, name, atoms, reply, inits, exits, op>>
        BY <1>3 DEF Raise, Quit
  <2>2. inits = {} /\ exits = {} BY <1>0, <2>1 DEF Parent
  <2> QED BY <2>1, <2>2, MainMoves
<1>4. CASE End
  <2>1. /\ pc[Main] = "quitting" /\ pc' = [pc EXCEPT ![Main] = "ended"]
        /\ \A c \in Children : mem[c] # "live"
        /\ UNCHANGED <<mem, status, name, atoms, reply, inits, exits, op>>
        BY <1>4 DEF End
  <2>2. inits = {} /\ exits = {} BY <1>0, <2>1 DEF Parent
  <2> QED BY <2>1, <2>2, MainMoves
<1> QED BY <1>1, <1>2, <1>3, <1>4

LEMMA ForwardKeeps ==
    ASSUME NameInv, Forward
    PROVE  NameInv'
<1>0. Main \in Tasks /\ Main \notin Children BY MainApart
<1>1. Shapes /\ Parent /\ Address(Main) BY <1>0 DEF NameInv
<1>2. /\ pc[Main] \in {"joining", "collecting"} /\ pc' = pc
      /\ UNCHANGED <<mem, status, name, atoms, reply, inits, exits>>
      /\ \/ op' = [op EXCEPT ![Main].name = Main]
         \/ op' = [op EXCEPT ![Main].name = op[Main].name]
      BY DEF Forward, lua, locks, lists
<1>3. PICK x \in {Main, op[Main].name} : op' = [op EXCEPT ![Main].name = x]
      BY <1>2
<1>4. op[Main] \in [name : Names \cup {NoName, Main}, task : Tasks \cup {NoOne}]
      /\ op[Main].name \in {NoName, Main} /\ op[Main].task \in Children
      BY <1>0, <1>1, <1>2 DEF Shapes, Address
<1>5. /\ op'[Main] = [op[Main] EXCEPT !.name = x]
      /\ \A u \in Tasks \ {Main} : op'[u] = op[u]
      /\ op' = [u \in Tasks |-> op'[u]]
      BY <1>0, <1>1, <1>3 DEF Shapes
<1>6. /\ op'[Main].name \in {NoName, Main} /\ op'[Main].task = op[Main].task
      /\ op'[Main] \in [name : Names \cup {NoName, Main}, task : Tasks \cup {NoOne}]
      BY <1>4, <1>5
<1>7. Address(Main)' BY <1>2, <1>4, <1>6 DEF Address
<1>8. \A n \in Names : Steady(Main, n) BY <1>0, <1>2, AwaySteady
<1>9. Parent' BY <1>1, <1>2, <1>6 DEF Parent
<1>10. pc' = [pc EXCEPT ![Main] = pc'[Main]]
       /\ status' = [c \in Children |-> status'[c]]
       BY <1>0, <1>1, <1>2 DEF Shapes
<1>11. /\ \A c \in Children \ {Main} : status'[c] = status[c]
       /\ UNCHANGED <<mem, name, atoms, reply, inits, exits>>
       /\ Main \in Children => Life(Main)'
       BY <1>0, <1>2
<1> QED BY <1>0, <1>5, <1>6, <1>7, <1>8, <1>9, <1>10, <1>11, MoveKeeps

\* Exec.run: a child that is not there yet holds nothing and seeks nothing.
LEMMA RunKeeps ==
    ASSUME NameInv, NEW c \in Children, NEW n \in Names, NEW ab, Run(c, n, ab)
    PROVE  NameInv'
<1>0. Main \in Tasks /\ Main \notin Children /\ c \in Tasks /\ c # Main
      /\ NoName \notin Names
      BY MainApart
<1>1. Shapes /\ Parent /\ Address(Main) /\ Address(c) /\ Life(c)
      BY <1>0 DEF NameInv
<1>2. /\ pc[Main] = "lua" /\ mem[c] = "absent"
      /\ name' = [name EXCEPT ![c] = n] /\ mem' = [mem EXCEPT ![c] = "live"]
      /\ status' = [status EXCEPT ![c] = "initializing"]
      /\ inits' = inits \cup {c}
      /\ pc' = [pc EXCEPT ![c] = "born", ![Main] = "creating"]
      /\ reply' = [t \in Tasks |-> IF t \in {Main} THEN "none" ELSE reply[t]]
      /\ UNCHANGED <<op, atoms, exits>>
      BY DEF Run, Calls, At, Answer, mail
<1>3. pc[c] = "none" /\ inits = {} /\ exits = {} BY <1>1, <1>2 DEF Life, Parent
<1>4. /\ pc'[c] = "born" /\ pc'[Main] = "creating"
      /\ \A u \in Tasks \ {c, Main} : pc'[u] = pc[u]
      BY <1>0, <1>1, <1>2 DEF Shapes
<1>5. reply'[Main] = "none" /\ \A u \in Tasks \ {Main} : reply'[u] = reply[u]
      BY <1>0, <1>2
<1>6. /\ name'[c] = n /\ mem'[c] = "live" /\ status'[c] = "initializing"
      /\ \A d \in Children \ {c} : name'[d] = name[d] /\ mem'[d] = mem[d]
                                   /\ status'[d] = status[d]
      BY <1>1, <1>2 DEF Shapes
<1>7. Shapes'
  <2>1. /\ (pc = [t \in Tasks |-> pc[t]])' /\ (status = [d \in Children |-> status[d]])'
        BY <1>1, <1>2 DEF Shapes
  <2>2. (reply \in [Tasks -> {"none", "yes", "no"}])' BY <1>1, <1>2 DEF Shapes
  <2>3. (mem \in [Children -> {"absent", "live", "freed"}])'
        BY <1>1, <1>2 DEF Shapes
  <2>4. (name \in [Children -> Names \cup {NoName}])' BY <1>1, <1>2 DEF Shapes
  <2> QED BY <1>1, <1>2, <2>1, <2>2, <2>3, <2>4 DEF Shapes
<1>8. Parent' BY <1>2, <1>3, <1>4, <1>5, <1>6 DEF Parent
<1> DEFINE T == {c, Main}
<1>9. T \in SUBSET Tasks /\ Main \in T /\ \A u \in T : u = c \/ u = Main
      BY <1>0
<1>10. \A u \in Tasks \ T : Same(u)
  <2>1. \A u \in Tasks \ T : u \in Tasks \ {c, Main} /\ u \in Tasks \ {Main}
           /\ (u \in Children => u \in Children \ {c}) OBVIOUS
  <2> QED BY <1>2, <1>4, <1>5, <1>6, <2>1 DEF Same
<1>11. Address(c)' /\ Address(Main)' /\ Life(c)'
       BY <1>1, <1>2, <1>3, <1>4, <1>6 DEF Address, Life
<1>12. \A m \in Names : Steady(c, m)
  <2> TAKE m \in Names
  <2>1. op[c].name = NoName /\ NoName # m BY <1>0, <1>1, <1>3 DEF Address
  <2> QED BY <1>0, <1>2, <1>3, <1>4, <2>1
          DEF Steady, Claimers, Leavers, Senders, Bearers, Sharing, Outwaiting,
              Unnamed
<1>13. \A m \in Names : Steady(Main, m) BY <1>0, <1>2, <1>4, AwaySteady
<1>14. /\ \A u \in T : Address(u)' /\ (u \in Children => Life(u)')
       /\ \A u \in T : \A m \in Names : Steady(u, m)
       BY <1>0, <1>9, <1>11, <1>12, <1>13
<1> HIDE DEF T
<1> QED BY <1>2, <1>7, <1>8, <1>9, <1>10, <1>14, QuietFrame
\* Joining: the kernel is asked to, with a child that is not freed.
LEMMA SigJoinKeeps ==
    ASSUME NameInv, NEW c \in Children, NEW s, NEW p \in {"joining", "collecting"},
           pc[Main] \in {"lua", "quitting"}, SigJoin(c, s, p)
    PROVE  NameInv'
<1>0. Main \in Tasks /\ Main \notin Children /\ c \in Tasks BY MainApart
<1>1. Shapes /\ Parent /\ Address(Main) BY <1>0 DEF NameInv
<1>2. /\ mem[c] = "live" /\ op' = [op EXCEPT ![Main] = [Idle EXCEPT !.task = c]]
      /\ exits' = exits \cup {c} /\ pc' = [pc EXCEPT ![Main] = p]
      /\ reply' = [t \in Tasks |-> IF t \in {Main} THEN "none" ELSE reply[t]]
      /\ UNCHANGED <<mem, status, name, atoms, inits>>
      BY DEF SigJoin, Goto, Answer
<1>3. inits = {} /\ exits = {} BY <1>1 DEF Parent
<1>4. [Idle EXCEPT !.task = c] = [name |-> NoName, task |-> c] BY DEF Idle
<1>5. /\ pc'[Main] = p /\ op'[Main] = [name |-> NoName, task |-> c]
      /\ reply'[Main] = "none"
      /\ \A u \in Tasks \ {Main} : pc'[u] = pc[u] /\ op'[u] = op[u]
                                   /\ reply'[u] = reply[u]
      BY <1>0, <1>1, <1>2, <1>4 DEF Shapes
<1>6. Shapes'
  <2>1. (pc = [t \in Tasks |-> pc[t]])' BY <1>1, <1>2 DEF Shapes
  <2>2. (reply \in [Tasks -> {"none", "yes", "no"}])' BY <1>1, <1>2 DEF Shapes
  <2>3. [name |-> NoName, task |-> c]
           \in [name : Names \cup {NoName, Main}, task : Tasks \cup {NoOne}]
        BY <1>0
  <2>4. op' = [op EXCEPT ![Main] = [name |-> NoName, task |-> c]]
        BY <1>2, <1>4
  <2>5. (op \in [Tasks -> [name : Names \cup {NoName, Main},
                           task : Tasks \cup {NoOne}]])'
        BY <1>1, <2>3, <2>4 DEF Shapes
  <2> QED BY <1>1, <1>2, <2>1, <2>2, <2>5 DEF Shapes
<1>7. Parent' BY <1>2, <1>3, <1>5 DEF Parent
<1>8. Address(Main)' BY <1>5 DEF Address
<1>9. \A n \in Names : Steady(Main, n) BY <1>0, <1>5, AwaySteady
<1> DEFINE T == {Main}
<1>10. T \in SUBSET Tasks /\ \A u \in T : u = Main BY <1>0
<1>11. \A u \in Tasks \ T : Same(u) BY <1>2, <1>5 DEF Same
<1>12. /\ \A u \in T : Address(u)' /\ (u \in Children => Life(u)')
       /\ \A u \in T : \A n \in Names : Steady(u, n)
       BY <1>0, <1>8, <1>9, <1>10
<1> HIDE DEF T
<1> QED BY <1>2, <1>6, <1>7, <1>10, <1>11, <1>12, QuietFrame

\* The child is joined and freed.
LEMMA JoinedKeeps ==
    ASSUME NameInv, Joined
    PROVE  NameInv'
<1>0. Main \in Tasks /\ Main \notin Children BY MainApart
<1>1. Shapes /\ Parent /\ Address(Main) BY <1>0 DEF NameInv
<1>2. /\ pc[Main] \in {"joining", "collecting"} /\ reply[Main] # "none"
      /\ op' = [op EXCEPT ![Main] = Idle]
      /\ \E p \in {"lua", "quitting"} : pc' = [pc EXCEPT ![Main] = p]
      /\ UNCHANGED <<status, name, atoms, reply, inits, exits>>
      BY DEF Joined, Answered, At, Goto, locks, lists
<1>3. PICK p \in {"lua", "quitting"} : pc' = [pc EXCEPT ![Main] = p] BY <1>2
<1>4. PICK c \in Children : c = op[Main].task BY <1>1, <1>2 DEF Address
<1>j. pc[c] = "dead" /\ mem' = [mem EXCEPT ![c] = "freed"]
      BY <1>4 DEF Joined, At
<1>5. inits = {} /\ exits = {} BY <1>1, <1>2 DEF Parent
<1>6. Life(c) /\ Address(c) /\ c \in Tasks /\ c # Main
      BY <1>4, MainApart DEF NameInv
<1>7. /\ pc'[Main] = p /\ op'[Main] = Idle /\ mem'[c] = "freed"
      /\ \A u \in Tasks \ {Main} : pc'[u] = pc[u] /\ op'[u] = op[u]
      /\ \A d \in Children \ {c} : mem'[d] = mem[d]
      BY <1>0, <1>1, <1>2, <1>3, <1>4, <1>j DEF Shapes
<1>8. Shapes'
  <2>1. (pc = [t \in Tasks |-> pc[t]])' BY <1>1, <1>3 DEF Shapes
  <2>2. Idle \in [name : Names \cup {NoName, Main}, task : Tasks \cup {NoOne}]
        BY DEF Idle
  <2>3. (op \in [Tasks -> [name : Names \cup {NoName, Main},
                           task : Tasks \cup {NoOne}]])'
        BY <1>1, <1>2, <2>2 DEF Shapes
  <2>4. (mem \in [Children -> {"absent", "live", "freed"}])'
        BY <1>1, <1>j DEF Shapes
  <2> QED BY <1>1, <1>2, <2>1, <2>3, <2>4 DEF Shapes
<1>9. Parent' BY <1>2, <1>5, <1>7 DEF Parent
<1>10. Idle.name = NoName BY DEF Idle
<1>11. Address(Main)' BY <1>7, <1>10 DEF Address
<1>12. \A n \in Names : Steady(Main, n) BY <1>0, <1>2, <1>7, AwaySteady
<1>13. pc'[c] = "dead" /\ op'[c] = op[c] BY <1>2, <1>6, <1>7, <1>j
<1>14. Life(c)' /\ Address(c)'
       BY <1>2, <1>6, <1>7, <1>13, <1>j DEF Life, Address
<1>15. \A n \in Names : Steady(c, n)
  <2>1. Bears(c)' <=> Bears(c) BY <1>2, <1>13, <1>j DEF Bears
  <2> QED BY <1>2, <1>6, <1>13, <1>j, <2>1, AwaySteady
<1> DEFINE T == {c, Main}
<1>16. T \in SUBSET Tasks /\ Main \in T /\ \A u \in T : u = c \/ u = Main
       BY <1>0, <1>6
<1>17. \A u \in Tasks \ T : Same(u)
  <2>1. \A u \in Tasks \ T : u \in Tasks \ {Main}
           /\ (u \in Children => u \in Children \ {c}) OBVIOUS
  <2> QED BY <1>2, <1>7, <2>1 DEF Same
<1>18. /\ \A u \in T : Address(u)' /\ (u \in Children => Life(u)')
       /\ \A u \in T : \A n \in Names : Steady(u, n)
       BY <1>0, <1>11, <1>12, <1>14, <1>15, <1>16
<1> HIDE DEF T
<1> QED BY <1>2, <1>8, <1>9, <1>16, <1>17, <1>18, QuietFrame

\* The kernel answers its one client, and frees a child that failed to start.
LEMMA KernelKeeps ==
    ASSUME NameInv, Kernel
    PROVE  NameInv'
<1>0. Main \in Tasks /\ Main \notin Children BY MainApart
<1>1. Shapes /\ Parent /\ Address(Main) BY <1>0 DEF NameInv
<1>2. /\ UNCHANGED <<status, name, pc, op, atoms>>
      BY DEF Kernel, ChildInit, ChildExit, lua, mail
<1> DEFINE F == {c \in inits : status[c] = "failed"}
           U == {c \in inits : status[c] \in {"running", "finished"}}
           G == {c \in exits : status[c] = "finished"}
<1>3. CASE ChildInit
  <2>1. /\ \A c \in F : pc[c] = "dead"
        /\ mem' = [c \in Children |-> IF c \in F THEN "freed" ELSE mem[c]]
        /\ inits' = inits \ (F \cup U) /\ exits' = exits
        /\ reply' = [t \in Tasks |-> IF t \in (IF F \cup U = {} THEN {} ELSE {Main})
                                     THEN (IF F = {} THEN "yes" ELSE "no")
                                     ELSE reply[t]]
        BY <1>3 DEF ChildInit, At, Answer
  <2>2. F \subseteq inits /\ U \subseteq inits /\ inits \subseteq Children
        BY <1>1 DEF Shapes
  <2> HIDE DEF F, U, G
  <2>3. CASE F \cup U = {}
    <3>1. F = {} BY <2>3
    <3>2. mem' = [c \in Children |-> mem[c]] BY <2>1, <3>1
    <3>3. reply' = [t \in Tasks |-> reply[t]]
      <4>1. (IF F \cup U = {} THEN {} ELSE {Main}) = {} BY <2>3
      <4> QED BY <2>1, <4>1
    <3>4. mem' = mem /\ reply' = reply /\ inits' = inits
          BY <1>1, <2>1, <2>3, <3>2, <3>3 DEF Shapes
    <3>5. \A u \in Tasks : Same(u) BY <1>2, <3>4 DEF Same
    <3>6. Shapes' BY <1>1, <1>2, <2>1, <3>4 DEF Shapes
    <3>7. Parent' BY <1>0, <1>1, <2>1, <3>4, <3>5, ParentSame
    <3>8. {} \in SUBSET Tasks OBVIOUS
    <3> QED BY <1>2, <3>4, <3>5, <3>6, <3>7, <3>8, QuietFrame
  <2>4. CASE F \cup U # {}
    <3>1. inits # {} BY <2>2, <2>4
    <3>2. pc[Main] = "creating" /\ exits = {} /\ \E c \in Children : inits = {c}
          BY <1>1, <3>1 DEF Parent
    <3>3. inits' = {} /\ F \cup U = inits BY <2>1, <2>2, <2>4, <3>2
    <3>4. \A u \in Tasks \ {Main} : reply'[u] = reply[u]
          BY <2>1, <2>4
    <3>5. reply' \in [Tasks -> {"none", "yes", "no"}]
      <4>1. \A t \in Tasks : reply[t] \in {"none", "yes", "no"} BY <1>1 DEF Shapes
      <4> QED BY <2>1, <4>1
    <3>6. mem' \in [Children -> {"absent", "live", "freed"}]
      <4>1. \A c \in Children : mem[c] \in {"absent", "live", "freed"}
            BY <1>1 DEF Shapes
      <4> QED BY <2>1, <4>1
    <3>7. Shapes' BY <1>1, <1>2, <2>1, <3>3, <3>5, <3>6 DEF Shapes
    <3>8. Parent' BY <1>1, <1>2, <2>1, <3>2, <3>3 DEF Parent
    <3> DEFINE T == F \cup {Main}
    <3>9. T \in SUBSET Tasks /\ Main \in T BY <1>0, <2>2, MainApart
    <3>10. \A u \in Tasks \ T : Same(u)
      <4>1. \A c \in Children \ F : mem'[c] = mem[c] BY <2>1
      <4> QED BY <1>2, <3>4, <4>1 DEF Same
    <3>11. \A u \in T : Address(u)'
      <4>1. ASSUME NEW u \in T PROVE Address(u)'
        <5>1. Address(u) BY <3>9 DEF NameInv
        <5>2. pc[u] \in {"creating", "dead"} BY <2>1, <3>2
        <5> QED BY <1>2, <5>1, <5>2 DEF Address
      <4> QED BY <4>1
    <3>12. ASSUME NEW u \in T, u \in Children PROVE Life(u)'
      <4>1. u \in F /\ pc[u] = "dead" /\ Life(u) BY <1>0, <2>1, <3>12 DEF NameInv
      <4>2. mem'[u] = "freed" BY <2>1, <3>12, <4>1
      <4> QED BY <1>2, <4>1, <4>2 DEF Life
    <3>13. ASSUME NEW u \in T, NEW n \in Names PROVE Steady(u, n)
      <4>1. u \in Tasks /\ pc[u] \in {"creating", "dead"} BY <2>1, <3>2, <3>9
      <4>2. Bears(u)' <=> Bears(u) BY <1>2 DEF Bears
      <4> QED BY <1>2, <4>1, <4>2, AwaySteady
    <3> HIDE DEF T
    <3> QED BY <1>2, <3>7, <3>8, <3>9, <3>10, <3>11, <3>12, <3>13, QuietFrame
  <2> QED BY <2>3, <2>4
<1>4. CASE ChildExit
  <2>1. /\ exits' = exits \ G /\ mem' = mem /\ inits' = inits
        /\ reply' = [t \in Tasks |-> IF t \in (IF G = {} THEN {} ELSE {Main})
                                     THEN "yes" ELSE reply[t]]
        BY <1>4 DEF ChildExit, Answer
  <2>2. G \subseteq exits /\ exits \subseteq Children BY <1>1 DEF Shapes
  <2> HIDE DEF F, U, G
  <2>3. CASE G = {}
    <3>1. (IF G = {} THEN {} ELSE {Main}) = {} BY <2>3
    <3>2. reply' = [t \in Tasks |-> reply[t]] BY <2>1, <3>1
    <3>3. reply' = reply /\ exits' = exits BY <1>1, <2>1, <2>3, <3>2 DEF Shapes
    <3>4. \A u \in Tasks : Same(u) BY <1>2, <2>1, <3>3 DEF Same
    <3>5. Shapes' BY <1>1, <1>2, <2>1, <3>3 DEF Shapes
    <3>6. Parent' BY <1>0, <1>1, <2>1, <3>3, <3>4, ParentSame
    <3>7. {} \in SUBSET Tasks OBVIOUS
    <3> QED BY <1>2, <2>1, <3>4, <3>5, <3>6, <3>7, QuietFrame
  <2>4. CASE G # {}
    <3>1. pc[Main] \in {"joining", "collecting"} /\ inits = {}
          /\ exits = {op[Main].task}
          BY <1>1, <2>2, <2>4 DEF Parent
    <3>2. exits' = {} BY <2>1, <2>2, <2>4, <3>1
    <3>3. \A u \in Tasks \ {Main} : reply'[u] = reply[u] BY <2>1
    <3>4. reply' \in [Tasks -> {"none", "yes", "no"}]
      <4>1. \A t \in Tasks : reply[t] \in {"none", "yes", "no"} BY <1>1 DEF Shapes
      <4> QED BY <2>1, <4>1
    <3>5. Shapes' BY <1>1, <1>2, <2>1, <3>2, <3>4 DEF Shapes
    <3>6. Parent' BY <1>1, <1>2, <2>1, <3>1, <3>2 DEF Parent
    <3> DEFINE T == {Main}
    <3>7. T \in SUBSET Tasks /\ \A u \in T : u = Main BY <1>0
    <3>8. \A u \in Tasks \ T : Same(u) BY <1>2, <2>1, <3>3 DEF Same
    <3>9. Address(Main)' BY <1>1, <1>2, <2>1 DEF Address
    <3>10. \A n \in Names : Steady(Main, n) BY <1>0, <1>2, <3>1, AwaySteady
    <3>11. /\ \A u \in T : Address(u)' /\ (u \in Children => Life(u)')
           /\ \A u \in T : \A n \in Names : Steady(u, n)
           BY <1>0, <3>7, <3>9, <3>10
    <3> HIDE DEF T
    <3> QED BY <1>2, <2>1, <3>5, <3>6, <3>7, <3>8, <3>11, QuietFrame
  <2> QED BY <2>3, <2>4
<1> QED BY <1>3, <1>4 DEF Kernel
-----------------------------------------------------------------------------
(* Locks. *)

\* A task that moves but has nothing to do with the other names.
LEMMA LockFrame ==
    ASSUME NameInv, NEW n \in Names, NEW T \in SUBSET Tasks,
           Shapes', \A u \in Tasks \ T : Same(u),
           \A u \in T : Address(u)' /\ (u \in Children => Life(u)'),
           \A u \in T : \A m \in Names \ {n} : Steady(u, m),
           \A m \in Names \ {n} : atoms'[m] = atoms[m],
           Counted(n)', Named(n)',
           atoms'[n].task = atoms[n].task \/ Senders(n) \subseteq T,
           UNCHANGED <<mem, inits, exits>>,
           Main \in T => /\ pc[Main] \in {"lua", "finding", "signalling"}
                         /\ pc'[Main] # "ended"
    PROVE  NameInv'
<1> DEFINE N == {n}
<1>1. N \in SUBSET Names /\ \A m \in N : m = n OBVIOUS
<1>2. Parent /\ Main \in Tasks BY MainApart DEF NameInv
<1>5. Parent'
  <2>1. CASE Main \notin T BY <1>2, <2>1, ParentSame
  <2>2. CASE Main \in T
    <3>1. inits = {} /\ exits = {} BY <1>2, <2>2 DEF Parent
    <3> QED BY <1>2, <2>2, <3>1 DEF Parent
  <2> QED BY <2>1, <2>2
<1>6. /\ \A u \in T : \A m \in Names \ N : Steady(u, m)
      /\ \A m \in Names \ N : atoms'[m] = atoms[m]
      /\ \A m \in N : Counted(m)' /\ Named(m)'
      /\ \A m \in N : atoms'[m].task = atoms[m].task \/ Senders(m) \subseteq T
      OBVIOUS
<1> HIDE DEF N
<1> QED BY <1>1, <1>5, <1>6, Frame
\* One task moves and is answered: which other parts of the state it may change.
Moved(t) ==
    /\ pc' = [pc EXCEPT ![t] = pc'[t]]
    /\ \A u \in Tasks \ {t} : reply'[u] = reply[u] /\ op'[u] = op[u]
    /\ UNCHANGED <<mem, status, name, inits, exits>>

LEMMA MovedSame ==
    ASSUME NameInv, NEW t \in Tasks, Moved(t)
    PROVE  \A u \in Tasks \ {t} : Same(u)
<1>1. Shapes BY DEF NameInv
<1>2. \A u \in Tasks \ {t} : pc'[u] = pc[u] BY <1>1 DEF Moved, Shapes
<1> QED BY <1>2 DEF Same, Moved

\* What the others have to do with a name is unchanged.
LEMMA MoverSets ==
    ASSUME NEW t \in Tasks, NEW n, \A u \in Tasks \ {t} : Same(u)
    PROVE  /\ Claimers(n)' \ {t} = Claimers(n) \ {t}
           /\ Leavers(n)' \ {t} = Leavers(n) \ {t}
           /\ Senders(n)' \ {t} = Senders(n) \ {t}
           /\ Bearers(n)' \ {t} = Bearers(n) \ {t}
           /\ Sharing(n) \ {t} \subseteq Sharing(n)'
           /\ Outwaiting(n) \ {t} \subseteq Outwaiting(n)'
<1>1. \A u \in Tasks \ {t} : Steady(u, n) BY SameSteady
<1>2. /\ Claimers(n) \subseteq Tasks /\ Claimers(n)' \subseteq Tasks
      /\ Leavers(n) \subseteq Tasks /\ Leavers(n)' \subseteq Tasks
      /\ Senders(n) \subseteq Tasks /\ Senders(n)' \subseteq Tasks
      /\ Bearers(n) \subseteq Tasks /\ Bearers(n)' \subseteq Tasks
      /\ Sharing(n) \subseteq Tasks /\ Outwaiting(n) \subseteq Tasks
      BY MainApart DEF Claimers, Leavers, Senders, Bearers, Sharing, Outwaiting
<1> QED BY <1>1, <1>2 DEF Steady

\* The name is claimed by a task that is not named yet.
LEMMA ClaimKeeps ==
    ASSUME NameInv, NEW c \in Children, ClaimName(c)
    PROVE  NameInv'
<1> DEFINE n == name[c]
<1>0. c \in Tasks /\ c # Main /\ Main \in Tasks BY MainApart
<1>1. Shapes /\ Life(c) /\ Address(c) BY <1>0 DEF NameInv
<1>2. /\ pc[c] = "born" /\ pc' = [pc EXCEPT ![c] = "claiming"]
      /\ UNCHANGED <<mem, status, name, op, inits, exits>>
      /\ CreateAtom(c, n)
      BY DEF ClaimName, At, Goto, lua, mail, lists
<1>3. PICK m \in Names : m = n BY <1>1, <1>2 DEF Life
<1>4. pc'[c] = "claiming" BY <1>0, <1>1, <1>2 DEF Shapes
<1>5. PICK r \in {"yes", "no"} :
         /\ reply' = [t \in Tasks |-> IF t \in {c} THEN r ELSE reply[t]]
         /\ r = "yes" => /\ atoms[m].mode = "absent"
                         /\ atoms' = [atoms EXCEPT ![m] =
                               [NoAtom EXCEPT !.mode = "excl", !.nest = 1]]
         /\ r = "no" => atoms' = atoms
      BY <1>2, <1>3 DEF CreateAtom, Answer
<1> HIDE DEF n
<1>6. name[c] = m BY <1>3 DEF n
<1>7. reply'[c] = r /\ \A u \in Tasks \ {c} : reply'[u] = reply[u]
      BY <1>0, <1>5
<1>8. Moved(c) BY <1>2, <1>4, <1>7 DEF Moved
<1>9. Shapes'
  <2>1. (pc = [t \in Tasks |-> pc[t]])' BY <1>1, <1>2 DEF Shapes
  <2>2. (reply \in [Tasks -> {"none", "yes", "no"}])' BY <1>1, <1>5 DEF Shapes
  <2>3. (atoms = [k \in Names |-> atoms[k]])' BY <1>1, <1>5 DEF Shapes
  <2> QED BY <1>1, <1>2, <2>1, <2>2, <2>3 DEF Shapes
<1>10. Life(c)' /\ Address(c)' BY <1>1, <1>2, <1>4 DEF Life, Address
<1>11. ASSUME NEW k \in Names, k # m \/ r = "no" PROVE Steady(c, k)
       BY <1>2, <1>4, <1>6, <1>7, <1>11
          DEF Steady, Claimers, Leavers, Senders, Bearers, Sharing, Outwaiting,
              Unnamed
<1> DEFINE T == {c}
<1>12. /\ T \in SUBSET Tasks /\ Main \notin T /\ \A u \in T : u = c
       /\ \A u \in Tasks \ T : Same(u)
       /\ \A u \in T : Address(u)' /\ (u \in Children => Life(u)')
       BY <1>0, <1>8, <1>10, MovedSame
<1>13. CASE r = "no"
  <2>1. Parent BY DEF NameInv
  <2>2. Same(Main) BY <1>0, <1>12
  <2>3. Parent' BY <1>2, <2>1, <2>2, ParentSame
  <2>4. atoms' = atoms BY <1>5, <1>13
  <2>5. \A u \in T : \A k \in Names : Steady(u, k) BY <1>11, <1>12, <1>13
  <2> HIDE DEF T
  <2> QED BY <1>2, <1>9, <1>12, <2>3, <2>4, <2>5, QuietFrame
<1>14. CASE r = "yes"
  <2> DEFINE b == [NoAtom EXCEPT !.mode = "excl", !.nest = 1]
  <2>1. atoms[m].mode = "absent" /\ atoms'[m] = b
        /\ \A k \in Names \ {m} : atoms'[k] = atoms[k]
        BY <1>1, <1>5, <1>14 DEF Shapes
  <2>2. Counted(m) /\ Named(m) BY DEF NameInv
  <2>3. /\ c \in Claimers(m)' /\ c \notin Leavers(m) /\ c \notin Leavers(m)'
        /\ c \notin Senders(m) /\ c \notin Senders(m)' /\ c \notin Sharing(m)
        /\ c \notin Bearers(m) /\ c \notin Bearers(m)' /\ c \notin Outwaiting(m)
        BY <1>2, <1>4, <1>6, <1>7, <1>14
           DEF Claimers, Leavers, Senders, Bearers, Sharing, Outwaiting, Unnamed
  <2>4. \A u \in Tasks \ {c} : Same(u) BY <1>12
  <2>5. /\ Claimers(m)' = Claimers(m) \cup {c}
        /\ Leavers(m)' = Leavers(m) /\ Senders(m)' = Senders(m)
        /\ Bearers(m)' = Bearers(m) /\ Sharing(m) \subseteq Sharing(m)'
        /\ Outwaiting(m) \subseteq Outwaiting(m)'
        BY <1>0, <2>3, <2>4, MoverSets
  <2>6. Only(m)' = Only(m) \cup {c} /\ Holders(m)' = Holders(m) \cup {c}
        BY <2>5 DEF Only, Holders
  <2>b. b = [NoAtom EXCEPT !.mode = "excl", !.nest = 1] OBVIOUS
  <2> HIDE DEF b
  <2>k. LockOK(atoms[m], Only(m), Leavers(m), Holders(m), Sharing(m), Outwaiting(m))
        BY <2>2 DEF Counted
  <2>7. /\ Holders(m) = {}
        /\ LockOK(b, Only(m) \cup {c}, Leavers(m), Holders(m) \cup {c},
                  Sharing(m), Outwaiting(m))
        BY <2>1, <2>b, <2>k, CreateOK
  <2>8. LockOK(b, Only(m)', Leavers(m)', Holders(m)', Sharing(m)', Outwaiting(m)')
        BY <2>5, <2>6, <2>7, MoreWaiting
  <2>9. Counted(m)' BY <2>1, <2>8 DEF Counted
  <2>10. b.task = NoOne /\ b.mode = "excl" BY DEF b, NoAtom
  <2>11. atoms[m].task = NoOne BY <2>1, <2>2 DEF Named
  <2>12. Named(m)' BY <2>1, <2>2, <2>5, <2>10, <2>11 DEF Named
  <2>13. \A u \in T : \A k \in Names \ {m} : Steady(u, k) BY <1>11, <1>12
  <2>14. atoms'[m].task = atoms[m].task BY <2>1, <2>10, <2>11
  <2> HIDE DEF T
  <2> QED BY <1>2, <1>9, <1>12, <2>1, <2>9, <2>12, <2>13, <2>14, LockFrame
<1> QED BY <1>13, <1>14
\* What a lock does for a task that has nothing to do with the atom yet: the
\* answer r, if there is one, and the atom b that is left.
Locks(t, n, mode, r, b) ==
    /\ reply' = [u \in Tasks |-> IF u \in {t} THEN r ELSE reply[u]]
    /\ atoms' = [atoms EXCEPT ![n] = b]
    /\ b.task = atoms[n].task
    /\ b.mode = "absent" <=> atoms[n].mode = "absent"
    /\ \/ r = "no" /\ b = atoms[n] /\ b.mode = "absent"
       \/ /\ r = "yes" /\ mode = "shared"
          /\ LockOK(b, Only(n), Leavers(n), Holders(n) \cup {t},
                    Sharing(n), Outwaiting(n))
       \/ /\ r = "yes" /\ mode = "excl"
          /\ LockOK(b, Only(n) \cup {t}, Leavers(n) \cup {t},
                    Holders(n) \cup {t}, Sharing(n), Outwaiting(n))
       \/ /\ r = "none" /\ mode = "shared"
          /\ LockOK(b, Only(n), Leavers(n), Holders(n),
                    Sharing(n) \cup {t}, Outwaiting(n))
       \/ /\ r = "none" /\ mode = "excl"
          /\ LockOK(b, Only(n), Leavers(n), Holders(n), Sharing(n),
                    Outwaiting(n) \cup {t})

LEMMA LockCases ==
    ASSUME NameInv, NEW n \in Names, NEW t \in Tasks,
           t \notin Holders(n), t \notin Sharing(n), t \notin Outwaiting(n),
           NEW mode \in {"shared", "excl"}, LockAtom(t, n, mode)
    PROVE  \E r \in {"none", "yes", "no"}, b \in Atom : Locks(t, n, mode, r, b)
<1> DEFINE a == atoms[n]
           X == Only(n)
           L == Leavers(n)
           H == Holders(n)
           WS == Sharing(n)
           WE == Outwaiting(n)
           Said(r) == reply' = [u \in Tasks |-> IF u \in {t} THEN r ELSE reply[u]]
<1>1. LockOK(a, X, L, H, WS, WE) /\ a \in Atom /\ atoms = [k \in Names |-> atoms[k]]
      BY DEF NameInv, Counted, LockOK, Shapes
<1>2. X \subseteq H /\ L \subseteq H /\ t \notin H /\ t \notin L
      /\ t \notin WS \cup WE /\ t # NoOne
      BY MainApart DEF Only, Holders
<1>3. CASE a.mode = "absent" /\ Said("no") /\ atoms' = atoms
  <2>1. atoms' = [atoms EXCEPT ![n] = a] BY <1>1, <1>3
  <2> QED BY <1>1, <1>3, <2>1 DEF Locks
<1>4. CASE /\ a.mode = "free" /\ Said("yes")
           /\ atoms' = [atoms EXCEPT ![n] =
                [a EXCEPT !.mode = mode, !.nest = 1,
                          !.owner = IF mode = "shared" THEN NoOne ELSE t]]
  <2> DEFINE b == [a EXCEPT !.mode = mode, !.nest = 1,
                            !.owner = IF mode = "shared" THEN NoOne ELSE t]
  <2>1. b.task = a.task /\ b.mode = mode /\ b \in Atom
        BY <1>1 DEF Atom
  <2>2. /\ b.nest = 1 /\ b.waiters = a.waiters
        /\ mode = "shared" => b.owner = NoOne
        /\ mode = "excl" => b.owner = t
        BY <1>1 DEF Atom
  <2>3. atoms' = [atoms EXCEPT ![n] = b] BY <1>4
  <2> HIDE DEF b, a, X, L, H, WS, WE
  <2>4. a.mode = "free" /\ X \subseteq H BY <1>2, <1>4
  <2>5. b.mode # "absent" /\ a.mode # "absent" BY <1>4, <2>1
  <2>6. CASE mode = "shared"
    <3>1. LockOK(b, X, L, H \cup {t}, WS, WE)
          BY <1>1, <2>1, <2>2, <2>4, <2>6, GrantShared
    <3> QED BY <1>4, <2>1, <2>3, <2>5, <2>6, <3>1 DEF a, X, L, H, WS, WE, Locks
  <2>7. CASE mode = "excl"
    <3>1. b.mode = "excl" /\ b.owner = t BY <2>1, <2>2, <2>7
    <3>2. LockOK(b, X \cup {t}, L \cup {t}, H \cup {t}, WS, WE)
          BY <1>1, <2>1, <2>2, <2>4, <3>1, GrantAlone
    <3> QED BY <1>4, <2>1, <2>3, <2>5, <2>7, <3>2 DEF a, X, L, H, WS, WE, Locks
  <2> QED BY <2>6, <2>7
<1>5. CASE /\ a.mode = "shared" /\ mode = "shared" /\ Said("yes")
           /\ atoms' = [atoms EXCEPT ![n] = [a EXCEPT !.nest = @ + 1]]
  <2> DEFINE b == [a EXCEPT !.nest = @ + 1]
  <2>1. b.task = a.task /\ b.mode = a.mode /\ b \in Atom
        BY <1>1 DEF Atom
  <2>2. b = [a EXCEPT !.nest = @ + 1] OBVIOUS
  <2>3. atoms' = [atoms EXCEPT ![n] = b] BY <1>5
  <2> HIDE DEF b, a, X, L, H, WS, WE
  <2>4. LockOK(b, X, L, H \cup {t}, WS, WE)
        BY <1>1, <1>2, <1>5, <2>2, ShareOK
  <2>5. b.mode # "absent" /\ a.mode # "absent" BY <1>5, <2>1
  <2> QED BY <1>5, <2>1, <2>3, <2>4, <2>5 DEF a, X, L, H, WS, WE, Locks
<1>6. CASE /\ a.mode \in {"shared", "excl"} /\ Said("none")
           /\ atoms' = [atoms EXCEPT ![n] = [a EXCEPT !.waiters =
                           Append(@, [task |-> t, mode |-> mode])]]
  <2> DEFINE b == [a EXCEPT !.waiters = Append(@, [task |-> t, mode |-> mode])]
  <2>1. b = [a EXCEPT !.waiters = Append(a.waiters, [task |-> t, mode |-> mode])]
        BY <1>1 DEF Atom
  <2>2. Append(a.waiters, [task |-> t, mode |-> mode]) \in Seq(Waiter)
    <3>1. a.waiters \in Seq(Waiter) BY <1>1 DEF Atom
    <3>2. [task |-> t, mode |-> mode] \in Waiter BY DEF Waiter
    <3> QED BY <3>1, <3>2
  <2>3. atoms' = [atoms EXCEPT ![n] = b] BY <1>6
  <2>a. /\ b.task = a.task /\ b.mode = a.mode /\ b.nest = a.nest
        /\ b.owner = a.owner /\ b \in Atom
        /\ b.waiters = Append(a.waiters, [task |-> t, mode |-> mode])
        BY <1>1, <2>1, <2>2 DEF Atom
  <2> HIDE DEF b, a, X, L, H, WS, WE
  <2>4. /\ mode = "shared" => LockOK(b, X, L, H, WS \cup {t}, WE)
        /\ mode = "excl" => LockOK(b, X, L, H, WS, WE \cup {t})
        BY <1>1, <1>2, <2>a, WaitOK
  <2>5. b.mode # "absent" /\ a.mode # "absent" /\ b \in Atom
        BY <1>6, <2>a
  <2>6. CASE mode = "shared"
    <3>1. LockOK(b, X, L, H, WS \cup {t}, WE) BY <2>4, <2>6
    <3> QED BY <1>6, <2>3, <2>a, <2>5, <2>6, <3>1 DEF a, X, L, H, WS, WE, Locks
  <2>7. CASE mode = "excl"
    <3>1. LockOK(b, X, L, H, WS, WE \cup {t}) BY <2>4, <2>7
    <3> QED BY <1>6, <2>3, <2>a, <2>5, <2>7, <3>1 DEF a, X, L, H, WS, WE, Locks
  <2> QED BY <2>6, <2>7
<1>7. ~(a.mode = "excl" /\ a.owner = t) BY <1>1, <1>2 DEF LockOK
<1> QED BY <1>1, <1>3, <1>4, <1>5, <1>6, <1>7 DEF LockAtom, Nests, Answer

LEMMA ButOne ==
    ASSUME NEW A, NEW B, NEW t, A \ {t} = B \ {t}
    PROVE  /\ (t \in A <=> t \in B) => A = B
           /\ t \in A => A = B \cup {t}
OBVIOUS

LEMMA NotOne ==
    ASSUME NEW A, NEW B, NEW t, A \ {t} \subseteq B, t \notin A
    PROVE  A \subseteq B
OBVIOUS

\* A name is locked: to send a message to the task it means, or to give it up.
LEMMA LockKeeps ==
    ASSUME NameInv, NEW n \in Names, NEW t \in Tasks,
           NEW mode \in {"shared", "excl"}, NEW p, LockAtom(t, n, mode),
           pc' = [pc EXCEPT ![t] = p],
           op' \in [Tasks -> [name : Names \cup {NoName, Main},
                              task : Tasks \cup {NoOne}]],
           \A u \in Tasks \ {t} : op'[u] = op[u],
           UNCHANGED <<mem, status, name, inits, exits>>,
           mode = "shared" => pc[t] = "lua" /\ p = "finding" /\ op'[t].name = n,
           mode = "excl" => /\ t \in Children /\ name[t] = n /\ pc[t] = "closing"
                            /\ p = "leaving" /\ op' = op
    PROVE  NameInv'
<1>0. Main \in Tasks /\ Main \notin Children /\ Main \notin Names
      /\ NoName \notin Names
      BY MainApart
<1>1. Shapes /\ Address(t) /\ (t \in Children => Life(t)) /\ Counted(n) /\ Named(n)
      BY DEF NameInv
<1>2. pc[t] \in {"lua", "closing"} /\ p \in {"finding", "leaving"}
      /\ op[t].name = NoName
      BY <1>1 DEF Address
<1>3. /\ t \notin Claimers(n) /\ t \notin Leavers(n) /\ t \notin Senders(n)
      /\ t \notin Sharing(n) /\ t \notin Outwaiting(n) /\ t \notin Holders(n)
      BY <1>2 DEF Claimers, Leavers, Senders, Sharing, Outwaiting, Holders, Only
<1>l. PICK r \in {"none", "yes", "no"}, b \in Atom : Locks(t, n, mode, r, b)
      BY <1>3, LockCases
<1>4. /\ reply' = [u \in Tasks |-> IF u \in {t} THEN r ELSE reply[u]]
      /\ atoms' = [atoms EXCEPT ![n] = b]
      /\ b.task = atoms[n].task
      /\ b.mode = "absent" <=> atoms[n].mode = "absent"
      BY <1>l DEF Locks
<1>5. /\ reply'[t] = r /\ \A u \in Tasks \ {t} : reply'[u] = reply[u]
      /\ pc'[t] = p
      /\ atoms'[n] = b /\ \A m \in Names \ {n} : atoms'[m] = atoms[m]
      BY <1>1, <1>4 DEF Shapes
<1>6. Moved(t) BY <1>5 DEF Moved
<1>7. \A u \in Tasks \ {t} : Same(u) BY <1>6, MovedSame
<1>8. Shapes'
  <2>1. (pc = [u \in Tasks |-> pc[u]])' BY <1>1 DEF Shapes
  <2>2. (reply \in [Tasks -> {"none", "yes", "no"}])' BY <1>1, <1>4 DEF Shapes
  <2>3. (atoms = [k \in Names |-> atoms[k]])' BY <1>1, <1>4 DEF Shapes
  <2> QED BY <1>1, <2>1, <2>2, <2>3 DEF Shapes
<1>9. Address(t)' BY <1>2, <1>5 DEF Address
<1>10. t \in Children => Life(t)' BY <1>1, <1>2, <1>5 DEF Life
<1>11. t \in Bearers(n)' <=> t \in Bearers(n)
       BY <1>2, <1>5 DEF Bearers, Unnamed
<1>12. ASSUME NEW m \in Names, m # n PROVE Steady(t, m)
  <2>1. t \notin Senders(m) /\ t \notin Senders(m)' /\ t \notin Sharing(m)
        BY <1>0, <1>2, <1>5, <1>12 DEF Senders, Sharing
  <2>2. /\ t \notin Claimers(m) /\ t \notin Claimers(m)' /\ t \notin Outwaiting(m)
        /\ t \notin Leavers(m) /\ t \notin Leavers(m)'
        BY <1>2, <1>5, <1>12 DEF Claimers, Leavers, Outwaiting
  <2>3. t \in Bearers(m)' <=> t \in Bearers(m) BY <1>2, <1>5 DEF Bearers, Unnamed
  <2> QED BY <2>1, <2>2, <2>3 DEF Steady
<1>13. /\ Claimers(n)' \ {t} = Claimers(n) \ {t}
       /\ Leavers(n)' \ {t} = Leavers(n) \ {t}
       /\ Senders(n)' \ {t} = Senders(n) \ {t}
       /\ Bearers(n)' \ {t} = Bearers(n) \ {t}
       /\ Sharing(n) \ {t} \subseteq Sharing(n)'
       /\ Outwaiting(n) \ {t} \subseteq Outwaiting(n)'
       BY <1>7, MoverSets
<1>14. t \notin Claimers(n)' BY <1>2, <1>5 DEF Claimers
<1>15. Bearers(n)' = Bearers(n) /\ Claimers(n)' = Claimers(n)
       BY <1>3, <1>11, <1>13, <1>14, ButOne
<1>16. Named(n)' BY <1>1, <1>4, <1>5, <1>15 DEF Named
<1>a. Sharing(n) \subseteq Sharing(n)' /\ Outwaiting(n) \subseteq Outwaiting(n)'
      BY <1>3, <1>13, NotOne
<1>b. /\ t \notin Senders(n)' => Senders(n)' = Senders(n)
      /\ t \in Senders(n)' => Senders(n)' = Senders(n) \cup {t}
      BY <1>3, <1>13, ButOne
<1>c. /\ t \notin Leavers(n)' => Leavers(n)' = Leavers(n)
      /\ t \in Leavers(n)' => Leavers(n)' = Leavers(n) \cup {t}
      BY <1>3, <1>13, ButOne
<1>17. Counted(n)'
  <2>1. CASE r = "no"
    <3>1. t \notin Senders(n)' /\ t \notin Leavers(n)'
          BY <1>2, <1>5, <2>1 DEF Senders, Leavers
    <3>2. Senders(n)' = Senders(n) /\ Leavers(n)' = Leavers(n)
          /\ Sharing(n) \subseteq Sharing(n)' /\ Outwaiting(n) \subseteq Outwaiting(n)'
          BY <1>a, <1>b, <1>c, <3>1
    <3>3. Only(n)' = Only(n) /\ Holders(n)' = Holders(n)
          BY <1>15, <3>2 DEF Only, Holders
    <3>4. LockOK(b, Only(n), Leavers(n), Holders(n), Sharing(n), Outwaiting(n))
          BY <1>1, <1>l, <2>1 DEF Counted, Locks
    <3>5. LockOK(b, Only(n)', Leavers(n)', Holders(n)', Sharing(n)', Outwaiting(n)')
          BY <3>2, <3>3, <3>4, MoreWaiting
    <3> QED BY <1>5, <3>5 DEF Counted
  <2>2. CASE r = "yes" /\ mode = "shared"
    <3>1. t \in Senders(n)' /\ t \notin Leavers(n)'
          BY <1>5, <2>2 DEF Senders, Leavers
    <3>2. Senders(n)' = Senders(n) \cup {t} /\ Leavers(n)' = Leavers(n)
          /\ Sharing(n) \subseteq Sharing(n)' /\ Outwaiting(n) \subseteq Outwaiting(n)'
          BY <1>a, <1>b, <1>c, <3>1
    <3>3. Only(n)' = Only(n) /\ Holders(n)' = Holders(n) \cup {t}
          BY <1>15, <3>2 DEF Only, Holders
    <3>4. LockOK(b, Only(n), Leavers(n), Holders(n) \cup {t}, Sharing(n),
                 Outwaiting(n))
          BY <1>l, <2>2 DEF Locks
    <3>5. LockOK(b, Only(n)', Leavers(n)', Holders(n)', Sharing(n)', Outwaiting(n)')
          BY <3>2, <3>3, <3>4, MoreWaiting
    <3> QED BY <1>5, <3>5 DEF Counted
  <2>3. CASE r = "yes" /\ mode = "excl"
    <3>1. t \in Leavers(n)' /\ t \notin Senders(n)'
          BY <1>5, <2>3 DEF Senders, Leavers
    <3>2. Leavers(n)' = Leavers(n) \cup {t} /\ Senders(n)' = Senders(n)
          /\ Sharing(n) \subseteq Sharing(n)' /\ Outwaiting(n) \subseteq Outwaiting(n)'
          BY <1>a, <1>b, <1>c, <3>1
    <3>3. Only(n)' = Only(n) \cup {t} /\ Holders(n)' = Holders(n) \cup {t}
          BY <1>15, <3>2 DEF Only, Holders
    <3>4. LockOK(b, Only(n) \cup {t}, Leavers(n) \cup {t}, Holders(n) \cup {t},
                 Sharing(n), Outwaiting(n))
          BY <1>l, <2>3 DEF Locks
    <3>5. LockOK(b, Only(n)', Leavers(n)', Holders(n)', Sharing(n)', Outwaiting(n)')
          BY <3>2, <3>3, <3>4, MoreWaiting
    <3> QED BY <1>5, <3>5 DEF Counted
  <2>4. CASE r = "none"
    <3>1. t \notin Senders(n)' /\ t \notin Leavers(n)'
          /\ (mode = "shared" => t \in Sharing(n)')
          /\ (mode = "excl" => t \in Outwaiting(n)')
          BY <1>2, <1>5, <2>4 DEF Senders, Leavers, Sharing, Outwaiting
    <3>2. Senders(n)' = Senders(n) /\ Leavers(n)' = Leavers(n)
          /\ Sharing(n) \subseteq Sharing(n)' /\ Outwaiting(n) \subseteq Outwaiting(n)'
          BY <1>a, <1>b, <1>c, <3>1
    <3>3. Only(n)' = Only(n) /\ Holders(n)' = Holders(n)
          BY <1>15, <3>2 DEF Only, Holders
    <3>4. CASE mode = "shared"
      <4>1. LockOK(b, Only(n), Leavers(n), Holders(n), Sharing(n) \cup {t},
                   Outwaiting(n))
            BY <1>l, <2>4, <3>4 DEF Locks
      <4>2. Sharing(n) \cup {t} \subseteq Sharing(n)' BY <3>1, <3>2, <3>4
      <4>3. LockOK(b, Only(n)', Leavers(n)', Holders(n)', Sharing(n)',
                   Outwaiting(n)')
            BY <3>2, <3>3, <4>1, <4>2, MoreWaiting
      <4> QED BY <1>5, <4>3 DEF Counted
    <3>5. CASE mode = "excl"
      <4>1. LockOK(b, Only(n), Leavers(n), Holders(n), Sharing(n),
                   Outwaiting(n) \cup {t})
            BY <1>l, <2>4, <3>5 DEF Locks
      <4>2. Outwaiting(n) \cup {t} \subseteq Outwaiting(n)' BY <3>1, <3>2, <3>5
      <4>3. LockOK(b, Only(n)', Leavers(n)', Holders(n)', Sharing(n)',
                   Outwaiting(n)')
            BY <3>2, <3>3, <4>1, <4>2, MoreWaiting
      <4> QED BY <1>5, <4>3 DEF Counted
    <3> QED BY <3>4, <3>5
  <2> QED BY <2>1, <2>2, <2>3, <2>4
<1> DEFINE T == {t}
<1>18. /\ T \in SUBSET Tasks /\ \A u \in T : u = t
       /\ \A u \in Tasks \ T : Same(u)
       /\ \A u \in T : Address(u)' /\ (u \in Children => Life(u)')
       /\ \A u \in T : \A m \in Names \ {n} : Steady(u, m)
       BY <1>7, <1>9, <1>10, <1>12
<1>19. Main \in T => /\ pc[Main] \in {"lua", "finding", "signalling"}
                     /\ pc'[Main] # "ended"
  <2>1. t = Main => mode = "shared" BY <1>0
  <2> QED BY <1>2, <1>5, <1>18, <2>1
<1> HIDE DEF T
<1>20. atoms'[n].task = atoms[n].task BY <1>4, <1>5
<1> QED BY <1>5, <1>8, <1>16, <1>17, <1>18, <1>19, <1>20, LockFrame

LEMMA SendByNameKeeps ==
    ASSUME NameInv, NEW t \in Tasks, NEW n \in Names, SendByName(t, n)
    PROVE  NameInv'
<1>1. Shapes BY DEF NameInv
<1>2. /\ pc[t] = "lua" /\ op' = [op EXCEPT ![t].name = n]
      /\ pc' = [pc EXCEPT ![t] = "finding"] /\ LockAtom(t, n, "shared")
      /\ UNCHANGED <<mem, status, name, inits, exits>>
      BY DEF SendByName, Calls, At, Goto, lists
<1>3. op[t] \in [name : Names \cup {NoName, Main}, task : Tasks \cup {NoOne}]
      BY <1>1 DEF Shapes
<1>4. op' = [op EXCEPT ![t] = [op[t] EXCEPT !.name = n]] BY <1>2
<1>5. [op[t] EXCEPT !.name = n] \in [name : Names \cup {NoName, Main},
                                     task : Tasks \cup {NoOne}]
      /\ [op[t] EXCEPT !.name = n].name = n
      BY <1>3
<1>6. /\ op' \in [Tasks -> [name : Names \cup {NoName, Main},
                            task : Tasks \cup {NoOne}]]
      /\ \A u \in Tasks \ {t} : op'[u] = op[u]
      /\ op'[t].name = n
      BY <1>1, <1>4, <1>5 DEF Shapes
<1> QED BY <1>2, <1>6, LockKeeps

LEMMA GiveUpKeeps ==
    ASSUME NameInv, NEW c \in Children, GiveUpName(c)
    PROVE  NameInv'
<1>0. c \in Tasks BY MainApart
<1>1. Shapes /\ Life(c) BY DEF NameInv
<1>2. /\ pc[c] = "closing" /\ pc' = [pc EXCEPT ![c] = "leaving"]
      /\ LockAtom(c, name[c], "excl")
      /\ UNCHANGED <<mem, status, name, op, inits, exits>>
      BY DEF GiveUpName, At, Goto, lua, mail, lists
<1>3. name[c] \in Names BY <1>1, <1>2 DEF Life
<1>4. /\ op' \in [Tasks -> [name : Names \cup {NoName, Main},
                            task : Tasks \cup {NoOne}]]
      /\ \A u \in Tasks \ {c} : op'[u] = op[u]
      BY <1>1, <1>2 DEF Shapes
<1> QED BY <1>0, <1>2, <1>3, <1>4, LockKeeps

\* A waiter that is answered has nothing to do with the other names, and stays
\* where it is.
LEMMA AnsweredSame ==
    ASSUME NameInv, NEW n \in Names, NEW u \in Sharing(n) \cup Outwaiting(n),
           pc'[u] = pc[u], op'[u] = op[u], UNCHANGED <<mem, status, name>>
    PROVE  /\ u \in Tasks /\ Address(u)' /\ (u \in Children => Life(u)')
           /\ \A m \in Names \ {n} : Steady(u, m)
           /\ u \notin Claimers(n)' /\ u \notin Holders(n)
           /\ pc[u] \in {"finding", "leaving"} /\ (u = Main => pc[u] = "finding")
<1>0. Main \notin Children /\ Children \subseteq Tasks /\ NoName \notin Names
      BY MainApart
<1>1. u \in Tasks /\ pc[u] \in {"finding", "leaving"} /\ reply[u] = "none"
      /\ (u = Main => pc[u] = "finding")
      BY <1>0 DEF Sharing, Outwaiting
<1>2. Address(u) /\ (u \in Children => Life(u)) BY <1>1 DEF NameInv
<1>3. Address(u)' /\ (u \in Children => Life(u)')
      BY <1>1, <1>2 DEF Address, Life
<1>4. ASSUME NEW m \in Names \ {n} PROVE Steady(u, m)
  <2>1. u \notin Senders(m) /\ u \notin Senders(m)' /\ u \notin Sharing(m)
        BY <1>0, <1>1, <1>2 DEF Senders, Sharing, Outwaiting
  <2>2. u \notin Leavers(m) /\ u \notin Leavers(m)' /\ u \notin Outwaiting(m)
        BY <1>1 DEF Leavers, Sharing, Outwaiting
  <2>3. u \notin Claimers(m) /\ u \notin Claimers(m)' BY <1>1 DEF Claimers
  <2>4. u \in Bearers(m)' <=> u \in Bearers(m) BY <1>1 DEF Bearers
  <2> QED BY <2>1, <2>2, <2>3, <2>4 DEF Steady
<1>5. u \notin Claimers(n)' BY <1>1 DEF Claimers
<1>6. u \notin Holders(n)
      BY <1>1, <1>2 DEF Holders, Only, Claimers, Leavers, Senders
<1> QED BY <1>1, <1>3, <1>4, <1>5, <1>6

\* The only holder of an atom unlocks it.
Unlocks(n, h, a) ==
    /\ atoms' = [atoms EXCEPT ![n] = Released(a)]
    /\ reply' = [u \in Tasks |-> IF u \in TasksOf(Restarted(a.waiters))
                                 THEN "yes" ELSE reply[u]]
    /\ a \in Atom /\ a.waiters = atoms[n].waiters
    /\ a.task \in Children /\ Bearers(n)' = {a.task}
    /\ pc' = [pc EXCEPT ![h] = pc'[h]] /\ pc'[h] \notin {"ended", "dead"}
    /\ op' \in [Tasks -> [name : Names \cup {NoName, Main},
                          task : Tasks \cup {NoOne}]]
    /\ \A u \in Tasks \ {h} : op'[u] = op[u]
    /\ UNCHANGED <<mem, status, name, inits, exits>>
    /\ Address(h)' /\ (h \in Children => Life(h)')
    /\ h = Main => pc[h] \in {"lua", "finding", "signalling"}
    /\ Holders(n) = {h} /\ h \notin Holders(n)'
    /\ \A m \in Names \ {n} : Steady(h, m)

LEMMA ReleaseKeeps ==
    ASSUME NameInv, NEW n \in Names, NEW h \in Tasks, NEW a, Unlocks(n, h, a)
    PROVE  NameInv'
<1>0. Main \in Tasks /\ Main \notin Children /\ Children \subseteq Tasks
      /\ NoOne \notin Children
      BY MainApart
<1>1. Shapes /\ Counted(n) /\ Named(n) BY DEF NameInv
<1> DEFINE b == Released(a)
           WS == Sharing(n)
           WE == Outwaiting(n)
           G == TasksOf(Restarted(a.waiters))
<1>u. /\ atoms' = [atoms EXCEPT ![n] = Released(a)]
      /\ reply' = [u \in Tasks |-> IF u \in G THEN "yes" ELSE reply[u]]
      /\ a \in Atom /\ a.waiters = atoms[n].waiters
      /\ a.task \in Children /\ Bearers(n)' = {a.task}
      /\ pc' = [pc EXCEPT ![h] = pc'[h]] /\ pc'[h] \notin {"ended", "dead"}
      /\ op' \in [Tasks -> [name : Names \cup {NoName, Main},
                            task : Tasks \cup {NoOne}]]
      /\ \A u \in Tasks \ {h} : op'[u] = op[u]
      /\ UNCHANGED <<mem, status, name, inits, exits>>
      /\ Address(h)' /\ (h \in Children => Life(h)')
      /\ h = Main => pc[h] \in {"lua", "finding", "signalling"}
      /\ Holders(n) = {h} /\ h \notin Holders(n)'
      /\ \A m \in Names \ {n} : Steady(h, m)
      BY DEF Unlocks
<1>2. /\ b.task = a.task /\ b.mode # "absent" /\ G \subseteq WS \cup WE
      /\ \/ /\ G \subseteq WS
            /\ LockOK(b, {}, {}, G, WS \ G, WE \ G)
         \/ /\ G \subseteq WE
            /\ LockOK(b, G, G, G, WS \ G, WE \ G)
  <2>1. Queued(a, WS, WE) BY <1>1, <1>u DEF Counted, LockOK, Queued
  <2> HIDE DEF WS, WE, b
  <2>2. Passed(a, b, G, WS, WE) BY <1>u, <2>1, ReleaseOK DEF b
  <2> QED BY <2>2 DEF Passed
<1>3. atoms'[n] = b /\ \A m \in Names \ {n} : atoms'[m] = atoms[m]
      BY <1>1, <1>u DEF Shapes
<1>4. \A u \in Tasks \ {h} : pc'[u] = pc[u] BY <1>1, <1>u DEF Shapes
<1>5. /\ h \in Holders(n) /\ Holders(n) \subseteq Tasks
      /\ \A u \in Tasks : reply'[u] = IF u \in G THEN "yes" ELSE reply[u]
      BY <1>0, <1>u DEF Holders, Only, Claimers, Leavers, Senders
<1>h. h \notin WS \cup WE
      BY <1>5 DEF Holders, Only, Claimers, Leavers, Senders, Sharing, Outwaiting
<1> HIDE DEF b, G
<1>6. ASSUME NEW u \in G
      PROVE  /\ u \in Tasks /\ u # h /\ Address(u)' /\ (u \in Children => Life(u)')
             /\ \A m \in Names \ {n} : Steady(u, m)
             /\ u \notin Claimers(n)' /\ pc'[u] = pc[u] /\ op'[u] = op[u]
             /\ pc[u] \in {"finding", "leaving"} /\ (u = Main => pc[u] = "finding")
  <2>1. u \in WS \cup WE /\ u # h BY <1>2, <1>h
  <2>2. u \in Tasks BY <1>0, <2>1 DEF Sharing, Outwaiting
  <2>3. pc'[u] = pc[u] /\ op'[u] = op[u] BY <1>4, <1>u, <2>1, <2>2
  <2> QED BY <1>u, <2>1, <2>2, <2>3, AnsweredSame
<1>7. ASSUME NEW u \in Tasks, u # h, u \notin G PROVE Same(u)
      BY <1>4, <1>5, <1>7, <1>u DEF Same
<1>8. ASSUME NEW u \in Tasks
      PROVE  /\ u \in Senders(n)' <=> u \in G \cap WS
             /\ u \in Leavers(n)' <=> u \in G \cap WE
             /\ u \notin Claimers(n)'
             /\ u \in WS \ G => u \in Sharing(n)'
             /\ u \in WE \ G => u \in Outwaiting(n)'
  <2>1. CASE u = h
    <3>1. /\ u \notin G /\ u \notin WS /\ u \notin WE BY <1>2, <1>h, <2>1
    <3>2. /\ u \notin Senders(n)' /\ u \notin Leavers(n)' /\ u \notin Claimers(n)'
          BY <1>u, <2>1 DEF Holders, Only
    <3> QED BY <3>1, <3>2
  <2>2. CASE u \in G
    <3>1. /\ pc'[u] = pc[u] /\ op'[u] = op[u] /\ u \notin Claimers(n)'
          /\ reply'[u] = "yes" /\ u \in WS \cup WE /\ name' = name
          BY <1>2, <1>5, <1>6, <1>u, <2>2
    <3>2. CASE u \in WS
      <4>1. pc[u] = "finding" /\ op[u].name = n BY <3>2 DEF Sharing
      <4>2. u \notin WE /\ u \in Senders(n)' /\ u \notin Leavers(n)'
            BY <3>1, <4>1 DEF Outwaiting, Senders, Leavers
      <4> QED BY <2>2, <3>1, <3>2, <4>2
    <3>3. CASE u \in WE
      <4>1. u \in Children /\ pc[u] = "leaving" /\ name[u] = n
            BY <3>3 DEF Outwaiting
      <4>2. u \notin WS /\ u \notin Senders(n)' /\ u \in Leavers(n)'
            BY <3>1, <4>1 DEF Sharing, Senders, Leavers
      <4> QED BY <2>2, <3>1, <3>3, <4>2
    <3> QED BY <3>1, <3>2, <3>3
  <2>3. CASE u # h /\ u \notin G
    <3>1. Steady(u, n) BY <1>7, <2>3, SameSteady
    <3>2. u \notin Holders(n) BY <1>u, <2>3
    <3>3. u \notin Senders(n) /\ u \notin Leavers(n) /\ u \notin Claimers(n)
          BY <3>2 DEF Holders, Only
    <3> QED BY <2>3, <3>1, <3>3 DEF Steady
  <2> QED BY <2>1, <2>2, <2>3
<1>9. /\ Senders(n)' \subseteq Tasks /\ Leavers(n)' \subseteq Tasks
      /\ Claimers(n)' \subseteq Tasks /\ WS \subseteq Tasks /\ WE \subseteq Tasks
      BY <1>0 DEF Senders, Leavers, Claimers, Sharing, Outwaiting
<1>10. /\ Senders(n)' = G \cap WS /\ Leavers(n)' = G \cap WE /\ Claimers(n)' = {}
       /\ WS \ G \subseteq Sharing(n)' /\ WE \ G \subseteq Outwaiting(n)'
       BY <1>8, <1>9
<1>11. WS \cap WE = {} BY DEF Sharing, Outwaiting
<1>12. /\ Only(n)' = G \cap WE /\ Holders(n)' = (G \cap WE) \cup (G \cap WS)
       BY <1>10 DEF Only, Holders
<1> HIDE DEF WS, WE
<1>13. Counted(n)'
  <2>1. CASE G \subseteq WS /\ LockOK(b, {}, {}, G, WS \ G, WE \ G)
    <3>1. G \cap WE = {} /\ G \cap WS = G BY <1>11, <2>1
    <3>2. Only(n)' = {} /\ Leavers(n)' = {} /\ Holders(n)' = G
          BY <1>10, <1>12, <3>1
    <3>3. LockOK(b, Only(n)', Leavers(n)', Holders(n)', WS \ G, WE \ G)
          BY <2>1, <3>2
    <3>4. LockOK(b, Only(n)', Leavers(n)', Holders(n)', Sharing(n)', Outwaiting(n)')
          BY <1>10, <3>3, MoreWaiting
    <3> QED BY <1>3, <3>4 DEF Counted
  <2>2. CASE G \subseteq WE /\ LockOK(b, G, G, G, WS \ G, WE \ G)
    <3>1. G \cap WS = {} /\ G \cap WE = G BY <1>11, <2>2
    <3>2. Only(n)' = G /\ Leavers(n)' = G /\ Holders(n)' = G
          BY <1>10, <1>12, <3>1
    <3>3. LockOK(b, Only(n)', Leavers(n)', Holders(n)', WS \ G, WE \ G)
          BY <2>2, <3>2
    <3>4. LockOK(b, Only(n)', Leavers(n)', Holders(n)', Sharing(n)', Outwaiting(n)')
          BY <1>10, <3>3, MoreWaiting
    <3> QED BY <1>3, <3>4 DEF Counted
  <2> QED BY <1>2, <2>1, <2>2
<1>14. Named(n)' BY <1>0, <1>2, <1>3, <1>10, <1>u DEF Named
<1>15. Shapes'
  <2>1. (pc = [u \in Tasks |-> pc[u]])' BY <1>1, <1>u DEF Shapes
  <2>2. (reply \in [Tasks -> {"none", "yes", "no"}])' BY <1>1, <1>u DEF Shapes
  <2>3. (atoms = [k \in Names |-> atoms[k]])' BY <1>1, <1>u DEF Shapes
  <2> QED BY <1>1, <1>u, <2>1, <2>2, <2>3 DEF Shapes
<1> DEFINE T == {h} \cup G
<1>16. /\ T \in SUBSET Tasks /\ \A u \in Tasks \ T : Same(u)
       /\ \A u \in T : Address(u)' /\ (u \in Children => Life(u)')
       /\ \A u \in T : \A m \in Names \ {n} : Steady(u, m)
       /\ Main \in T => /\ pc[Main] \in {"lua", "finding", "signalling"}
                        /\ pc'[Main] # "ended"
       BY <1>4, <1>6, <1>7, <1>u
<1>17. Senders(n) \subseteq T BY <1>u DEF Holders
<1> HIDE DEF T
<1> QED BY <1>3, <1>13, <1>14, <1>15, <1>16, <1>17, <1>u, LockFrame

\* The name is claimed: the task that claimed it now bears it.
LEMMA ClaimedKeeps ==
    ASSUME NameInv, NEW c \in Children, NameClaimed(c)
    PROVE  NameInv'
<1>0. c \in Tasks /\ c # Main /\ c # NoOne BY MainApart
<1>1. Shapes /\ Life(c) /\ Address(c) BY <1>0 DEF NameInv
<1>2. /\ pc[c] = "claiming" /\ reply[c] = "yes"
      /\ pc' = [pc EXCEPT ![c] = "named"]
      /\ UNCHANGED <<mem, status, name, op, inits, exits>>
      BY DEF NameClaimed, At, Granted, Goto, lua, mail, lists
<1>3. PICK n \in Names : n = name[c] BY <1>1, <1>2 DEF Life
<1> DEFINE a == [atoms[n] EXCEPT !.task = c]
           G == TasksOf(Restarted(a.waiters))
<1>4. /\ atoms' = [atoms EXCEPT ![n] = Released(a)]
      /\ reply' = [u \in Tasks |-> IF u \in G THEN "yes" ELSE reply[u]]
      BY <1>3 DEF NameClaimed, Answer
<1>5. Counted(n) /\ Named(n) BY DEF NameInv
<1>6. atoms[n] \in Atom BY <1>5 DEF Counted, LockOK
<1>7. a \in Atom /\ a.waiters = atoms[n].waiters /\ a.task = c BY <1>6 DEF Atom
<1>8. c \in Claimers(n) /\ c \in Only(n) BY <1>2, <1>3 DEF Claimers, Only
<1>9. Holders(n) = {c} BY <1>8, AloneHolds
<1>10. atoms[n].task = NoOne /\ Bearers(n) = {}
  <2>1. atoms[n].task = NoOne BY <1>5, <1>8 DEF Named
  <2>2. \A d \in Children : d \notin Bearers(n)
        BY <1>5, <2>1, MainApart DEF Named
  <2> QED BY <2>1, <2>2 DEF Bearers
<1>11. pc'[c] = "named" /\ \A u \in Tasks \ {c} : pc'[u] = pc[u]
       BY <1>0, <1>1, <1>2 DEF Shapes
<1>12. Bearers(n)' = {c}
  <2>1. status[c] # "failed" BY <1>1, <1>2 DEF Life
  <2>2. c \in Bearers(n)' BY <1>2, <1>3, <1>11, <2>1 DEF Bearers, Unnamed
  <2>3. \A d \in Children \ {c} : d \notin Bearers(n)'
    <3>1. \A d \in Children \ {c} : d \in Tasks \ {c} BY MainApart
    <3>2. \A d \in Children \ {c} : d \notin Bearers(n) BY <1>10
    <3> QED BY <1>2, <1>11, <3>1, <3>2 DEF Bearers
  <2> QED BY <2>2, <2>3 DEF Bearers
<1>13. Address(c)' /\ Life(c)' BY <1>1, <1>2, <1>11 DEF Address, Life
<1>14. c \notin Holders(n)'
       BY <1>11 DEF Holders, Only, Claimers, Leavers, Senders
<1>15. \A m \in Names \ {n} : Steady(c, m)
       BY <1>2, <1>3, <1>11 DEF Steady, Claimers, Leavers, Senders, Bearers,
                                Sharing, Outwaiting
<1>16. /\ op' \in [Tasks -> [name : Names \cup {NoName, Main},
                             task : Tasks \cup {NoOne}]]
       /\ \A u \in Tasks \ {c} : op'[u] = op[u]
       BY <1>1, <1>2 DEF Shapes
<1>18. a.task \in Children /\ Bearers(n)' = {a.task} BY <1>7, <1>12
<1>19. pc' = [pc EXCEPT ![c] = pc'[c]] /\ pc'[c] \notin {"ended", "dead"}
       BY <1>2, <1>11
<1> HIDE DEF a
<1>20. Unlocks(n, c, a)
       BY <1>0, <1>2, <1>4, <1>7, <1>9, <1>13, <1>14, <1>15, <1>16, <1>18, <1>19
          DEF Unlocks
<1> QED BY <1>0, <1>20, ReleaseKeeps

\* The message is signalled, and the name unlocked with which its task was found.
LEMMA SignalledKeeps ==
    ASSUME NameInv, NEW t \in Tasks, PutSignal(t)
    PROVE  NameInv'
<1>0. Main \in Tasks /\ Main \notin Children /\ NoName \notin Names
      /\ NoOne \notin Children
      BY MainApart
<1>1. Shapes /\ Parent /\ Address(t) /\ (t \in Children => Life(t)) BY DEF NameInv
<1>2. /\ pc[t] = "signalling" /\ pc' = [pc EXCEPT ![t] = "lua"]
      /\ op' = [op EXCEPT ![t] = Idle]
      /\ UNCHANGED <<mem, status, name, inits, exits>>
      /\ IF op[t].name = NoName THEN UNCHANGED <<atoms, reply>>
                                ELSE UnlockAtom(op[t].name)
      BY DEF PutSignal, At, Goto, lua, locks, lists
<1>3. /\ Idle.name = NoName
      /\ Idle \in [name : Names \cup {NoName, Main}, task : Tasks \cup {NoOne}]
      BY DEF Idle
<1>4. /\ pc'[t] = "lua" /\ op'[t] = Idle
      /\ \A u \in Tasks \ {t} : pc'[u] = pc[u] /\ op'[u] = op[u]
      /\ op' \in [Tasks -> [name : Names \cup {NoName, Main},
                            task : Tasks \cup {NoOne}]]
      BY <1>1, <1>2, <1>3 DEF Shapes
<1>5. Address(t)' BY <1>3, <1>4 DEF Address
<1>6. t \in Children => Life(t)' BY <1>1, <1>2, <1>4 DEF Life
<1>7. ASSUME NEW m \in Names, op[t].name # m PROVE Steady(t, m)
  <2>1. /\ t \notin Senders(m) /\ t \notin Senders(m)' /\ t \notin Sharing(m)
        BY <1>0, <1>2, <1>3, <1>4, <1>7 DEF Senders, Sharing
  <2>2. /\ t \notin Claimers(m) /\ t \notin Claimers(m)' /\ t \notin Outwaiting(m)
        /\ t \notin Leavers(m) /\ t \notin Leavers(m)'
        BY <1>2, <1>4 DEF Claimers, Leavers, Outwaiting
  <2>3. t \in Bearers(m)' <=> t \in Bearers(m) BY <1>2, <1>4 DEF Bearers, Unnamed
  <2> QED BY <2>1, <2>2, <2>3 DEF Steady
<1>8. CASE op[t].name = NoName
  <2>1. UNCHANGED <<atoms, reply>> BY <1>2, <1>8
  <2>2. \A m \in Names : Steady(t, m) BY <1>0, <1>7, <1>8
  <2>3. t = Main => Parent'
    <3>1. t = Main => inits = {} /\ exits = {} BY <1>1, <1>2 DEF Parent
    <3> QED BY <1>1, <1>2, <1>4, <2>1, <3>1, ParentHolds
  <2>4. /\ pc' = [pc EXCEPT ![t] = pc'[t]]
        /\ op'[t] \in [name : Names \cup {NoName, Main}, task : Tasks \cup {NoOne}]
        /\ op' = [u \in Tasks |-> op'[u]]
        /\ \A c \in Children \ {t} : status'[c] = status[c]
        /\ status' = [c \in Children |-> status'[c]]
        BY <1>1, <1>2, <1>3, <1>4 DEF Shapes
  <2> QED BY <1>2, <1>4, <1>5, <1>6, <2>1, <2>2, <2>3, <2>4, MoveKeeps
<1>9. CASE op[t].name # NoName
  <2>1. PICK n \in Names : n = op[t].name BY <1>1, <1>2, <1>9 DEF Address
  <2>2. Counted(n) /\ Named(n) BY DEF NameInv
  <2>3. /\ t \in Senders(n) /\ t \in Holders(n)
        /\ LockOK(atoms[n], Only(n), Leavers(n), Holders(n), Sharing(n),
                  Outwaiting(n))
        /\ t \notin Claimers(n) /\ t \notin Leavers(n)
        /\ t \notin Sharing(n) /\ t \notin Outwaiting(n)
        BY <1>2, <2>1, <2>2 DEF Senders, Holders, Counted, Claimers, Leavers,
                                Sharing, Outwaiting
  <2>4. atoms[n] \in Atom BY <2>3 DEF LockOK
  <2>5. \A m \in Names \ {n} : Steady(t, m) BY <1>7, <2>1
  <2>6. /\ t \notin Senders(n)' /\ t \notin Leavers(n)' /\ t \notin Claimers(n)'
        /\ t \notin Holders(n)'
        BY <1>4 DEF Senders, Leavers, Claimers, Holders, Only
  <2>7. t \in Bearers(n)' <=> t \in Bearers(n) BY <1>2, <1>4 DEF Bearers, Unnamed
  <2>8. atoms[n].task = op[t].task /\ op[t].task # NoOne
        BY <1>1, <1>2, <2>1 DEF Address
  <2>9. CASE /\ atoms[n].nest > 1
             /\ atoms' = [atoms EXCEPT ![n].nest = @ - 1]
             /\ UNCHANGED reply
    <3> DEFINE b == [atoms[n] EXCEPT !.nest = @ - 1]
    <3>1. atoms' = [atoms EXCEPT ![n] = b] BY <2>9
    <3>2. atoms'[n] = b /\ \A m \in Names \ {n} : atoms'[m] = atoms[m]
          BY <1>1, <3>1 DEF Shapes
    <3>3. b.task = atoms[n].task /\ b.mode = atoms[n].mode BY <2>4 DEF Atom
    <3>4. b = [atoms[n] EXCEPT !.nest = @ - 1] OBVIOUS
    <3> HIDE DEF b
    <3>5. LockOK(b, Only(n), Leavers(n), Holders(n) \ {t}, Sharing(n),
                 Outwaiting(n))
          BY <2>3, <2>9, <3>4, CountDownOK
    <3>6. \A u \in Tasks \ {t} : Same(u) BY <1>2, <1>4, <2>9 DEF Same
    <3>7. /\ Claimers(n)' \ {t} = Claimers(n) \ {t}
          /\ Leavers(n)' \ {t} = Leavers(n) \ {t}
          /\ Senders(n)' \ {t} = Senders(n) \ {t}
          /\ Bearers(n)' \ {t} = Bearers(n) \ {t}
          /\ Sharing(n) \ {t} \subseteq Sharing(n)'
          /\ Outwaiting(n) \ {t} \subseteq Outwaiting(n)'
          BY <3>6, MoverSets
    <3>8. Claimers(n)' = Claimers(n) /\ Leavers(n)' = Leavers(n)
          BY <2>3, <2>6, <3>7, ButOne
    <3>9. Bearers(n)' = Bearers(n) BY <2>7, <3>7, ButOne
    <3>10. Senders(n)' = Senders(n) \ {t}
      <4>1. Senders(n)' \ {t} = Senders(n)' BY <2>6
      <4> QED BY <3>7, <4>1
    <3>11. Sharing(n) \subseteq Sharing(n)' /\ Outwaiting(n) \subseteq Outwaiting(n)'
           BY <2>3, <3>7, NotOne
    <3>12. Only(n)' = Only(n) /\ Holders(n)' = Holders(n) \ {t}
           BY <2>3, <3>8, <3>10 DEF Only, Holders
    <3>13. LockOK(b, Only(n)', Leavers(n)', Holders(n)', Sharing(n)',
                  Outwaiting(n)')
           BY <3>5, <3>8, <3>11, <3>12, MoreWaiting
    <3>14. Counted(n)' BY <3>2, <3>13 DEF Counted
    <3>15. Named(n)' BY <2>2, <3>2, <3>3, <3>8, <3>9 DEF Named
    <3>16. Shapes'
      <4>1. (pc = [u \in Tasks |-> pc[u]])' BY <1>1, <1>2 DEF Shapes
      <4>2. (atoms = [k \in Names |-> atoms[k]])' BY <1>1, <3>1 DEF Shapes
      <4> QED BY <1>1, <1>2, <1>4, <2>9, <4>1, <4>2 DEF Shapes
    <3> DEFINE T == {t}
    <3>17. /\ T \in SUBSET Tasks /\ \A u \in Tasks \ T : Same(u)
           /\ \A u \in T : Address(u)' /\ (u \in Children => Life(u)')
           /\ \A u \in T : \A m \in Names \ {n} : Steady(u, m)
           /\ Main \in T => /\ pc[Main] \in {"lua", "finding", "signalling"}
                            /\ pc'[Main] # "ended"
           BY <1>2, <1>4, <1>5, <1>6, <2>5, <3>6
    <3> HIDE DEF T
    <3> QED BY <1>2, <3>2, <3>3, <3>14, <3>15, <3>16, <3>17, LockFrame
  <2>10. CASE /\ atoms[n].nest = 1
              /\ atoms' = [atoms EXCEPT ![n] = Released(@)]
              /\ Answer(TasksOf(Restarted(atoms[n].waiters)), "yes")
    <3> DEFINE a == atoms[n]
               G == TasksOf(Restarted(a.waiters))
    <3>1. /\ atoms' = [atoms EXCEPT ![n] = Released(a)]
          /\ reply' = [u \in Tasks |-> IF u \in G THEN "yes" ELSE reply[u]]
          BY <2>10 DEF Answer
    <3>2. Holders(n) = {t}
      <4>1. IsFiniteSet(Holders(n)) /\ Cardinality(Holders(n)) = 1
            BY <2>3, <2>10 DEF LockOK
      <4> QED BY <2>3, <4>1, OneHolder
    <3>3. a.task \in Children BY <2>4, <2>8 DEF Atom
    <3>4. Bearers(n)' = {a.task}
      <4>1. \A d \in Children : d \in Bearers(n)' <=> d \in Bearers(n)
        <5>1. \A d \in Children \ {t} : pc'[d] = pc[d] BY <1>4, MainApart
        <5>2. \A d \in Children \ {t} : d \in Bearers(n)' <=> d \in Bearers(n)
              BY <1>2, <5>1 DEF Bearers
        <5> QED BY <2>7, <5>2
      <4>2. \A d \in Children : d \in Bearers(n) <=> d = a.task
            BY <2>2 DEF Named
      <4>3. Bearers(n)' \subseteq Children BY DEF Bearers
      <4> QED BY <3>3, <4>1, <4>2, <4>3
    <3>5. /\ a \in Atom /\ a.waiters = atoms[n].waiters
          /\ pc' = [pc EXCEPT ![t] = pc'[t]] /\ pc'[t] \notin {"ended", "dead"}
          BY <1>2, <1>4, <2>4
    <3> HIDE DEF a
    <3>6. Unlocks(n, t, a)
          BY <1>2, <1>4, <1>5, <1>6, <2>5, <2>6, <3>1, <3>2, <3>3, <3>4, <3>5
             DEF Unlocks
    <3> QED BY <3>6, ReleaseKeeps
  <2>11. UnlockAtom(n) BY <1>2, <1>9, <2>1
  <2> QED BY <2>9, <2>10, <2>11 DEF UnlockAtom
<1> QED BY <1>8, <1>9

\* The name is given up: whoever waits for it is turned away.
LEMMA DropKeeps ==
    ASSUME NameInv, NEW c \in Children, DropName(c)
    PROVE  NameInv'
<1>0. c \in Tasks /\ c # Main /\ c # NoOne /\ Children \subseteq Tasks
      /\ Main \in Tasks
      BY MainApart
<1>1. Shapes /\ Life(c) /\ Address(c) BY <1>0 DEF NameInv
<1>2. /\ pc[c] = "leaving" /\ reply[c] = "yes"
      /\ pc' = [pc EXCEPT ![c] = "unnamed"]
      /\ UNCHANGED <<mem, status, name, op, inits, exits>>
      BY DEF DropName, At, Granted, Goto, lua, mail, lists
<1>3. PICK n \in Names : n = name[c] BY <1>1, <1>2 DEF Life
<1> DEFINE G == TasksOf(atoms[n].waiters)
<1>4. /\ atoms' = [atoms EXCEPT ![n] = NoAtom]
      /\ reply' = [u \in Tasks |-> IF u \in G THEN "no" ELSE reply[u]]
      BY <1>3 DEF DropName, DestroyAtom, Answer
<1>5. Counted(n) /\ Named(n) BY DEF NameInv
<1>6. G \subseteq Sharing(n) \cup Outwaiting(n)
  <2>1. \A i \in 1..Len(atoms[n].waiters) :
           atoms[n].waiters[i].task \in Sharing(n) \cup Outwaiting(n)
        BY <1>5 DEF Counted, LockOK
  <2> QED BY <2>1 DEF TasksOf
<1>7. c \in Leavers(n) /\ c \in Only(n) BY <1>2, <1>3 DEF Leavers, Only
<1>8. Holders(n) = {c} BY <1>7, AloneHolds
<1>9. Bearers(n) = {c}
  <2>1. status[c] # "failed" BY <1>1, <1>2 DEF Life
  <2>2. c \in Bearers(n) BY <1>2, <1>3, <2>1 DEF Bearers, Unnamed
  <2>3. \A d \in Children : d \in Bearers(n) => d = c BY <1>5, <2>2 DEF Named
  <2> QED BY <2>2, <2>3 DEF Bearers
<1>10. pc'[c] = "unnamed" /\ \A u \in Tasks \ {c} : pc'[u] = pc[u]
       BY <1>0, <1>1, <1>2 DEF Shapes
<1>11. /\ atoms'[n] = NoAtom /\ \A m \in Names \ {n} : atoms'[m] = atoms[m]
       /\ \A u \in Tasks : reply'[u] = IF u \in G THEN "no" ELSE reply[u]
       BY <1>1, <1>4 DEF Shapes
<1> HIDE DEF G
<1>12. c \notin Sharing(n) \cup Outwaiting(n) BY <1>2 DEF Sharing, Outwaiting
<1>13. ASSUME NEW u \in G
       PROVE  /\ u \in Tasks /\ u # c /\ Address(u)' /\ (u \in Children => Life(u)')
              /\ \A m \in Names \ {n} : Steady(u, m)
              /\ u \notin Claimers(n)' /\ pc'[u] = pc[u] /\ op'[u] = op[u]
              /\ pc[u] \in {"finding", "leaving"} /\ (u = Main => pc[u] = "finding")
  <2>1. u \in Sharing(n) \cup Outwaiting(n) /\ u # c BY <1>6, <1>12
  <2>2. u \in Tasks BY <1>0, <2>1 DEF Sharing, Outwaiting
  <2>3. pc'[u] = pc[u] /\ op'[u] = op[u] BY <1>2, <1>10, <2>1, <2>2
  <2> QED BY <1>2, <2>1, <2>2, <2>3, AnsweredSame
<1>14. ASSUME NEW u \in Tasks, u # c, u \notin G PROVE Same(u)
       BY <1>2, <1>10, <1>11, <1>14 DEF Same
<1>15. ASSUME NEW u \in Tasks
       PROVE  /\ u \notin Senders(n)' /\ u \notin Leavers(n)'
              /\ u \notin Claimers(n)' /\ u \notin Bearers(n)'
  <2>1. CASE u = c
        BY <1>10, <2>1 DEF Senders, Leavers, Claimers, Bearers, Unnamed
  <2>2. CASE u \in G
    <3>1. /\ pc'[u] \in {"finding", "leaving"} /\ reply'[u] = "no"
          /\ u \notin Claimers(n)' /\ u # c /\ pc'[u] = pc[u]
          BY <1>11, <1>13, <2>2
    <3>2. u \notin Bearers(n) BY <1>9, <3>1
    <3>3. u \notin Bearers(n)' BY <1>2, <3>1, <3>2 DEF Bearers
    <3> QED BY <3>1, <3>3 DEF Senders, Leavers
  <2>3. CASE u # c /\ u \notin G
    <3>1. Steady(u, n) BY <1>14, <2>3, SameSteady
    <3>2. u \notin Holders(n) /\ u \notin Bearers(n) BY <1>8, <1>9, <2>3
    <3>3. u \notin Senders(n) /\ u \notin Leavers(n) /\ u \notin Claimers(n)
          BY <3>2 DEF Holders, Only
    <3> QED BY <3>1, <3>2, <3>3 DEF Steady
  <2> QED BY <2>1, <2>2, <2>3
<1>16. /\ Senders(n)' = {} /\ Leavers(n)' = {} /\ Claimers(n)' = {}
       /\ Bearers(n)' = {}
  <2>1. /\ Senders(n)' \subseteq Tasks /\ Leavers(n)' \subseteq Tasks
        /\ Claimers(n)' \subseteq Tasks /\ Bearers(n)' \subseteq Tasks
        BY <1>0 DEF Senders, Leavers, Claimers, Bearers
  <2> QED BY <1>15, <2>1
<1>17. Only(n)' = {} /\ Holders(n)' = {} BY <1>16 DEF Only, Holders
<1>18. Counted(n)'
  <2>1. LockOK(NoAtom, {}, {}, {}, Sharing(n)', Outwaiting(n)') BY DestroyOK
  <2> QED BY <1>11, <1>16, <1>17, <2>1 DEF Counted
<1>19. Named(n)'
  <2>1. NoAtom.task = NoOne /\ NoAtom.mode = "absent" BY DEF NoAtom
  <2> QED BY <1>11, <1>16, <2>1, MainApart DEF Named
<1>20. Shapes'
  <2>1. (pc = [u \in Tasks |-> pc[u]])' BY <1>1, <1>2 DEF Shapes
  <2>2. (reply \in [Tasks -> {"none", "yes", "no"}])' BY <1>1, <1>4 DEF Shapes
  <2>3. (atoms = [k \in Names |-> atoms[k]])' BY <1>1, <1>4 DEF Shapes
  <2> QED BY <1>1, <1>2, <2>1, <2>2, <2>3 DEF Shapes
<1>21. Address(c)' /\ Life(c)' BY <1>1, <1>2, <1>10 DEF Address, Life
<1>22. \A m \in Names \ {n} : Steady(c, m)
  <2> TAKE m \in Names \ {n}
  <2>1. /\ c \notin Senders(m) /\ c \notin Senders(m)' /\ c \notin Sharing(m)
        /\ c \notin Claimers(m) /\ c \notin Claimers(m)'
        BY <1>2, <1>10 DEF Senders, Sharing, Claimers
  <2>2. /\ c \notin Leavers(m) /\ c \notin Leavers(m)' /\ c \notin Outwaiting(m)
        /\ c \notin Bearers(m) /\ c \notin Bearers(m)'
        BY <1>2, <1>3, <1>10 DEF Leavers, Outwaiting, Bearers
  <2> QED BY <2>1, <2>2 DEF Steady
<1> DEFINE T == {c} \cup G
<1>23. /\ T \in SUBSET Tasks /\ \A u \in Tasks \ T : Same(u)
       /\ \A u \in T : Address(u)' /\ (u \in Children => Life(u)')
       /\ \A u \in T : \A m \in Names \ {n} : Steady(u, m)
  <2>1. \A u \in T : u = c \/ u \in G OBVIOUS
  <2> HIDE DEF T
  <2>2. \A u \in T : Address(u)' /\ (u \in Children => Life(u)')
        BY <1>13, <1>21, <2>1
  <2>3. \A u \in T : \A m \in Names \ {n} : Steady(u, m) BY <1>13, <1>22, <2>1
  <2>4. T \in SUBSET Tasks BY <1>0, <1>13, <2>1
  <2>5. \A u \in Tasks \ T : Same(u) BY <1>14 DEF T
  <2> QED BY <2>2, <2>3, <2>4, <2>5
<1>24. Main \in T => /\ pc[Main] \in {"lua", "finding", "signalling"}
                     /\ pc'[Main] # "ended"
       BY <1>0, <1>10, <1>13
<1>25. Senders(n) \subseteq T BY <1>8 DEF Holders
<1> HIDE DEF T
<1> QED BY <1>2, <1>11, <1>18, <1>19, <1>20, <1>23, <1>24, <1>25, LockFrame
-----------------------------------------------------------------------------
(* The invariant is kept, and says what the runs check. *)

LEMMA NameInit == Init => NameInv
<1> SUFFICES ASSUME Init PROVE NameInv OBVIOUS
<1>0. Main \in Tasks /\ Main \notin Children /\ Main # NoOne /\ Main # NoName
      /\ NoOne \notin Children
      BY MainApart
<1>1. \A t \in Tasks : /\ pc[t] = (IF t = Main THEN "lua" ELSE "none")
                       /\ op[t] = Idle /\ reply[t] = "none"
      BY DEF Init
<1>2. \A c \in Children : pc[c] = "none" /\ mem[c] = "absent" /\ status[c] = "none"
      BY <1>0, <1>1, MainApart DEF Init
<1>3. Idle \in [name : Names \cup {NoName, Main}, task : Tasks \cup {NoOne}]
      /\ Idle.name = NoName
      BY DEF Idle
<1>4. Shapes BY <1>3 DEF Init, Shapes
<1>5. Parent BY <1>0, <1>1 DEF Init, Parent
<1>6. \A c \in Children : Life(c) BY <1>2 DEF Life
<1>7. \A t \in Tasks : Address(t) BY <1>1, <1>3 DEF Address
<1>8. ASSUME NEW n \in Names PROVE Counted(n) /\ Named(n)
  <2>1. Claimers(n) = {} /\ Leavers(n) = {} /\ Bearers(n) = {}
        BY <1>2 DEF Claimers, Leavers, Bearers, Unnamed
  <2>2. Senders(n) = {} BY <1>1 DEF Senders
  <2>3. Only(n) = {} /\ Holders(n) = {} BY <2>1, <2>2 DEF Only, Holders
  <2>4. atoms[n] = NoAtom BY DEF Init
  <2>5. LockOK(NoAtom, {}, {}, {}, Sharing(n), Outwaiting(n)) BY DestroyOK
  <2>6. NoAtom.task = NoOne /\ NoAtom.mode = "absent" BY DEF NoAtom
  <2>7. Counted(n) BY <2>1, <2>3, <2>4, <2>5 DEF Counted
  <2>8. Named(n) BY <1>0, <2>1, <2>4, <2>6 DEF Named
  <2> QED BY <2>7, <2>8
<1> QED BY <1>4, <1>5, <1>6, <1>7, <1>8 DEF NameInv

LEMMA NameStep == NameInv /\ [Next]_vars => NameInv'
<1> SUFFICES ASSUME NameInv, [Next]_vars PROVE NameInv' OBVIOUS
<1>m. Main \in Tasks /\ Children \subseteq Tasks BY MainApart
<1>1. ASSUME NEW t \in Tasks, MessageStep(t) PROVE NameInv'
      BY <1>1, NobodyKeeps, FoundKeeps, SignalledKeeps DEF MessageStep
<1>2. ASSUME NEW c \in Children, ChildStep(c) PROVE NameInv'
      BY <1>1, <1>2, <1>m, ClaimKeeps, ClaimedKeeps, ChildQuiet, GiveUpKeeps,
         DropKeeps
         DEF ChildStep
<1>3. ASSUME NEW c \in Children, Collect(c) PROVE NameInv'
      BY <1>3, SigJoinKeeps DEF Collect, At
<1>4. CASE MainStep
      BY <1>1, <1>3, <1>4, <1>m, MainQuiet, ForwardKeeps, JoinedKeeps DEF MainStep
<1>5. ASSUME NEW c \in Children, Join(c) PROVE NameInv'
  <2>1. PICK s \in {{}, {"ABORT"}} : Calls(Main) /\ SigJoin(c, s, "joining")
        BY <1>5 DEF Join
  <2> QED BY <2>1, SigJoinKeeps DEF Calls, At
<1>6. CASE Choice
      BY <1>5, <1>6, SendByNameKeeps, SendToKeeps, ChildQuiet, RunKeeps, MainQuiet
         DEF Choice
<1>7. CASE UNCHANGED vars
  <2>1. UNCHANGED <<mem, status, name, pc, op, atoms, reply, inits, exits>>
        BY <1>7 DEF vars
  <2>2. \A u \in Tasks : Same(u) BY <2>1 DEF Same
  <2>3. Shapes' BY <2>1 DEF NameInv, Shapes
  <2>4. Parent' BY <2>1 DEF NameInv, Parent
  <2>5. {} \in SUBSET Tasks OBVIOUS
  <2> QED BY <2>1, <2>2, <2>3, <2>4, <2>5, QuietFrame
<1> QED BY <1>2, <1>4, <1>6, <1>7, KernelKeeps DEF Next

LEMMA OnTheirWay ==
    ASSUME NameInv, NEW c \in Children, pc[c] \notin {"none", "dead"}
    PROVE  Alive(c)
<1>1. Life(c) /\ mem[c] \in {"absent", "live", "freed"} BY DEF NameInv, Shapes
<1> QED BY <1>1, MainApart DEF Life, Alive

LEMMA BearersLive ==
    ASSUME NameInv, NEW n \in Names, atoms[n].task # NoOne
    PROVE  atoms[n].task \in Bearers(n) /\ Alive(atoms[n].task)
<1>1. Counted(n) /\ Named(n) BY DEF NameInv
<1>2. atoms[n].task \in Children BY <1>1 DEF Counted, LockOK, Atom
<1>3. atoms[n].task \in Bearers(n) BY <1>1, <1>2 DEF Named
<1>4. pc[atoms[n].task] \notin {"none", "dead"} BY <1>3 DEF Bearers, Unnamed
<1> QED BY <1>2, <1>3, <1>4, OnTheirWay

LEMMA NameLive == NameInv => LiveTargets
<1> SUFFICES ASSUME NameInv PROVE LiveTargets OBVIOUS
<1>0. Main \in Tasks /\ Main \notin Children /\ Children \subseteq Tasks
      /\ \A t \in Tasks : t \in Children \/ t = Main
      BY MainApart DEF Tasks
<1>1. \A c \in Children : mem[c] = "live" => Alive(Main)
      BY DEF NameInv, Parent, Alive
<1>2. ASSUME NEW t \in Tasks, At(t, "signalling") PROVE Alive(op[t].task)
  <2>1. Address(t) /\ pc[t] = "signalling" BY <1>2 DEF NameInv, At
  <2>2. CASE op[t].name \in Names
    <3>1. op[t].task = atoms[op[t].name].task /\ op[t].task # NoOne
          BY <2>1, <2>2 DEF Address
    <3> QED BY <2>2, <3>1, BearersLive
  <2>3. CASE op[t].name \notin Names /\ t = Main
    <3>1. op[t].task \in Children /\ mem[op[t].task] = "live"
          BY <2>1, <2>3 DEF Address
    <3> QED BY <1>0, <3>1 DEF Alive
  <2>4. CASE op[t].name \notin Names /\ t # Main
    <3>1. op[t].task = Main BY <2>1, <2>4 DEF Address
    <3>2. Alive(t) /\ t \in Children BY <1>0, <2>1, <2>4, OnTheirWay
    <3>3. mem[t] = "live" BY <2>4, <3>2 DEF Alive
    <3> QED BY <1>1, <3>1, <3>2, <3>3
  <2> QED BY <2>2, <2>3, <2>4
<1>3. ASSUME NEW n \in Names, NEW t \in TasksOf(atoms[n].waiters) PROVE Alive(t)
  <2>1. Counted(n) BY DEF NameInv
  <2>2. \A i \in 1..Len(atoms[n].waiters) :
           atoms[n].waiters[i].task \in Sharing(n) \cup Outwaiting(n)
        BY <2>1 DEF Counted, LockOK
  <2>3. t \in Sharing(n) \cup Outwaiting(n) BY <2>2 DEF TasksOf
  <2>4. t \in Tasks /\ pc[t] \in {"finding", "leaving"}
        BY <1>0, <2>3 DEF Sharing, Outwaiting
  <2>5. CASE t = Main BY <2>4, <2>5 DEF Alive
  <2>6. CASE t \in Children BY <2>4, <2>6, OnTheirWay
  <2> QED BY <1>0, <2>4, <2>5, <2>6
<1>4. ASSUME NEW c \in inits \cup exits PROVE Alive(c)
  <2>1. c \in Children /\ mem[c] = "live" BY DEF NameInv, Shapes, Parent
  <2> QED BY <1>0, <2>1 DEF Alive
<1> QED BY <1>1, <1>2, <1>3, <1>4 DEF LiveTargets

LEMMA NameKept == NameInv => NamesKept
<1> SUFFICES ASSUME NameInv PROVE NamesKept OBVIOUS
<1>1. ASSUME NEW c \in Children, pc[c] \notin Unnamed, status[c] # "failed"
      PROVE  atoms[name[c]].mode # "absent" /\ atoms[name[c]].task = c
  <2>1. name[c] \in Names BY <1>1 DEF NameInv, Life, Unnamed
  <2>2. Named(name[c]) BY <2>1 DEF NameInv
  <2>3. c \in Bearers(name[c]) BY <1>1 DEF Bearers
  <2>4. c # NoOne BY MainApart
  <2> QED BY <2>2, <2>3, <2>4 DEF Named
<1>2. \A n \in Names : atoms[n].task # NoOne => Alive(atoms[n].task)
      BY BearersLive
<1> QED BY <1>1, <1>2 DEF NamesKept

LEMMA NameCount == NameInv => HoldersCounted
<1> SUFFICES ASSUME NameInv, NEW n \in Names
             PROVE  /\ atoms[n].nest = Cardinality({t \in Tasks : Holds(t, n)})
                    /\ atoms[n].mode = "excl" => atoms[n].nest = 1
    BY DEF HoldersCounted
<1>1. {t \in Tasks : Holds(t, n)} = Holders(n)
  <2>1. ASSUME NEW t \in Tasks PROVE Holds(t, n) <=> t \in Holders(n)
        BY <2>1 DEF Holds, At, Granted, Holders, Only, Claimers, Leavers, Senders
  <2>2. Holders(n) \subseteq Tasks
        BY MainApart DEF Holders, Only, Claimers, Leavers, Senders
  <2> QED BY <2>1, <2>2
<1>2. Counted(n) BY DEF NameInv
<1> QED BY <1>1, <1>2 DEF Counted, LockOK

\* No task touches another one that is freed: the target of a message that is
\* put or signalled (exec_lua.c, exec_sendmsg), the parent of a child, a waiter
\* of a lock (exec_doexec.c), a task on the kernel's lists.
THEOREM TargetsAreLive == Spec => []LiveTargets
<1>1. Spec => []NameInv BY NameInit, NameStep, PTL DEF Spec
<1> QED BY <1>1, NameLive, PTL

\* A name means one task from its start until it leaves, and what a name finds
\* is not freed (exec_lua.c, runchild; exec_doexec.c, exec_lockatom).
THEOREM NamesMeanTasks == Spec => []NamesKept
<1>1. Spec => []NameInv BY NameInit, NameStep, PTL DEF Spec
<1> QED BY <1>1, NameKept, PTL

\* The nest count of an atom is the number of tasks that hold it, also when
\* waiters are restarted together, and a task that holds it alone is the only
\* one (exec_doexec.c, exec_lockatom and exec_unlockatom).
THEOREM AtomsCountHolders == Spec => []HoldersCounted
<1>1. Spec => []NameInv BY NameInit, NameStep, PTL DEF Spec
<1> QED BY <1>1, NameCount, PTL

=============================================================================
