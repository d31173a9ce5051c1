------------------------------ MODULE ExecSync ------------------------------
(***************************************************************************)
(* How a task of the kernel waits: for a time (exec_time.c and the timer   *)
(* device of hal.c), for a lock and for the answer to a request            *)
(* (exec_api.c, exec_mod.c).  All three wait for the same signal, SINGLE,  *)
(* and none of them knows who sent it: a SINGLE that one of them leaves    *)
(* behind is taken by the next.  The timer device is a task with a lock of *)
(* its own, DevLock, which hal_close holds while it waits for that task's  *)
(* end.                                                                    *)
(***************************************************************************)
EXTENDS Naturals, Sequences, FiniteSets

CONSTANTS Tasks,    \* the tasks that wait
          MaxNest   \* bound: how often a task takes a lock it has

None == "none"
Dev == "device"

ASSUME SyncAssumption == None \notin Tasks /\ Dev \notin Tasks
                         /\ MaxNest \in Nat

VARIABLES pc,       \* where each task is, and the device
          sig,      \* their pending signals
          ioport,   \* the device's port: the tasks whose time request is there
          reqlist,  \* hsp_ReqList
          due,      \* the requests of reqlist whose time has come
          synced,   \* the tasks whose message is back in their sync port
          asked,    \* the kernel's port: the tasks that wait for an answer
          devlock,  \* who holds hsp_DevLock
          answers,  \* the task the device, or the kernel, is about to signal
          refs,     \* hsp_RefCount
          owner, nest, waiters  \* a TLock

syncVars == <<pc, sig, ioport, reqlist, due, synced, asked, devlock, answers,
              refs, owner, nest, waiters>>
timer == <<ioport, reqlist, due>>
lock == <<owner, nest, waiters>>

SyncInit == /\ pc = [t \in Tasks \cup {Dev} |-> IF t = Dev THEN "sleep"
                                                           ELSE "idle"]
            /\ sig = [t \in Tasks \cup {Dev} |-> {}]
            /\ ioport = {} /\ reqlist = {} /\ due = {}
            /\ synced = {} /\ asked = <<>>
            /\ devlock = None
            /\ answers = [by \in {"device", "kernel"} |-> None]
            /\ refs = Cardinality(Tasks)
            /\ owner = None /\ nest = 0 /\ waiters = <<>>

At(t, p) == pc[t] = p
Goto(t, p) == pc' = [pc EXCEPT ![t] = p]
Signal(t, s) == sig' = [sig EXCEPT ![t] = @ \cup {s}]
Pending(t, mask) == sig[t] \cap mask # {}
Take(t, mask) == sig' = [sig EXCEPT ![t] = @ \ mask]

\* some task sends a message: the signal every wait can be ended by
Poke(t) == /\ pc[t] # "closed" /\ "USER" \notin sig[t]
           /\ Signal(t, "USER")
           /\ UNCHANGED <<pc, timer, synced, asked, devlock, answers, refs,
                          lock>>

----------------------------------------------------------------------------
(* exec_WaitTime(timeout, USER).                                           *)

\* TPutIO, hal_beginio: the request goes to the device's port, ...
PutIO(t) == /\ At(t, "idle")
            /\ ioport' = ioport \cup {t}
            /\ Goto(t, "put")
            /\ UNCHANGED <<sig, reqlist, due, synced, asked, devlock, answers,
                           refs, lock>>

\* ... and the device is signalled
PutSignal(t) == /\ At(t, "put")
                /\ Signal(Dev, "USER")
                /\ Goto(t, "timed")
                /\ UNCHANGED <<timer, synced, asked, devlock, answers, refs,
                               lock>>

\* TWait(SINGLE | sigmask)
Woken(t) == /\ At(t, "timed") /\ Pending(t, {"SINGLE", "USER"})
            /\ Take(t, {"SINGLE", "USER"})
            /\ Goto(t, "aborting")
            /\ UNCHANGED <<timer, synced, asked, devlock, answers, refs, lock>>

\* a mutant: without DevLock
AbortUnlocked(t) ==
    /\ At(t, "aborting")
    /\ \/ /\ t \in synced
          /\ Goto(t, "reclaim")
          /\ UNCHANGED <<sig, timer>>
       \/ /\ t \notin synced
          /\ reqlist' = reqlist \ {t} /\ due' = due \ {t}
          /\ ioport' = ioport \ {t}
          /\ Signal(Dev, "USER")
          /\ Goto(t, "selfreply")
    /\ UNCHANGED <<synced, asked, devlock, answers, refs, lock>>

\* hal_abortio under DevLock: a request that is not back is taken out of the
\* port or of the list, and answered by its own task
AbortIO(t) ==
    /\ At(t, "aborting") /\ devlock = None
    /\ \/ /\ t \in synced
          /\ Goto(t, "reclaim")
          /\ UNCHANGED <<sig, timer>>
       \/ /\ t \notin synced /\ t \in reqlist
          /\ reqlist' = reqlist \ {t} /\ due' = due \ {t}
          /\ Signal(Dev, "USER")
          /\ Goto(t, "selfreply") /\ UNCHANGED ioport
       \/ /\ t \notin synced \cup reqlist
          /\ ioport' = ioport \ {t}
          /\ Goto(t, "selfreply") /\ UNCHANGED <<sig, reqlist, due>>
    /\ UNCHANGED <<synced, asked, devlock, answers, refs, lock>>

SelfReply(t) == /\ At(t, "selfreply")
                /\ synced' = synced \cup {t}
                /\ Signal(t, "SINGLE")
                /\ Goto(t, "reclaim")
                /\ UNCHANGED <<timer, asked, devlock, answers, refs, lock>>

\* TWaitIO: the request is unlinked from the sync port; it is there, its time
\* came or its own task put it there
Reclaim(t) == /\ At(t, "reclaim") /\ t \in synced
              /\ synced' = synced \ {t}
              /\ Goto(t, "clear")
              /\ UNCHANGED <<sig, timer, asked, devlock, answers, refs, lock>>

\* TSetSignal(0, SINGLE)
Clear(t) == /\ At(t, "clear")
            /\ Take(t, {"SINGLE"})
            /\ Goto(t, "idle")
            /\ UNCHANGED <<timer, synced, asked, devlock, answers, refs, lock>>

----------------------------------------------------------------------------
(* The device: hal_devfunc.                                                *)

\* the time of a request comes
Expire(t) == /\ t \in reqlist \ due
             /\ due' = due \cup {t}
             /\ UNCHANGED <<pc, sig, ioport, reqlist, synced, asked, devlock,
                            answers, refs, lock>>

\* a mutant: USER is looked at before ABORT
UserFirst == /\ At(Dev, "sleep") /\ (sig[Dev] # {} \/ due # {})
             /\ Take(Dev, {"USER", "ABORT"})
             /\ Goto(Dev, IF sig[Dev] = {"ABORT"} THEN "gone" ELSE "woken")
             /\ UNCHANGED <<timer, synced, asked, devlock, answers, refs, lock>>

\* hal_timedwaitevent
DevWake == /\ At(Dev, "sleep") /\ (sig[Dev] # {} \/ due # {})
           /\ Take(Dev, {"USER", "ABORT"})
           /\ Goto(Dev, IF "ABORT" \in sig[Dev] THEN "gone" ELSE "woken")
           /\ UNCHANGED <<timer, synced, asked, devlock, answers, refs, lock>>

DevLock == /\ At(Dev, "woken") /\ devlock = None
           /\ devlock' = Dev
           /\ Goto(Dev, "reading")
           /\ UNCHANGED <<sig, timer, synced, asked, answers, refs, lock>>

\* every request of the port is put into the list
DevRead == /\ At(Dev, "reading")
           /\ reqlist' = reqlist \cup ioport
           /\ ioport' = {}
           /\ Goto(Dev, "replying")
           /\ UNCHANGED <<sig, due, synced, asked, devlock, answers, refs,
                          lock>>

\* TExecReplyMsg: the request is in the sync port of its task, which is then
\* signalled
DevReply(t) == /\ At(Dev, "replying") /\ answers["device"] = None
               /\ t \in due
               /\ reqlist' = reqlist \ {t} /\ due' = due \ {t}
               /\ synced' = synced \cup {t}
               /\ answers' = [answers EXCEPT !["device"] = t]
               /\ UNCHANGED <<pc, sig, ioport, asked, devlock, refs, lock>>

DevSignal == /\ answers["device"] # None
             /\ Signal(answers["device"], "SINGLE")
             /\ answers' = [answers EXCEPT !["device"] = None]
             /\ UNCHANGED <<pc, timer, synced, asked, devlock, refs, lock>>

DevUnlock == /\ At(Dev, "replying") /\ answers["device"] = None
             /\ due = {}
             /\ devlock' = None
             /\ Goto(Dev, "sleep")
             /\ UNCHANGED <<sig, timer, synced, asked, answers, refs, lock>>

\* hal_close: with the last request the device task is aborted, and joined
\* under DevLock
Close(t) == /\ At(t, "idle") /\ devlock = None
            /\ refs' = refs - 1
            /\ IF refs = 1 THEN devlock' = t /\ Goto(t, "closing")
                           ELSE UNCHANGED devlock /\ Goto(t, "closed")
            /\ UNCHANGED <<sig, timer, synced, asked, answers, lock>>

AbortDev(t) == /\ At(t, "closing")
               /\ Signal(Dev, "ABORT")
               /\ Goto(t, "joining")
               /\ UNCHANGED <<timer, synced, asked, devlock, answers, refs,
                              lock>>

DevJoined(t) == /\ At(t, "joining") /\ At(Dev, "gone")
                /\ devlock' = None
                /\ Goto(t, "closed")
                /\ UNCHANGED <<sig, timer, synced, asked, answers, refs, lock>>

----------------------------------------------------------------------------
(* exec_Lock and exec_Unlock.                                              *)

Lock(t) ==
    /\ pc[t] \in {"idle", "owns"}
    /\ \/ /\ owner = None
          /\ owner' = t /\ nest' = 1 /\ UNCHANGED waiters
          /\ Goto(t, "owns")
       \/ /\ owner = t /\ nest < MaxNest
          /\ nest' = nest + 1 /\ UNCHANGED <<owner, waiters>>
          /\ Goto(t, "owns")
       \/ /\ owner \notin {None, t}
          /\ waiters' = Append(waiters, t) /\ UNCHANGED <<owner, nest>>
          /\ Goto(t, "queued")
    /\ UNCHANGED <<sig, timer, synced, asked, devlock, answers, refs>>

\* THALWait(SINGLE), once; whoever signalled
Locked(t) == /\ At(t, "queued") /\ Pending(t, {"SINGLE"})
             /\ Take(t, {"SINGLE"})
             /\ Goto(t, "owns")
             /\ UNCHANGED <<timer, synced, asked, devlock, answers, refs, lock>>

\* a mutant: the lock is handed on, its new owner not signalled
UnlockSilent(t) ==
    /\ At(t, "owns")
    /\ \/ /\ nest > 1
          /\ nest' = nest - 1 /\ UNCHANGED <<owner, waiters, pc, sig>>
       \/ /\ nest = 1
          /\ owner' = IF waiters = <<>> THEN None ELSE Head(waiters)
          /\ waiters' = IF waiters = <<>> THEN <<>> ELSE Tail(waiters)
          /\ nest' = IF waiters = <<>> THEN 0 ELSE 1
          /\ Goto(t, "idle") /\ UNCHANGED sig
    /\ UNCHANGED <<timer, synced, asked, devlock, answers, refs>>

\* a mutant: the lock is left free for the waiter that is signalled
UnlockFree(t) ==
    /\ At(t, "owns")
    /\ \/ /\ nest > 1
          /\ nest' = nest - 1 /\ UNCHANGED <<owner, waiters, pc, sig>>
       \/ /\ nest = 1
          /\ owner' = None /\ nest' = 0
          /\ waiters' = IF waiters = <<>> THEN <<>> ELSE Tail(waiters)
          /\ IF waiters = <<>> THEN UNCHANGED sig
                               ELSE Signal(Head(waiters), "SINGLE")
          /\ Goto(t, "idle")
    /\ UNCHANGED <<timer, synced, asked, devlock, answers, refs>>

Unlock(t) ==
    /\ At(t, "owns")
    /\ \/ /\ nest > 1
          /\ nest' = nest - 1 /\ UNCHANGED <<owner, waiters, pc, sig>>
       \/ /\ nest = 1 /\ waiters # <<>>
          /\ owner' = Head(waiters) /\ waiters' = Tail(waiters)
          /\ nest' = 1
          /\ Signal(Head(waiters), "SINGLE")
          /\ Goto(t, "idle")
       \/ /\ nest = 1 /\ waiters = <<>>
          /\ owner' = None /\ nest' = 0
          /\ Goto(t, "idle") /\ UNCHANGED <<waiters, sig>>
    /\ UNCHANGED <<timer, synced, asked, devlock, answers, refs>>

----------------------------------------------------------------------------
(* exec_sendmsg to the kernel.                                             *)

Ask(t) == /\ At(t, "idle")
          /\ asked' = Append(asked, t)
          /\ Goto(t, "asking")
          /\ UNCHANGED <<sig, timer, synced, devlock, answers, refs, lock>>

\* exec_returnmsg: the message is in the sync port, then its task is
\* signalled
Reply == /\ asked # <<>> /\ answers["kernel"] = None
         /\ asked' = Tail(asked)
         /\ synced' = synced \cup {Head(asked)}
         /\ answers' = [answers EXCEPT !["kernel"] = Head(asked)]
         /\ UNCHANGED <<pc, sig, timer, devlock, refs, lock>>

ReplySignal == /\ answers["kernel"] # None
               /\ Signal(answers["kernel"], "SINGLE")
               /\ answers' = [answers EXCEPT !["kernel"] = None]
               /\ UNCHANGED <<pc, timer, synced, asked, devlock, refs, lock>>

\* THALWait(SINGLE), until the message is there
GotReply(t) == /\ At(t, "asking") /\ Pending(t, {"SINGLE"})
               /\ Take(t, {"SINGLE"})
               /\ IF t \in synced
                  THEN synced' = synced \ {t} /\ Goto(t, "idle")
                  ELSE UNCHANGED <<synced, pc>>
               /\ UNCHANGED <<timer, asked, devlock, answers, refs, lock>>

----------------------------------------------------------------------------
\* what a task does by itself once it is in a call
Proceed(t) == \/ PutSignal(t) \/ Woken(t) \/ AbortIO(t) \/ SelfReply(t)
              \/ Reclaim(t) \/ Clear(t) \/ AbortDev(t) \/ DevJoined(t)
              \/ Locked(t) \/ GotReply(t)

Device == \/ DevWake \/ DevLock \/ DevRead \/ DevSignal \/ DevUnlock
          \/ \E t \in Tasks : DevReply(t)

KernelStep == Reply \/ ReplySignal

SyncNext == \/ \E t \in Tasks : \/ Proceed(t) \/ Poke(t) \/ Expire(t)
                                \/ PutIO(t) \/ Lock(t) \/ Ask(t) \/ Close(t)
                                \/ Unlock(t)
            \/ Device \/ KernelStep

SyncSpec == SyncInit /\ [][SyncNext]_syncVars

\* every thread gets its turn, DevLock is granted to one that asks for it
\* again and again, time passes, and an owner gives its lock up
LiveSpec == /\ SyncSpec
            /\ \A t \in Tasks : /\ SF_syncVars(Proceed(t))
                                /\ WF_syncVars(Expire(t))
                                /\ WF_syncVars(Unlock(t))
                                /\ SF_syncVars(nest = 1 /\ Unlock(t))
            /\ SF_syncVars(Device) /\ WF_syncVars(KernelStep)

----------------------------------------------------------------------------
In(seq) == {seq[i] : i \in 1..Len(seq)}

\* A lock has one owner, and the task that goes on as its owner is the one.
OneOwner == \A t \in Tasks : At(t, "owns") => owner = t

\* A task that returned from a wait leaves nothing behind: no SINGLE the next
\* wait would take for its own, no request in the device's port or list, where
\* the next one would link it a second time, no message in its sync port.
NothingLeft == \A t \in Tasks : pc[t] \in {"idle", "owns", "closed"} =>
    /\ "SINGLE" \notin sig[t]
    /\ t \notin reqlist \cup synced \cup ioport \cup In(asked)
    /\ \A by \in DOMAIN answers : answers[by] # t

\* Every wait ends: for a time even when no signal comes, for a lock, for the
\* kernel.
WaitsEnd == \A t \in Tasks :
    /\ At(t, "put") ~> At(t, "idle")
    /\ At(t, "queued") ~> At(t, "owns")
    /\ At(t, "asking") ~> At(t, "idle")

\* The device ends for the task that joins it, if it has not been woken in
\* between: a device that waits for DevLock then waits forever, and so does
\* hal_close.
DeviceEnds == \A t \in Tasks :
    (At(t, "joining") /\ ~At(Dev, "woken")) ~> At(t, "closed")
=============================================================================
