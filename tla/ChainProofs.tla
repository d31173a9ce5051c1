----------------------------- MODULE ChainProofs -----------------------------
(***************************************************************************)
(* The start of the program and the chain of filters, for any number of    *)
(* plug-ins, files, clicks and late answers, and for any program.          *)
(***************************************************************************)
EXTENDS FilterChain, SenderProofs

(* The start: what the window lists under a name is that task's own. *)

LoadType ==
    /\ win \in {"dir", "waiting", "joining", "up", "dead"}
    /\ files \in 0..MaxFiles /\ plugs_no \in 0..MaxFiles
    /\ plugs_no <= files
    /\ win \notin {"dir", "up"} => plugs_no < files
    /\ mail \in Seq(Nat) /\ posted \in Nat
    /\ task.at \in {"loading", "loop", "ended"}
    /\ serves \in [0..MaxFiles -> Nat]
    /\ list \in Seq([name : Nat, conf : Nat])

\* The tasks on the list have their numbers from 0 on, and no later one serves.
ListedInOrder ==
    /\ Len(list) = plugs_no
    /\ \A i \in 1..Len(list) : /\ list[i].name = i - 1
                               /\ list[i].conf # NoConf
                               /\ serves[i - 1] = list[i].conf
    /\ \A n \in 0..MaxFiles : n > plugs_no => serves[n] = NoConf

\* All that earlier files left in the mailbox are messages of plug-ins of a
\* wrong type; a configuration is the last message, and of the task in hand.
OnlyLeftovers == \A i \in 1..Len(mail) : mail[i] = NoConf
MailIsOwn ==
    /\ win \in {"dir", "up"} => task.at = "ended"
    /\ task.at # "loop" => serves[plugs_no] = NoConf /\ OnlyLeftovers
    /\ task.at = "loop" /\ win = "waiting" =>
          /\ mail # << >> /\ mail[Len(mail)] = serves[plugs_no]
          /\ \A i \in 1..(Len(mail) - 1) : mail[i] = NoConf
    /\ task.at = "loop" => serves[plugs_no] # NoConf

LoadInv == LoadType /\ ListedInOrder /\ MailIsOwn

LEMMA LoadStart == LoadInit => LoadInv
  BY FilesAssumption
     DEF LoadInit, LoadInv, LoadType, ListedInOrder, MailIsOwn, OnlyLeftovers,
         NoTask, NoConf

\* The task in hand sends its configuration, or ends with or without a word.
LEMMA TaskKeepsLoad ==
    ASSUME LoadInv, TaskServes \/ TaskIsWrong \/ TaskEnds PROVE LoadInv'
<1> USE FilesAssumption DEF NoConf
<1>0. /\ mail \in Seq(Nat) /\ Len(mail) \in Nat /\ plugs_no \in 0..MaxFiles
      /\ task.at = "loading" /\ win \notin {"dir", "up"}
      /\ serves[plugs_no] = 0 /\ OnlyLeftovers
  BY DEF TaskServes, TaskIsWrong, TaskEnds, LoadInv, LoadType, MailIsOwn
<1>1. CASE TaskServes
  <2>1. /\ task'.at = "loop" /\ posted' = posted + 1
        /\ mail' = Append(mail, posted + 1)
        /\ serves' = [serves EXCEPT ![plugs_no] = posted + 1]
        /\ UNCHANGED << win, files, plugs_no, hurt, list, ranOut >>
    <3>1. task' = [task EXCEPT !.at = "loop"]
      BY <1>1 DEF TaskServes
    <3>2. task'.at = "loop"
      BY <3>1, <1>0
    <3> QED
      BY <1>1, <3>2 DEF TaskServes
  <2>2. posted + 1 \in Nat /\ posted + 1 # 0
    BY DEF LoadInv, LoadType
  <2>3. /\ mail' \in Seq(Nat) /\ Len(mail') = Len(mail) + 1
        /\ mail'[Len(mail')] = posted + 1 /\ mail' # << >>
        /\ \A i \in 1..(Len(mail') - 1) : mail'[i] = 0
    BY <1>0, <2>1, <2>2 DEF OnlyLeftovers
  <2>4. /\ serves' \in [0..MaxFiles -> Nat] /\ serves'[plugs_no] = posted + 1
        /\ \A n \in 0..MaxFiles : n # plugs_no => serves'[n] = serves[n]
    BY <1>0, <2>1, <2>2 DEF LoadInv, LoadType
  <2>5. LoadType'
    BY <2>1, <2>2, <2>3, <2>4 DEF LoadInv, LoadType
  <2>6. ListedInOrder'
    <3>1. \A i \in 1..Len(list) : i - 1 \in 0..MaxFiles /\ i - 1 # plugs_no
      BY <1>0 DEF LoadInv, LoadType, ListedInOrder
    <3> QED
      BY <2>1, <2>4, <3>1, <1>0 DEF LoadInv, ListedInOrder
  <2>7. MailIsOwn'
    BY <1>0, <2>1, <2>2, <2>3, <2>4 DEF MailIsOwn
  <2> QED
    BY <2>5, <2>6, <2>7 DEF LoadInv
<1>2. CASE TaskIsWrong \/ TaskEnds
  <2>1. /\ task' = [task EXCEPT !.at = "ended"]
        /\ mail' = Append(mail, 0) \/ mail' = mail
        /\ UNCHANGED << win, files, plugs_no, serves, posted, list, ranOut >>
    BY <1>2 DEF TaskIsWrong, TaskEnds
  <2>2. task'.at = "ended"
    BY <2>1, <1>0
  <2>3. mail' \in Seq(Nat) /\ OnlyLeftovers'
    <3>1. CASE mail' = Append(mail, 0)
      <4>1. /\ mail' \in Seq(Nat) /\ Len(mail') = Len(mail) + 1
            /\ mail'[Len(mail) + 1] = 0
            /\ \A i \in 1..Len(mail) : mail'[i] = mail[i]
        BY <1>0, <3>1
      <4>2. \A i \in 1..Len(mail') : i \in 1..Len(mail) \/ i = Len(mail) + 1
        BY <1>0, <4>1
      <4> QED
        BY <1>0, <4>1, <4>2 DEF OnlyLeftovers
    <3>2. CASE mail' = mail
      BY <1>0, <3>2 DEF OnlyLeftovers
    <3> QED
      BY <2>1, <3>1, <3>2
  <2>4. LoadType'
    BY <2>1, <2>2, <2>3 DEF LoadInv, LoadType
  <2>5. ListedInOrder'
    BY <2>1 DEF LoadInv, ListedInOrder
  <2>6. MailIsOwn'
    BY <1>0, <2>1, <2>2, <2>3 DEF MailIsOwn
  <2> QED
    BY <2>4, <2>5, <2>6 DEF LoadInv
<1> QED
  BY <1>1, <1>2

\* A configuration at the head of the mailbox is the whole mailbox, and is the
\* one of the task in hand.
LEMMA ListKeepsLoad ==
    ASSUME LoadInv, ListPlugin PROVE LoadInv'
<1> USE FilesAssumption DEF NoConf
<1>1. /\ mail \in Seq(Nat) /\ Len(mail) \in Nat /\ Len(mail) > 0
      /\ Head(mail) = mail[1] /\ mail[1] # 0 /\ 1 \in 1..Len(mail)
      /\ win = "waiting" /\ plugs_no \in 0..MaxFiles /\ plugs_no < files
      /\ files \in 0..MaxFiles
  BY DEF ListPlugin, LoadInv, LoadType
<1>2. task.at = "loop"
  BY <1>1 DEF LoadInv, MailIsOwn, OnlyLeftovers
<1>3. Len(mail) = 1 /\ mail[1] = serves[plugs_no]
  <2>1. \A i \in 1..(Len(mail) - 1) : mail[i] = 0
    BY <1>1, <1>2 DEF LoadInv, MailIsOwn
  <2>2. ~(1 \in 1..(Len(mail) - 1))
    BY <1>1, <2>1
  <2>3. ASSUME NEW n \in Nat, n > 0, ~(1 \in 1..(n - 1)) PROVE n = 1
    BY <2>3
  <2>4. Len(mail) = 1
    BY <1>1, <2>2, <2>3
  <2> QED
    BY <1>1, <1>2, <2>4 DEF LoadInv, MailIsOwn
<1>4. /\ mail' = Tail(mail) /\ win' = "dir" /\ plugs_no' = plugs_no + 1
      /\ list' = Append(list, [name |-> plugs_no, conf |-> mail[1]])
      /\ task'.at = "ended"
      /\ UNCHANGED << files, hurt, serves, posted, ranOut >>
  BY <1>1 DEF ListPlugin, NoTask
<1>5. mail' \in Seq(Nat) /\ Len(mail') = 0
  <2>1. /\ mail # << >> /\ Len(Tail(mail)) = Len(mail) - 1
        /\ Tail(mail) \in Seq(Nat)
    BY <1>1, HeadTailProperties, EmptySeq
  <2> QED
    BY <1>3, <1>4, <2>1
<1>6. /\ list \in Seq([name : Nat, conf : Nat]) /\ Len(list) = plugs_no
      /\ [name |-> plugs_no, conf |-> mail[1]] \in [name : Nat, conf : Nat]
  BY <1>1 DEF LoadInv, LoadType, ListedInOrder
<1>7. /\ list' \in Seq([name : Nat, conf : Nat]) /\ Len(list') = plugs_no + 1
      /\ \A i \in 1..Len(list) : list'[i] = list[i]
      /\ list'[plugs_no + 1] = [name |-> plugs_no, conf |-> mail[1]]
  <2> DEFINE R == [name : Nat, conf : Nat]
             e == [name |-> plugs_no, conf |-> mail[1]]
  <2>1. list \in Seq(R) /\ Len(list) = plugs_no /\ e \in R /\ list' = Append(list, e)
    BY <1>4, <1>6
  <2> HIDE DEF R, e
  <2>2. /\ list' \in Seq(R) /\ Len(list') = plugs_no + 1
        /\ \A i \in 1..Len(list) : list'[i] = list[i]
        /\ list'[plugs_no + 1] = e
    BY <2>1
  <2> QED
    BY <2>2 DEF R, e
<1>8. LoadType'
  BY <1>1, <1>4, <1>5, <1>7 DEF LoadInv, LoadType
<1>9. ListedInOrder'
  <2>1. ASSUME NEW i \in 1..Len(list')
        PROVE  /\ list'[i].name = i - 1 /\ list'[i].conf # 0
               /\ serves[i - 1] = list'[i].conf
    <3>1. CASE i \in 1..Len(list)
      BY <1>7, <3>1 DEF LoadInv, ListedInOrder
    <3>2. CASE i = plugs_no + 1
      BY <1>1, <1>3, <1>7, <3>2
    <3> QED
      BY <1>1, <1>6, <1>7, <2>1, <3>1, <3>2
  <2>2. ASSUME NEW n \in 0..MaxFiles, n > plugs_no' PROVE serves'[n] = 0
    <3>1. n > plugs_no
      BY <1>1, <1>4, <2>2
    <3> QED
      BY <1>4, <3>1 DEF LoadInv, ListedInOrder
  <2>3. Len(list') = plugs_no' /\ serves' = serves
    BY <1>4, <1>7
  <2> QED
    BY <2>1, <2>2, <2>3 DEF ListedInOrder
<1>10. MailIsOwn'
  <2>1. plugs_no + 1 \in 0..MaxFiles /\ serves[plugs_no + 1] = 0
    BY <1>1 DEF LoadInv, ListedInOrder
  <2> QED
    BY <1>4, <1>5, <2>1 DEF MailIsOwn, OnlyLeftovers
<1> QED
  BY <1>8, <1>9, <1>10 DEF LoadInv

\* The window's other steps.
LEMMA WindowKeepsLoad ==
    ASSUME LoadInv, RunFile \/ Raised \/ RefusePlugin \/ WaitRunsOut \/ Joined
                    \/ AllLoaded
    PROVE  LoadInv'
<1> USE FilesAssumption DEF NoConf, LoadInv
<1>1. CASE RunFile
  <2>1. /\ task'.at = "loading" /\ win = "dir" /\ win' = "waiting"
        /\ files' = files + 1 /\ files < MaxFiles
        /\ UNCHANGED << plugs_no, mail, hurt, serves, posted, list, ranOut >>
    BY <1>1 DEF RunFile
  <2>2. task.at = "ended"
    BY <2>1 DEF MailIsOwn
  <2> QED
    BY <2>1, <2>2 DEF LoadType, ListedInOrder, MailIsOwn, OnlyLeftovers
<1>2. CASE Raised
  BY <1>2 DEF Raised, LoadType, ListedInOrder, MailIsOwn, OnlyLeftovers
<1>3. CASE RefusePlugin
  <2>1. /\ mail' = Tail(mail) /\ mail # << >> /\ Head(mail) = 0
        /\ win = "waiting" /\ win' = "joining"
        /\ UNCHANGED << files, plugs_no, hurt, task, serves, posted, list, ranOut >>
    BY <1>3 DEF RefusePlugin
  <2>2. mail \in Seq(Nat) /\ Len(mail) \in Nat /\ Len(mail) > 0
    BY <2>1 DEF LoadType
  <2>3. mail' \in Seq(Nat) /\ \A i \in 1..Len(mail') : i + 1 \in 1..Len(mail) /\ mail'[i] = mail[i + 1]
    BY <2>1, <2>2
  <2>4. OnlyLeftovers => OnlyLeftovers'
    BY <2>3 DEF OnlyLeftovers
  <2> QED
    BY <2>1, <2>3, <2>4 DEF LoadType, ListedInOrder, MailIsOwn
<1>4. CASE WaitRunsOut
  BY <1>4 DEF WaitRunsOut, LoadType, ListedInOrder, MailIsOwn, OnlyLeftovers
<1>5. CASE Joined
  BY <1>5 DEF Joined, NoTask, LoadType, ListedInOrder, MailIsOwn, OnlyLeftovers
<1>6. CASE AllLoaded
  BY <1>6 DEF AllLoaded, LoadType, ListedInOrder, MailIsOwn, OnlyLeftovers
<1> QED
  BY <1>1, <1>2, <1>3, <1>4, <1>5, <1>6

LEMMA LoadKept == LoadInv /\ [LoadNext]_loadVars => LoadInv'
<1>1. ASSUME LoadInv, UNCHANGED loadVars PROVE LoadInv'
  BY <1>1 DEF loadVars, LoadInv, LoadType, ListedInOrder, MailIsOwn, OnlyLeftovers
<1> QED
  BY <1>1, TaskKeepsLoad, ListKeepsLoad, WindowKeepsLoad DEF LoadNext

\* Everything else the window, the plug-ins and the sender do comes after the
\* start, or leaves it alone.
LEMMA StartIsApart == [FNext]_chainVars => [LoadNext]_loadVars
<1>1. ASSUME NEW p \in Plugins, ClickPlugin(p) \/ PlugStep(p)
      PROVE  UNCHANGED loadVars
  BY <1>1 DEF ClickPlugin, PlugStep
<1> QED
  BY <1>1 DEF FNext, Loading, ClickConnect, ClickRun, WindowPosts, SenderStep, chainVars

\* Whatever the files of the directory are and however slow their tasks, the
\* window lists each task with the configuration it sent itself, and none that
\* serves is missing once the window is up (ListIsServed).
THEOREM ServedAreListed == FSpec => []ListIsServed
<1>1. FInit => LoadInv
  BY LoadStart DEF FInit
<1>2. LoadInv /\ [FNext]_chainVars => LoadInv'
  BY LoadKept, StartIsApart
<1>3. LoadInv => ListIsServed
  <2> SUFFICES ASSUME LoadInv PROVE ListIsServed
    OBVIOUS
  <2>1. \A i \in 1..Len(list) :
           list[i].conf # NoConf /\ serves[list[i].name] = list[i].conf
    BY DEF LoadInv, ListedInOrder
  <2>2. ASSUME win = "up", NEW n \in 0..MaxFiles, serves[n] # NoConf
        PROVE  \E i \in 1..Len(list) : list[i].name = n
    <3>1. serves[plugs_no] = NoConf
      BY <2>2 DEF LoadInv, MailIsOwn
    <3>2. n < plugs_no
      BY <2>2, <3>1, FilesAssumption DEF LoadInv, LoadType, ListedInOrder
    <3>3. n + 1 \in 1..Len(list) /\ (n + 1) - 1 = n
      BY <3>2, FilesAssumption DEF LoadInv, LoadType, ListedInOrder
    <3> QED
      BY <3>3 DEF LoadInv, ListedInOrder
  <2> QED
    BY <2>1, <2>2 DEF ListIsServed
<1> QED
  BY <1>1, <1>2, <1>3, PTL DEF FSpec

-----------------------------------------------------------------------------
(* The requests of the plug-ins: while no click falls into something under *)
(* way and no wait runs out, one request is under way at a time, and the    *)
(* sender and the plug-in agree on how far it got.                          *)

PlugPC == {"loop", "addName", "addPars", "attaching", "delName", "detaching",
           "dead"}
Parcel == [kind : {"EXECUTE", "DETACH", "CLICK", "FILTER", "ANSWER"},
           line : Msg \cup {NIL}]
PlugType == /\ pbox \in [Plugins -> Seq(Parcel)] /\ ppc \in [Plugins -> PlugPC]
            /\ calm \in BOOLEAN

\* Nothing the sender holds is, or will be taken for, a word of a request.
HeldPure == HeldIn(Pure)

InStop == state = "stop" /\ pc \in {"tick", "wait"}
Resting(p) == ppc[p] = "loop" /\ pbox[p] = << >>

\* Lines go out and are filtered, or nothing happens.
Working ==
    /\ \A p \in Plugins :
          /\ ppc[p] = "loop"
          /\ \A i \in 1..Len(pbox[p]) :
                pbox[p][i].kind = "FILTER" /\ pbox[p][i].line \in Pure \cup {NIL}
    /\ pc # "dead" => /\ inbox \in Seq(Pure) /\ pc \notin Asking /\ HeldPure
                      /\ shown = GFilters

\* The click on p's panel came, and p has not looked at it.
Clicked(p) ==
    /\ ppc[p] = "loop" /\ Len(pbox[p]) = 1
    /\ pbox[p][1].kind \in {"EXECUTE", "DETACH", "CLICK"}
    /\ pc # "dead" => inbox = << >> /\ InStop /\ HeldPure /\ shown = GFilters

\* p is asking to be attached: none, one, two or all of its messages were taken.
AttachBegun(p) ==
    /\ InStop
    /\ \/ ppc[p] = "addName" /\ inbox = << "ADDFILTER" >>
       \/ ppc[p] = "addPars" /\ inbox = << "ADDFILTER", p >>
       \/ ppc[p] = "attaching" /\ inbox = << "ADDFILTER", p, Pars >>
AttachNamed(p) ==
    /\ pc = "ADDFILTER" /\ state = "stop"
    /\ \/ ppc[p] = "addName" /\ inbox = << >>
       \/ ppc[p] = "addPars" /\ inbox = << p >>
       \/ ppc[p] = "attaching" /\ inbox = << p, Pars >>
AttachParsed(p) ==
    /\ pc = "pars" /\ state = "stop" /\ args = << p >>
    /\ \/ ppc[p] = "addPars" /\ inbox = << >>
       \/ ppc[p] = "attaching" /\ inbox = << Pars >>

DetachBegun(p) ==
    /\ InStop
    /\ \/ ppc[p] = "delName" /\ inbox = << "DELFILTER" >>
       \/ ppc[p] = "detaching" /\ inbox = << "DELFILTER", p >>
DetachNamed(p) ==
    /\ pc = "DELFILTER" /\ state = "stop"
    /\ \/ ppc[p] = "delName" /\ inbox = << >>
       \/ ppc[p] = "detaching" /\ inbox = << p >>

\* The sender has done what p asked, and p has not read the answer.
Served(p) ==
    /\ InStop /\ inbox = << >>
    /\ \/ ppc[p] = "attaching" /\ GFilters = Append(Removed(shown, p), p)
       \/ ppc[p] = "detaching" /\ GFilters = Removed(shown, p)

AskedFor(p) == /\ AttachBegun(p) \/ AttachNamed(p) \/ AttachParsed(p)
                  \/ DetachBegun(p) \/ DetachNamed(p)
               /\ pbox[p] = << >> /\ shown = GFilters

Requesting(p) ==
    /\ ppc[p] \in {"addName", "addPars", "attaching", "delName", "detaching"}
    /\ \/ pbox[p] = << >>
       \/ ppc[p] \in {"attaching", "detaching"} /\ Len(pbox[p]) = 1
    /\ pc # "dead" => HeldPure /\ (AskedFor(p) \/ Served(p))

Orderly ==
    calm => \/ Working
            \/ \E p \in Plugins :
                  /\ Clicked(p) \/ Requesting(p)
                  /\ \A q \in Plugins \ {p} : Resting(q)


\* No plug-in runs before the sender, and none is called like a word.
LEMMA Names ==
    /\ Plugins \subseteq Pure /\ Pars \in Pure /\ Text \subseteq Pure
    /\ NIL \notin Msg /\ Pure \subseteq Msg
    /\ {"FILL", "NEW", "FIN", "SENDFROM", "1", "CALCULATE", "RESUME", "PORT",
        "SINGLE", StopLine} \subseteq Pure
    /\ {"ADDFILTER", "DELFILTER"} \cap Text = {}
  BY TextAssumption, PluginsAssumption, ChainAssumption, NILAssumption
     DEF Pure, Msg, Word

\* What the sender does of its own it does as in module Sender.
LEMMA SenderSteps == SenderStep => OwnStep \/ HelpStep
  BY ReadsAssumption DEF SenderStep, OwnStep, TickStep

\* The messages of the window and of a plug-in keep the sender's types.
LEMMA PostedType ==
    ASSUME TypeOK, NEW ms \in Seq(Msg),
           inbox' = inbox \o ms \/ UNCHANGED inbox, out' = Quiet,
           UNCHANGED << pc, args, program, control, store, line >>
    PROVE  TypeOK'
<1>1. inbox' \in Seq(Msg)
  BY ConcatProperties DEF TypeOK, MailboxType
<1>2. EventType'
  BY QuietFacts DEF EventType
<1> QED
  BY <1>1, <1>2 DEF TypeOK, MailboxType, LoopType, ProgramType, program, control,
                    store, line

LEMMA AskedType ==
    ASSUME TypeOK, NEW m \in Msg, ToSender(m) PROVE TypeOK'
<1>1. inbox' = Append(inbox, m) \/ UNCHANGED inbox
  BY DEF ToSender
<1>2. << m >> \in Seq(Msg) /\ Append(inbox, m) = inbox \o << m >>
  BY DEF TypeOK, MailboxType
<1> QED
  BY <1>1, <1>2, PostedType DEF ToSender

\* The types of the plug-ins' side: what is posted to them, and by them.
LEMMA PutType ==
    ASSUME PlugType, NEW q, NEW m \in Parcel, Put(q, m)
    PROVE  pbox' \in [Plugins -> Seq(Parcel)]
  BY DEF Put, PlugType

LEMMA FilteredType ==
    ASSUME NEW p \in Plugins
    PROVE  /\ \A l \in Msg \cup {NIL} : Filtered(p, l) \in Msg \cup {NIL}
           /\ \A l \in Pure \cup {NIL} : Filtered(p, l) \in Pure \cup {NIL}
<1>1. \A l \in Text : Exec[p][l] \in Text \cup {NIL}
  BY ExecAssumption
<1> QED
  BY <1>1, Names DEF Filtered

LEMMA FirstParcel ==
    ASSUME PlugType, NEW p \in Plugins, pbox[p] # << >>
    PROVE  /\ Head(pbox[p]) = pbox[p][1] /\ Head(pbox[p]) \in Parcel
           /\ Took(p) => /\ pbox' \in [Plugins -> Seq(Parcel)]
                         /\ pbox'[p] = Tail(pbox[p])
                         /\ \A q \in Plugins \ {p} : pbox'[q] = pbox[q]
<1>1. /\ pbox[p] \in Seq(Parcel) /\ Tail(pbox[p]) \in Seq(Parcel)
      /\ Head(pbox[p]) = pbox[p][1] /\ Head(pbox[p]) \in Parcel
  BY HeadTailProperties DEF PlugType
<1>2. ASSUME Took(p)
      PROVE  /\ pbox' \in [Plugins -> Seq(Parcel)] /\ pbox'[p] = Tail(pbox[p])
             /\ \A q \in Plugins \ {p} : pbox'[q] = pbox[q]
  <2> DEFINE rest == Tail(pbox[p])
  <2>1. pbox' = [pbox EXCEPT ![p] = rest] /\ rest \in Seq(Parcel)
    BY <1>1, <1>2 DEF Took
  <2> HIDE DEF rest
  <2>2. /\ pbox' \in [Plugins -> Seq(Parcel)] /\ pbox'[p] = rest
        /\ \A q \in Plugins \ {p} : pbox'[q] = pbox[q]
    BY <2>1 DEF PlugType
  <2> QED
    BY <2>2 DEF rest
<1> QED
  BY <1>1, <1>2

LEMMA GoesType ==
    ASSUME PlugType, NEW p \in Plugins, NEW at \in PlugPC, Goes(p, at)
    PROVE  /\ ppc' \in [Plugins -> PlugPC] /\ ppc'[p] = at
           /\ \A q \in Plugins \ {p} : ppc'[q] = ppc[q]
  BY DEF Goes, PlugType

\* A step of a plug-in keeps the types.
LEMMA PlugStepType ==
    ASSUME TypeOK, PlugType, NEW p \in Plugins, PlugStep(p)
    PROVE  TypeOK' /\ PlugType'
<1>0. ASSUME UNCHANGED vars PROVE TypeOK'
  BY <1>0 DEF vars, program, control, store, line, TypeOK, MailboxType, LoopType,
              ProgramType, EventType
<1> USE DEF InLoop, PlugPC
<1>1. CASE PlugClick(p)
  BY <1>0, <1>1, FirstParcel DEF PlugClick, PlugType
<1>2. CASE PlugAsk(p)
  <2>1. /\ pbox[p] # << >> /\ Took(p) /\ UNCHANGED << lates, calm >>
        /\ \E m \in {"ADDFILTER", "DELFILTER"} : ToSender(m)
        /\ \E at \in {"addName", "delName"} : Goes(p, at)
    BY <1>2 DEF PlugAsk
  <2>2. {"ADDFILTER", "DELFILTER"} \subseteq Msg
    BY DEF Msg, Word
  <2> QED
    BY <2>1, <2>2, AskedType, GoesType, FirstParcel DEF PlugType
<1>3. CASE PlugAskOn(p)
  <2>1. /\ UNCHANGED << pbox, lates, calm >>
        /\ \E m \in {p, Pars} : ToSender(m)
        /\ \E at \in {"addPars", "attaching", "detaching"} : Goes(p, at)
    BY <1>3 DEF PlugAskOn
  <2>2. {p, Pars} \subseteq Msg
    BY Names
  <2> QED
    BY <2>1, <2>2, AskedType, GoesType DEF PlugType
<1>4. CASE PlugAttached(p) \/ PlugDetached(p)
  <2>1. /\ UNCHANGED << vars, lates, calm >> /\ pbox[p] # << >> /\ Took(p)
        /\ Goes(p, "loop")
    BY <1>4 DEF PlugAttached, PlugDetached
  <2> QED
    BY <1>0, <2>1, GoesType, FirstParcel DEF PlugType
<1>5. CASE PlugUnanswered(p)
  <2>1. /\ UNCHANGED << vars, pbox >> /\ Goes(p, "dead")
        /\ calm' = FALSE
    BY <1>5 DEF PlugUnanswered
  <2>2. ppc' \in [Plugins -> PlugPC]
    BY <2>1, GoesType
  <2> QED
    BY <1>0, <2>1, <2>2 DEF PlugType
<1>6. CASE PlugFilter(p)
  <2> DEFINE answer == Filtered(p, Head(pbox[p]).line)
  <2>1. /\ UNCHANGED << ppc, lates, calm >> /\ pbox[p] # << >> /\ Took(p)
        /\ IF answer = NIL THEN UNCHANGED vars ELSE ToSender(answer)
    BY <1>6 DEF PlugFilter
  <2>2. answer \in Msg \cup {NIL}
    BY <2>1, FirstParcel, FilteredType DEF Parcel
  <2> HIDE DEF answer
  <2>3. TypeOK'
    BY <1>0, <2>1, <2>2, AskedType
  <2> QED
    BY <2>1, <2>3, FirstParcel DEF PlugType
<1>7. CASE PlugLate(p)
  <2>1. /\ UNCHANGED << vars, lates, calm >> /\ pbox[p] # << >> /\ Took(p)
        /\ Goes(p, "dead")
    BY <1>7 DEF PlugLate
  <2> QED
    BY <1>0, <2>1, GoesType, FirstParcel DEF PlugType
<1> QED
  BY <1>1, <1>2, <1>3, <1>4, <1>5, <1>6, <1>7 DEF PlugStep

\* What the window posts, in one go.
LEMMA ButtonWords ==
    /\ << "PORT" >> \o Connection \in Seq(Pure)
    /\ << "FILL", "NEW" >> \o Program
          \o << "FIN", "SENDFROM", "1", "CALCULATE", "RESUME" >> \in Seq(Pure)
<1>1. Connection \in Seq(Pure) /\ Program \in Seq(Pure)
  BY ChainAssumption, Names
<1>2. /\ << "PORT" >> \in Seq(Pure) /\ << "FILL", "NEW" >> \in Seq(Pure)
      /\ << "FIN", "SENDFROM", "1", "CALCULATE", "RESUME" >> \in Seq(Pure)
  BY Names
<1> QED
  BY <1>1, <1>2, ConcatProperties

LEMMA WindowType ==
    ASSUME TypeOK, PlugType, ClickConnect \/ ClickRun \/ \E p \in Plugins : ClickPlugin(p)
    PROVE  TypeOK' /\ PlugType'
<1>1. CASE ClickConnect \/ ClickRun
  <2>1. \E ms \in Seq(Pure) : WindowPosts(ms)
    BY <1>1, ButtonWords DEF ClickConnect, ClickRun
  <2>2. PICK ms \in Seq(Pure) : WindowPosts(ms)
    BY <2>1
  <2>3. ms \in Seq(Msg)
    BY Names
  <2>4. TypeOK'
    BY <2>2, <2>3, PostedType DEF WindowPosts
  <2>5. UNCHANGED << pbox, ppc, lates >> /\ calm' \in BOOLEAN
    BY <1>1, <2>2 DEF ClickConnect, ClickRun, Click, WindowPosts, plugs, PlugType
  <2> QED
    BY <2>4, <2>5 DEF PlugType
<1>2. ASSUME NEW p \in Plugins, ClickPlugin(p) PROVE TypeOK' /\ PlugType'
  <2>1. /\ \E k \in {"EXECUTE", "DETACH", "CLICK"} : Put(p, Request(k))
        /\ UNCHANGED << vars, ppc, lates >> /\ calm' \in BOOLEAN
    BY <1>2 DEF ClickPlugin, Click, PlugType
  <2>2. \A k \in {"EXECUTE", "DETACH", "CLICK"} : Request(k) \in Parcel
    BY DEF Request, Parcel
  <2>3. TypeOK'
    BY <2>1 DEF vars, program, control, store, line, TypeOK, MailboxType, LoopType,
                ProgramType, EventType
  <2> QED
    BY <2>1, <2>2, <2>3, PutType DEF PlugType
<1> QED
  BY <1>1, <1>2

LEMMA SenderType ==
    ASSUME TypeOK, PlugType, SenderStep PROVE TypeOK' /\ PlugType'
<1>1. TypeOK'
  BY SenderSteps, TypeStep DEF Next
<1>2. cmd' \in Msg \cup {NIL}
  BY <1>1 DEF TypeOK, MailboxType
<1>3. [kind |-> "FILTER", line |-> cmd'] \in Parcel /\ Request("ANSWER") \in Parcel
  BY <1>2 DEF Parcel, Request
<1>4. UNCHANGED pbox \/ \E q : \E m \in Parcel : Put(q, m)
  BY <1>3 DEF SenderStep
<1>5. UNCHANGED ppc /\ calm' \in BOOLEAN
  <2>1. UNCHANGED ppc /\ (UNCHANGED calm \/ calm' = FALSE)
    BY DEF SenderStep
  <2> QED
    BY <2>1 DEF PlugType
<1> QED
  BY <1>1, <1>4, <1>5, PutType DEF PlugType

FType == TypeOK /\ PlugType

LEMMA ChainTypes == FType /\ [FNext]_chainVars => FType'
<1> SUFFICES ASSUME FType, [FNext]_chainVars PROVE FType'
  OBVIOUS
<1>1. CASE Loading \/ UNCHANGED chainVars
  <2>1. UNCHANGED << vars, plugs, lates, calm >>
    BY <1>1 DEF Loading, chainVars
  <2> QED
    BY <2>1 DEF vars, plugs, program, control, store, line, FType, PlugType,
                TypeOK, MailboxType, LoopType, ProgramType, EventType
<1> QED
  BY <1>1, PlugStepType, WindowType, SenderType DEF FNext, FType

-----------------------------------------------------------------------------
(* The sender while no request is under way. *)

PureNow == OnlyIn(Pure)

LEMMA PureStep ==
    ASSUME TypeOK, PureNow, OwnStep \/ HelpStep
    PROVE  /\ PureNow' /\ GFilters' = GFilters
           /\ out'.plug = NIL \/ out'.plug.kind = "filter"
  BY PureGreetings, OnlyStep DEF PureNow, OnlyIn

-----------------------------------------------------------------------------
(* The sender while a request is under way. *)

\* A stopped sender does nothing until the first word of a request comes.
LEMMA StopTick ==
    ASSUME InStop, TickStep PROVE IdleTick /\ state' = "stop"
<1>1. CASE TickLine \/ TickSingle
  BY <1>1 DEF InStop, TickLine, TickSingle, LineReady, SingleReady
<1>2. CASE IdleTick
  <2>1. state' = "stop"
    <3> USE DEF InStop, Tick, TickMain, store, line, program, control
    <3>1. CASE TickEnd \/ TickNoController
      BY <3>1 DEF TickEnd, TickNoController
    <3>2. ASSUME NEW sent \in BOOLEAN, TickStatus(sent) PROVE state' = "stop"
      BY <3>2 DEF TickStatus
    <3>3. ASSUME NEW r \in ReadResult, NEW acc \in BOOLEAN, NEW lapsed \in BOOLEAN,
                 TickRead(r, acc, lapsed)
          PROVE  state' = "stop"
      BY <3>3 DEF TickRead
    <3>4. CASE TickProgramEnd \/ TickIdle \/ TickLineDies
      BY <3>4 DEF TickProgramEnd, TickIdle, TickLineDies
    <3> QED
      BY <1>1, <3>1, <3>2, <3>3, <3>4 DEF TickStep
  <2> QED
    BY <1>2, <2>1
<1> QED
  BY <1>1, <1>2, IdleTicks

LEMMA AtStop ==
    ASSUME InStop, OwnStep \/ HelpStep,
           inbox = << >> \/ Head(inbox) \in {"ADDFILTER", "DELFILTER"}
    PROVE  /\ UNCHANGED << args, gthread, sthread, cmd, GFilters >>
           /\ out'.plug = NIL /\ state' = "stop"
           /\ \/ inbox' = inbox /\ pc' \in {"tick", "wait", "dead"}
              \/ /\ pc = "wait" /\ inbox # << >>
                 /\ pc' = Head(inbox) /\ inbox' = Tail(inbox)
<1>1. CASE TickStep
  BY <1>1, StopTick DEF IdleTick
<1>2. CASE ~TickStep
  <2>1. CASE HandlerStep
    <3>1. pc = "wait"
      BY <2>1 DEF InStop, HandlerStep, NoMessage, OnNEW, OnCALCULATE, OnPAUSE,
                  OnFILL, OnRESUME, OnSTOP, OnWithArgument, SingleArg, SendfromArg,
                  AddFilterName, AddFilterPars, DelFilterName, FillStart, FillNext, On
    <3>2. NoMessage \/ OnWithArgument
      <4>1. Arrived \in {NIL, "ADDFILTER", "DELFILTER"}
        BY DEF Arrived
      <4> QED
        BY <2>1, <3>1, <4>1, Names
           DEF HandlerStep, OnNEW, OnCALCULATE, OnPAUSE, OnFILL, OnRESUME, OnSTOP,
               SingleArg, SendfromArg, AddFilterName, AddFilterPars, DelFilterName,
               FillStart, FillNext, On, Msg
    <3>3. CASE NoMessage
      <4>1. inbox = << >>
        BY <3>3, Names DEF NoMessage, Arrived, Msg, Word
      <4> QED
        BY <3>3, <4>1, PlugFacts DEF NoMessage, WaitMsg, program, control, line,
                                     store, InStop
    <3>4. CASE OnWithArgument
      BY <3>4, PlugFacts DEF OnWithArgument, On, WaitMsg, program, control, line,
                             store, InStop
    <3> QED
      BY <3>2, <3>3, <3>4
  <2>2. CASE OnPORT
    BY <2>2 DEF OnPORT, On
  <2>3. CASE ~HandlerStep /\ ~OnPORT
    BY <1>2, <2>3 DEF InStop, OwnStep, ConnectStep, HelpStep, HelpAnswer, PortArg,
                      ConnectIgnored, ConnectDies, ConnectFails, ConnectOpens, Greet,
                      FilterAnswer
  <2> QED
    BY <2>1, <2>2, <2>3
<1> QED
  BY <1>1, <1>2

\* In a request it waits for the next message and does nothing else.
LEMMA AskingStep ==
    ASSUME pc \in Asking, OwnStep \/ HelpStep
    PROVE  /\ pc = "ADDFILTER" => AddFilterName
           /\ pc = "pars" => AddFilterPars
           /\ pc = "DELFILTER" => DelFilterName
<1>1. ~TickStep
  BY DEF Asking, TickStep, TickEnd, TickNoController, TickStatus, TickRead,
         TickProgramEnd, TickIdle, TickLine, TickLineDies, TickSingle, TickMain, Tick
<1>2. ~ConnectStep /\ ~HelpStep /\ ~FilterAnswer
  BY DEF Asking, ConnectStep, HelpStep, HelpAnswer, OnPORT, PortArg, ConnectIgnored,
         ConnectDies, ConnectFails, ConnectOpens, Greet, FilterAnswer, On
<1>3. HandlerStep
  BY <1>1, <1>2 DEF OwnStep
<1>4. /\ pc \notin {"wait", "SINGLE", "SENDFROM", "fill"}
      /\ pc = "ADDFILTER" => pc \notin {"pars", "DELFILTER"}
      /\ pc = "pars" => pc \notin {"ADDFILTER", "DELFILTER"}
      /\ pc = "DELFILTER" => pc \notin {"ADDFILTER", "pars"}
  BY DEF Asking
<1>5. ~(NoMessage \/ OnNEW \/ OnCALCULATE \/ OnPAUSE \/ OnFILL \/ OnRESUME \/ OnSTOP
        \/ OnWithArgument)
  BY <1>4 DEF NoMessage, OnNEW, OnCALCULATE, OnPAUSE, OnFILL, OnRESUME, OnSTOP,
             OnWithArgument, On
<1>6. ~(SingleArg \/ SendfromArg \/ FillStart \/ FillNext)
  BY <1>4 DEF SingleArg, SendfromArg, FillStart, FillNext
<1>7. AddFilterName \/ AddFilterPars \/ DelFilterName
  BY <1>3, <1>5, <1>6 DEF HandlerStep
<1> QED
  BY <1>4, <1>7 DEF AddFilterName, AddFilterPars, DelFilterName

\* What reaches a plug-in when the sender sends it m.
LEMMA PutEffect ==
    ASSUME PlugType, NEW p \in Plugins, NEW m \in Parcel, Put(p, m), ppc[p] # "dead"
    PROVE  /\ pbox'[p] = Append(pbox[p], m)
           /\ \A q \in Plugins \ {p} : pbox'[q] = pbox[q]
  BY DEF Put, PlugType

\* A task that has ended takes no steps.
LEMMA SenderRuns == SenderStep => pc # "dead"
  BY DEF SenderStep, OnPORT, On, ConnectStep, PortArg, ConnectIgnored,
     ConnectDies, ConnectFails, ConnectOpens, Greet, HelpStep, HelpAnswer, TickEnd,
     TickNoController, TickStatus, TickRead, TickProgramEnd, TickIdle, TickLine,
     TickSingle, TickMain, Tick, HandlerStep, NoMessage, OnNEW, OnCALCULATE, OnPAUSE,
     OnFILL, OnRESUME, OnSTOP, OnWithArgument, SingleArg, SendfromArg,
     AddFilterName, AddFilterPars, DelFilterName, FillStart, FillNext, FilterAnswer

\* Lines on their way through the filters.
LEMMA WorkingSends ==
    ASSUME FType, Working, SenderStep PROVE Working'
<1>1. pc # "dead"
  BY SenderRuns
<1>2. PureNow /\ shown = GFilters
  BY <1>1 DEF Working, PureNow, OnlyIn, HeldPure
<1>3. /\ PureNow' /\ GFilters' = GFilters
      /\ out'.plug = NIL \/ out'.plug.kind = "filter"
  BY <1>2, SenderSteps, PureStep DEF FType
<1>4. UNCHANGED << ppc, shown >>
  BY DEF SenderStep
<1>5. ASSUME NEW p \in Plugins, NEW i \in 1..Len(pbox'[p])
      PROVE  pbox'[p][i].kind = "FILTER" /\ pbox'[p][i].line \in Pure \cup {NIL}
  <2> DEFINE m == [kind |-> "FILTER", line |-> cmd']
  <2>1. m \in Parcel /\ m.kind = "FILTER" /\ m.line \in Pure \cup {NIL}
    BY <1>3, Names DEF PureNow, OnlyIn, HeldPure, HeldIn, Parcel
  <2>2. UNCHANGED pbox \/ \E q : Put(q, m)
    BY <1>3 DEF SenderStep
  <2> HIDE DEF m
  <2>3. pbox'[p] = pbox[p] \/ pbox'[p] = Append(pbox[p], m)
    <3>1. ASSUME NEW q, Put(q, m)
          PROVE  pbox'[p] = pbox[p] \/ pbox'[p] = Append(pbox[p], m)
      BY <3>1 DEF Put, FType, PlugType
    <3> QED
      BY <2>2, <3>1
  <2>4. pbox[p] \in Seq(Parcel)
    BY DEF FType, PlugType
  <2>5. CASE pbox'[p] = pbox[p]
    BY <2>5 DEF Working
  <2>6. CASE pbox'[p] = Append(pbox[p], m)
    <3>1. Len(pbox'[p]) = Len(pbox[p]) + 1 /\ Len(pbox[p]) \in Nat
      BY <2>4, <2>6, <2>1
    <3>2. CASE i = Len(pbox[p]) + 1
      <4>1. pbox'[p][i] = m
        BY <2>4, <2>6, <3>2
      <4> QED
        BY <2>1, <4>1
    <3>3. CASE i # Len(pbox[p]) + 1
      <4>1. i \in 1..Len(pbox[p])
        BY <3>1, <3>3
      <4>2. pbox'[p][i] = pbox[p][i]
        BY <2>1, <2>4, <2>6, <4>1
      <4> QED
        BY <4>1, <4>2 DEF Working
    <3> QED
      BY <3>2, <3>3
  <2> QED
    BY <2>3, <2>5, <2>6
<1> QED
  BY <1>2, <1>3, <1>4, <1>5 DEF Working, PureNow, OnlyIn, HeldPure

\* The messages of a request, one after the other.
LEMMA Requests ==
    \A a, b, c : /\ Head(<< a >>) = a /\ Tail(<< a >>) = << >>
                 /\ Head(<< a, b >>) = a /\ Tail(<< a, b >>) = << b >>
                 /\ Head(<< a, b, c >>) = a /\ Tail(<< a, b, c >>) = << b, c >>
                 /\ Append(<< >>, a) = << a >> /\ Append(<< a >>, b) = << a, b >>
                 /\ Append(<< a, b >>, c) = << a, b, c >>
                 /\ << a >> # << >> /\ << a, b >> # << >> /\ << a, b, c >> # << >>
<1> SUFFICES ASSUME NEW a, NEW b, NEW c
             PROVE  /\ Head(<< a >>) = a /\ Tail(<< a >>) = << >>
                    /\ Head(<< a, b >>) = a /\ Tail(<< a, b >>) = << b >>
                    /\ Head(<< a, b, c >>) = a /\ Tail(<< a, b, c >>) = << b, c >>
                    /\ Append(<< >>, a) = << a >> /\ Append(<< a >>, b) = << a, b >>
                    /\ Append(<< a, b >>, c) = << a, b, c >>
                    /\ << a >> # << >> /\ << a, b >> # << >> /\ << a, b, c >> # << >>
  OBVIOUS
<1>1. Tail(<< a >>) = << >>
  OBVIOUS
<1>2. Tail(<< a, b >>) = << b >>
  OBVIOUS
<1>3. Tail(<< a, b, c >>) = << b, c >>
  OBVIOUS
<1>4. Head(<< a >>) = a /\ Head(<< a, b >>) = a /\ Head(<< a, b, c >>) = a
  OBVIOUS
<1>5. Append(<< >>, a) = << a >>
  OBVIOUS
<1> DEFINE S == {a, b, c}
<1>6. Append(<< a >>, b) = << a, b >>
  <2>1. << a >> \in Seq(S) /\ b \in S
    OBVIOUS
  <2>2. /\ Len(Append(<< a >>, b)) = 2 /\ Append(<< a >>, b) \in Seq(S)
        /\ Append(<< a >>, b)[1] = a /\ Append(<< a >>, b)[2] = b
    BY <2>1, AppendProperties
  <2>3. << a, b >> \in Seq(S) /\ Len(<< a, b >>) = 2
    OBVIOUS
  <2>4. \A i \in 1..2 : Append(<< a >>, b)[i] = << a, b >>[i]
    BY <2>2
  <2> QED
    BY <2>2, <2>3, <2>4, SeqEqual
<1>7. Append(<< a, b >>, c) = << a, b, c >>
  <2>1. << a, b >> \in Seq(S) /\ c \in S
    OBVIOUS
  <2>2. /\ Len(Append(<< a, b >>, c)) = 3 /\ Append(<< a, b >>, c) \in Seq(S)
        /\ Append(<< a, b >>, c)[1] = a /\ Append(<< a, b >>, c)[2] = b
        /\ Append(<< a, b >>, c)[3] = c
    BY <2>1, AppendProperties
  <2>3. << a, b, c >> \in Seq(S) /\ Len(<< a, b, c >>) = 3
    OBVIOUS
  <2>4. \A i \in 1..3 : Append(<< a, b >>, c)[i] = << a, b, c >>[i]
    BY <2>2
  <2> QED
    BY <2>2, <2>3, <2>4, SeqEqual
<1> QED
  BY <1>1, <1>2, <1>3, <1>4, <1>5, <1>6, <1>7

\* Before the first word of a request is taken, and after the last.
LEMMA BegunServed ==
    ASSUME FType, NEW p \in Plugins, Requesting(p), OwnStep \/ HelpStep,
           UNCHANGED << ppc, shown >>, out'.plug = NIL => UNCHANGED pbox,
           \/ AskedFor(p) /\ (AttachBegun(p) \/ DetachBegun(p))
           \/ Served(p)
    PROVE  Requesting(p)' /\ UNCHANGED pbox
<1>1. /\ InStop
      /\ inbox = << >> \/ Head(inbox) \in {"ADDFILTER", "DELFILTER"}
  BY Requests DEF AttachBegun, DetachBegun, Served
<1>2. /\ UNCHANGED << args, gthread, sthread, cmd, GFilters, pbox >> /\ state' = "stop"
      /\ \/ inbox' = inbox /\ pc' \in {"tick", "wait", "dead"}
         \/ /\ pc = "wait" /\ inbox # << >>
            /\ pc' = Head(inbox) /\ inbox' = Tail(inbox)
  BY <1>1, AtStop
<1>3. pc # "dead" /\ HeldPure
  BY <1>1 DEF InStop, Requesting
<1>4. CASE pc' = "dead"
  BY <1>2, <1>4 DEF Requesting
<1>5. CASE inbox' = inbox /\ pc' \in {"tick", "wait"}
  BY <1>2, <1>3, <1>5 DEF Requesting, AskedFor, AttachBegun, DetachBegun, Served,
                          InStop, HeldPure, HeldIn
<1>6. CASE inbox # << >> /\ pc' = Head(inbox) /\ inbox' = Tail(inbox)
  <2>1. AskedFor(p) /\ (AttachBegun(p) \/ DetachBegun(p))
    BY <1>6 DEF Served
  <2>2. AttachNamed(p)' \/ DetachNamed(p)'
    <3>1. ASSUME AttachBegun(p) PROVE AttachNamed(p)'
      <4>1. CASE ppc[p] = "addName" /\ inbox = << "ADDFILTER" >>
        BY <1>2, <1>6, <4>1, Requests DEF AttachNamed
      <4>2. CASE ppc[p] = "addPars" /\ inbox = << "ADDFILTER", p >>
        BY <1>2, <1>6, <4>2, Requests DEF AttachNamed
      <4>3. CASE ppc[p] = "attaching" /\ inbox = << "ADDFILTER", p, Pars >>
        BY <1>2, <1>6, <4>3, Requests DEF AttachNamed
      <4> QED
        BY <3>1, <4>1, <4>2, <4>3 DEF AttachBegun
    <3>2. ASSUME DetachBegun(p) PROVE DetachNamed(p)'
      <4>1. CASE ppc[p] = "delName" /\ inbox = << "DELFILTER" >>
        BY <1>2, <1>6, <4>1, Requests DEF DetachNamed
      <4>2. CASE ppc[p] = "detaching" /\ inbox = << "DELFILTER", p >>
        BY <1>2, <1>6, <4>2, Requests DEF DetachNamed
      <4> QED
        BY <3>2, <4>1, <4>2 DEF DetachBegun
    <3> QED
      BY <2>1, <3>1, <3>2
  <2>3. AskedFor(p)' /\ HeldPure'
    <3>1. pc' \in {"ADDFILTER", "DELFILTER"}
      BY <2>2 DEF AttachNamed, DetachNamed
    <3> QED
      BY <1>2, <1>3, <2>1, <2>2, <3>1 DEF AskedFor, HeldPure, HeldIn
  <2> QED
    BY <1>2, <2>3 DEF Requesting
<1> QED
  BY <1>2, <1>4, <1>5, <1>6

\* The sender looks at a request and does nothing else meanwhile.
LEMMA RequestServed ==
    ASSUME FType, NEW p \in Plugins, Requesting(p),
           \A q \in Plugins \ {p} : Resting(q), SenderStep, ~Late
    PROVE  Requesting(p)' /\ \A q \in Plugins \ {p} : Resting(q)'
<1>1. UNCHANGED << ppc, shown >> /\ (OwnStep \/ HelpStep)
  BY SenderSteps DEF SenderStep
<1>2. p \in Pure /\ p # NIL /\ Pars # NIL
  BY Names DEF Pure
<1>3. out'.plug = NIL => UNCHANGED pbox
  BY DEF SenderStep
<1>4. ASSUME UNCHANGED pbox PROVE \A q \in Plugins \ {p} : Resting(q)'
  BY <1>1, <1>4 DEF Resting
<1>5. pc # "dead"
  BY SenderRuns
<1>6. CASE \/ AskedFor(p) /\ (AttachBegun(p) \/ DetachBegun(p))
           \/ Served(p)
  BY <1>1, <1>3, <1>4, <1>6, BegunServed
<1>7. CASE AskedFor(p) /\ AttachNamed(p)
  <2>1. pc = "ADDFILTER" /\ inbox # << >> /\ AddFilterName
    BY <1>1, <1>7, AskingStep DEF AttachNamed, Late, Asking
  <2>2. inbox \in {<< p >>, << p, Pars >>} /\ Arrived = p /\ inbox' = Tail(inbox)
    BY <1>7, <2>1, Requests DEF AttachNamed, Arrived, AddFilterName, WaitMsg
  <2>3. /\ pc' = "pars" /\ args' = << p >> /\ out'.plug = NIL
        /\ UNCHANGED << gthread, sthread, cmd, GFilters, state >>
    BY <1>2, <2>1, <2>2, PlugFacts
       DEF AddFilterName, program, control, store, line
  <2>4. UNCHANGED pbox
    BY <1>3, <2>3
  <2>5. AttachParsed(p)'
    <3>1. CASE ppc[p] = "addPars" /\ inbox = << p >>
      BY <1>1, <1>7, <2>2, <2>3, <3>1, Requests DEF AttachNamed, AttachParsed
    <3>2. CASE ppc[p] = "attaching" /\ inbox = << p, Pars >>
      BY <1>1, <1>7, <2>2, <2>3, <3>2, Requests DEF AttachNamed, AttachParsed
    <3> QED
      BY <1>7, <2>1, <3>1, <3>2 DEF AttachNamed
  <2>6. Requesting(p)'
    BY <1>1, <1>5, <1>7, <2>3, <2>4, <2>5 DEF Requesting, AskedFor, HeldPure, HeldIn
  <2> QED
    BY <1>4, <2>4, <2>6
<1>8. CASE AskedFor(p) /\ AttachParsed(p)
  <2>1. pc = "pars" /\ inbox # << >> /\ AddFilterPars
    BY <1>1, <1>8, AskingStep DEF AttachParsed, Late, Asking
  <2>2. /\ inbox = << Pars >> /\ Arrived = Pars /\ inbox' = << >>
        /\ ppc[p] = "attaching" /\ args[1] = p
    BY <1>8, <2>1, Requests DEF AttachParsed, Arrived, AddFilterPars, WaitMsg
  <2>3. /\ pc' = "tick" /\ GFilters' = Append(Removed(GFilters, p), p)
        /\ out'.plug = Plug("attached", p) /\ UNCHANGED << gthread, sthread, cmd, state >>
    BY <1>2, <2>1, <2>2, PlugFacts
       DEF AddFilterPars, Without, program, control, line
  <2>4. UNCHANGED pbox \/ Put(p, Request("ANSWER"))
    BY <2>3 DEF SenderStep, Plug
  <2>5. pbox[p] = << >> /\ shown = GFilters /\ Request("ANSWER") \in Parcel
    BY <1>8 DEF AskedFor, Request, Parcel
  <2>6. /\ pbox'[p] = << >> \/ Len(pbox'[p]) = 1
        /\ \A q \in Plugins \ {p} : pbox'[q] = pbox[q]
    BY <2>2, <2>4, <2>5, PutEffect, Requests DEF FType
  <2>7. Served(p)'
    BY <1>1, <1>8, <2>2, <2>3, <2>5 DEF Served, AttachParsed, InStop
  <2>8. Requesting(p)'
    BY <1>1, <1>5, <2>2, <2>3, <2>6, <2>7 DEF Requesting, HeldPure, HeldIn
  <2> QED
    BY <1>1, <2>6, <2>8 DEF Resting
<1>9. CASE AskedFor(p) /\ DetachNamed(p)
  <2>1. pc = "DELFILTER" /\ inbox # << >> /\ DelFilterName
    BY <1>1, <1>9, AskingStep DEF DetachNamed, Late, Asking
  <2>2. inbox = << p >> /\ Arrived = p /\ inbox' = << >> /\ ppc[p] = "detaching"
    BY <1>9, <2>1, Requests DEF DetachNamed, Arrived, DelFilterName, WaitMsg
  <2>3. /\ pc' = "tick" /\ GFilters' = Removed(GFilters, p)
        /\ out'.plug = Plug("detached", p) /\ UNCHANGED << gthread, sthread, cmd, state >>
    BY <1>2, <2>1, <2>2, PlugFacts
       DEF DelFilterName, Without, program, control, line
  <2>4. UNCHANGED pbox \/ Put(p, Request("ANSWER"))
    BY <2>3 DEF SenderStep, Plug
  <2>5. pbox[p] = << >> /\ shown = GFilters /\ Request("ANSWER") \in Parcel
    BY <1>9 DEF AskedFor, Request, Parcel
  <2>6. /\ pbox'[p] = << >> \/ Len(pbox'[p]) = 1
        /\ \A q \in Plugins \ {p} : pbox'[q] = pbox[q]
    BY <2>2, <2>4, <2>5, PutEffect, Requests DEF FType
  <2>7. Served(p)'
    BY <1>1, <1>9, <2>2, <2>3, <2>5 DEF Served, DetachNamed, InStop
  <2>8. Requesting(p)'
    BY <1>1, <1>5, <2>2, <2>3, <2>6, <2>7 DEF Requesting, HeldPure, HeldIn
  <2> QED
    BY <1>1, <2>6, <2>8 DEF Resting
<1> QED
  BY <1>5, <1>6, <1>7, <1>8, <1>9 DEF Requesting, AskedFor

\* Before the plug-in looks at a click nothing happens.
LEMMA ClickWaits ==
    ASSUME FType, NEW p \in Plugins, Clicked(p),
           \A q \in Plugins \ {p} : Resting(q), SenderStep
    PROVE  Clicked(p)' /\ \A q \in Plugins \ {p} : Resting(q)'
<1>1. pc # "dead" /\ UNCHANGED << ppc, shown >> /\ (OwnStep \/ HelpStep)
  BY SenderRuns, SenderSteps DEF SenderStep
<1>2. inbox = << >> /\ InStop /\ HeldPure /\ shown = GFilters
  BY <1>1 DEF Clicked
<1>3. /\ UNCHANGED << args, gthread, sthread, cmd, GFilters, inbox >>
      /\ out'.plug = NIL /\ state' = "stop" /\ pc' \in {"tick", "wait", "dead"}
  BY <1>1, <1>2, AtStop
<1>4. UNCHANGED pbox
  BY <1>3 DEF SenderStep
<1> QED
  BY <1>1, <1>2, <1>3, <1>4 DEF Clicked, Resting, InStop, HeldPure, HeldIn

LEMMA SenderOrderly ==
    ASSUME FType, Orderly, SenderStep PROVE Orderly'
<1> SUFFICES ASSUME calm' PROVE Orderly'
  BY DEF Orderly
<1>1. ~Late /\ calm
  BY DEF SenderStep
<1> QED
  BY <1>1, WorkingSends, ClickWaits, RequestServed DEF Orderly

-----------------------------------------------------------------------------
(* The plug-ins' steps. *)

\* A line is filtered: the answer is a line again.
LEMMA WorkingFilters ==
    ASSUME FType, Working, NEW r \in Plugins, PlugStep(r) PROVE Working'
<1>1. ppc[r] = "loop" /\ pbox[r] \in Seq(Parcel)
  BY DEF Working, FType, PlugType
<1>2. pbox[r] # << >> /\ InLoop(r, "FILTER") /\ PlugFilter(r)
  <2>1. pbox[r] # << >> => Head(pbox[r]) = pbox[r][1] /\ 1 \in 1..Len(pbox[r])
    BY <1>1
  <2>2. pbox[r] # << >> => Head(pbox[r]).kind = "FILTER"
    BY <2>1 DEF Working
  <2> QED
    BY <1>1, <2>2 DEF PlugStep, PlugClick, PlugAsk, PlugAskOn, PlugAttached,
                      PlugDetached, PlugUnanswered, PlugFilter, PlugLate, InLoop
<1> DEFINE answer == Filtered(r, Head(pbox[r]).line)
<1>3. answer \in Pure \cup {NIL}
  <2>1. Head(pbox[r]) = pbox[r][1] /\ 1 \in 1..Len(pbox[r])
    BY <1>1, <1>2
  <2>2. Head(pbox[r]).line \in Pure \cup {NIL}
    BY <2>1 DEF Working
  <2> QED
    BY <2>2, FilteredType
<1>4. /\ UNCHANGED << ppc, shown >> /\ Took(r)
      /\ IF answer = NIL THEN UNCHANGED vars ELSE ToSender(answer)
  BY <1>2 DEF PlugFilter, InLoop
<1> HIDE DEF answer
<1>5. /\ UNCHANGED << pc, args, gthread, sthread, cmd, GFilters >>
      /\ pc # "dead" => inbox' = inbox \/ (answer \in Pure /\ inbox' = Append(inbox, answer))
  BY <1>3, <1>4 DEF ToSender, vars, program, store, line
<1>6. pc # "dead" => inbox' \in Seq(Pure)
  BY <1>5 DEF Working
<1>7. /\ pbox'[r] = Tail(pbox[r]) /\ \A q \in Plugins \ {r} : pbox'[q] = pbox[q]
  BY <1>2, <1>4, FirstParcel DEF FType
<1>8. ASSUME NEW q \in Plugins, NEW i \in 1..Len(pbox'[q])
      PROVE  pbox'[q][i].kind = "FILTER" /\ pbox'[q][i].line \in Pure \cup {NIL}
  <2>1. CASE q = r
    <3> DEFINE s == pbox[r]
    <3>0. s \in Seq(Parcel) /\ s # << >> /\ pbox'[q] = Tail(s)
      BY <1>1, <1>2, <1>7, <2>1
    <3> HIDE DEF s
    <3>2. /\ Len(Tail(s)) = Len(s) - 1 /\ Len(s) \in Nat
          /\ \A k \in 1..Len(Tail(s)) : Tail(s)[k] = s[k + 1]
      BY <3>0, HeadTailProperties
    <3>3. i + 1 \in 1..Len(s) /\ pbox'[q][i] = s[i + 1]
      BY <1>8, <3>0, <3>2
    <3>1. i + 1 \in 1..Len(pbox[r]) /\ pbox'[q][i] = pbox[r][i + 1]
      BY <3>3 DEF s
    <3> QED
      BY <3>1 DEF Working
  <2>2. CASE q # r
    BY <1>7, <1>8, <2>2 DEF Working
  <2> QED
    BY <2>1, <2>2
<1> QED
  BY <1>4, <1>5, <1>6, <1>8 DEF Working, HeldPure, HeldIn

\* The sender at rest, as far as the plug-ins can disturb it.
LEMMA SenderKeptOn ==
    ASSUME HeldPure, UNCHANGED << pc, args, program, control, store, line >>
    PROVE  HeldPure' /\ UNCHANGED << pc, args, state, GFilters >>
  BY DEF HeldPure, HeldIn, program, control, store, line

\* Back to work.
LEMMA EmptyBoxes ==
    ASSUME \A q \in Plugins : ppc'[q] = "loop" /\ pbox'[q] = << >>,
           pc' # "dead" => /\ inbox' = << >> /\ pc' \notin Asking
                           /\ HeldPure' /\ shown' = GFilters'
    PROVE  Working'
<1>1. \A q \in Plugins : Len(pbox'[q]) = 0
  OBVIOUS
<1>2. \A q \in Plugins : 1..Len(pbox'[q]) = {}
  BY <1>1
<1>3. << >> \in Seq(Pure)
  OBVIOUS
<1> QED
  BY <1>2, <1>3 DEF Working

LEMMA LastParcel ==
    ASSUME NEW s \in Seq(Parcel), Len(s) = 1
    PROVE  s # << >> /\ Head(s) = s[1] /\ Tail(s) = << >>
<1>1. s # << >>
  BY EmptySeq
<1>2. Head(s) = s[1] /\ Tail(s) \in Seq(Parcel) /\ Len(Tail(s)) = 0
  BY <1>1, HeadTailProperties
<1> QED
  BY <1>1, <1>2, EmptySeq

\* The plug-in looks at the click.
LEMMA ClickTaken ==
    ASSUME FType, NEW p \in Plugins, Clicked(p),
           \A q \in Plugins \ {p} : Resting(q), NEW r \in Plugins, PlugStep(r)
    PROVE  Working' \/ (Requesting(p)' /\ \A q \in Plugins \ {p} : Resting(q)')
<1>1. r = p
  BY DEF Resting, PlugStep, PlugClick, PlugAsk, PlugAskOn, PlugAttached,
         PlugDetached, PlugUnanswered, PlugFilter, PlugLate, InLoop
<1>2. /\ pbox[p] \in Seq(Parcel) /\ pbox[p] # << >> /\ Head(pbox[p]) = pbox[p][1]
      /\ Tail(pbox[p]) = << >>
  <2> pbox[p] \in Seq(Parcel) /\ Len(pbox[p]) = 1
    BY DEF Clicked, FType, PlugType
  <2> QED
    BY LastParcel
<1>3. PlugClick(p) \/ PlugAsk(p)
  BY <1>1, <1>2 DEF Clicked, PlugStep, PlugAskOn, PlugAttached, PlugDetached,
                    PlugUnanswered, PlugFilter, PlugLate, InLoop
<1>4. /\ pbox'[p] = << >> /\ \A q \in Plugins \ {p} : pbox'[q] = pbox[q]
      /\ UNCHANGED shown
  BY <1>2, <1>3, FirstParcel DEF FType, PlugClick, PlugAsk, InLoop
<1>5. CASE PlugClick(p)
  <2>1. UNCHANGED << pc, inbox, args, gthread, sthread, cmd, GFilters, ppc >>
    BY <1>5 DEF PlugClick, vars, program, store, line
  <2>2. \A q \in Plugins : pbox'[q] = << >> /\ ppc'[q] = "loop"
    BY <1>4, <2>1 DEF Clicked, Resting
  <2>3. pc' # "dead" => inbox' = << >> /\ pc' \notin Asking /\ HeldPure' /\ shown' = GFilters'
    BY <1>4, <2>1 DEF Clicked, InStop, Asking, HeldPure, HeldIn
  <2> QED
    BY <2>2, <2>3, EmptyBoxes
<1>6. CASE PlugAsk(p)
  <2>1. /\ UNCHANGED << pc, args, program, control, store, line >>
        /\ pc # "dead" =>
             \/ inbox' = Append(inbox, "ADDFILTER") /\ Goes(p, "addName")
             \/ inbox' = Append(inbox, "DELFILTER") /\ Goes(p, "delName")
        /\ Goes(p, "addName") \/ Goes(p, "delName")
    BY <1>6 DEF PlugAsk, ToSender
  <2>2. \A at \in {"addName", "delName"} :
           Goes(p, at) => ppc'[p] = at /\ \A q \in Plugins \ {p} : ppc'[q] = ppc[q]
    BY GoesType DEF FType, PlugPC
  <2>3. \A q \in Plugins \ {p} : Resting(q)'
    BY <1>4, <2>1, <2>2 DEF Resting
  <2>4. ASSUME pc' # "dead"
        PROVE  HeldPure' /\ AskedFor(p)'
    <3>1. pc # "dead" /\ inbox = << >> /\ InStop /\ HeldPure /\ shown = GFilters
      BY <2>1, <2>4 DEF Clicked
    <3>2. HeldPure' /\ UNCHANGED << pc, args, state, GFilters >>
      BY <2>1, <3>1, SenderKeptOn
    <3>3. \/ inbox' = << "ADDFILTER" >> /\ ppc'[p] = "addName"
          \/ inbox' = << "DELFILTER" >> /\ ppc'[p] = "delName"
      BY <2>1, <2>2, <3>1, Requests
    <3>4. AttachBegun(p)' \/ DetachBegun(p)'
      BY <3>1, <3>2, <3>3 DEF AttachBegun, DetachBegun, InStop
    <3> QED
      BY <1>4, <3>1, <3>2, <3>4 DEF AskedFor
  <2> QED
    BY <1>4, <2>1, <2>2, <2>3, <2>4 DEF Requesting
<1> QED
  BY <1>3, <1>5, <1>6

\* It posts the rest of its request, or reads the answer.
LEMMA RequestGoesOn ==
    ASSUME FType, NEW p \in Plugins, Requesting(p), calm',
           \A q \in Plugins \ {p} : Resting(q), NEW r \in Plugins, PlugStep(r)
    PROVE  Working' \/ (Requesting(p)' /\ \A q \in Plugins \ {p} : Resting(q)')
<1>1. r = p
  <2>1. ~Resting(r)
    BY DEF Resting, PlugStep, PlugClick, PlugAsk, PlugAskOn, PlugAttached,
           PlugDetached, PlugUnanswered, PlugFilter, PlugLate, InLoop
  <2> QED
    BY <2>1
<1>2. PlugAskOn(p) \/ PlugAttached(p) \/ PlugDetached(p)
  BY <1>1 DEF Requesting, PlugStep, PlugClick, PlugAsk, PlugUnanswered, PlugFilter,
              PlugLate, InLoop
<1>3. CASE PlugAskOn(p)
  <2>1. /\ UNCHANGED << pbox, shown, pc, args, program, control, store, line >>
        /\ \/ /\ ppc[p] = "addName" /\ Goes(p, "addPars")
              /\ pc # "dead" => inbox' = Append(inbox, p)
           \/ /\ ppc[p] = "addPars" /\ Goes(p, "attaching")
              /\ pc # "dead" => inbox' = Append(inbox, Pars)
           \/ /\ ppc[p] = "delName" /\ Goes(p, "detaching")
              /\ pc # "dead" => inbox' = Append(inbox, p)
    BY <1>3 DEF PlugAskOn, ToSender
  <2>2. \A at \in {"addPars", "attaching", "detaching"} :
           Goes(p, at) => ppc'[p] = at /\ \A q \in Plugins \ {p} : ppc'[q] = ppc[q]
    BY GoesType DEF FType, PlugPC
  <2>3. \A q \in Plugins \ {p} : Resting(q)'
    BY <2>1, <2>2 DEF Resting
  <2>4. pbox[p] = << >>
    BY <2>1 DEF Requesting
  <2>5. ASSUME pc' # "dead"
        PROVE  HeldPure' /\ AskedFor(p)'
    <3>1. pc # "dead" /\ HeldPure /\ AskedFor(p)
      BY <2>1, <2>5 DEF Requesting, Served
    <3>2. HeldPure' /\ UNCHANGED << pc, args, state, GFilters >>
      BY <2>1, <3>1, SenderKeptOn
    <3>3. CASE ppc[p] = "addName"
      <4>1. ppc'[p] = "addPars" /\ inbox' = Append(inbox, p)
        BY <2>1, <2>2, <3>1, <3>3
      <4>2. AttachBegun(p) \/ AttachNamed(p)
        BY <3>1, <3>3 DEF AskedFor, AttachParsed, DetachBegun, DetachNamed
      <4>3. ASSUME AttachBegun(p) PROVE AttachBegun(p)'
        <5>0. inbox = << "ADDFILTER" >>
          BY <3>3, <4>3 DEF AttachBegun
        <5>1. inbox' = << "ADDFILTER", p >>
          BY <4>1, <5>0, Requests
        <5> QED
          BY <3>2, <4>1, <4>3, <5>1 DEF AttachBegun, InStop
      <4>4. ASSUME AttachNamed(p) PROVE AttachNamed(p)'
        <5>1. inbox' = << p >>
          BY <3>3, <4>1, <4>4, Requests DEF AttachNamed
        <5> QED
          BY <3>2, <4>1, <4>4, <5>1 DEF AttachNamed
      <4> QED
        BY <2>1, <3>1, <3>2, <4>2, <4>3, <4>4 DEF AskedFor
    <3>4. CASE ppc[p] = "addPars"
      <4>1. ppc'[p] = "attaching" /\ inbox' = Append(inbox, Pars)
        BY <2>1, <2>2, <3>1, <3>4
      <4>2. AttachBegun(p) \/ AttachNamed(p) \/ AttachParsed(p)
        BY <3>1, <3>4 DEF AskedFor, DetachBegun, DetachNamed
      <4>3. ASSUME AttachBegun(p) PROVE AttachBegun(p)'
        <5>0. inbox = << "ADDFILTER", p >>
          BY <3>4, <4>3 DEF AttachBegun
        <5>1. inbox' = << "ADDFILTER", p, Pars >>
          BY <4>1, <5>0, Requests
        <5> QED
          BY <3>2, <4>1, <4>3, <5>1 DEF AttachBegun, InStop
      <4>4. ASSUME AttachNamed(p) PROVE AttachNamed(p)'
        BY <3>2, <3>4, <4>1, <4>4, Requests DEF AttachNamed
      <4>5. ASSUME AttachParsed(p) PROVE AttachParsed(p)'
        BY <3>2, <3>4, <4>1, <4>5, Requests DEF AttachParsed
      <4> QED
        BY <2>1, <3>1, <3>2, <4>2, <4>3, <4>4, <4>5 DEF AskedFor
    <3>5. CASE ppc[p] = "delName"
      <4>1. ppc'[p] = "detaching" /\ inbox' = Append(inbox, p)
        BY <2>1, <2>2, <3>1, <3>5
      <4>2. DetachBegun(p) \/ DetachNamed(p)
        BY <3>1, <3>5 DEF AskedFor, AttachBegun, AttachNamed, AttachParsed
      <4>3. ASSUME DetachBegun(p) PROVE DetachBegun(p)'
        <5>0. inbox = << "DELFILTER" >>
          BY <3>5, <4>3 DEF DetachBegun
        <5>1. inbox' = << "DELFILTER", p >>
          BY <4>1, <5>0, Requests
        <5> QED
          BY <3>2, <4>1, <4>3, <5>1 DEF DetachBegun, InStop
      <4>4. ASSUME DetachNamed(p) PROVE DetachNamed(p)'
        <5>1. inbox' = << p >>
          BY <3>5, <4>1, <4>4, Requests DEF DetachNamed
        <5> QED
          BY <3>2, <4>1, <4>4, <5>1 DEF DetachNamed
      <4> QED
        BY <2>1, <3>1, <3>2, <4>2, <4>3, <4>4 DEF AskedFor
    <3> QED
      BY <2>1, <3>3, <3>4, <3>5
  <2> QED
    BY <2>1, <2>2, <2>3, <2>4, <2>5 DEF Requesting
<1>4. CASE PlugAttached(p) \/ PlugDetached(p)
  <2>1. /\ UNCHANGED << inbox, pc, args, gthread, sthread, cmd, GFilters >>
        /\ pbox[p] # << >> /\ Took(p) /\ Goes(p, "loop")
        /\ \/ ppc[p] = "attaching" /\ shown' = Append(Removed(shown, p), p)
           \/ ppc[p] = "detaching" /\ shown' = Removed(shown, p)
    BY <1>4 DEF PlugAttached, PlugDetached, vars, program, store, line
  <2>2. ppc'[p] = "loop" /\ \A q \in Plugins \ {p} : ppc'[q] = ppc[q]
    BY <2>1, GoesType DEF FType, PlugPC
  <2>3. pbox'[p] = << >> /\ \A q \in Plugins \ {p} : pbox'[q] = pbox[q]
    <3>1. pbox[p] \in Seq(Parcel) /\ Len(pbox[p]) = 1
      BY <2>1 DEF Requesting, FType, PlugType
    <3>2. Tail(pbox[p]) = << >>
      BY <3>1, LastParcel
    <3> QED
      BY <2>1, <3>2, FirstParcel DEF FType
  <2>4. \A q \in Plugins : ppc'[q] = "loop" /\ pbox'[q] = << >>
    BY <2>2, <2>3 DEF Resting
  <2>5. ASSUME pc' # "dead"
        PROVE  inbox' = << >> /\ pc' \notin Asking /\ HeldPure' /\ shown' = GFilters'
    <3>1. HeldPure /\ Served(p)
      BY <2>1, <2>5 DEF Requesting, AskedFor
    <3> QED
      BY <2>1, <3>1 DEF Served, InStop, Asking, HeldPure, HeldIn
  <2> QED
    BY <2>4, <2>5, EmptyBoxes
<1> QED
  BY <1>2, <1>3, <1>4

LEMMA PlugOrderly ==
    ASSUME FType, Orderly, NEW r \in Plugins, PlugStep(r) PROVE Orderly'
<1> SUFFICES ASSUME calm' PROVE Orderly'
  BY DEF Orderly
<1>1. calm
  BY DEF PlugStep, PlugClick, PlugAsk, PlugAskOn, PlugAttached,
         PlugDetached, PlugUnanswered, PlugFilter, PlugLate
<1> QED
  BY <1>1, WorkingFilters, ClickTaken, RequestGoesOn DEF Orderly

-----------------------------------------------------------------------------
(* The window's clicks, and the theorem. *)

\* Nothing is under way: no request either.
LEMMA RestIsWork ==
    ASSUME Orderly, calm, AtRest PROVE Working
<1>1. ASSUME NEW p \in Plugins, Clicked(p) PROVE FALSE
  <2>1. pbox[p] = << >> /\ Len(pbox[p]) = 1
    BY <1>1 DEF AtRest, Clicked
  <2> QED
    BY <2>1
<1>2. ASSUME NEW p \in Plugins, Requesting(p) PROVE FALSE
  BY <1>2 DEF AtRest, Requesting
<1> QED
  BY <1>1, <1>2 DEF Orderly

LEMMA WindowOrderly ==
    ASSUME FType, Orderly,
           ClickConnect \/ ClickRun \/ \E p \in Plugins : ClickPlugin(p)
    PROVE  Orderly'
<1> SUFFICES ASSUME calm' PROVE Orderly'
  BY DEF Orderly
<1>1. calm /\ AtRest /\ Working
  <2>1. calm /\ AtRest
    BY DEF ClickConnect, ClickRun, ClickPlugin, Click
  <2> QED
    BY <2>1, RestIsWork
<1>2. /\ pc \in {"tick", "wait"} /\ pc # "dead" /\ inbox = << >> /\ state = "stop"
      /\ HeldPure /\ shown = GFilters
      /\ \A p \in Plugins : pbox[p] = << >> /\ ppc[p] = "loop"
  BY <1>1 DEF AtRest, Working
<1>3. CASE ClickConnect \/ ClickRun
  <2>1. \E ms \in Seq(Pure) : WindowPosts(ms)
    BY <1>3, ButtonWords DEF ClickConnect, ClickRun
  <2>2. PICK ms \in Seq(Pure) : WindowPosts(ms)
    BY <2>1
  <2>3. /\ inbox' = inbox \o ms
        /\ UNCHANGED << pc, args, program, control, store, line, pbox, ppc, shown >>
    BY <2>2 DEF WindowPosts, plugs
  <2>4. inbox' \in Seq(Pure)
    BY <1>1, <1>2, <2>3, ConcatProperties DEF Working
  <2>5. HeldPure' /\ UNCHANGED << pc, GFilters >>
    BY <1>2, <2>3, SenderKeptOn
  <2>6. Working'
    BY <1>1, <1>2, <2>3, <2>4, <2>5 DEF Working
  <2> QED
    BY <2>6 DEF Orderly
<1>4. ASSUME NEW p \in Plugins, ClickPlugin(p) PROVE Orderly'
  <2>1. /\ UNCHANGED << vars, ppc, shown >>
        /\ \E k \in {"EXECUTE", "DETACH", "CLICK"} : Put(p, Request(k))
    BY <1>4 DEF ClickPlugin
  <2>2. PICK k \in {"EXECUTE", "DETACH", "CLICK"} : Put(p, Request(k))
    BY <2>1
  <2>3. Request(k) \in Parcel /\ Request(k).kind = k
    BY DEF Request, Parcel
  <2>4. /\ pbox'[p] = Append(pbox[p], Request(k))
        /\ \A q \in Plugins \ {p} : pbox'[q] = pbox[q]
    BY <1>2, <2>2, <2>3, PutEffect DEF FType
  <2>5. pbox'[p] = << Request(k) >>
    BY <1>2, <2>4, Requests
  <2>6. /\ Len(pbox'[p]) = 1 /\ pbox'[p][1].kind \in {"EXECUTE", "DETACH", "CLICK"}
    BY <2>3, <2>5
  <2>7. \A q \in Plugins \ {p} : Resting(q)'
    BY <1>2, <2>1, <2>4 DEF Resting
  <2>8. Clicked(p)'
    <3>1. UNCHANGED << pc, args, inbox, state, gthread, sthread, cmd, GFilters, shown, ppc >>
      BY <2>1 DEF vars, program, control, store, line
    <3> QED
      BY <1>2, <2>6, <3>1 DEF Clicked, InStop, HeldPure, HeldIn
  <2> QED
    BY <2>7, <2>8 DEF Orderly
<1> QED
  BY <1>3, <1>4

LEMMA OrderlyStart == FInit => FType /\ Orderly
<1> SUFFICES ASSUME FInit PROVE FType /\ Orderly
  OBVIOUS
<1>1. TypeOK
  BY TypeInit DEF FInit
<1>2. PlugType
  BY DEF FInit, PlugType, PlugPC
<1>3. inbox \in Seq(Pure)
  <2>1. inbox \in Seq(Msg) /\ inbox \in Openings
    BY TrafficAssumption DEF FInit, Init
  <2>2. \A i \in 1..Len(inbox) : inbox[i] \in Pure
    BY <2>1, OpeningsAssumption DEF Pure
  <2> QED
    BY <2>1, <2>2
<1>4. /\ HeldPure /\ pc \notin Asking /\ shown = GFilters
  BY DEF FInit, Init, HeldPure, HeldIn, Asking
<1>5. Working
  <2>1. \A p \in Plugins : ppc[p] = "loop" /\ pbox[p] = << >>
    BY DEF FInit
  <2>2. \A p \in Plugins : 1..Len(pbox[p]) = {}
    BY <2>1
  <2> QED
    BY <1>3, <1>4, <2>1, <2>2 DEF Working
<1> QED
  BY <1>1, <1>2, <1>5 DEF FType, Orderly

LEMMA OrderKept == FType /\ Orderly /\ [FNext]_chainVars => Orderly'
<1> SUFFICES ASSUME FType, Orderly, [FNext]_chainVars PROVE Orderly'
  OBVIOUS
<1>1. CASE Loading \/ UNCHANGED chainVars
  <2>1. UNCHANGED << inbox, pc, args, state, gthread, sthread, cmd, GFilters,
                     pbox, ppc, shown, calm >>
    BY <1>1 DEF Loading, chainVars, plugs, vars, program, control, store, line
  <2> QED
    BY <2>1 DEF Orderly, Working, Clicked, Requesting, Resting, AskedFor, Served,
                AttachBegun, AttachNamed, AttachParsed, DetachBegun, DetachNamed,
                InStop, HeldPure, HeldIn
<1> QED
  BY <1>1, PlugOrderly, WindowOrderly, SenderOrderly DEF FNext

\* As long as no click falls into something under way and no wait runs out, no
\* plug-in dies of another's answer, and whenever nothing is under way the list
\* in the window is the sender's chain: no request is lost, taken for a program
\* line or done twice, however its messages and the sender's steps, the lines
\* under way and the other plug-ins' interleave (ListIsChain).
THEOREM ChainIsShown == FSpec => []ListIsChain
<1>1. FType /\ Orderly => ListIsChain
  <2> SUFFICES ASSUME FType, Orderly, calm
               PROVE  /\ \A p \in Plugins : ppc[p] # "dead"
                      /\ AtRest => shown = GFilters
    BY DEF ListIsChain
  <2>1. \A p \in Plugins : ppc[p] # "dead"
    BY DEF Orderly, Working, Clicked, Requesting, Resting
  <2>2. AtRest => shown = GFilters
    BY RestIsWork DEF AtRest, Working
  <2> QED
    BY <2>1, <2>2
<1> QED
  BY <1>1, OrderlyStart, ChainTypes, OrderKept, PTL DEF FSpec

-----------------------------------------------------------------------------
(* What module SenderProofs shows of the sender alone holds among the       *)
(* plug-ins, whose messages come in no bounded number.                       *)

LEMMA Outside ==
    ASSUME [FNext]_chainVars
    PROVE  \/ OwnStep \/ HelpStep
           \/ /\ UNCHANGED << pc, args, program, control, store, line >>
              /\ out' = Quiet \/ UNCHANGED out
<1>1. CASE Loading \/ UNCHANGED chainVars
  BY <1>1 DEF Loading, chainVars, vars
<1>2. CASE ClickConnect \/ ClickRun
  BY <1>2 DEF ClickConnect, ClickRun, WindowPosts
<1>3. CASE SenderStep
  BY <1>3, SenderSteps
<1>4. ASSUME NEW p \in Plugins, ClickPlugin(p) \/ PlugStep(p)
      PROVE  /\ UNCHANGED << pc, args, program, control, store, line >>
             /\ out' = Quiet \/ UNCHANGED out
  BY <1>4 DEF ClickPlugin, PlugStep, PlugClick, PlugAsk, PlugAskOn, PlugAttached,
              PlugDetached, PlugUnanswered, PlugFilter, PlugLate, ToSender, vars
<1> QED
  BY <1>1, <1>2, <1>3, <1>4 DEF FNext

LEMMA OutsideKeeps ==
    ASSUME ChainInv, ProgramPlace,
           UNCHANGED << pc, args, program, control, store, line >>,
           out' = Quiet \/ UNCHANGED out
    PROVE  ChainInv' /\ ProgramPlace'
<1>1. UNCHANGED << pc, args, gthread, icmd, req_inc_cmd, last, state, paused,
                   GFilters, fidx >>
  BY DEF program, control, store, line
<1> QED
  BY <1>1, PlugFacts DEF ChainInv, FiltersDistinct, ChainPlace, ProgramPlace,
                         Filtering, InFilters, AtPlace

\* Among the plug-ins too, however clicks and requests interleave, a filter
\* stands in the chain once and the program's place is kept (FiltersDistinct,
\* ProgramPlace).
THEOREM SenderAmongPlugins == FSpec => [](FiltersDistinct /\ ProgramPlace)
<1>1. FInit => ChainInv /\ ProgramPlace
  BY ChainInit, PlaceInit DEF FInit
<1>2. FType /\ ChainInv /\ ProgramPlace /\ [FNext]_chainVars
         => ChainInv' /\ ProgramPlace'
  BY Outside, OutsideKeeps, ChainKept, PlaceStep DEF FType, Next
<1>3. ChainInv => FiltersDistinct
  BY DEF ChainInv
<1> QED
  BY <1>1, <1>2, <1>3, OrderlyStart, ChainTypes, PTL DEF FSpec

-----------------------------------------------------------------------------
(* The lines under way: while no click falls into something under way and no *)
(* wait runs out, the mailbox of a sender that runs holds nothing but the    *)
(* answer of the filter it has asked.                                        *)

\* What Run posts, or the rest of it: the program is not started before the last
\* message is taken.
RunWords == {"NEW", "FILL", "RESUME", "FIN", "SENDFROM", "CALCULATE"}
RunRest(q) == \A i \in 1..Len(q) :
                 q[i] \in Text \cup RunWords /\ (q[i] = "RESUME" => i = Len(q))

NoParcels == \A p \in Plugins : pbox[p] = << >>

Stopped == /\ state = "stop" /\ pc \in {"tick", "wait", "SENDFROM", "fill"}
           /\ RunRest(inbox) /\ NoParcels

Between == state = "run" /\ pc \in {"tick", "wait"} /\ inbox = << >> /\ NoParcels

\* The line is with filter p, has come back from it, or will not come back.
WithFilter(p) ==
    \/ /\ inbox = << >> /\ Len(pbox[p]) = 1
       /\ pbox[p][1] = [kind |-> "FILTER", line |-> cmd]
       /\ \A q \in Plugins \ {p} : pbox[q] = << >>
    \/ NoParcels /\ Filtered(p, cmd) # NIL /\ inbox = << Filtered(p, cmd) >>
    \/ NoParcels /\ Filtered(p, cmd) = NIL /\ inbox = << >>

\* The filters before it have made of the line what they make.
InFilter ==
    /\ state = "run" /\ pc = "filter" /\ fidx \in 1..Len(GFilters)
    /\ icmd \in 1..Len(gthread) /\ cmd = Passed(GFilters, gthread[icmd])[fidx - 1]
    /\ \E p \in Plugins : p = GFilters[fidx] /\ WithFilter(p)

OfPlugins == \A i \in 1..Len(GFilters) : GFilters[i] \in Plugins

\* What was written last, as long as it is the last event.
WroteFiltered ==
    out.tx # NIL /\ out.tx.kind = "line" => out.tx.text = Through(gthread[last])

LinePlace ==
    /\ clicks \in Nat
    /\ calm => /\ OfPlugins /\ WroteFiltered
               /\ clicks = 0 => GFilters = << >> /\ Working
               /\ clicks # 0 /\ pc # "dead" =>
                     mk # NIL /\ (Working => Stopped \/ Between \/ InFilter)

\* What a line is behind the i-th filter, from what it was behind the one before.
PassedOn(fs, l, f) ==
    /\ f[0] = l
    /\ \A i \in 1..Len(fs) : f[i - 1] \in Msg /\ f[i] = After(f[i - 1], fs[i])

LEMMA PassedSteps ==
    ASSUME NEW fs \in Seq(Msg), \A i \in 1..Len(fs) : fs[i] \in Plugins, NEW l \in Msg
    PROVE  PassedOn(fs, l, Passed(fs, l))
<1> DEFINE n == Len(fs)
           step == [x \in Msg \X (1..n) |-> After(x[1], fs[x[2]])]
           Body(h) == [i \in 0..n |-> IF i = 0 THEN l ELSE After(h[i - 1], fs[i])]
<1>1. n \in Nat
  OBVIOUS
<1>2. ASSUME NEW m \in Msg, NEW i \in 1..n PROVE After(m, fs[i]) \in Msg
  BY FilteredType DEF After
<1>3. step \in [Msg \X (1..n) -> Msg]
  BY <1>2
<1>4. \A m \in Msg, i \in 1..n : step[<< m, i >>] = After(m, fs[i])
  OBVIOUS
<1>5. PICK g \in [0..n -> Msg] :
         g = [i \in 0..n |-> IF i = 0 THEN l ELSE step[<< g[i - 1], i >>]]
  <2> HIDE DEF step, n
  <2>1. \E g \in [0..n -> Msg] : IsLoop(g, n, l, step)
    BY <1>1, <1>3, LoopStates
  <2> QED
    BY <2>1 DEF IsLoop
<1>6. g = Body(g)
  <2> HIDE DEF step
  <2>1. \A i \in 0..n : i # 0 => g[i - 1] \in Msg /\ i \in 1..n
    BY <1>1
  <2>2. \A i \in 0..n : i # 0 => step[<< g[i - 1], i >>] = After(g[i - 1], fs[i])
    BY <1>4, <2>1
  <2> QED
    BY <1>5, <2>2
<1> DEFINE f == CHOOSE h : h = Body(h)
<1>7. f = Body(f)
  <2>1. \E h : h = Body(h)
    BY <1>6
  <2> HIDE DEF Body
  <2> QED
    BY <2>1
<1>8. Passed(fs, l) = f
  BY DEF Passed
<1> HIDE DEF f
<1>9. /\ f[0] = l
      /\ \A i \in 1..n : f[i] = After(f[i - 1], fs[i])
  <2>1. \A i \in 1..n : i \in 0..n /\ i # 0
    BY <1>1
  <2> QED
    BY <1>1, <1>7, <2>1
<1>10. \A k \in 0..n : f[k] \in Msg
  <2> DEFINE T == {k \in Nat : k <= n => f[k] \in Msg}
  <2>1. 0 \in T
    BY <1>9
  <2>2. ASSUME NEW k \in Nat, k < n, k \in T PROVE k + 1 \in T
    <3>1. f[k] \in Msg /\ k + 1 \in 1..n /\ (k + 1) - 1 = k
      BY <1>1, <2>2
    <3>2. f[k + 1] = After(f[k], fs[k + 1])
      BY <1>9, <3>1
    <3> QED
      BY <1>2, <3>1, <3>2
  <2> HIDE DEF T
  <2>3. 0..n \subseteq T
    BY <1>1, <2>1, <2>2, UpTo
  <2> QED
    BY <1>1, <2>3 DEF T
<1>11. \A i \in 1..n : i - 1 \in 0..n
  BY <1>1
<1> QED
  BY <1>8, <1>9, <1>10, <1>11 DEF PassedOn

\* What is left of Run's messages behind the first.
LEMMA RestTail ==
    ASSUME NEW q \in Seq(Msg), RunRest(q), q # << >>
    PROVE  /\ RunRest(Tail(q)) /\ Head(q) \in Text \cup RunWords
           /\ Head(q) = "RESUME" => Tail(q) = << >>
<1>1. /\ Len(q) \in Nat /\ Len(q) > 0 /\ Head(q) = q[1] /\ Tail(q) \in Seq(Msg)
      /\ Len(Tail(q)) = Len(q) - 1
      /\ \A i \in 1..Len(Tail(q)) : Tail(q)[i] = q[i + 1]
  BY HeadTailProperties, EmptySeq
<1>2. 1 \in 1..Len(q)
  BY <1>1
<1>3. ASSUME NEW i \in 1..Len(Tail(q))
      PROVE  /\ Tail(q)[i] \in Text \cup RunWords
             /\ Tail(q)[i] = "RESUME" => i = Len(Tail(q))
  <2>1. i \in Nat /\ i + 1 \in 1..Len(q) /\ Tail(q)[i] = q[i + 1]
    BY <1>1
  <2>2. /\ q[i + 1] \in Text \cup RunWords
        /\ q[i + 1] = "RESUME" => i + 1 = Len(q)
    BY <2>1 DEF RunRest
  <2>3. i + 1 = Len(q) => i = Len(Tail(q))
    <3>1. ASSUME NEW n \in Nat, NEW m, m = n - 1, i + 1 = n PROVE i = m
      BY <2>1, <3>1
    <3> QED
      BY <1>1, <3>1
  <2> QED
    BY <2>1, <2>2, <2>3
<1>4. q[1] = "RESUME" => Len(q) = 1
  BY <1>2 DEF RunRest
<1>5. Len(Tail(q)) = 0 => Tail(q) = << >>
  BY <1>1, EmptySeq
<1>6. RunRest(Tail(q))
  BY <1>3 DEF RunRest
<1>7. q[1] \in Text \cup RunWords
  BY <1>2 DEF RunRest
<1>8. Len(q) = 1 => Len(Tail(q)) = 0
  BY <1>1
<1> QED
  BY <1>1, <1>4, <1>5, <1>6, <1>7, <1>8

LEMMA NothingRests == RunRest(<< >>)
  BY DEF RunRest

LEMMA RunPosts ==
    RunRest(<< "FILL", "NEW" >> \o Program
            \o << "FIN", "SENDFROM", "1", "CALCULATE", "RESUME" >>)
<1> DEFINE a == << "FILL", "NEW" >>
           c == << "FIN", "SENDFROM", "1", "CALCULATE", "RESUME" >>
           W == Text \cup RunWords
<1>1. a \in Seq(W) /\ Len(a) = 2 /\ a[1] = "FILL" /\ a[2] = "NEW"
  BY DEF RunWords
<1>2. /\ c \in Seq(W) /\ Len(c) = 5
      /\ \A i \in 1..5 : c[i] = "RESUME" => i = 5
  <2>1. c \in Seq(W) /\ Len(c) = 5
    BY ChainAssumption DEF RunWords
  <2>2. "1" # "RESUME"
    OBVIOUS
  <2>3. c[1] = "FIN" /\ c[2] = "SENDFROM" /\ c[3] = "1" /\ c[4] = "CALCULATE"
    OBVIOUS
  <2>4. \A i \in 1..5 : i = 1 \/ i = 2 \/ i = 3 \/ i = 4 \/ i = 5
    OBVIOUS
  <2> HIDE DEF c
  <2> QED
    BY <2>1, <2>2, <2>3, <2>4
<1>3. Program \in Seq(W) /\ \A i \in 1..Len(Program) : Program[i] # "RESUME"
  <2>1. "RESUME" \notin Text
    BY TextAssumption DEF Word
  <2> QED
    BY <2>1, ChainAssumption
<1> HIDE DEF a, c, W
<1> DEFINE ab == a \o Program
<1>4. /\ ab \in Seq(W) /\ Len(ab) = 2 + Len(Program)
      /\ \A i \in 1..Len(ab) : ab[i] # "RESUME"
  <2>1. /\ ab \in Seq(W) /\ Len(ab) = 2 + Len(Program)
        /\ \A i \in 1..Len(ab) : ab[i] = IF i <= 2 THEN a[i] ELSE Program[i - 2]
    <3>1. /\ ab \in Seq(W) /\ Len(ab) = Len(a) + Len(Program)
          /\ \A i \in 1..(Len(a) + Len(Program)) :
                ab[i] = IF i <= Len(a) THEN a[i] ELSE Program[i - Len(a)]
      BY <1>1, <1>3, ConcatProperties
    <3> HIDE DEF ab
    <3> QED
      BY <1>1, <3>1
  <2>2. \A i \in 1..Len(ab) : i <= 2 => i = 1 \/ i = 2
    BY <2>1, <1>3
  <2>3. \A i \in 1..Len(ab) : ~(i <= 2) => i - 2 \in 1..Len(Program)
    BY <2>1, <1>3
  <2> HIDE DEF ab
  <2> QED
    BY <1>1, <1>3, <2>1, <2>2, <2>3
<1> HIDE DEF ab
<1>5. /\ ab \o c \in Seq(W) /\ Len(ab \o c) = Len(ab) + 5
      /\ \A i \in 1..Len(ab \o c) :
            (ab \o c)[i] = IF i <= Len(ab) THEN ab[i] ELSE c[i - Len(ab)]
  <2> DEFINE t == ab \o c
  <2>1. /\ t \in Seq(W) /\ Len(t) = Len(ab) + Len(c)
        /\ \A i \in 1..(Len(ab) + Len(c)) :
              t[i] = IF i <= Len(ab) THEN ab[i] ELSE c[i - Len(ab)]
    BY <1>2, <1>4, ConcatProperties
  <2> HIDE DEF t
  <2>2. /\ t \in Seq(W) /\ Len(t) = Len(ab) + 5
        /\ \A i \in 1..Len(t) : t[i] = IF i <= Len(ab) THEN ab[i] ELSE c[i - Len(ab)]
    BY <1>2, <2>1
  <2> QED
    BY <2>2 DEF t
<1> DEFINE s == ab \o c
<1>6. ASSUME NEW i \in 1..Len(s)
      PROVE  s[i] \in W /\ (s[i] = "RESUME" => i = Len(s))
  <2>1. s[i] \in W /\ Len(ab) \in Nat
    BY <1>4, <1>5
  <2>2. CASE i <= Len(ab)
    <3>1. s[i] = ab[i] /\ i \in 1..Len(ab)
      BY <1>5, <2>1, <2>2
    <3> QED
      BY <1>4, <2>1, <3>1
  <2>3. CASE ~(i <= Len(ab))
    <3>1. s[i] = c[i - Len(ab)] /\ i - Len(ab) \in 1..5
      BY <1>5, <2>1, <2>3
    <3>2. i - Len(ab) = 5 => i = Len(s)
      BY <1>5, <2>1
    <3> QED
      BY <1>2, <2>1, <3>1, <3>2
  <2> QED
    BY <2>2, <2>3
<1>7. RunRest(s)
  BY <1>6 DEF RunRest, W
<1> QED
  BY <1>7 DEF s, ab, a, c

\* Only a connection gives the sender another controller.
LEMMA MkKept ==
    ASSUME OwnStep \/ HelpStep, pc # "connect" PROVE mk' = mk
<1>1. CASE TickStep
  <2>1. ASSUME NEW sent \in BOOLEAN, TickStatus(sent) PROVE mk' = mk
    BY <2>1 DEF TickStatus
  <2>2. ASSUME NEW r \in ReadResult, NEW acc \in BOOLEAN, NEW lapsed \in BOOLEAN,
               TickRead(r, acc, lapsed)
        PROVE  mk' = mk
    BY <2>2 DEF TickRead
  <2> QED
    BY <1>1, <2>1, <2>2
       DEF TickStep, TickEnd, TickNoController, TickProgramEnd, TickIdle, TickLine,
           TickLineDies, TickSingle, control
<1>2. CASE ConnectStep \/ HelpStep
  BY <1>2 DEF ConnectStep, HelpStep, HelpAnswer, OnPORT, PortArg, ConnectIgnored,
              ConnectDies, ConnectFails, ConnectOpens, Greet, control
<1>3. CASE HandlerStep
  BY <1>3 DEF HandlerStep, NoMessage, OnNEW, OnCALCULATE, OnPAUSE, OnFILL, OnRESUME,
              OnSTOP, OnWithArgument, SingleArg, SendfromArg, AddFilterName,
              AddFilterPars, DelFilterName, FillStart, FillNext, control
<1>4. CASE FilterAnswer
  BY <1>4 DEF FilterAnswer
<1> QED
  BY <1>1, <1>2, <1>3, <1>4 DEF OwnStep

\* Inside the filters it waits for the answer and does nothing else.
LEMMA InFilterStep ==
    ASSUME pc = "filter", OwnStep \/ HelpStep PROVE FilterAnswer
<1>1. ~TickStep
  BY DEF TickStep, TickEnd, TickNoController, TickStatus, TickRead,
         TickProgramEnd, TickIdle, TickLine, TickLineDies, TickSingle, TickMain, Tick
<1>2. ~ConnectStep /\ ~HelpStep
  BY DEF ConnectStep, HelpStep, HelpAnswer, OnPORT, PortArg, ConnectIgnored,
         ConnectDies, ConnectFails, ConnectOpens, Greet, On
<1>3. ~HandlerStep
  BY DEF HandlerStep, NoMessage, OnNEW, OnCALCULATE, OnPAUSE, OnFILL, OnRESUME,
         OnSTOP, OnWithArgument, SingleArg, SendfromArg, AddFilterName,
         AddFilterPars, DelFilterName, FillStart, FillNext, On
<1> QED
  BY <1>1, <1>2, <1>3 DEF OwnStep

\* A stopped sender takes Run's messages, the last of which starts the program.
RestGoesOn ==
    /\ out'.plug = NIL
    /\ \/ /\ state' = "stop" /\ pc' \in {"tick", "wait", "SENDFROM", "fill"}
          /\ RunRest(inbox')
       \/ state' = "run" /\ pc' = "tick" /\ inbox' = << >>

LEMMA StoppedStep ==
    ASSUME TypeOK, mk # NIL, state = "stop", RunRest(inbox), OwnStep \/ HelpStep,
           pc \in {"tick", "wait", "SENDFROM", "fill"}
    PROVE  pc' = "dead" \/ RestGoesOn
<1>1. CASE TickStep
  <2>1. InStop
    BY <1>1 DEF InStop, TickStep, TickEnd, TickNoController, TickStatus, TickRead,
                TickProgramEnd, TickIdle, TickLine, TickLineDies, TickSingle, TickMain,
                Tick
  <2> QED
    BY <1>1, <2>1, StopTick DEF IdleTick, RestGoesOn
<1>2. /\ inbox # << >> => /\ RunRest(Tail(inbox)) /\ Head(inbox) \in Text \cup RunWords
                          /\ Head(inbox) = "RESUME" => Tail(inbox) = << >>
      /\ WaitMsg => RunRest(inbox')
  <2>1. inbox \in Seq(Msg)
    BY DEF TypeOK, MailboxType
  <2> QED
    BY <2>1, RestTail, NothingRests DEF WaitMsg
<1>3. \A w \in Word : On(w) => w \in RunWords
  <2>1. Text \cap Word = {}
    BY TextAssumption
  <2> QED
    BY <1>2, <2>1 DEF On
<1>4. CASE ConnectStep \/ HelpStep \/ FilterAnswer
  <2>1. ~On("PORT")
    BY <1>3 DEF Word, RunWords
  <2> QED
    BY <1>4, <2>1 DEF ConnectStep, HelpStep, HelpAnswer, OnPORT, PortArg,
                      ConnectIgnored, ConnectDies, ConnectFails, ConnectOpens, Greet,
                      FilterAnswer
<1>5. CASE HandlerStep
  <2> USE PlugFacts DEF RestGoesOn, On, program, control, store, line
  <2>1. ~OnPAUSE /\ ~OnSTOP
    BY <1>3 DEF OnPAUSE, OnSTOP, Word, RunWords
  <2>2. CASE NoMessage \/ OnNEW \/ OnCALCULATE \/ OnFILL
    BY <1>2, <2>2 DEF NoMessage, OnNEW, OnCALCULATE, OnFILL
  <2>3. CASE OnRESUME
    <3>1. inbox' = << >>
      BY <1>2, <2>3 DEF OnRESUME, WaitMsg
    <3> QED
      BY <2>3, <3>1 DEF OnRESUME
  <2>4. CASE OnWithArgument
    <3>1. PICK w \in {"SINGLE", "SENDFROM", "ADDFILTER", "DELFILTER"} : On(w) /\ pc' = w
      BY <2>4 DEF OnWithArgument
    <3>2. w = "SENDFROM"
      <4>1. w \in Word
        BY DEF Word
      <4>2. w \in RunWords
        BY <1>3, <3>1, <4>1
      <4> QED
        BY <4>2 DEF RunWords
    <3> QED
      BY <1>2, <2>4, <3>1, <3>2 DEF OnWithArgument
  <2>5. CASE SendfromArg \/ FillStart \/ FillNext
    BY <1>2, <2>5 DEF SendfromArg, FillStart, FillNext
  <2>6. CASE SingleArg \/ AddFilterName \/ AddFilterPars \/ DelFilterName
    BY <2>6 DEF SingleArg, AddFilterName, AddFilterPars, DelFilterName
  <2> QED
    BY <1>5, <2>1, <2>2, <2>3, <2>4, <2>5, <2>6 DEF HandlerStep
<1> QED
  BY <1>1, <1>4, <1>5 DEF OwnStep

\* Between two lines it reads the machine's answers and hands the next line on.
LEMMA BetweenStep ==
    ASSUME TypeOK, mk # NIL, state = "run", inbox = << >>, pc \in {"tick", "wait"},
           OwnStep \/ HelpStep
    PROVE  \/ pc' = "dead" \/ TickLine
           \/ /\ out'.plug = NIL /\ inbox' = << >> /\ state' \in {"run", "stop"}
              /\ pc' \in {"tick", "wait"}
<1> DEFINE Goal == \/ pc' = "dead" \/ TickLine
                   \/ /\ out'.plug = NIL /\ inbox' = << >> /\ state' \in {"run", "stop"}
                      /\ pc' \in {"tick", "wait"}
<1> SUFFICES Goal
  OBVIOUS
<1> USE PlugFacts DEF Tick, TickMain, program, control, store, line
<1>1. CASE TickStep
  <2>1. CASE TickEnd \/ TickNoController \/ TickLineDies
    BY <2>1 DEF TickEnd, TickNoController, TickLineDies
  <2>2. ASSUME NEW sent \in BOOLEAN, TickStatus(sent) PROVE Goal
    BY <2>2 DEF TickStatus
  <2>3. ASSUME NEW r \in ReadResult, NEW acc \in BOOLEAN, NEW lapsed \in BOOLEAN,
               TickRead(r, acc, lapsed)
        PROVE  Goal
    BY <2>3 DEF TickRead
  <2>4. CASE TickProgramEnd \/ TickIdle
    BY <2>4 DEF TickProgramEnd, TickIdle
  <2>5. ~TickSingle
    BY DEF TickSingle, SingleReady
  <2> QED
    BY <1>1, <2>1, <2>2, <2>3, <2>4, <2>5 DEF TickStep
<1>2. CASE ConnectStep \/ HelpStep \/ FilterAnswer
  BY <1>2 DEF ConnectStep, HelpStep, HelpAnswer, OnPORT, PortArg, ConnectIgnored,
              ConnectDies, ConnectFails, ConnectOpens, Greet, FilterAnswer, On
<1>3. CASE HandlerStep
  <2>1. Arrived = NIL /\ NIL \notin Text
    BY Names DEF Arrived, Msg
  <2>2. NoMessage
    BY <1>3, <2>1 DEF HandlerStep, OnNEW, OnCALCULATE, OnPAUSE, OnFILL, OnRESUME,
                      OnSTOP, OnWithArgument, SingleArg, SendfromArg, AddFilterName,
                      AddFilterPars, DelFilterName, FillStart, FillNext, On
  <2> QED
    BY <2>2 DEF NoMessage, WaitMsg
<1> QED
  BY <1>1, <1>2, <1>3 DEF OwnStep

Placed == Stopped \/ Between \/ InFilter

\* The line goes to p.
LEMMA FilterAsked ==
    ASSUME FType, NoParcels, NEW p \in Plugins, ppc[p] = "loop", SenderStep,
           out'.plug = Plug("filter", p), inbox' = << >>, cmd' \in Msg
    PROVE  WithFilter(p)'
<1> DEFINE m == [kind |-> "FILTER", line |-> cmd']
<1>1. m \in Parcel /\ p # NIL
  BY Names DEF Parcel, Pure
<1>2. out'.plug # NIL /\ out'.plug.kind = "filter" /\ out'.plug.name = p
  <2>1. p \in Msg
    BY Names
  <2>2. out'.plug \in PlugEvent /\ NIL \notin PlugEvent
    <3>1. Plug("filter", p) \in PlugEvent
      BY <2>1, PlugFacts
    <3>2. out'.plug.kind = "filter" /\ out'.plug.name = p
      BY DEF Plug
    <3> QED
      BY <3>1, <3>2, NoTableAssumption
  <2> QED
    BY <2>2 DEF Plug
<1>3. Put(p, m)
  BY <1>2 DEF SenderStep
<1>4. pbox'[p] = Append(<< >>, m) /\ \A q \in Plugins \ {p} : pbox'[q] = << >>
  <2> HIDE DEF m
  <2> QED
    BY <1>1, <1>3, PutEffect DEF FType, NoParcels
<1>5. pbox'[p] = << m >>
  BY <1>4, Requests
<1>6. Len(pbox'[p]) = 1 /\ pbox'[p][1] = m
  <2> HIDE DEF m
  <2> QED
    BY <1>5
<1> QED
  BY <1>4, <1>6 DEF WithFilter

\* The next line leaves for the machine, or for the first filter.
LEMMA LineGoesOut ==
    ASSUME FType, ChainInv, Working, OfPlugins, state = "run", inbox = << >>, NoParcels,
           SenderStep, TickLine
    PROVE  /\ Between' \/ InFilter'
           /\ Writes("line") => out'.tx.text = Through(gthread[last'])
<1> DEFINE l == gthread[NextCmd]
<1>1. /\ icmd' = NextCmd /\ SendOut(l, NextCmd, Ui("gauge", NextCmd))
      /\ UNCHANGED << inbox, gthread, state, GFilters >>
  BY DEF TickLine, store
<1>2. NextCmd \in 1..Len(gthread) /\ NextCmd # 0 /\ l \in Msg
  BY LineFacts DEF TickLine, FType
<1>3. /\ GFilters \in Seq(Msg) /\ Len(GFilters) \in Nat
      /\ PassedOn(GFilters, l, Passed(GFilters, l))
  <2>1. GFilters \in Seq(Msg) /\ \A i \in 1..Len(GFilters) : GFilters[i] \in Plugins
    BY DEF ChainInv, FiltersDistinct, OfPlugins
  <2> HIDE DEF l
  <2> QED
    BY <1>2, <2>1, PassedSteps
<1>4. Passed(GFilters, l)[0] = l
  BY <1>3 DEF PassedOn
<1>5. CASE GFilters = << >>
  <2>1. /\ pc' = "wait" /\ last' = NextCmd
        /\ out' = Event(Ui("gauge", NextCmd), Tx("line", l), NIL)
    BY <1>1, <1>2, <1>5 DEF SendOut, Write
  <2>2. out'.plug = NIL /\ out'.tx.text = l
    BY <2>1, PlugFacts, EventFacts, KindFacts
  <2>3. Through(l) = l
    BY <1>4, <1>5 DEF Through
  <2>4. NoParcels'
    BY <2>2 DEF SenderStep, NoParcels
  <2>5. Between'
    BY <1>1, <2>1, <2>4 DEF Between
  <2> QED
    BY <2>1, <2>2, <2>3, <2>5
<1>6. CASE GFilters # << >>
  <2>0. GFilters[1] \in Plugins /\ 1 \in 1..Len(GFilters)
    <3>1. Len(GFilters) # 0
      BY <1>3, <1>6, EmptySeq
    <3> QED
      BY <1>3, <3>1 DEF OfPlugins
  <2> PICK p \in Plugins : p = GFilters[1]
    BY <2>0
  <2>1. /\ cmd' = l /\ fidx' = 1 /\ pc' = "filter"
        /\ out' = Event(Ui("gauge", NextCmd), NIL, Plug("filter", p))
    BY <1>1, <1>6 DEF SendOut
  <2>2. out'.plug = Plug("filter", p) /\ out'.tx = NIL
    BY <2>1, PlugFacts, EventFacts
  <2>4. ppc[p] = "loop"
    BY DEF Working
  <2>5. WithFilter(p)'
    BY <1>1, <1>2, <2>1, <2>2, <2>4, FilterAsked
  <2>6. p = GFilters'[fidx']
    BY <1>1, <2>1
  <2>7. \E q \in Plugins : q = GFilters'[fidx'] /\ WithFilter(q)'
    BY <2>5, <2>6
  <2>8. /\ cmd' = Passed(GFilters, gthread[NextCmd])[fidx' - 1]
        /\ fidx' \in 1..Len(GFilters)
    BY <1>4, <2>0, <2>1
  <2>9. InFilter'
    BY <1>1, <1>2, <2>1, <2>7, <2>8 DEF InFilter
  <2> QED
    BY <2>2, <2>9 DEF Writes
<1> QED
  BY <1>5, <1>6

\* The filters before p and p itself: what the next one gets.
LEMMA PassedBy ==
    ASSUME ChainInv, OfPlugins, NEW l \in Msg, NEW i \in 1..Len(GFilters),
           NEW p, p = GFilters[i], NEW c, c = Passed(GFilters, l)[i - 1]
    PROVE  /\ c \in Msg
           /\ Passed(GFilters, l)[i] = IF Filtered(p, c) = NIL THEN c ELSE Filtered(p, c)
<1>1. GFilters \in Seq(Msg) /\ \A j \in 1..Len(GFilters) : GFilters[j] \in Plugins
  BY DEF ChainInv, FiltersDistinct, OfPlugins
<1>2. PassedOn(GFilters, l, Passed(GFilters, l))
  BY <1>1, PassedSteps
<1>3. /\ Passed(GFilters, l)[i - 1] \in Msg
      /\ Passed(GFilters, l)[i] = After(Passed(GFilters, l)[i - 1], GFilters[i])
  BY <1>2 DEF PassedOn
<1> QED
  BY <1>3 DEF After

\* The answer came, or there will be none: on to the next filter or the machine.
LEMMA FilterAnswered ==
    ASSUME FType, ChainInv, Working, OfPlugins, InFilter, SenderStep, ~Late
    PROVE  /\ Between' \/ InFilter'
           /\ Writes("line") => out'.tx.text = Through(gthread[last'])
<1> DEFINE l == gthread[icmd]
           c == IF Arrived = NIL THEN cmd ELSE Arrived
           n == IF state = "run" THEN icmd ELSE 0
<1>1. /\ state = "run" /\ pc = "filter" /\ fidx \in 1..Len(GFilters)
      /\ icmd \in 1..Len(gthread) /\ cmd = Passed(GFilters, l)[fidx - 1]
  BY DEF InFilter
<1>2. PICK p \in Plugins : p = GFilters[fidx] /\ WithFilter(p)
  BY DEF InFilter
<1>3. FilterAnswer
  BY <1>1, SenderSteps, InFilterStep
<1>4. gthread \in Seq(Msg) /\ GFilters \in Seq(Msg) /\ l \in Msg /\ n = icmd /\ n # 0
  BY <1>1 DEF FType, TypeOK, ProgramType, ChainInv, FiltersDistinct
<1>5. /\ cmd \in Msg
      /\ Passed(GFilters, l)[fidx]
            = IF Filtered(p, cmd) = NIL THEN cmd ELSE Filtered(p, cmd)
  <2> HIDE DEF l
  <2> QED
    BY <1>1, <1>2, <1>4, PassedBy
<1>6. NoParcels /\ inbox' = << >> /\ c = Passed(GFilters, l)[fidx]
  <2>1. ASSUME inbox = << >>, Len(pbox[p]) = 1,
               pbox[p][1] = [kind |-> "FILTER", line |-> cmd]
        PROVE  FALSE
    <3>1. 1 \in 1..Len(pbox[p]) /\ pbox[p][1].kind = "FILTER"
      BY <2>1
    <3> QED
      BY <1>1, <1>2, <2>1, <3>1 DEF Late
  <2>2. CASE NoParcels /\ Filtered(p, cmd) # NIL /\ inbox = << Filtered(p, cmd) >>
    <3>1. Arrived = Filtered(p, cmd) /\ inbox' = << >>
      BY <1>3, <2>2, Requests DEF Arrived, FilterAnswer, WaitMsg
    <3> QED
      BY <1>5, <2>2, <3>1
  <2>3. CASE NoParcels /\ Filtered(p, cmd) = NIL /\ inbox = << >>
    <3>1. Arrived = NIL /\ inbox' = << >>
      BY <1>3, <2>3 DEF Arrived, FilterAnswer, WaitMsg
    <3> QED
      BY <1>5, <2>3, <3>1
  <2> QED
    BY <1>2, <2>1, <2>2, <2>3 DEF WithFilter
<1>7. UNCHANGED << gthread, icmd, state, GFilters >>
  BY <1>3 DEF FilterAnswer, store
<1>8. CASE fidx = Len(GFilters)
  <2>1. /\ Write(c, n)
        /\ out' = Event(NIL, Tx(IF n = 0 THEN "single" ELSE "line", c), NIL)
    BY <1>3, <1>8 DEF FilterAnswer
  <2> HIDE DEF c, l, n
  <2>2. pc' = "wait" /\ last' = icmd
    BY <1>4, <2>1 DEF Write
  <2>3. out'.plug = NIL /\ out'.tx.text = c
    BY <2>1, PlugFacts, EventFacts, KindFacts
  <2>4. NoParcels'
    BY <1>6, <2>3 DEF SenderStep, NoParcels
  <2>5. Between'
    BY <1>1, <1>6, <1>7, <2>2, <2>4 DEF Between
  <2>6. c = Through(l)
    BY <1>6, <1>8 DEF Through
  <2> QED
    BY <2>2, <2>3, <2>5, <2>6 DEF l
<1>9. CASE fidx # Len(GFilters)
  <2>1. /\ cmd' = c /\ fidx' = fidx + 1 /\ pc' = pc
        /\ out' = Event(NIL, NIL, Plug("filter", GFilters[fidx + 1]))
    BY <1>3, <1>9 DEF FilterAnswer
  <2>2. /\ fidx + 1 \in 1..Len(GFilters) /\ GFilters[fidx + 1] \in Plugins
        /\ (fidx + 1) - 1 = fidx
    <3>1. Len(GFilters) \in Nat
      BY <1>4
    <3>2. fidx + 1 \in 1..Len(GFilters) /\ (fidx + 1) - 1 = fidx
      BY <1>1, <1>9, <3>1
    <3> QED
      BY <3>2 DEF OfPlugins
  <2> PICK q \in Plugins : q = GFilters[fidx + 1]
    BY <2>2
  <2>3. out'.plug = Plug("filter", q) /\ out'.tx = NIL
    BY <2>1, PlugFacts, EventFacts
  <2>4. ppc[q] = "loop"
    BY DEF Working
  <2>5. cmd' \in Msg
    <3>1. cmd' \in Msg \cup {NIL} /\ (pc' = "filter" => cmd' \in Msg)
      BY SenderType DEF FType, TypeOK, MailboxType
    <3> QED
      BY <1>1, <2>1, <3>1
  <2>6. WithFilter(q)'
    BY <1>6, <2>3, <2>4, <2>5, FilterAsked
  <2>7. \E r \in Plugins : r = GFilters'[fidx'] /\ WithFilter(r)'
    BY <1>7, <2>1, <2>6
  <2>8. cmd' = Passed(GFilters, l)[fidx' - 1] /\ fidx' \in 1..Len(GFilters)
    <3> HIDE DEF c, l
    <3> QED
      BY <1>6, <2>1, <2>2
  <2>9. InFilter'
    BY <1>1, <1>7, <2>1, <2>7, <2>8 DEF InFilter
  <2> QED
    BY <2>3, <2>9 DEF Writes
<1> QED
  BY <1>8, <1>9

\* The filter asked looks at the line.
LEMMA FilterLooks ==
    ASSUME FType, ChainInv, Working, OfPlugins, InFilter, NEW r \in Plugins, PlugStep(r)
    PROVE  InFilter'
<1>1. PICK p \in Plugins : p = GFilters[fidx] /\ WithFilter(p)
  BY DEF InFilter
<1>2. ppc[r] = "loop" /\ pbox[r] # << >>
  <2>1. ppc[r] = "loop"
    BY DEF Working
  <2> QED
    BY <2>1 DEF PlugStep, PlugClick, PlugAsk, PlugAskOn, PlugAttached,
                PlugDetached, PlugUnanswered, PlugFilter, PlugLate, InLoop
<1>3. /\ r = p /\ inbox = << >> /\ Len(pbox[p]) = 1
      /\ pbox[p][1] = [kind |-> "FILTER", line |-> cmd]
      /\ \A q \in Plugins \ {p} : pbox[q] = << >>
  BY <1>1, <1>2 DEF WithFilter, NoParcels
<1>4. Head(pbox[p]) = [kind |-> "FILTER", line |-> cmd] /\ Tail(pbox[p]) = << >>
  <2>1. pbox[p] \in Seq(Parcel)
    BY DEF FType, PlugType
  <2> QED
    BY <1>3, <2>1, LastParcel
<1>5. PlugFilter(p)
  BY <1>2, <1>3, <1>4 DEF PlugStep, PlugClick, PlugAsk, PlugAskOn, PlugAttached,
                          PlugDetached, PlugUnanswered, PlugLate, InLoop
<1> DEFINE a == Filtered(p, cmd)
<1>6. /\ Took(p) /\ IF a = NIL THEN UNCHANGED vars ELSE ToSender(a)
  BY <1>4, <1>5 DEF PlugFilter, InLoop
<1>7. NoParcels'
  BY <1>2, <1>3, <1>4, <1>6, FirstParcel DEF NoParcels, FType
<1>8. UNCHANGED << state, pc, fidx, GFilters, icmd, gthread, cmd >>
  BY <1>6 DEF ToSender, vars, program, control, store, line
<1>9. WithFilter(p)'
  <2> USE DEF WithFilter
  <2>1. CASE a = NIL
    <3>1. inbox' = << >>
      BY <1>3, <1>6, <2>1 DEF vars
    <3> QED
      BY <1>7, <1>8, <2>1, <3>1
  <2>2. CASE a # NIL
    <3>1. pc # "dead"
      BY DEF InFilter
    <3>2. inbox' = << a >>
      BY <1>3, <1>6, <2>2, <3>1, Requests DEF ToSender
    <3> QED
      BY <1>7, <1>8, <2>2, <3>2
  <2> QED
    BY <2>1, <2>2
<1>10. \E q \in Plugins : q = GFilters'[fidx'] /\ WithFilter(q)'
  BY <1>1, <1>8, <1>9
<1> QED
  BY <1>8, <1>10 DEF InFilter

\* What LinesFiltered says of a step.
FilteredLine == Writes("line") => out'.tx.text = Through(gthread[last'])

LEMMA LineWriters ==
    ASSUME TypeOK, SenderStep, Writes("line")
    PROVE  /\ TickLine \/ (FilterAnswer /\ state = "run" /\ fidx = Len(GFilters))
           /\ state = "run" /\ pc \in {"tick", "filter"}
           /\ UNCHANGED << gthread, GFilters >>
<1>1. TickLine \/ (FilterAnswer /\ state = "run" /\ fidx = Len(GFilters))
  BY SenderSteps, WhoWritesLines DEF Next
<1> QED
  BY <1>1 DEF TickLine, TickMain, Tick, LineReady, FilterAnswer, store

LEMMA LineIsEvent ==
    ASSUME TypeOK, SenderStep, FilteredLine PROVE WroteFiltered'
<1>1. CASE Writes("line")
  <2>1. /\ out'.tx.text = Through(gthread[last']) /\ GFilters' = GFilters
        /\ gthread'[last'] = gthread[last']
    BY <1>1, LineWriters DEF FilteredLine
  <2>2. Through(gthread[last]) ' = Passed(GFilters', gthread'[last'])[Len(GFilters')]
    BY DEF Through
  <2> QED
    BY <2>1, <2>2 DEF WroteFiltered, Through
<1>2. CASE ~Writes("line")
  BY <1>2 DEF Writes, WroteFiltered
<1> QED
  BY <1>1, <1>2

\* A sender that runs, while no request is under way.
LEMMA PlacedSends ==
    ASSUME FType, ChainInv, Working, OfPlugins, Placed, mk # NIL, SenderStep, ~Late
    PROVE  (pc' = "dead" \/ Placed') /\ FilteredLine
<1>1. OwnStep \/ HelpStep
  BY SenderSteps
<1>2. CASE Stopped
  <2>1. pc' = "dead" \/ RestGoesOn
    BY <1>1, <1>2, StoppedStep DEF Stopped, FType
  <2>2. ASSUME RestGoesOn PROVE Placed'
    <3>1. NoParcels'
      BY <1>2, <2>2 DEF RestGoesOn, SenderStep, Stopped, NoParcels
    <3> QED
      BY <2>2, <3>1 DEF RestGoesOn, Placed, Stopped, Between
  <2>3. ~Writes("line")
    BY <1>2, LineWriters DEF Stopped, FType
  <2> QED
    BY <2>1, <2>2, <2>3 DEF FilteredLine
<1>3. CASE Between
  <2>1. \/ pc' = "dead" \/ TickLine
        \/ /\ out'.plug = NIL /\ inbox' = << >> /\ state' \in {"run", "stop"}
           /\ pc' \in {"tick", "wait"}
    BY <1>1, <1>3, BetweenStep DEF Between, FType
  <2>2. CASE TickLine
    BY <1>3, <2>2, LineGoesOut DEF Between, Placed, FilteredLine
  <2>3. CASE ~TickLine
    <3>1. ~Writes("line")
      BY <1>3, <2>3, LineWriters DEF Between, FType, FilterAnswer
    <3>2. ASSUME out'.plug = NIL, inbox' = << >>, state' \in {"run", "stop"},
                 pc' \in {"tick", "wait"}
          PROVE  Placed'
      <4>1. NoParcels'
        BY <1>3, <3>2 DEF SenderStep, Between, NoParcels
      <4>2. RunRest(inbox')
        BY <3>2, NothingRests
      <4> QED
        BY <3>2, <4>1, <4>2 DEF Placed, Stopped, Between
    <3> QED
      BY <2>1, <2>3, <3>1, <3>2 DEF FilteredLine
  <2> QED
    BY <2>2, <2>3
<1>4. CASE InFilter
  BY <1>4, FilterAnswered DEF Placed, FilteredLine
<1> QED
  BY <1>2, <1>3, <1>4 DEF Placed

\* With no filters a line is written as it is.
LEMMA Unfiltered ==
    ASSUME FType, ProgramPlace, GFilters = << >>, SenderStep PROVE FilteredLine
<1> SUFFICES ASSUME Writes("line") PROVE out'.tx.text = Through(gthread[last'])
  BY DEF FilteredLine
<1>1. /\ last' = last + 1 \/ (last = 0 /\ last' = 2)
      /\ out'.tx.text = gthread[last']
  BY SenderSteps, OrderStep DEF Next, FType
<1>2. last' <= Len(gthread)
  <2>1. ProgramPlace'
    BY SenderSteps, PlaceStep DEF Next, FType
  <2> QED
    BY <2>1, LineWriters DEF ProgramPlace, FType
<1>3. gthread \in Seq(Msg) /\ last \in Nat
  BY DEF FType, TypeOK, ProgramType
<1>4. gthread[last'] \in Msg
  <2>1. last' \in 1..Len(gthread)
    BY <1>1, <1>2, <1>3
  <2> QED
    BY <1>3, <2>1
<1>5. Passed(GFilters, gthread[last'])[0] = gthread[last']
  <2>1. GFilters \in Seq(Msg) /\ \A i \in 1..Len(GFilters) : GFilters[i] \in Plugins
    OBVIOUS
  <2> DEFINE l == gthread[last']
  <2>2. l \in Msg
    BY <1>4
  <2> HIDE DEF l
  <2>3. PassedOn(GFilters, l, Passed(GFilters, l))
    BY <2>1, <2>2, PassedSteps
  <2>4. Passed(GFilters, l)[0] = l
    BY <2>3 DEF PassedOn
  <2> QED
    BY <2>4 DEF l
<1>6. Len(GFilters) = 0
  OBVIOUS
<1> QED
  BY <1>1, <1>5, <1>6 DEF Through

-----------------------------------------------------------------------------
(* A request changes the chain, and is not a line. *)

LEMMA NotBoth ==
    ASSUME NEW p \in Plugins
    PROVE  /\ Clicked(p) \/ Requesting(p) => ~Working
           /\ Clicked(p)' \/ Requesting(p)' => ~Working'
  BY DEF Clicked, Requesting, Working

LEMMA RemovedOfPlugins ==
    ASSUME GFilters \in Seq(Msg), OfPlugins, NEW f
    PROVE  LET r == Removed(GFilters, f)
           IN  /\ \A k \in 1..Len(r) : r[k] \in Plugins
               /\ \A p \in Plugins : \A k \in 1..Len(Append(r, p)) :
                     Append(r, p)[k] \in Plugins
<1> DEFINE r == Removed(GFilters, f)
<1>1. /\ r \in Seq(Msg)
      /\ \A k \in 1..Len(r) : \E i \in 1..Len(GFilters) : GFilters[i] = r[k]
  BY RemovedList
<1> HIDE DEF r
<1>2. \A k \in 1..Len(r) : r[k] \in Plugins
  BY <1>1 DEF OfPlugins
<1>3. ASSUME NEW p \in Plugins, NEW k \in 1..Len(Append(r, p))
      PROVE  Append(r, p)[k] \in Plugins
  <2>1. p \in Msg
    BY Names
  <2>2. /\ Len(Append(r, p)) = Len(r) + 1 /\ Len(r) \in Nat
        /\ Append(r, p)[Len(r) + 1] = p
        /\ \A i \in 1..Len(r) : Append(r, p)[i] = r[i]
    BY <1>1, <2>1, AppendProperties
  <2>3. k \in 1..Len(r) \/ k = Len(r) + 1
    BY <2>2
  <2> QED
    BY <1>2, <2>2, <2>3
<1> QED
  BY <1>2, <1>3 DEF r

LEMMA RequestPlace ==
    ASSUME FType, ChainInv, OfPlugins, NEW p \in Plugins, Clicked(p) \/ Requesting(p),
           SenderStep
    PROVE  mk' = mk /\ OfPlugins' /\ FilteredLine
<1>1. pc # "dead" /\ (OwnStep \/ HelpStep)
  BY SenderRuns, SenderSteps
<1>2. \/ InStop /\ (inbox = << >> \/ Head(inbox) \in {"ADDFILTER", "DELFILTER"})
      \/ pc = "pars" /\ state = "stop" /\ args = << p >>
      \/ pc \in {"ADDFILTER", "DELFILTER"} /\ state = "stop"
  <2>1. CASE Clicked(p)
    BY <1>1, <2>1 DEF Clicked
  <2>2. CASE Requesting(p)
    <3>1. CASE AttachBegun(p) \/ DetachBegun(p) \/ Served(p)
      BY <3>1, Requests DEF AttachBegun, DetachBegun, Served
    <3>2. CASE AttachNamed(p) \/ AttachParsed(p) \/ DetachNamed(p)
      BY <3>2 DEF AttachNamed, AttachParsed, DetachNamed
    <3> QED
      BY <1>1, <2>2, <3>1, <3>2 DEF Requesting, AskedFor
  <2> QED
    BY <2>1, <2>2
<1>3. mk' = mk /\ ~Writes("line")
  <2>1. pc \in {"tick", "wait", "ADDFILTER", "pars", "DELFILTER"} /\ state = "stop"
    BY <1>2 DEF InStop
  <2> QED
    BY <1>1, <2>1, MkKept, LineWriters DEF FType
<1>4. GFilters \in Seq(Msg)
  BY DEF ChainInv, FiltersDistinct
<1>5. \/ GFilters' = GFilters
      \/ \E f : GFilters' = Removed(GFilters, f)
      \/ GFilters' = Append(Removed(GFilters, p), p)
  <2>1. CASE InStop /\ (inbox = << >> \/ Head(inbox) \in {"ADDFILTER", "DELFILTER"})
    BY <1>1, <2>1, AtStop
  <2>2. CASE pc = "pars" /\ args = << p >>
    <3>1. AddFilterPars /\ args[1] = p
      BY <1>1, <2>2, AskingStep DEF Asking
    <3> QED
      BY <3>1 DEF AddFilterPars, Without
  <2>3. CASE pc = "ADDFILTER"
    BY <1>1, <2>3, AskingStep DEF Asking, AddFilterName, store
  <2>4. CASE pc = "DELFILTER"
    <3>1. DelFilterName
      BY <1>1, <2>4, AskingStep DEF Asking
    <3> QED
      BY <3>1 DEF DelFilterName, Without
  <2> QED
    BY <1>2, <2>1, <2>2, <2>3, <2>4
<1>6. OfPlugins'
  BY <1>4, <1>5, RemovedOfPlugins DEF OfPlugins
<1> QED
  BY <1>3, <1>6 DEF FilteredLine

\* The sender's steps.
LEMMA SenderPlace ==
    ASSUME FType, ChainInv, ProgramPlace, Orderly, LinePlace, SenderStep
    PROVE  LinePlace' /\ (calm' => FilteredLine)
<1>1. clicks' = clicks /\ clicks \in Nat
  BY DEF SenderStep, LinePlace
<1> SUFFICES ASSUME calm' PROVE LinePlace' /\ FilteredLine
  BY <1>1 DEF LinePlace
<1>2. ~Late /\ calm /\ pc # "dead"
  BY SenderRuns DEF SenderStep
<1>3. OfPlugins
  BY <1>2 DEF LinePlace
<1>4. FilteredLine => WroteFiltered'
  BY LineIsEvent DEF FType
<1>5. CASE Working
  <2>1. Working' /\ GFilters' = GFilters
    <3>1. PureNow
      BY <1>2, <1>5 DEF Working, PureNow, OnlyIn, HeldPure
    <3> QED
      BY <1>5, <3>1, WorkingSends, PureStep, SenderSteps DEF FType
  <2>2. OfPlugins'
    BY <1>3, <2>1 DEF OfPlugins
  <2>3. CASE clicks = 0
    <3>1. FilteredLine /\ GFilters = << >>
      BY <1>2, <2>3, Unfiltered DEF LinePlace
    <3> QED
      BY <1>1, <1>4, <2>1, <2>2, <2>3, <3>1 DEF LinePlace
  <2>4. CASE clicks # 0
    <3>1. mk # NIL /\ Placed
      BY <1>2, <1>5, <2>4 DEF LinePlace, Placed
    <3>2. (pc' = "dead" \/ Placed') /\ FilteredLine
      BY <1>2, <1>3, <1>5, <3>1, PlacedSends
    <3>3. mk' = mk
      <4>1. pc # "connect"
        BY <3>1 DEF Placed, Stopped, Between, InFilter
      <4> QED
        BY <4>1, MkKept, SenderSteps
    <3> QED
      BY <1>1, <1>4, <2>2, <2>4, <3>1, <3>2, <3>3 DEF LinePlace, Placed
  <2> QED
    BY <2>3, <2>4
<1>6. CASE ~Working
  <2>1. PICK p \in Plugins :
           /\ Clicked(p) \/ Requesting(p)
           /\ \A q \in Plugins \ {p} : Resting(q)
    BY <1>2, <1>6 DEF Orderly
  <2>2. mk' = mk /\ OfPlugins' /\ FilteredLine
    BY <1>3, <2>1, RequestPlace
  <2>3. ~Working'
    BY <1>2, <2>1, ClickWaits, RequestServed, NotBoth
  <2>4. clicks # 0 /\ mk # NIL
    BY <1>2, <1>6 DEF LinePlace
  <2> QED
    BY <1>1, <1>4, <2>2, <2>3, <2>4 DEF LinePlace
<1> QED
  BY <1>5, <1>6

\* The plug-ins' steps.
LEMMA PlugKeeps ==
    ASSUME NEW r \in Plugins, PlugStep(r)
    PROVE  /\ UNCHANGED << pc, state, mk, GFilters, gthread, last, clicks >>
           /\ out' = Quiet \/ UNCHANGED out
           /\ calm' => calm
<1>1. UNCHANGED << pc, args, program, control, store, line, clicks >> /\ (calm' => calm)
  BY DEF PlugStep, PlugClick, PlugAsk, PlugAskOn, PlugAttached, PlugDetached,
         PlugUnanswered, PlugFilter, PlugLate, ToSender, vars
<1>2. out' = Quiet \/ UNCHANGED out
  BY DEF PlugStep, PlugClick, PlugAsk, PlugAskOn, PlugAttached, PlugDetached,
         PlugUnanswered, PlugFilter, PlugLate, ToSender, vars
<1> QED
  BY <1>1, <1>2 DEF program, control, store

LEMMA OldEvent ==
    ASSUME WroteFiltered, UNCHANGED << GFilters, gthread, last >>,
           out' = Quiet \/ UNCHANGED out
    PROVE  WroteFiltered'
  BY QuietFacts DEF WroteFiltered, Through

\* A plug-in that has looked at a click, or has its answer, leaves nothing behind.
LEMMA RequestEnds ==
    ASSUME FType, NEW p \in Plugins, Clicked(p) \/ Requesting(p), pc # "dead", calm',
           \A q \in Plugins \ {p} : Resting(q), NEW r \in Plugins, PlugStep(r), Working'
    PROVE  Placed'
<1>1. r = p
  <2>1. ~Resting(r)
    BY DEF Resting, PlugStep, PlugClick, PlugAsk, PlugAskOn, PlugAttached,
           PlugDetached, PlugUnanswered, PlugFilter, PlugLate, InLoop
  <2> QED
    BY <2>1
<1>2. pbox[p] \in Seq(Parcel)
  BY DEF FType, PlugType
<1>3. ppc'[p] = "loop"
  BY DEF Working
<1>4. ~PlugAsk(p) /\ ~PlugAskOn(p)
  <2>1. \A at \in {"addName", "delName", "addPars", "attaching", "detaching"} : ~Goes(p, at)
    BY <1>3, GoesType DEF FType, PlugPC
  <2> QED
    BY <2>1 DEF PlugAsk, PlugAskOn
<1>5. PlugClick(p) \/ PlugAttached(p) \/ PlugDetached(p)
  <2>1. CASE Clicked(p)
    <3>1. Head(pbox[p]) = pbox[p][1]
      BY <1>2, <2>1, LastParcel DEF Clicked
    <3> QED
      BY <1>1, <1>4, <2>1, <3>1 DEF Clicked, PlugStep, PlugUnanswered, PlugFilter,
                                    PlugLate, InLoop
  <2>2. CASE Requesting(p)
    BY <1>1, <1>4, <2>2 DEF Requesting, PlugStep, PlugUnanswered, PlugFilter,
                            PlugLate, InLoop
  <2> QED
    BY <2>1, <2>2
<1>6. pbox[p] # << >> /\ Took(p) /\ UNCHANGED vars
  BY <1>5 DEF PlugClick, PlugAttached, PlugDetached, InLoop
<1>7. InStop /\ inbox = << >> /\ Len(pbox[p]) = 1
  BY <1>6 DEF Clicked, Requesting, AskedFor, Served
<1>8. NoParcels'
  <2>1. Tail(pbox[p]) = << >>
    BY <1>2, <1>7, LastParcel
  <2> QED
    BY <1>6, <2>1, FirstParcel DEF NoParcels, Resting, FType
<1>9. UNCHANGED << pc, state, inbox >>
  BY <1>6 DEF vars, control
<1> QED
  BY <1>7, <1>8, <1>9, NothingRests DEF Placed, Stopped, InStop

LEMMA PlugPlace ==
    ASSUME FType, ChainInv, Orderly, LinePlace, NEW r \in Plugins, PlugStep(r)
    PROVE  LinePlace'
<1>1. /\ UNCHANGED << pc, state, mk, GFilters, gthread, last, clicks >>
      /\ out' = Quiet \/ UNCHANGED out
      /\ calm' => calm
  BY PlugKeeps
<1> SUFFICES ASSUME calm' PROVE LinePlace'
  BY <1>1 DEF LinePlace
<1>2. OfPlugins /\ OfPlugins' /\ WroteFiltered'
  BY <1>1, OldEvent DEF LinePlace, OfPlugins
<1>3. CASE clicks = 0
  BY <1>1, <1>2, <1>3, WorkingFilters DEF LinePlace
<1>4. CASE clicks # 0 /\ Working
  <2>1. ASSUME NoParcels PROVE FALSE
    BY <1>4, <2>1 DEF Working, NoParcels, PlugStep, PlugClick, PlugAsk, PlugAskOn,
                      PlugAttached, PlugDetached, PlugUnanswered, PlugFilter,
                      PlugLate, InLoop
  <2>2. pc # "dead" => mk # NIL /\ InFilter
    BY <1>1, <1>4, <2>1 DEF LinePlace, Stopped, Between
  <2>3. pc # "dead" => InFilter'
    BY <1>2, <1>4, <2>2, FilterLooks
  <2> QED
    BY <1>1, <1>2, <1>4, <2>2, <2>3 DEF LinePlace
<1>5. CASE clicks # 0 /\ ~Working
  <2>1. PICK p \in Plugins :
           /\ Clicked(p) \/ Requesting(p)
           /\ \A q \in Plugins \ {p} : Resting(q)
    BY <1>1, <1>5 DEF Orderly
  <2>2. pc # "dead" => (Working' => Placed')
    BY <2>1, RequestEnds
  <2>3. pc # "dead" => mk # NIL
    BY <1>1, <1>5 DEF LinePlace
  <2> QED
    BY <1>1, <1>2, <1>5, <2>2, <2>3 DEF LinePlace, Placed
<1> QED
  BY <1>3, <1>4, <1>5

\* The window's.
LEMMA Empties ==
    ASSUME \A p \in Plugins : ppc[p] = "loop" /\ pbox[p] = << >>
    PROVE  \A p \in Plugins : ~(Clicked(p) \/ Requesting(p))
<1>1. ASSUME NEW p \in Plugins, Clicked(p) PROVE FALSE
  <2>1. Len(pbox[p]) = 1 /\ pbox[p] = << >>
    BY <1>1 DEF Clicked
  <2> QED
    BY <2>1
<1> QED
  BY <1>1 DEF Requesting

LEMMA WindowPlace ==
    ASSUME FType, Orderly, LinePlace,
           ClickConnect \/ ClickRun \/ \E p \in Plugins : ClickPlugin(p)
    PROVE  LinePlace'
<1>1. /\ UNCHANGED << pc, state, mk, GFilters, gthread, last >>
      /\ out' = Quiet \/ UNCHANGED out
      /\ calm' => calm /\ AtRest
      /\ clicks' \in Nat
  <2>1. UNCHANGED << pc, args, program, control, store, line >> /\ (out' = Quiet \/ UNCHANGED out)
    BY DEF ClickConnect, ClickRun, ClickPlugin, WindowPosts, vars
  <2>2. (calm' => calm /\ AtRest) /\ (clicks' = clicks \/ clicks' = clicks + 1)
    <3>1. CASE ClickConnect
      BY <3>1 DEF ClickConnect
    <3>2. CASE ClickRun \/ \E p \in Plugins : ClickPlugin(p)
      <4>1. Click
        BY <3>2 DEF ClickRun, ClickPlugin
      <4> QED
        BY <4>1 DEF Click
    <3> QED
      BY <3>1, <3>2
  <2> QED
    BY <2>1, <2>2 DEF program, control, store, LinePlace
<1> SUFFICES ASSUME calm' PROVE LinePlace'
  BY <1>1 DEF LinePlace
<1>2. OfPlugins' /\ WroteFiltered'
  BY <1>1, OldEvent DEF LinePlace, OfPlugins
<1>3. Working /\ AtRest
  BY <1>1, RestIsWork
<1>4. /\ inbox = << >> /\ pc \in {"tick", "wait"} /\ state = "stop"
      /\ \A p \in Plugins : pbox[p] = << >> /\ ppc[p] = "loop"
  BY <1>3 DEF AtRest, Working
<1>5. CASE ClickConnect
  <2>1. mk = NIL /\ UNCHANGED << clicks, pbox, ppc >>
    BY <1>5 DEF ClickConnect, WindowPosts, plugs
  <2>2. clicks = 0
    BY <1>1, <1>4, <2>1 DEF LinePlace
  <2>3. GFilters' = << >>
    BY <1>1, <2>2 DEF LinePlace
  <2>4. Orderly'
    BY <1>5, WindowOrderly
  <2>5. \A p \in Plugins : ~(Clicked(p)' \/ Requesting(p)')
    <3>1. \A p \in Plugins : ppc'[p] = "loop" /\ pbox'[p] = << >>
      BY <1>4, <2>1
    <3>2. \A p \in Plugins : Len(pbox'[p]) = 0
      BY <3>1
    <3> QED
      BY <3>1, <3>2 DEF Clicked, Requesting
  <2>6. Working'
    BY <2>4, <2>5 DEF Orderly
  <2> QED
    BY <1>1, <1>2, <2>1, <2>2, <2>3, <2>6 DEF LinePlace
<1>6. CASE ClickRun
  <2> DEFINE ms == << "FILL", "NEW" >> \o Program
                   \o << "FIN", "SENDFROM", "1", "CALCULATE", "RESUME" >>
  <2>1. /\ mk # NIL /\ clicks' = clicks + 1 /\ inbox' = inbox \o ms
        /\ UNCHANGED pbox
    BY <1>6 DEF ClickRun, Click, WindowPosts, plugs
  <2>2. clicks' # 0
    BY <2>1 DEF LinePlace
  <2>3. RunRest(ms) /\ ms \in Seq(Pure)
    BY RunPosts, ButtonWords
  <2> HIDE DEF ms
  <2>4. inbox' = ms
    BY <1>4, <2>1, <2>3, ConcatEmptySeq
  <2>5. Stopped'
    BY <1>1, <1>4, <2>1, <2>3, <2>4 DEF Stopped, NoParcels
  <2> QED
    BY <1>1, <1>2, <2>1, <2>2, <2>5 DEF LinePlace
<1>7. ASSUME NEW p \in Plugins, ClickPlugin(p) PROVE LinePlace'
  <2>1. /\ mk # NIL /\ clicks' = clicks + 1
        /\ \E k \in {"EXECUTE", "DETACH", "CLICK"} : Put(p, Request(k))
    BY <1>7 DEF ClickPlugin, Click
  <2>2. clicks' # 0
    BY <2>1 DEF LinePlace
  <2>3. PICK k \in {"EXECUTE", "DETACH", "CLICK"} : Put(p, Request(k))
    BY <2>1
  <2>4. Request(k) \in Parcel /\ Request(k).kind = k
    BY DEF Request, Parcel
  <2>5. pbox'[p] = << Request(k) >>
    BY <1>4, <2>3, <2>4, PutEffect, Requests DEF FType
  <2>6. ~Working'
    <3>1. 1 \in 1..Len(pbox'[p]) /\ pbox'[p][1].kind # "FILTER"
      BY <2>4, <2>5
    <3> QED
      BY <3>1 DEF Working
  <2> QED
    BY <1>1, <1>2, <2>1, <2>2, <2>6 DEF LinePlace
<1> QED
  BY <1>5, <1>6, <1>7

\* Nobody else touches the program or the chain.
LEMMA OthersKeep ==
    ASSUME FNext, ~SenderStep
    PROVE  /\ UNCHANGED << gthread, last, GFilters >> /\ (calm' => calm)
           /\ out' = Quiet \/ UNCHANGED out
<1>1. CASE Loading
  BY <1>1 DEF Loading, vars, program, store
<1>2. CASE ClickConnect
  BY <1>2 DEF ClickConnect, WindowPosts, program, store
<1>3. CASE ClickRun
  BY <1>3 DEF ClickRun, Click, WindowPosts, program, store
<1>4. ASSUME NEW p \in Plugins, ClickPlugin(p)
      PROVE  /\ UNCHANGED << gthread, last, GFilters, out >>
             /\ calm' => calm
  BY <1>4 DEF ClickPlugin, Click, vars, program, store
<1> QED
  BY <1>1, <1>2, <1>3, <1>4, PlugKeeps DEF FNext

LEMMA LineStart == FInit => LinePlace
<1> SUFFICES ASSUME FInit PROVE LinePlace
  OBVIOUS
<1>1. Working
  <2>1. Orderly /\ calm
    BY OrderlyStart DEF FInit
  <2>2. \A p \in Plugins : ~(Clicked(p) \/ Requesting(p))
    <3>1. \A p \in Plugins : ppc[p] = "loop" /\ pbox[p] = << >>
      BY DEF FInit
    <3> QED
      BY <3>1, Empties
  <2> QED
    BY <2>1, <2>2 DEF Orderly
<1> QED
  BY <1>1, QuietFacts DEF FInit, Init, LinePlace, OfPlugins, WroteFiltered

ChainPlaced == FType /\ ChainInv /\ ProgramPlace /\ Orderly /\ LinePlace

LEMMA LinesKept == ChainPlaced /\ [FNext]_chainVars => LinePlace'
<1> SUFFICES ASSUME ChainPlaced, [FNext]_chainVars PROVE LinePlace'
  OBVIOUS
<1> USE DEF ChainPlaced
<1>1. CASE Loading \/ UNCHANGED chainVars
  <2>1. UNCHANGED << inbox, pc, args, program, control, store, line, out,
                     pbox, ppc, shown, clicks, calm >>
    BY <1>1 DEF Loading, chainVars, plugs, vars
  <2>2. UNCHANGED << state, mk, gthread, icmd, last, sthread, GFilters, cmd, fidx >>
    BY <2>1 DEF program, control, store, line
  <2>3. OfPlugins' = OfPlugins /\ WroteFiltered' = WroteFiltered /\ Working' = Working
    BY <2>1, <2>2 DEF OfPlugins, WroteFiltered, Through, Working, HeldPure, HeldIn
  <2>4. /\ Stopped' = Stopped /\ Between' = Between
        /\ \A p \in Plugins : WithFilter(p)' = WithFilter(p)
    BY <2>1, <2>2 DEF Stopped, Between, NoParcels, WithFilter
  <2>5. InFilter => InFilter'
    BY <2>1, <2>2, <2>4 DEF InFilter
  <2> QED
    BY <2>1, <2>2, <2>3, <2>4, <2>5 DEF LinePlace
<1> QED
  BY <1>1, SenderPlace, PlugPlace, WindowPlace DEF FNext

\* While no click falls into something under way and no wait runs out, every
\* program line reaches the machine as the filters attached make it, each of
\* them applied once and in the order of the chain, a failing one left out:
\* the sender takes no message of the window, and no answer of another filter
\* or to an earlier line, for the line it is waiting for (LinesFiltered).
THEOREM LinesAreFiltered == FSpec => LinesFiltered
<1>1. FInit => ChainPlaced
  BY OrderlyStart, ChainInit, PlaceInit, LineStart DEF FInit, ChainPlaced
<1>2. ChainPlaced /\ [FNext]_chainVars => ChainPlaced'
  <2>1. FType /\ ChainInv /\ ProgramPlace /\ [FNext]_chainVars
           => ChainInv' /\ ProgramPlace'
    BY Outside, OutsideKeeps, ChainKept, PlaceStep DEF FType, Next
  <2> QED
    BY <2>1, ChainTypes, OrderKept, LinesKept DEF ChainPlaced
<1>3. ChainPlaced /\ [FNext]_chainVars =>
        [ calm' /\ Writes("line") => out'.tx.text = Through(gthread[last']) ]_chainVars
  <2> SUFFICES ASSUME ChainPlaced, FNext, calm', Writes("line"),
                      chainVars' # chainVars
               PROVE  out'.tx.text = Through(gthread[last'])
    OBVIOUS
  <2>1. CASE SenderStep
    BY <2>1, SenderPlace DEF ChainPlaced, FilteredLine
  <2>2. CASE ~SenderStep
    <3>1. /\ UNCHANGED << gthread, last, GFilters >> /\ (calm' => calm)
          /\ out' = Quiet \/ UNCHANGED out
      BY <2>2, OthersKeep
    <3>2. UNCHANGED out
      BY <3>1, QuietFacts DEF Writes
    <3>3. WroteFiltered /\ calm
      BY <3>1 DEF ChainPlaced, LinePlace
    <3> QED
      BY <3>1, <3>2, <3>3 DEF Writes, WroteFiltered
  <2> QED
    BY <2>1, <2>2
<1> QED
  BY <1>1, <1>2, <1>3, PTL DEF FSpec, LinesFiltered

=============================================================================
