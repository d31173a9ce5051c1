---------------------------- MODULE SenderProofs ----------------------------
(* Proofs about the sender task, for every traffic, every payload and every *)
(* bound.                                                                    *)
EXTENDS Sender, ListProofs, SequenceTheorems

\* What the loop compares with and posts to itself are messages.
LEMMA MessageFacts ==
    /\ Word \subseteq Msg /\ Text \subseteq Msg /\ StopLine \in Msg
    /\ \A k : Greeting(k) \in Seq(Msg) /\ Greeting(k) # << >>
    /\ \A k : ModeFix \o Greeting(k) \in Seq(Msg) /\ ModeFix \o Greeting(k) # << >>
<1>1. Word \subseteq Msg /\ Text \subseteq Msg /\ StopLine \in Msg
  BY TextAssumption DEF Msg
<1>2. ASSUME NEW k PROVE Greeting(k) \in Seq(Msg) /\ Greeting(k) # << >>
  <2>1. {"NEW", "CALCULATE", "SINGLE", "G21G90", "G90G21"} \subseteq Msg
    BY TextAssumption DEF Msg, Word
  <2> QED
    BY <2>1 DEF Greeting
<1>3. ModeFix \in Seq(Msg) /\ Len(ModeFix) = 2
  BY TextAssumption DEF ModeFix, GrblMode, Msg, Word
<1>4. ASSUME NEW k PROVE ModeFix \o Greeting(k) \in Seq(Msg) /\ ModeFix \o Greeting(k) # << >>
  BY <1>2, <1>3, ConcatProperties
<1> QED
  BY <1>1, <1>2, <1>4

\* exec.waitmsg takes a message off the mailbox, or answers nil.
LEMMA WaitMsgType ==
    ASSUME inbox \in Seq(Msg), WaitMsg
    PROVE  inbox' \in Seq(Msg) /\ Arrived \in Msg \cup {NIL}
  BY DEF WaitMsg, Arrived

LEMMA TypeInit == Init => TypeOK
<1> SUFFICES ASSUME Init PROVE TypeOK
  OBVIOUS
<1>1. MailboxType
  BY TrafficAssumption DEF Init, MailboxType, PC
<1>2. LoopType
  BY DEF Init, LoopType
<1>3. ProgramType
  BY DEF Init, ProgramType
<1>4. EventType
  BY DEF Init, EventType, Quiet, Event
<1> QED
  BY <1>1, <1>2, <1>3, <1>4 DEF TypeOK

\* An event's fields, and the events that a step may emit.
LEMMA EventFacts ==
    /\ \A u, t, p : Event(u, t, p).ui = u /\ Event(u, t, p).tx = t
    /\ \A n \in Nat, k \in {"Stop", "Run", "Pause", "error", "gauge", "setup",
                           "Connected", "CantConnect"} : Ui(k, n) \in UiEvent
    /\ \A k \in {"line", "single"}, m \in Msg : Tx(k, m) \in TxEvent
    /\ \A k \in {"query", "hold", "go", "hello"} : Tx(k, NIL) \in TxEvent
  BY DEF Event, Ui, Tx, UiEvent, TxEvent

LEMMA QuietFacts == Quiet.ui = NIL /\ Quiet.tx = NIL
  BY EventFacts DEF Quiet

\* The line the program is to go on with exists.
LEMMA LineFacts ==
    ASSUME TypeOK, LineReady
    PROVE  /\ NextCmd \in 1..Len(gthread)
           /\ NextCmd \in Nat /\ NextCmd > 0 /\ gthread[NextCmd] \in Msg
<1>1. NextCmd \in Nat /\ NextCmd > 0
  BY DEF TypeOK, ProgramType, NextCmd
<1> QED
  BY <1>1 DEF TypeOK, ProgramType, LineReady

LEMMA SingleFacts ==
    ASSUME TypeOK, SingleReady
    PROVE  /\ sthread[Len(sthread)] \in Msg
           /\ SubSeq(sthread, 1, Len(sthread) - 1) \in Seq(Msg)
<1>1. sthread \in Seq(Msg) /\ Len(sthread) \in Nat /\ Len(sthread) > 0
  BY DEF TypeOK, ProgramType, SingleReady
<1> QED
  BY <1>1, SubSeqProperties

\* What handing a line to the filters, or to the port, leaves behind.
LEMMA SendOutType ==
    ASSUME TypeOK, NEW c \in Msg, NEW n \in Nat, NEW u \in UiEvent \cup {NIL},
           SendOut(c, n, u)
    PROVE  /\ cmd' \in Msg \cup {NIL} /\ (pc' = "filter" => cmd' \in Msg)
           /\ pc' \in {"wait", "filter"}
           /\ last' \in Nat /\ int_state' \in {"s", "r", "rs", "m"}
           /\ out_access' \in BOOLEAN /\ req_inc_cmd' \in BOOLEAN
           /\ EventType'
<1>1. CASE GFilters = << >>
  <2>1. Write(c, n) /\ out' = Event(u, Tx(IF n = 0 THEN "single" ELSE "line", c), NIL)
    BY <1>1 DEF SendOut
  <2>2. EventType'
    BY <2>1, EventFacts DEF EventType
  <2> QED
    BY <2>1, <2>2 DEF Write, TypeOK, ProgramType
<1>2. CASE GFilters # << >>
  <2>1. /\ cmd' = c /\ pc' = "filter" /\ out' = Event(u, NIL, Plug("filter", GFilters[1]))
        /\ req_inc_cmd' = IF Answered THEN FALSE ELSE req_inc_cmd
        /\ UNCHANGED << out_access, int_state, last >>
    BY <1>2 DEF SendOut
  <2>2. EventType'
    BY <2>1, EventFacts DEF EventType
  <2> QED
    BY <2>1, <2>2 DEF TypeOK, LoopType, ProgramType
<1> QED
  BY <1>1, <1>2

\* A step of the task, or of a client, keeps the types.
LEMMA TypeStep == TypeOK /\ [Next]_vars => TypeOK'
<1> SUFFICES ASSUME TypeOK, [Next]_vars PROVE TypeOK'
  OBVIOUS
<1> USE MessageFacts, NILAssumption, QuietFacts
    DEF TypeOK, MailboxType, LoopType, ProgramType, EventType, PC,
        program, control, store, line, Tick, TickMain
<1>1. CASE TickEnd
  BY <1>1, WaitMsgType DEF TickEnd, On
<1>2. CASE TickNoController
  BY <1>2, WaitMsgType DEF TickNoController, On
<1>3. ASSUME NEW sent \in BOOLEAN, TickStatus(sent) PROVE TypeOK'
  <2>1. MailboxType'
    BY <1>3, WaitMsgType DEF TickStatus, On
  <2>2. LoopType'
    BY <1>3, WaitMsgType DEF TickStatus, On
  <2>3. ProgramType'
    BY <1>3, WaitMsgType DEF TickStatus, On
  <2>4. EventType'
    BY <1>3, EventFacts DEF TickStatus
  <2> QED
    BY <2>1, <2>2, <2>3, <2>4
<1>4. ASSUME NEW r \in ReadResult, NEW acc \in BOOLEAN, NEW lapsed \in BOOLEAN, TickRead(r, acc, lapsed) PROVE TypeOK'
  <2>1. MailboxType'
    BY <1>4, WaitMsgType DEF TickRead, On
  <2>2. LoopType'
    BY <1>4, WaitMsgType DEF TickRead, On
  <2>3. ProgramType'
    BY <1>4, WaitMsgType DEF TickRead, On
  <2>4. EventType'
    <3>1. CASE r = "err" /\ send_from # NIL
      <4>1. LineNo(icmd) \in Nat
        BY <3>1 DEF LineNo
      <4> QED
        BY <1>4, <3>1, <4>1, EventFacts DEF TickRead
    <3>2. CASE ~(r = "err" /\ send_from # NIL)
      BY <1>4, <3>2, EventFacts DEF TickRead, Quiet
    <3> QED
      BY <3>1, <3>2
  <2> QED
    BY <2>1, <2>2, <2>3, <2>4
<1>5. CASE TickProgramEnd
  <2>1. MailboxType'
    BY <1>5, WaitMsgType DEF TickProgramEnd, On
  <2>2. LoopType'
    BY <1>5, WaitMsgType DEF TickProgramEnd, On
  <2>3. ProgramType'
    BY <1>5, WaitMsgType DEF TickProgramEnd, On
  <2>4. EventType'
    BY <1>5, EventFacts DEF TickProgramEnd
  <2> QED
    BY <2>1, <2>2, <2>3, <2>4
<1>6. CASE TickIdle
  BY <1>6, WaitMsgType DEF TickIdle, On
<1>7. CASE TickLine
  <2>0. /\ cmd' \in Msg \cup {NIL} /\ (pc' = "filter" => cmd' \in Msg)
        /\ pc' \in {"wait", "filter"}
        /\ last' \in Nat /\ int_state' \in {"s", "r", "rs", "m"}
        /\ out_access' \in BOOLEAN /\ req_inc_cmd' \in BOOLEAN
        /\ EventType'
    BY <1>7, LineFacts, EventFacts, SendOutType DEF TickLine
  <2>1. MailboxType'
    BY <1>7, <2>0, LineFacts DEF TickLine
  <2>2. LoopType'
    BY <1>7, <2>0, LineFacts DEF TickLine
  <2>3. ProgramType'
    BY <1>7, <2>0, LineFacts DEF TickLine
  <2>4. EventType'
    BY <1>7, <2>0, LineFacts DEF TickLine
  <2> QED
    BY <2>1, <2>2, <2>3, <2>4
<1>8. CASE TickLineDies
  <2>1. MailboxType'
    BY <1>8, WaitMsgType DEF TickLineDies, On
  <2>2. LoopType'
    BY <1>8, WaitMsgType DEF TickLineDies, On
  <2>3. ProgramType'
    BY <1>8, WaitMsgType DEF TickLineDies, On
  <2>4. EventType'
    BY <1>8, LineFacts, EventFacts DEF TickLineDies
  <2> QED
    BY <2>1, <2>2, <2>3, <2>4
<1>9. CASE TickSingle
  <2>0. /\ cmd' \in Msg \cup {NIL} /\ (pc' = "filter" => cmd' \in Msg)
        /\ pc' \in {"wait", "filter"}
        /\ last' \in Nat /\ int_state' \in {"s", "r", "rs", "m"}
        /\ out_access' \in BOOLEAN /\ req_inc_cmd' \in BOOLEAN
        /\ EventType'
    BY <1>9, SingleFacts, SendOutType DEF TickSingle
  <2>1. MailboxType'
    BY <1>9, <2>0, SingleFacts DEF TickSingle
  <2>2. LoopType'
    BY <1>9, <2>0, SingleFacts DEF TickSingle
  <2>3. ProgramType'
    BY <1>9, <2>0, SingleFacts DEF TickSingle
  <2>4. EventType'
    BY <1>9, <2>0, SingleFacts DEF TickSingle
  <2> QED
    BY <2>1, <2>2, <2>3, <2>4
<1>10. CASE FilterAnswer
  <2>1. MailboxType'
    <3>1. (IF Arrived = NIL THEN cmd ELSE Arrived) \in Msg
      BY <1>10, WaitMsgType DEF FilterAnswer
    <3>2. /\ cmd' \in Msg \cup {NIL} /\ (pc' = "filter" => cmd' \in Msg)
          /\ pc' \in {"wait", "filter"}
      BY <1>10, <3>1 DEF FilterAnswer, Write
    <3> QED
      BY <1>10, <3>2, WaitMsgType DEF FilterAnswer
  <2>2. LoopType'
    BY <1>10, WaitMsgType DEF FilterAnswer, Write, On
  <2>3. ProgramType'
    BY <1>10, WaitMsgType DEF FilterAnswer, Write, On
  <2>4. EventType'
    <3>1. CASE fidx = Len(GFilters)
      <4>1. PICK c \in Msg, k \in {"line", "single"} : out' = Event(NIL, Tx(k, c), NIL)
        <5>1. out' = Event(NIL, Tx(IF (IF state = "run" THEN icmd ELSE 0) = 0
                                   THEN "single" ELSE "line",
                                   IF Arrived = NIL THEN cmd ELSE Arrived), NIL)
          BY <1>10, <3>1 DEF FilterAnswer
        <5>2. (IF Arrived = NIL THEN cmd ELSE Arrived) \in Msg
          BY <1>10, WaitMsgType DEF FilterAnswer
        <5> QED
          BY <5>1, <5>2
      <4> QED
        BY <4>1, EventFacts
    <3>2. CASE fidx # Len(GFilters)
      BY <1>10, <3>2, EventFacts DEF FilterAnswer
    <3> QED
      BY <3>1, <3>2
  <2> QED
    BY <2>1, <2>2, <2>3, <2>4
<1>11. CASE OnPORT
  BY <1>11, WaitMsgType DEF OnPORT, On
<1>12. CASE PortArg
  BY <1>12, WaitMsgType DEF PortArg, On
<1>13. CASE ConnectIgnored
  BY <1>13, WaitMsgType DEF ConnectIgnored, On
<1>14. CASE ConnectDies
  <2>1. MailboxType'
    BY <1>14, WaitMsgType DEF ConnectDies, On
  <2>2. LoopType'
    BY <1>14 DEF ConnectDies, Known
  <2>3. ProgramType'
    BY <1>14, WaitMsgType DEF ConnectDies, On
  <2>4. EventType'
    BY <1>14, EventFacts DEF ConnectDies
  <2> QED
    BY <2>1, <2>2, <2>3, <2>4
<1>15. CASE ConnectFails
  <2>1. MailboxType'
    BY <1>15, WaitMsgType DEF ConnectFails, On
  <2>2. LoopType'
    BY <1>15, WaitMsgType DEF ConnectFails, On
  <2>3. ProgramType'
    BY <1>15, WaitMsgType DEF ConnectFails, On
  <2>4. EventType'
    BY <1>15, EventFacts DEF ConnectFails
  <2> QED
    BY <2>1, <2>2, <2>3, <2>4
<1>16. CASE ConnectOpens
  <2>1. MailboxType'
    BY <1>16, WaitMsgType DEF ConnectOpens, On
  <2>2. LoopType'
    BY <1>16 DEF ConnectOpens, Known
  <2>3. ProgramType'
    BY <1>16, WaitMsgType DEF ConnectOpens, On
  <2>4. EventType'
    BY <1>16, EventFacts DEF ConnectOpens
  <2> QED
    BY <2>1, <2>2, <2>3, <2>4
<1>17. ASSUME NEW acc \in BOOLEAN, NEW fix \in BOOLEAN, HelpAnswer(acc, fix) PROVE TypeOK'
  <2>1. MailboxType'
    <3>1. CASE fix
      BY <1>17, <3>1 DEF HelpAnswer
    <3>2. CASE ~fix
      <4>1. args' = Greeting(mk)
        BY <1>17, <3>2 DEF HelpAnswer
      <4> QED
        BY <1>17, <4>1 DEF HelpAnswer
    <3> QED
      BY <3>1, <3>2
  <2>2. LoopType'
    BY <1>17, WaitMsgType DEF HelpAnswer, On
  <2>3. ProgramType'
    BY <1>17, WaitMsgType DEF HelpAnswer, On
  <2>4. EventType'
    BY <1>17, EventFacts DEF HelpAnswer
  <2> QED
    BY <2>1, <2>2, <2>3, <2>4
<1>18. CASE Greet
  <2>1. MailboxType'
    <3>1. args \in Seq(Msg) /\ args # << >> /\ Len(args) \in Nat
      BY <1>18 DEF Greet
    <3>2. Head(args) \in Msg /\ Tail(args) \in Seq(Msg) /\ Len(Tail(args)) = Len(args) - 1
      BY <3>1, HeadTailProperties
    <3>3. inbox' \in Seq(Msg) /\ args' \in Seq(Msg)
      BY <1>18, <3>2 DEF Greet
    <3>4. pc' = "greet" => args' # << >>
      BY <1>18, <3>1, <3>2 DEF Greet
    <3>5. args' \in Seq(Msg \cup {NIL}) /\ pc' \in {"tick", "greet"}
      BY <1>18, <3>3, SeqMonotonic DEF Greet
    <3> QED
      BY <1>18, <3>3, <3>4, <3>5 DEF Greet
  <2>2. LoopType'
    BY <1>18, WaitMsgType DEF Greet, On
  <2>3. ProgramType'
    BY <1>18, WaitMsgType DEF Greet, On
  <2>4. EventType'
    BY <1>18, EventFacts DEF Greet
  <2> QED
    BY <2>1, <2>2, <2>3, <2>4
<1>19. CASE NoMessage
  BY <1>19, WaitMsgType DEF NoMessage, On
<1>20. CASE OnNEW
  <2>1. MailboxType'
    BY <1>20, WaitMsgType DEF OnNEW, On
  <2>2. LoopType'
    BY <1>20, WaitMsgType DEF OnNEW, On
  <2>3. ProgramType'
    BY <1>20, WaitMsgType DEF OnNEW, On
  <2>4. EventType'
    BY <1>20, EventFacts DEF OnNEW
  <2> QED
    BY <2>1, <2>2, <2>3, <2>4
<1>21. CASE OnCALCULATE
  <2>1. MailboxType'
    BY <1>21, WaitMsgType DEF OnCALCULATE, On
  <2>2. LoopType'
    BY <1>21, WaitMsgType DEF OnCALCULATE, On
  <2>3. ProgramType'
    BY <1>21, WaitMsgType DEF OnCALCULATE, On
  <2>4. EventType'
    BY <1>21, EventFacts DEF OnCALCULATE
  <2> QED
    BY <2>1, <2>2, <2>3, <2>4
<1>22. CASE OnPAUSE
  <2>1. MailboxType'
    BY <1>22, WaitMsgType DEF OnPAUSE, On
  <2>2. LoopType'
    BY <1>22, WaitMsgType DEF OnPAUSE, On
  <2>3. ProgramType'
    BY <1>22, WaitMsgType DEF OnPAUSE, On
  <2>4. EventType'
    BY <1>22, EventFacts DEF OnPAUSE
  <2> QED
    BY <2>1, <2>2, <2>3, <2>4
<1>23. CASE OnFILL
  BY <1>23, WaitMsgType DEF OnFILL, On
<1>24. CASE OnRESUME
  <2>1. MailboxType'
    BY <1>24, WaitMsgType DEF OnRESUME, On
  <2>2. LoopType'
    BY <1>24, WaitMsgType DEF OnRESUME, On
  <2>3. ProgramType'
    BY <1>24, WaitMsgType DEF OnRESUME, On
  <2>4. EventType'
    BY <1>24, EventFacts DEF OnRESUME
  <2> QED
    BY <2>1, <2>2, <2>3, <2>4
<1>25. CASE OnSTOP
  <2>1. MailboxType'
    BY <1>25, WaitMsgType DEF OnSTOP, On
  <2>2. LoopType'
    BY <1>25, WaitMsgType DEF OnSTOP, On
  <2>3. ProgramType'
    BY <1>25, WaitMsgType DEF OnSTOP, On
  <2>4. EventType'
    BY <1>25, EventFacts DEF OnSTOP
  <2> QED
    BY <2>1, <2>2, <2>3, <2>4
<1>26. CASE OnWithArgument
  BY <1>26, WaitMsgType DEF OnWithArgument, On
<1>27. CASE SingleArg
  <2>1. MailboxType'
    BY <1>27, WaitMsgType DEF SingleArg, On
  <2>2. LoopType'
    BY <1>27, WaitMsgType DEF SingleArg, On
  <2>3. ProgramType'
    <3>1. CASE state = "stop" /\ Arrived # NIL
      <4>1. Arrived \in Msg
        BY <1>27, <3>1, WaitMsgType DEF SingleArg
      <4>2. sthread' = Append(sthread, Arrived)
        BY <1>27, <3>1 DEF SingleArg
      <4>3. sthread \in Seq(Msg)
        OBVIOUS
      <4>4. sthread' \in Seq(Msg)
        BY <4>1, <4>2, <4>3, AppendProperties
      <4> QED
        BY <1>27, <4>4 DEF SingleArg
    <3>2. CASE ~(state = "stop" /\ Arrived # NIL)
      <4>1. sthread' = sthread
        BY <1>27, <3>2 DEF SingleArg
      <4> QED
        BY <1>27, <4>1 DEF SingleArg
    <3> QED
      BY <3>1, <3>2
  <2>4. EventType'
    BY <1>27, EventFacts DEF SingleArg
  <2> QED
    BY <2>1, <2>2, <2>3, <2>4
<1>28. CASE SendfromArg
  <2>1. MailboxType'
    BY <1>28, WaitMsgType DEF SendfromArg, On
  <2>2. LoopType'
    BY <1>28, WaitMsgType DEF SendfromArg, On
  <2>3. ProgramType'
    <3>1. send_from' \in Nat \cup {NIL}
      BY <1>28, NumberAssumption DEF SendfromArg
    <3> QED
      BY <1>28, <3>1 DEF SendfromArg
  <2>4. EventType'
    BY <1>28, EventFacts DEF SendfromArg
  <2> QED
    BY <2>1, <2>2, <2>3, <2>4
<1>29. CASE AddFilterName
  <2>1. MailboxType'
    <3>1. CASE Arrived = NIL
      BY <1>29, <3>1, WaitMsgType DEF AddFilterName
    <3>2. CASE Arrived # NIL
      <4>1. args' = << Arrived >> /\ Arrived \in Msg
        BY <1>29, <3>2, WaitMsgType DEF AddFilterName
      <4> QED
        BY <1>29, <3>2, <4>1, WaitMsgType DEF AddFilterName
    <3> QED
      BY <3>1, <3>2
  <2>2. LoopType'
    BY <1>29, WaitMsgType DEF AddFilterName, On
  <2>3. ProgramType'
    BY <1>29, WaitMsgType DEF AddFilterName, On
  <2>4. EventType'
    BY <1>29, EventFacts DEF AddFilterName
  <2> QED
    BY <2>1, <2>2, <2>3, <2>4
<1>30. CASE AddFilterPars
  <2>1. MailboxType'
    BY <1>30, WaitMsgType DEF AddFilterPars, On
  <2>2. LoopType'
    BY <1>30, WaitMsgType DEF AddFilterPars, On
  <2>3. ProgramType'
    BY <1>30, WaitMsgType DEF AddFilterPars, On
  <2>4. EventType'
    BY <1>30, EventFacts DEF AddFilterPars
  <2> QED
    BY <2>1, <2>2, <2>3, <2>4
<1>31. CASE DelFilterName
  <2>1. MailboxType'
    BY <1>31, WaitMsgType DEF DelFilterName, On
  <2>2. LoopType'
    BY <1>31, WaitMsgType DEF DelFilterName, On
  <2>3. ProgramType'
    BY <1>31, WaitMsgType DEF DelFilterName, On
  <2>4. EventType'
    BY <1>31, EventFacts DEF DelFilterName
  <2> QED
    BY <2>1, <2>2, <2>3, <2>4
<1>32. CASE FillStart
  BY <1>32, WaitMsgType DEF FillStart, On
<1>33. CASE FillNext
  <2>1. MailboxType'
    BY <1>33, WaitMsgType DEF FillNext, On
  <2>2. LoopType'
    BY <1>33, WaitMsgType DEF FillNext, On
  <2>3. ProgramType'
    <3>1. CASE Arrived \in {NIL, "FIN"}
      BY <1>33, <3>1 DEF FillNext
    <3>2. CASE Arrived \notin {NIL, "FIN"}
      <4>1. Arrived \in Msg
        BY <1>33, <3>2, WaitMsgType DEF FillNext
      <4>2. gthread' = Append(gthread, Arrived)
        BY <1>33, <3>2 DEF FillNext
      <4>3. gthread \in Seq(Msg)
        OBVIOUS
      <4>4. gthread' \in Seq(Msg)
        BY <4>1, <4>2, <4>3, AppendProperties
      <4> QED
        BY <1>33, <4>4 DEF FillNext
    <3> QED
      BY <3>1, <3>2
  <2>4. EventType'
    BY <1>33, EventFacts DEF FillNext
  <2> QED
    BY <2>1, <2>2, <2>3, <2>4
<1>34. ASSUME NEW m \in Posted, Post(m) PROVE TypeOK'
  <2>1. MailboxType'
    BY <1>34, TrafficAssumption DEF Post
  <2>2. LoopType'
    BY <1>34, WaitMsgType DEF Post, On
  <2>3. ProgramType'
    BY <1>34, WaitMsgType DEF Post, On
  <2>4. EventType'
    BY <1>34, EventFacts DEF Post
  <2> QED
    BY <2>1, <2>2, <2>3, <2>4
<1>35. CASE UNCHANGED vars
  BY <1>35 DEF vars
<1> QED
  BY <1>1, <1>2, <1>3, <1>4, <1>5, <1>6, <1>7, <1>8, <1>9, <1>10, <1>11, <1>12, <1>13, <1>14, <1>15, <1>16, <1>17, <1>18, <1>19, <1>20, <1>21, <1>22, <1>23, <1>24, <1>25, <1>26, <1>27, <1>28, <1>29, <1>30, <1>31, <1>32, <1>33, <1>34, <1>35 DEF Next, OwnStep, TickStep, ConnectStep, HelpStep, HandlerStep

-----------------------------------------------------------------------------
\* The theorem of the sender's types: whatever the other tasks post, in any
\* order and between any two messages of a request, and wherever a wait times
\* out, the loop's variables keep their types.
THEOREM TypeCorrect == Spec => []TypeOK
<1>1. Init => TypeOK
  BY TypeInit
<1>2. TypeOK /\ [Next]_vars => TypeOK'
  BY TypeStep
<1> QED
  BY <1>1, <1>2, PTL DEF Spec

-----------------------------------------------------------------------------
(* Where the program stands. *)

LEMMA PlaceInit == Init => ProgramPlace
  BY DEF Init, ProgramPlace, Filtering, AtPlace

\* A step that leaves the program alone, outside the filters.
LEMMA PlaceUndisturbed ==
    ASSUME ProgramPlace, pc # "dead", pc # "filter", pc' # "filter",
           UNCHANGED program, paused' => state' # "run"
    PROVE  ProgramPlace'
  BY DEF ProgramPlace, Filtering, AtPlace, program

\* A line handed on: it is the next one, and it goes out or into the filters.
LEMMA PlaceAfterLine ==
    ASSUME TypeOK, ProgramPlace, TickLine
    PROVE  ProgramPlace'
<1>1. /\ NextCmd \in 1..Len(gthread) /\ NextCmd \in Nat /\ pc # "dead" /\ ~Filtering
      /\ state = "run" /\ out_access
      /\ icmd' = NextCmd /\ SendOut(gthread[NextCmd], NextCmd, Ui("gauge", NextCmd))
      /\ UNCHANGED << gthread, state, paused, GFilters >>
  BY LineFacts DEF TickLine, TickMain, Tick, LineReady, Filtering, store
<1>2. NextCmd = last + 1 \/ (last = 0 /\ NextCmd = 2)
  <2>1. CASE req_inc_cmd
    <3>1. NextCmd = icmd + 1
      BY <1>1, <2>1 DEF NextCmd, Answered
    <3> QED
      BY <1>1, <2>1, <3>1 DEF ProgramPlace, AtPlace
  <2>2. CASE ~req_inc_cmd
    <3>1. NextCmd = icmd
      BY <2>2 DEF NextCmd, Answered
    <3> QED
      BY <1>1, <2>2, <3>1 DEF ProgramPlace, AtPlace
  <2> QED
    BY <2>1, <2>2
<1>3. CASE GFilters = << >>
  <2>1. req_inc_cmd' = TRUE /\ last' = NextCmd /\ pc' = "wait"
    BY <1>1, <1>3 DEF SendOut, Write
  <2> QED
    BY <1>1, <1>3, <2>1 DEF ProgramPlace, Filtering, AtPlace
<1>4. CASE GFilters # << >>
  <2>1. /\ req_inc_cmd' = (IF Answered THEN FALSE ELSE req_inc_cmd)
        /\ last' = last /\ pc' = "filter"
    BY <1>1, <1>4 DEF SendOut
  <2>2. ~req_inc_cmd'
    BY <1>1, <2>1 DEF Answered
  <2> QED
    BY <1>1, <1>2, <1>4, <2>1, <2>2 DEF ProgramPlace, Filtering, InFilters
<1> QED
  BY <1>3, <1>4

\* A single command leaves the program's place alone, but for req_inc_cmd.
LEMMA PlaceAfterSingle ==
    ASSUME TypeOK, ProgramPlace, TickSingle
    PROVE  ProgramPlace'
<1>1. /\ pc # "dead" /\ ~Filtering /\ state' # "run" /\ ~Answered
      /\ SendOut(sthread[Len(sthread)], 0, NIL)
      /\ UNCHANGED << gthread, icmd, paused, GFilters >>
  BY DEF TickSingle, TickMain, Tick, SingleReady, Filtering, Answered
<1>2. CASE GFilters = << >>
  <2>1. req_inc_cmd' = TRUE /\ last' = last /\ pc' = "wait"
    BY <1>1, <1>2 DEF SendOut, Write
  <2> QED
    BY <1>1, <1>2, <2>1 DEF ProgramPlace, Filtering, AtPlace
<1>3. CASE GFilters # << >>
  <2>1. req_inc_cmd' = req_inc_cmd /\ last' = last /\ pc' = "filter"
    BY <1>1, <1>3 DEF SendOut
  <2> QED
    BY <1>1, <1>3, <2>1 DEF ProgramPlace, Filtering, AtPlace
<1> QED
  BY <1>2, <1>3

\* The last filter's answer lets the line out; any other keeps it inside.
LEMMA PlaceAfterAnswer ==
    ASSUME TypeOK, ProgramPlace, FilterAnswer
    PROVE  ProgramPlace'
<1>1. pc = "filter" /\ UNCHANGED << gthread, icmd, state, paused, GFilters >>
  BY DEF FilterAnswer, store
<1>2. CASE fidx # Len(GFilters)
  <2>1. UNCHANGED << pc, req_inc_cmd, last >>
    BY <1>2 DEF FilterAnswer
  <2> QED
    BY <1>1, <2>1 DEF ProgramPlace, Filtering, AtPlace, InFilters
<1>3. CASE fidx = Len(GFilters)
  <2>1. req_inc_cmd' = TRUE /\ pc' = "wait"
    BY <1>3 DEF FilterAnswer, Write
  <2>2. CASE state = "run"
    <3>1. last' = icmd
      BY <1>3, <2>2 DEF FilterAnswer, Write, TypeOK, ProgramType
    <3> QED
      BY <1>1, <2>1, <2>2, <3>1 DEF ProgramPlace, Filtering, AtPlace, InFilters
  <2>3. CASE state # "run"
    <3>1. last' = last
      BY <1>3, <2>3 DEF FilterAnswer, Write
    <3> QED
      BY <1>1, <2>1, <2>3, <3>1 DEF ProgramPlace, Filtering, AtPlace
  <2> QED
    BY <2>2, <2>3
<1> QED
  BY <1>2, <1>3

LEMMA PlaceStep == TypeOK /\ ProgramPlace /\ [Next]_vars => ProgramPlace'
<1> SUFFICES ASSUME TypeOK, ProgramPlace, [Next]_vars PROVE ProgramPlace'
  OBVIOUS
<1> USE DEF Tick, TickMain, On, control, store, line
<1>1. CASE TickEnd
  BY <1>1, PlaceUndisturbed DEF TickEnd, ProgramPlace
<1>2. CASE TickNoController
  BY <1>2, PlaceUndisturbed DEF TickNoController, ProgramPlace
<1>3. ASSUME NEW sent \in BOOLEAN, TickStatus(sent) PROVE ProgramPlace'
  BY <1>3, PlaceUndisturbed DEF TickStatus, ProgramPlace
<1>4. ASSUME NEW r \in ReadResult, NEW acc \in BOOLEAN, NEW lapsed \in BOOLEAN, TickRead(r, acc, lapsed) PROVE ProgramPlace'
  BY <1>4, PlaceUndisturbed DEF TickRead, ProgramPlace
<1>5. CASE TickIdle
  BY <1>5, PlaceUndisturbed DEF TickIdle, ProgramPlace
<1>6. CASE OnPORT
  BY <1>6, PlaceUndisturbed DEF OnPORT, ProgramPlace
<1>7. CASE PortArg
  BY <1>7, PlaceUndisturbed DEF PortArg, ProgramPlace
<1>8. CASE ConnectIgnored
  BY <1>8, PlaceUndisturbed DEF ConnectIgnored, ProgramPlace
<1>9. CASE ConnectDies
  BY <1>9, PlaceUndisturbed DEF ConnectDies, ProgramPlace
<1>10. CASE ConnectFails
  BY <1>10, PlaceUndisturbed DEF ConnectFails, ProgramPlace
<1>11. CASE ConnectOpens
  BY <1>11, PlaceUndisturbed DEF ConnectOpens, ProgramPlace
<1>12. ASSUME NEW acc \in BOOLEAN, NEW fix \in BOOLEAN, HelpAnswer(acc, fix) PROVE ProgramPlace'
  BY <1>12, PlaceUndisturbed DEF HelpAnswer, ProgramPlace
<1>13. CASE Greet
  BY <1>13, PlaceUndisturbed DEF Greet, ProgramPlace
<1>14. CASE NoMessage
  BY <1>14, PlaceUndisturbed DEF NoMessage, ProgramPlace
<1>15. CASE OnCALCULATE
  BY <1>15, PlaceUndisturbed DEF OnCALCULATE, ProgramPlace
<1>16. CASE OnPAUSE
  BY <1>16, PlaceUndisturbed DEF OnPAUSE, ProgramPlace
<1>17. CASE OnFILL
  BY <1>17, PlaceUndisturbed DEF OnFILL, ProgramPlace
<1>18. CASE OnRESUME
  BY <1>18, PlaceUndisturbed DEF OnRESUME, ProgramPlace
<1>19. CASE OnWithArgument
  BY <1>19, PlaceUndisturbed DEF OnWithArgument, ProgramPlace
<1>20. CASE SingleArg
  BY <1>20, PlaceUndisturbed DEF SingleArg, ProgramPlace
<1>21. CASE SendfromArg
  BY <1>21, PlaceUndisturbed DEF SendfromArg, ProgramPlace
<1>22. CASE AddFilterName
  BY <1>22, PlaceUndisturbed DEF AddFilterName, ProgramPlace
<1>23. CASE AddFilterPars
  BY <1>23, PlaceUndisturbed DEF AddFilterPars, ProgramPlace
<1>24. CASE DelFilterName
  BY <1>24, PlaceUndisturbed DEF DelFilterName, ProgramPlace
<1>25. CASE TickProgramEnd
  BY <1>25 DEF TickProgramEnd, ProgramPlace, Filtering, AtPlace
<1>26. CASE TickLine
  BY <1>26, PlaceAfterLine
<1>27. CASE TickLineDies
  BY <1>27 DEF TickLineDies, ProgramPlace, Filtering
<1>28. CASE TickSingle
  BY <1>28, PlaceAfterSingle
<1>29. CASE FilterAnswer
  BY <1>29, PlaceAfterAnswer
<1>30. CASE OnNEW
  BY <1>30 DEF OnNEW, ProgramPlace, Filtering, AtPlace
<1>31. CASE OnSTOP
  BY <1>31 DEF OnSTOP, ProgramPlace, Filtering, AtPlace, TypeOK, ProgramType
<1>32. CASE FillStart
  <2>1. Len(gthread') = Len(gthread) + 1
    BY <1>32, AppendProperties, WaitMsgType, MessageFacts
       DEF FillStart, TypeOK, ProgramType, MailboxType
  <2> QED
    BY <1>32, <2>1 DEF FillStart, ProgramPlace, Filtering, AtPlace, TypeOK, ProgramType
<1>33. CASE FillNext
  <2>1. Len(gthread') >= Len(gthread)
    BY <1>33, AppendProperties DEF FillNext, TypeOK, ProgramType
  <2> QED
    BY <1>33, <2>1 DEF FillNext, ProgramPlace, Filtering, AtPlace, TypeOK, ProgramType
<1>34. ASSUME NEW m \in Posted, Post(m) PROVE ProgramPlace'
  BY <1>34 DEF Post, ProgramPlace, Filtering, AtPlace, InFilters, program
<1>35. CASE UNCHANGED vars
  BY <1>35 DEF vars, ProgramPlace, Filtering, AtPlace, InFilters, program
<1> QED
  BY <1>1, <1>2, <1>3, <1>4, <1>5, <1>6, <1>7, <1>8, <1>9, <1>10, <1>11, <1>12, <1>13, <1>14, <1>15, <1>16, <1>17, <1>18, <1>19, <1>20, <1>21, <1>22, <1>23, <1>24, <1>25, <1>26, <1>27, <1>28, <1>29, <1>30, <1>31, <1>32, <1>33, <1>34, <1>35 DEF Next, OwnStep, TickStep, ConnectStep, HelpStep, HandlerStep

\* The theorem of the program's place: with the types it is inductive.
THEOREM PlaceKept == Spec => []ProgramPlace
<1>1. Init => TypeOK /\ ProgramPlace
  BY TypeInit, PlaceInit
<1>2. TypeOK /\ ProgramPlace /\ [Next]_vars => TypeOK' /\ ProgramPlace'
  BY TypeStep, PlaceStep
<1> QED
  BY <1>1, <1>2, PTL DEF Spec

-----------------------------------------------------------------------------
(* What is written and reported. *)

\* The fields of an event's two parts.
LEMMA KindFacts ==
    /\ \A k, m : Tx(k, m).kind = k /\ Tx(k, m).text = m
    /\ \A k, n : Ui(k, n).kind = k /\ Ui(k, n).n = n
  BY DEF Tx, Ui

\* A program line is written by the step that hands it on, or by the answer of
\* the last filter, and only while the program runs.
LEMMA WhoWritesLines ==
    ASSUME TypeOK, Next, Writes("line")
    PROVE  TickLine \/ (FilterAnswer /\ state = "run" /\ fidx = Len(GFilters))
<1> DEFINE Goal == TickLine \/ (FilterAnswer /\ state = "run" /\ fidx = Len(GFilters))
<1> SUFFICES Goal
  OBVIOUS
<1> USE EventFacts, QuietFacts, KindFacts DEF Writes
<1>1. CASE TickEnd
  BY <1>1 DEF TickEnd
<1>2. CASE TickNoController
  BY <1>2 DEF TickNoController
<1>3. ASSUME NEW sent \in BOOLEAN, TickStatus(sent) PROVE Goal
  BY <1>3 DEF TickStatus
<1>4. ASSUME NEW r \in ReadResult, NEW acc \in BOOLEAN, NEW lapsed \in BOOLEAN, TickRead(r, acc, lapsed) PROVE Goal
  BY <1>4 DEF TickRead
<1>5. CASE TickProgramEnd
  BY <1>5 DEF TickProgramEnd
<1>6. CASE TickIdle
  BY <1>6 DEF TickIdle
<1>7. CASE TickLine
  BY <1>7
<1>8. CASE TickLineDies
  BY <1>8 DEF TickLineDies
<1>9. CASE TickSingle
  <2>1. SendOut(sthread[Len(sthread)], 0, NIL)
    BY <1>9 DEF TickSingle
  <2>2. CASE GFilters = << >>
    <3>1. out' = Event(NIL, Tx("single", sthread[Len(sthread)]), NIL)
      BY <2>1, <2>2 DEF SendOut
    <3> QED
      BY <3>1
  <2>3. CASE GFilters # << >>
    <3>1. out' = Event(NIL, NIL, Plug("filter", GFilters[1]))
      BY <2>1, <2>3 DEF SendOut
    <3> QED
      BY <3>1
  <2> QED
    BY <2>2, <2>3
<1>10. CASE FilterAnswer
  <2>1. CASE fidx # Len(GFilters)
    BY <1>10, <2>1 DEF FilterAnswer
  <2>2. CASE fidx = Len(GFilters) /\ state # "run"
    BY <1>10, <2>2 DEF FilterAnswer
  <2> QED
    BY <1>10, <2>1, <2>2
<1>11. CASE OnPORT
  BY <1>11 DEF OnPORT
<1>12. CASE PortArg
  BY <1>12 DEF PortArg
<1>13. CASE ConnectIgnored
  BY <1>13 DEF ConnectIgnored
<1>14. CASE ConnectDies
  BY <1>14 DEF ConnectDies
<1>15. CASE ConnectFails
  BY <1>15 DEF ConnectFails
<1>16. CASE ConnectOpens
  BY <1>16 DEF ConnectOpens
<1>17. ASSUME NEW acc \in BOOLEAN, NEW fix \in BOOLEAN, HelpAnswer(acc, fix) PROVE Goal
  BY <1>17 DEF HelpAnswer
<1>18. CASE Greet
  BY <1>18 DEF Greet
<1>19. CASE NoMessage
  BY <1>19 DEF NoMessage
<1>20. CASE OnNEW
  BY <1>20 DEF OnNEW
<1>21. CASE OnCALCULATE
  BY <1>21 DEF OnCALCULATE
<1>22. CASE OnPAUSE
  BY <1>22 DEF OnPAUSE
<1>23. CASE OnFILL
  BY <1>23 DEF OnFILL
<1>24. CASE OnRESUME
  BY <1>24 DEF OnRESUME
<1>25. CASE OnSTOP
  BY <1>25 DEF OnSTOP
<1>26. CASE OnWithArgument
  BY <1>26 DEF OnWithArgument
<1>27. CASE SingleArg
  BY <1>27 DEF SingleArg
<1>28. CASE SendfromArg
  BY <1>28 DEF SendfromArg
<1>29. CASE AddFilterName
  BY <1>29 DEF AddFilterName
<1>30. CASE AddFilterPars
  BY <1>30 DEF AddFilterPars
<1>31. CASE DelFilterName
  BY <1>31 DEF DelFilterName
<1>32. CASE FillStart
  BY <1>32 DEF FillStart
<1>33. CASE FillNext
  BY <1>33 DEF FillNext
<1>34. ASSUME NEW m \in Posted, Post(m) PROVE Goal
  BY <1>34 DEF Post
<1> QED
  BY <1>1, <1>2, <1>3, <1>4, <1>5, <1>6, <1>7, <1>8, <1>9, <1>10, <1>11, <1>12, <1>13, <1>14, <1>15, <1>16, <1>17, <1>18, <1>19, <1>20, <1>21, <1>22, <1>23, <1>24, <1>25, <1>26, <1>27, <1>28, <1>29, <1>30, <1>31, <1>32, <1>33, <1>34 DEF Next, OwnStep, TickStep, ConnectStep, HelpStep, HandlerStep

\* One step keeps the program's order.
LEMMA OrderStep ==
    ASSUME TypeOK, ProgramPlace, Next, Writes("line")
    PROVE  /\ last' = last + 1 \/ (last = 0 /\ last' = 2)
           /\ GFilters = << >> => out'.tx.text = gthread[last']
           /\ ~paused /\ state = "run"
<1>1. CASE TickLine
  <2>1. /\ NextCmd \in Nat /\ NextCmd > 0 /\ state = "run" /\ out_access
        /\ pc # "dead" /\ pc # "filter"
        /\ SendOut(gthread[NextCmd], NextCmd, Ui("gauge", NextCmd))
    BY <1>1, LineFacts DEF TickLine, TickMain, Tick, LineReady
  <2>2. GFilters = << >>
    <3>1. ASSUME GFilters # << >> PROVE out'.tx = NIL
      BY <2>1, <3>1, EventFacts DEF SendOut
    <3> QED
      BY <3>1 DEF Writes
  <2>3. /\ last' = NextCmd
        /\ out' = Event(Ui("gauge", NextCmd), Tx("line", gthread[NextCmd]), NIL)
    BY <2>1, <2>2 DEF SendOut, Write
  <2>4. out'.tx.text = gthread[last']
    BY <2>3, EventFacts, KindFacts
  <2>5. NextCmd = last + 1 \/ (last = 0 /\ NextCmd = 2)
    <3>1. CASE req_inc_cmd
      <4>1. NextCmd = icmd + 1
        BY <2>1, <3>1 DEF NextCmd, Answered
      <4> QED
        BY <2>1, <3>1, <4>1 DEF ProgramPlace, Filtering, AtPlace
    <3>2. CASE ~req_inc_cmd
      <4>1. NextCmd = icmd
        BY <3>2 DEF NextCmd, Answered
      <4> QED
        BY <2>1, <3>2, <4>1 DEF ProgramPlace, Filtering, AtPlace
    <3> QED
      BY <3>1, <3>2
  <2> QED
    BY <2>1, <2>3, <2>4, <2>5 DEF ProgramPlace
<1>2. CASE FilterAnswer /\ state = "run" /\ fidx = Len(GFilters)
  <2>1. last' = icmd
    BY <1>2 DEF FilterAnswer, Write, TypeOK, ProgramType
  <2> QED
    BY <1>2, <2>1 DEF FilterAnswer, ProgramPlace, Filtering, InFilters
<1> QED
  BY <1>1, <1>2, WhoWritesLines

\* Program lines go to the machine in the program's order, none twice, none
\* left out but the first one after a single command (ProgramOrder).
THEOREM ProgramInOrder == Spec => ProgramOrder
<1>1. TypeOK /\ ProgramPlace /\ [Next]_vars =>
        [ Writes("line") =>
            /\ last' = last + 1 \/ (last = 0 /\ last' = 2)
            /\ GFilters = << >> => out'.tx.text = gthread[last'] ]_vars
  BY OrderStep
<1> QED
  BY <1>1, TypeCorrect, PlaceKept, PTL DEF Spec, ProgramOrder

\* Between a PAUSE and the next RESUME no program line is written, whatever
\* else is posted (PausedWritesNoLine).
THEOREM PausedIsQuiet == Spec => PausedWritesNoLine
<1>1. TypeOK /\ ProgramPlace /\ [Next]_vars =>
        [ Writes("line") => ~paused /\ state = "run" ]_vars
  BY OrderStep
<1> QED
  BY <1>1, TypeCorrect, PlaceKept, PTL DEF Spec, PausedWritesNoLine

\* What each step reports: an error only where the machine's answer is read,
\* and the end only where the program ends, or in a handler.
LEMMA WhoReports ==
    ASSUME TypeOK, Next
    PROVE  /\ Reports("error") => \E r \in ReadResult, acc, lapsed \in BOOLEAN :
                                     TickRead(r, acc, lapsed) /\ r = "err"
           /\ pc = "tick" /\ Reports("Stop") => TickProgramEnd
<1> DEFINE Goal ==
      /\ Reports("error") => \E r \in ReadResult, acc, lapsed \in BOOLEAN :
                                TickRead(r, acc, lapsed) /\ r = "err"
      /\ pc = "tick" /\ Reports("Stop") => TickProgramEnd
<1> SUFFICES Goal
  OBVIOUS
<1> USE EventFacts, QuietFacts, KindFacts DEF Reports
<1>1. CASE TickEnd
  BY <1>1 DEF TickEnd, On
<1>2. CASE TickNoController
  BY <1>2 DEF TickNoController, On
<1>3. ASSUME NEW sent \in BOOLEAN, TickStatus(sent) PROVE Goal
  BY <1>3 DEF TickStatus, On
<1>4. ASSUME NEW r \in ReadResult, NEW acc \in BOOLEAN, NEW lapsed \in BOOLEAN, TickRead(r, acc, lapsed) PROVE Goal
  BY <1>4 DEF TickRead, On
<1>5. CASE TickProgramEnd
  BY <1>5 DEF TickProgramEnd, On
<1>6. CASE TickIdle
  BY <1>6 DEF TickIdle, On
<1>7. CASE TickLine
  <2>1. \E u \in {Ui("gauge", NextCmd), NIL} : \E t, q : out' = Event(u, t, q)
    BY <1>7 DEF TickLine, SendOut
  <2> QED
    BY <1>7, <2>1
<1>8. CASE TickLineDies
  BY <1>8 DEF TickLineDies, On
<1>9. CASE TickSingle
  <2>1. \E u \in {NIL, NIL} : \E t, q : out' = Event(u, t, q)
    BY <1>9 DEF TickSingle, SendOut
  <2> QED
    BY <1>9, <2>1
<1>10. CASE FilterAnswer
  <2>1. \E u \in {NIL, NIL} : \E t, q : out' = Event(u, t, q)
    BY <1>10 DEF FilterAnswer, SendOut
  <2> QED
    BY <1>10, <2>1
<1>11. CASE OnPORT
  BY <1>11 DEF OnPORT, On
<1>12. CASE PortArg
  BY <1>12 DEF PortArg, On
<1>13. CASE ConnectIgnored
  BY <1>13 DEF ConnectIgnored, On
<1>14. CASE ConnectDies
  BY <1>14 DEF ConnectDies, On
<1>15. CASE ConnectFails
  BY <1>15 DEF ConnectFails, On
<1>16. CASE ConnectOpens
  BY <1>16 DEF ConnectOpens, On
<1>17. ASSUME NEW acc \in BOOLEAN, NEW fix \in BOOLEAN, HelpAnswer(acc, fix) PROVE Goal
  BY <1>17 DEF HelpAnswer, On
<1>18. CASE Greet
  BY <1>18 DEF Greet, On
<1>19. CASE NoMessage
  BY <1>19 DEF NoMessage, On
<1>20. CASE OnNEW
  BY <1>20 DEF OnNEW, On
<1>21. CASE OnCALCULATE
  BY <1>21 DEF OnCALCULATE, On
<1>22. CASE OnPAUSE
  BY <1>22 DEF OnPAUSE, On
<1>23. CASE OnFILL
  BY <1>23 DEF OnFILL, On
<1>24. CASE OnRESUME
  BY <1>24 DEF OnRESUME, On
<1>25. CASE OnSTOP
  BY <1>25 DEF OnSTOP, On
<1>26. CASE OnWithArgument
  BY <1>26 DEF OnWithArgument, On
<1>27. CASE SingleArg
  BY <1>27 DEF SingleArg, On
<1>28. CASE SendfromArg
  BY <1>28 DEF SendfromArg, On
<1>29. CASE AddFilterName
  BY <1>29 DEF AddFilterName, On
<1>30. CASE AddFilterPars
  BY <1>30 DEF AddFilterPars, On
<1>31. CASE DelFilterName
  BY <1>31 DEF DelFilterName, On
<1>32. CASE FillStart
  BY <1>32 DEF FillStart, On
<1>33. CASE FillNext
  BY <1>33 DEF FillNext, On
<1>34. ASSUME NEW m \in Posted, Post(m) PROVE Goal
  BY <1>34 DEF Post, On
<1> QED
  BY <1>1, <1>2, <1>3, <1>4, <1>5, <1>6, <1>7, <1>8, <1>9, <1>10, <1>11, <1>12, <1>13, <1>14, <1>15, <1>16, <1>17, <1>18, <1>19, <1>20, <1>21, <1>22, <1>23, <1>24, <1>25, <1>26, <1>27, <1>28, <1>29, <1>30, <1>31, <1>32, <1>33, <1>34 DEF Next, OwnStep, TickStep, ConnectStep, HelpStep, HandlerStep

\* The end of the program is reported only after its last line was written and
\* answered (EndAfterLastLine).
THEOREM EndIsTheEnd == Spec => EndAfterLastLine
<1>1. ASSUME TypeOK, ProgramPlace, Next, pc = "tick", Reports("Stop")
      PROVE  /\ out_access
             /\ last = Len(gthread) \/ (last = 0 /\ Len(gthread) = 1)
  <2>1. TickMain /\ AtEnd
    BY <1>1, WhoReports DEF TickProgramEnd
  <2>2. out_access /\ req_inc_cmd /\ icmd >= Len(gthread) /\ ~Filtering
    BY <1>1, <2>1 DEF AtEnd, Answered, Filtering
  <2>3. last = icmd \/ (last = 0 /\ icmd = 1)
    BY <1>1, <2>2 DEF ProgramPlace, AtPlace
  <2>4. last <= Len(gthread) /\ Len(gthread) \in Nat /\ icmd \in Nat
    BY <1>1 DEF ProgramPlace, TypeOK, ProgramType
  <2>5. last = Len(gthread) \/ (last = 0 /\ Len(gthread) = 1)
    <3>1. icmd >= Len(gthread)
      BY <2>2
    <3>2. CASE last = icmd
      BY <2>4, <3>1, <3>2
    <3>3. CASE last = 0 /\ icmd = 1
      <4>1. \A k \in Nat : 1 >= k => k = 0 \/ k = 1
        OBVIOUS
      <4>2. Len(gthread) = 0 \/ Len(gthread) = 1
        BY <2>4, <3>1, <3>3, <4>1
      <4> QED
        BY <3>3, <4>2
    <3> QED
      BY <2>3, <3>2, <3>3
  <2> QED
    BY <2>2, <2>5
<1>2. TypeOK /\ ProgramPlace /\ [Next]_vars =>
        [ pc = "tick" /\ Reports("Stop") =>
            /\ out_access
            /\ last = Len(gthread) \/ (last = 0 /\ Len(gthread) = 1) ]_vars
  BY <1>1
<1> QED
  BY <1>2, TypeCorrect, PlaceKept, PTL DEF Spec, EndAfterLastLine

\* An error report names the line that was written last (ErrorBlamesLastLine).
THEOREM ErrorsBlameTheLastLine == Spec => []ErrorBlamesLastLine
<1>1. Init => ErrorBlamesLastLine
  BY EventFacts, QuietFacts DEF Init, ErrorBlamesLastLine
<1>2. ASSUME TypeOK, ProgramPlace, ErrorBlamesLastLine, [Next]_vars
      PROVE  ErrorBlamesLastLine'
  <2>1. CASE UNCHANGED vars
    BY <1>2, <2>1 DEF vars, program, store, ErrorBlamesLastLine
  <2>2. CASE Next /\ ~Reports("error")
    BY <2>2 DEF Reports, ErrorBlamesLastLine
  <2>3. CASE Next /\ Reports("error")
    <3>1. PICK r \in ReadResult, acc \in BOOLEAN, lapsed \in BOOLEAN :
             TickRead(r, acc, lapsed) /\ r = "err"
      BY <1>2, <2>3, WhoReports
    <3>2. /\ pc = "tick" /\ UNCHANGED << last, send_from >>
          /\ send_from = NIL => out' = Quiet
          /\ send_from # NIL => out' = Event(Ui("error", LineNo(icmd)), NIL, NIL)
      BY <3>1 DEF TickRead, Tick, program, store
    <3>3. send_from # NIL /\ out'.ui.n = LineNo(icmd)
      BY <2>3, <3>2, EventFacts, QuietFacts, KindFacts DEF Reports
    <3>4. last # 0 => last = icmd
      BY <1>2, <3>2 DEF ProgramPlace, AtPlace, Filtering, TypeOK, LoopType
    <3> QED
      BY <3>2, <3>3, <3>4 DEF ErrorBlamesLastLine, LineNo
  <2> QED
    BY <1>2, <2>1, <2>2, <2>3
<1> QED
  BY <1>1, <1>2, TypeCorrect, PlaceKept, PTL DEF Spec

-----------------------------------------------------------------------------
(* The chain of filters. *)

LEMMA PlugFacts ==
    /\ Quiet.plug = NIL
    /\ \A u, t, p : Event(u, t, p).plug = p
    /\ \A k \in {"filter", "attached", "detached"}, m \in Msg : Plug(k, m) \in PlugEvent
  BY DEF Quiet, Event, Plug, PlugEvent

\* A filter is asked only inside the chain; outside, fidx is back at its start;
\* and the name of a filter that is being attached is a message.
ChainPlace ==
    /\ pc = "filter" => fidx > 0
    /\ pc \notin {"filter", "dead"} => fidx = 0
    /\ pc = "pars" => Len(args) = 1 /\ args[1] \in Msg

ChainInv == FiltersDistinct /\ ChainPlace

LEMMA ChainInit == Init => ChainInv
  BY PlugFacts DEF Init, ChainInv, FiltersDistinct, ChainPlace

\* Steps that have nothing to do with the chain.
ChainWords == {"filter", "ADDFILTER", "pars", "DELFILTER"}
OutsideChain ==
    /\ pc \notin ChainWords \cup {"dead"} /\ pc' \notin {"filter", "pars"}
    /\ UNCHANGED << GFilters, fidx >> /\ out'.plug = NIL

ChainStep == \/ TickLine \/ TickSingle \/ FilterAnswer
             \/ AddFilterName \/ AddFilterPars \/ DelFilterName

LEMMA OtherTicks ==
    ASSUME TickStep, ~ChainStep PROVE OutsideChain
<1> USE PlugFacts DEF OutsideChain, ChainWords, Tick, TickMain, store, line
<1>1. CASE TickEnd
  BY <1>1 DEF TickEnd
<1>2. CASE TickNoController
  BY <1>2 DEF TickNoController
<1>3. ASSUME NEW sent \in BOOLEAN, TickStatus(sent) PROVE OutsideChain
  BY <1>3 DEF TickStatus
<1>4. ASSUME NEW r \in ReadResult, NEW acc \in BOOLEAN, NEW lapsed \in BOOLEAN,
             TickRead(r, acc, lapsed)
      PROVE  OutsideChain
  BY <1>4 DEF TickRead
<1>5. CASE TickProgramEnd
  BY <1>5 DEF TickProgramEnd
<1>6. CASE TickIdle
  BY <1>6 DEF TickIdle
<1>7. CASE TickLineDies
  BY <1>7 DEF TickLineDies
<1> QED
  BY <1>1, <1>2, <1>3, <1>4, <1>5, <1>6, <1>7 DEF TickStep, ChainStep

LEMMA OtherConnects ==
    ASSUME ConnectStep \/ HelpStep PROVE OutsideChain
<1> USE PlugFacts DEF OutsideChain, ChainWords, On, store, line
<1>1. CASE OnPORT
  BY <1>1 DEF OnPORT
<1>2. CASE PortArg
  BY <1>2 DEF PortArg
<1>3. CASE ConnectIgnored
  BY <1>3 DEF ConnectIgnored
<1>4. CASE ConnectDies
  BY <1>4 DEF ConnectDies
<1>5. CASE ConnectFails
  BY <1>5 DEF ConnectFails
<1>6. CASE ConnectOpens
  BY <1>6 DEF ConnectOpens
<1>7. CASE Greet
  BY <1>7 DEF Greet
<1>8. ASSUME NEW acc \in BOOLEAN, NEW fix \in BOOLEAN, HelpAnswer(acc, fix)
      PROVE  OutsideChain
  BY <1>8 DEF HelpAnswer
<1> QED
  BY <1>1, <1>2, <1>3, <1>4, <1>5, <1>6, <1>7, <1>8 DEF ConnectStep, HelpStep

LEMMA OtherHandlers ==
    ASSUME HandlerStep, ~ChainStep PROVE OutsideChain
<1> USE PlugFacts DEF OutsideChain, ChainWords, On, store, line
<1>1. CASE NoMessage
  BY <1>1 DEF NoMessage
<1>2. CASE OnNEW
  BY <1>2 DEF OnNEW
<1>3. CASE OnCALCULATE
  BY <1>3 DEF OnCALCULATE
<1>4. CASE OnPAUSE
  BY <1>4 DEF OnPAUSE
<1>5. CASE OnFILL
  BY <1>5 DEF OnFILL
<1>6. CASE OnRESUME
  BY <1>6 DEF OnRESUME
<1>7. CASE OnSTOP
  BY <1>7 DEF OnSTOP
<1>8. CASE OnWithArgument
  BY <1>8 DEF OnWithArgument
<1>9. CASE SingleArg
  BY <1>9 DEF SingleArg
<1>10. CASE SendfromArg
  BY <1>10 DEF SendfromArg
<1>11. CASE FillStart
  BY <1>11 DEF FillStart
<1>12. CASE FillNext
  BY <1>12 DEF FillNext
<1> QED
  BY <1>1, <1>2, <1>3, <1>4, <1>5, <1>6, <1>7, <1>8, <1>9, <1>10, <1>11, <1>12
     DEF HandlerStep, ChainStep

LEMMA Others ==
    ASSUME OwnStep \/ HelpStep PROVE OutsideChain \/ ChainStep
  BY OtherTicks, OtherConnects, OtherHandlers DEF OwnStep, ChainStep

\* What handing a line on does to the place in the chain.
LEMMA ChainAfterSend ==
    ASSUME ChainInv, NEW c, NEW n, NEW u, SendOut(c, n, u), pc = "tick",
           UNCHANGED GFilters
    PROVE  ChainInv'
<1>1. fidx = 0 /\ GFilters \in Seq(Msg)
  BY DEF ChainInv, ChainPlace, FiltersDistinct
<1>2. CASE GFilters = << >>
  <2>1. fidx' = 0 /\ pc' = "wait" /\ out'.plug = NIL
    BY <1>2, PlugFacts DEF SendOut, Write
  <2> QED
    BY <1>1, <2>1 DEF ChainInv, ChainPlace, FiltersDistinct
<1>3. CASE GFilters # << >>
  <2>1. fidx' = 1 /\ pc' = "filter" /\ out'.plug = Plug("filter", GFilters[1])
    BY <1>3, PlugFacts DEF SendOut
  <2>2. GFilters[1] \in Msg /\ 1 \in 0..Len(GFilters)
    BY <1>1, <1>3
  <2>3. out'.plug \in PlugEvent
    BY <2>1, <2>2, PlugFacts
  <2> QED
    BY <1>1, <2>1, <2>2, <2>3 DEF ChainInv, ChainPlace, FiltersDistinct
<1> QED
  BY <1>2, <1>3

\* On to the next filter, or out of the chain.
LEMMA ChainAfterAnswer ==
    ASSUME ChainInv, FilterAnswer PROVE ChainInv'
<1>1. /\ pc = "filter" /\ UNCHANGED GFilters
      /\ GFilters \in Seq(Msg) /\ fidx \in 1..Len(GFilters)
  BY DEF FilterAnswer, store, ChainInv, ChainPlace, FiltersDistinct
<1>2. CASE fidx = Len(GFilters)
  <2>1. fidx' = 0 /\ pc' = "wait" /\ out'.plug = NIL
    BY <1>2, PlugFacts DEF FilterAnswer, Write
  <2> QED
    BY <1>1, <2>1 DEF ChainInv, ChainPlace, FiltersDistinct
<1>3. CASE fidx # Len(GFilters)
  <2>1. fidx' = fidx + 1 /\ pc' = pc /\ out'.plug = Plug("filter", GFilters[fidx + 1])
    BY <1>3, PlugFacts DEF FilterAnswer
  <2>2. fidx + 1 \in 1..Len(GFilters) /\ GFilters[fidx + 1] \in Msg
    BY <1>1, <1>3
  <2>3. out'.plug \in PlugEvent
    BY <2>1, <2>2, PlugFacts
  <2> QED
    BY <1>1, <2>1, <2>2, <2>3 DEF ChainInv, ChainPlace, FiltersDistinct
<1> QED
  BY <1>2, <1>3

\* A filter attached again is moved to the end, never doubled.
LEMMA ChainAfterAttach ==
    ASSUME ChainInv, AddFilterPars PROVE ChainInv'
<1>1. pc = "pars" /\ fidx = 0 /\ fidx' = fidx /\ args[1] \in Msg
  BY DEF AddFilterPars, line, ChainInv, ChainPlace
<1>2. GFilters \in Seq(Msg)
      /\ \A i, j \in 1..Len(GFilters) : GFilters[i] = GFilters[j] => i = j
  BY DEF ChainInv, FiltersDistinct
<1>3. CASE Arrived = NIL
  <2>1. UNCHANGED GFilters /\ pc' = "dead" /\ out'.plug = NIL
    BY <1>3, PlugFacts DEF AddFilterPars
  <2> QED
    BY <1>1, <2>1 DEF ChainInv, ChainPlace, FiltersDistinct
<1>4. CASE Arrived # NIL
  <2> DEFINE r == Removed(GFilters, args[1])
  <2>1. GFilters' = Append(r, args[1]) /\ pc' = "tick"
        /\ out'.plug = Plug("attached", args[1])
    BY <1>4, PlugFacts DEF AddFilterPars, Without
  <2>2. r \in Seq(Msg) /\ \A k \in 1..Len(r) : r[k] # args[1]
    BY <1>2, RemovedList
  <2>3. \A k, l \in 1..Len(r) : r[k] = r[l] => k = l
    BY <1>2, RemovedDistinct
  <2>4. out'.plug \in PlugEvent
    BY <1>1, <2>1, PlugFacts
  <2> HIDE DEF r
  <2>5. GFilters' \in Seq(Msg)
        /\ \A i, j \in 1..Len(GFilters') : GFilters'[i] = GFilters'[j] => i = j
    BY <1>1, <2>1, <2>2, <2>3
  <2> QED
    BY <1>1, <2>1, <2>4, <2>5 DEF ChainInv, ChainPlace, FiltersDistinct
<1> QED
  BY <1>3, <1>4

LEMMA ChainAfterDetach ==
    ASSUME TypeOK, ChainInv, DelFilterName PROVE ChainInv'
<1>1. pc = "DELFILTER" /\ pc' = "tick" /\ fidx = 0 /\ fidx' = fidx
  BY DEF DelFilterName, line, ChainInv, ChainPlace
<1>2. Arrived \in Msg \cup {NIL}
  BY WaitMsgType DEF DelFilterName, TypeOK, MailboxType
<1>3. GFilters \in Seq(Msg)
      /\ \A i, j \in 1..Len(GFilters) : GFilters[i] = GFilters[j] => i = j
  BY DEF ChainInv, FiltersDistinct
<1>4. GFilters' = GFilters \/ GFilters' = Removed(GFilters, Arrived)
  BY DEF DelFilterName, Without
<1>5. GFilters' \in Seq(Msg)
      /\ \A i, j \in 1..Len(GFilters') : GFilters'[i] = GFilters'[j] => i = j
  <2> DEFINE r == Removed(GFilters, Arrived)
  <2>1. r \in Seq(Msg) BY <1>3, RemovedList
  <2>2. \A i, j \in 1..Len(r) : r[i] = r[j] => i = j
    BY <1>3, RemovedDistinct
  <2> HIDE DEF r
  <2>3. GFilters' = GFilters \/ GFilters' = r
    BY <1>4 DEF r
  <2> QED
    BY <1>3, <2>1, <2>2, <2>3
<1>6. out'.plug \in PlugEvent \cup {NIL}
  BY <1>2, PlugFacts DEF DelFilterName
<1> QED
  BY <1>1, <1>5, <1>6 DEF ChainInv, ChainPlace, FiltersDistinct

LEMMA ChainKept == TypeOK /\ ChainInv /\ [Next]_vars => ChainInv'
<1> SUFFICES ASSUME TypeOK, ChainInv, [Next]_vars PROVE ChainInv'
  OBVIOUS
<1>1. CASE OutsideChain
  BY <1>1 DEF OutsideChain, ChainWords, ChainInv, ChainPlace, FiltersDistinct
<1>2. CASE TickLine
  BY <1>2, ChainAfterSend DEF TickLine, TickMain, Tick, store
<1>3. CASE TickSingle
  BY <1>3, ChainAfterSend DEF TickSingle, TickMain, Tick
<1>4. CASE FilterAnswer
  BY <1>4, ChainAfterAnswer
<1>5. CASE AddFilterName
  <2>1. /\ pc = "ADDFILTER" /\ UNCHANGED << GFilters, fidx >> /\ out'.plug = NIL
        /\ pc' = "tick" \/ (pc' = "pars" /\ args' = << Arrived >> /\ Arrived # NIL)
    BY <1>5, PlugFacts DEF AddFilterName, store, line
  <2>2. Arrived \in Msg \cup {NIL}
    BY <1>5, WaitMsgType DEF AddFilterName, TypeOK, MailboxType
  <2> QED
    BY <2>1, <2>2 DEF ChainInv, ChainPlace, FiltersDistinct
<1>6. CASE AddFilterPars
  BY <1>6, ChainAfterAttach
<1>7. CASE DelFilterName
  BY <1>7, ChainAfterDetach
<1>8. ASSUME NEW m \in Posted, Post(m) PROVE ChainInv'
  BY <1>8, PlugFacts DEF Post, store, line, ChainInv, ChainPlace, FiltersDistinct
<1>9. CASE UNCHANGED vars
  BY <1>9 DEF vars, store, line, ChainInv, ChainPlace, FiltersDistinct
<1> QED
  BY <1>1, <1>2, <1>3, <1>4, <1>5, <1>6, <1>7, <1>8, <1>9, Others DEF Next, ChainStep

\* A filter stands in the chain once, whatever is posted, and the sender never
\* looks behind the chain's end (FiltersDistinct).
THEOREM ChainIsDistinct == Spec => []FiltersDistinct
<1>1. Init => ChainInv
  BY ChainInit
<1>2. TypeOK /\ ChainInv /\ [Next]_vars => ChainInv'
  BY ChainKept
<1>3. ChainInv => FiltersDistinct
  BY DEF ChainInv
<1> QED
  BY <1>1, <1>2, <1>3, TypeCorrect, PTL DEF Spec

-----------------------------------------------------------------------------
(* What the task says and holds while nobody asks it for a filter.        *)

\* What a mailbox holds, other than the words of a request.
Pure == Msg \ {"ADDFILTER", "DELFILTER"}
Asking == {"ADDFILTER", "pars", "DELFILTER"}

\* Nothing the task holds is, or will be taken for, anything but what is in S.
HeldIn(S) ==
    /\ gthread \in Seq(S) /\ sthread \in Seq(S) /\ cmd \in S \cup {NIL}
    /\ pc = "greet" => args \in Seq(S)
OnlyIn(S) == HeldIn(S) /\ inbox \in Seq(S) /\ pc \notin Asking

\* The messages S hold what the controllers post.
Speech(S) == /\ S \subseteq Pure
             /\ \A k : /\ Greeting(k) \in Seq(S)
                       /\ ModeFix \o Greeting(k) \in Seq(S)

LEMMA SpeechIs == ASSUME NEW S, Speech(S) PROVE S \subseteq Msg /\ NIL \notin S
  BY NILAssumption DEF Speech, Pure

LEMMA GreetingsIn ==
    ASSUME NEW S, S \subseteq Pure,
           {"NEW", "CALCULATE", "SINGLE", "G21G90", "G90G21", GrblMode} \subseteq S
    PROVE  Speech(S)
<1>1. ASSUME NEW k PROVE Greeting(k) \in Seq(S)
  BY DEF Greeting
<1>2. ModeFix \in Seq(S)
  BY DEF ModeFix
<1> QED
  BY <1>1, <1>2, ConcatProperties DEF Speech

LEMMA PureGreetings == Speech(Pure)
<1>1. {"NEW", "CALCULATE", "SINGLE", "G21G90", "G90G21", GrblMode} \subseteq Pure
  BY TextAssumption DEF Pure, Msg, Word
<1> QED
  BY <1>1, GreetingsIn

LEMMA OnlyArrived ==
    ASSUME NEW S, inbox \in Seq(S)
    PROVE  /\ WaitMsg => inbox' \in Seq(S)
           /\ Arrived \in S \cup {NIL}
           /\ \A w : On(w) => w \in S /\ pc = "wait"
<1>1. inbox # << >> => Head(inbox) \in S /\ Tail(inbox) \in Seq(S)
  BY HeadTailProperties
<1> QED
  BY <1>1 DEF WaitMsg, Arrived, On

\* Handing such a line on leaves nothing else behind.
LEMMA OnlySend ==
    ASSUME NEW S, Speech(S), OnlyIn(S), NEW c \in S, NEW n, NEW u, SendOut(c, n, u),
           UNCHANGED << inbox, gthread, GFilters >>, sthread' \in Seq(S)
    PROVE  OnlyIn(S)' /\ (out'.plug = NIL \/ out'.plug.kind = "filter")
<1>1. CASE GFilters = << >>
  <2>1. pc' = "wait" /\ cmd' \in S \cup {NIL} /\ out'.plug = NIL
    BY <1>1, PlugFacts DEF SendOut, Write
  <2> QED
    BY <2>1 DEF OnlyIn, HeldIn, Asking
<1>2. CASE GFilters # << >>
  <2>1. pc' = "filter" /\ cmd' = c /\ out'.plug = Plug("filter", GFilters[1])
    BY <1>2, PlugFacts DEF SendOut
  <2> QED
    BY <2>1 DEF OnlyIn, HeldIn, Asking, Plug
<1> QED
  BY <1>1, <1>2

\* A step of the int_state machine that hands no line on.
IdleTick == /\ pc = "tick" /\ pc' \in {"wait", "dead"} /\ out'.plug = NIL
            /\ UNCHANGED << inbox, args, gthread, sthread, cmd, GFilters >>

LEMMA IdleTicks ==
    ASSUME TickStep PROVE TickLine \/ TickSingle \/ IdleTick
<1> USE PlugFacts DEF IdleTick, Tick, TickMain, store, line, program
<1>1. CASE TickEnd
  BY <1>1 DEF TickEnd
<1>2. CASE TickNoController
  BY <1>2 DEF TickNoController
<1>3. ASSUME NEW sent \in BOOLEAN, TickStatus(sent) PROVE IdleTick
  BY <1>3 DEF TickStatus
<1>4. ASSUME NEW r \in ReadResult, NEW acc \in BOOLEAN, NEW lapsed \in BOOLEAN,
             TickRead(r, acc, lapsed)
      PROVE  IdleTick
  BY <1>4 DEF TickRead
<1>5. CASE TickProgramEnd
  BY <1>5 DEF TickProgramEnd
<1>6. CASE TickIdle
  BY <1>6 DEF TickIdle
<1>7. CASE TickLineDies
  BY <1>7 DEF TickLineDies
<1> QED
  BY <1>1, <1>2, <1>3, <1>4, <1>5, <1>6, <1>7 DEF TickStep

LEMMA OnlyTick ==
    ASSUME NEW S, Speech(S), TypeOK, OnlyIn(S), TickStep
    PROVE  /\ OnlyIn(S)' /\ GFilters' = GFilters
           /\ out'.plug = NIL \/ out'.plug.kind = "filter"
<1>1. CASE TickLine
  <2>1. /\ SendOut(gthread[NextCmd], NextCmd, Ui("gauge", NextCmd))
        /\ UNCHANGED << inbox, gthread, store >> /\ LineReady
    BY <1>1 DEF TickLine
  <2>2. gthread[NextCmd] \in S
    BY <2>1, LineFacts DEF OnlyIn, HeldIn
  <2> QED
    BY <2>1, <2>2, OnlySend DEF store, OnlyIn, HeldIn
<1>2. CASE TickSingle
  <2>1. /\ SendOut(sthread[Len(sthread)], 0, NIL)
        /\ UNCHANGED << inbox, gthread, GFilters >> /\ sthread # << >>
        /\ sthread' = SubSeq(sthread, 1, Len(sthread) - 1)
    BY <1>2 DEF TickSingle, SingleReady
  <2>2. sthread \in Seq(S) /\ Len(sthread) \in Nat /\ Len(sthread) > 0
    BY <2>1 DEF OnlyIn, HeldIn
  <2>3. sthread[Len(sthread)] \in S /\ sthread' \in Seq(S)
    BY <2>1, <2>2, SubSeqProperties
  <2> QED
    BY <2>1, <2>3, OnlySend
<1>3. CASE IdleTick
  BY <1>3 DEF IdleTick, OnlyIn, HeldIn, Asking
<1> QED
  BY <1>1, <1>2, <1>3, IdleTicks

LEMMA OnlyConnect ==
    ASSUME NEW S, Speech(S), TypeOK, OnlyIn(S), ConnectStep \/ HelpStep
    PROVE  OnlyIn(S)' /\ GFilters' = GFilters /\ out'.plug = NIL
<1>0. GFilters' = GFilters /\ out'.plug = NIL
  BY OtherConnects DEF OutsideChain
<1> SUFFICES OnlyIn(S)'
  BY <1>0
<1>1. ASSUME UNCHANGED << gthread, sthread, cmd >>, inbox' = inbox \/ WaitMsg,
             pc' \notin Asking \cup {"greet"}
      PROVE  OnlyIn(S)'
  BY <1>1, OnlyArrived DEF OnlyIn, HeldIn
<1> USE DEF program, store, line, Asking
<1>2. CASE OnPORT
  BY <1>1, <1>2 DEF OnPORT, On
<1>3. CASE PortArg
  BY <1>1, <1>3 DEF PortArg
<1>4. CASE ConnectIgnored \/ ConnectDies \/ ConnectFails \/ ConnectOpens
  BY <1>1, <1>4 DEF ConnectIgnored, ConnectDies, ConnectFails, ConnectOpens
<1>5. CASE Greet
  <2>1. args \in Seq(S) /\ args # << >> /\ inbox \in Seq(S)
    BY <1>5 DEF Greet, OnlyIn, HeldIn, TypeOK, MailboxType
  <2>2. Head(args) \in S /\ Tail(args) \in Seq(S)
    BY <2>1, HeadTailProperties
  <2>3. /\ inbox' = Append(inbox, Head(args)) /\ args' = Tail(args)
        /\ pc' \in {"tick", "greet"} /\ UNCHANGED << gthread, sthread, cmd >>
    BY <1>5 DEF Greet
  <2> QED
    BY <2>1, <2>2, <2>3 DEF OnlyIn, HeldIn
<1>6. ASSUME NEW acc \in BOOLEAN, NEW fix \in BOOLEAN, HelpAnswer(acc, fix)
      PROVE  OnlyIn(S)'
  <2>1. /\ pc' = "greet" /\ UNCHANGED << inbox, gthread, sthread, cmd >>
        /\ args' = (IF fix THEN ModeFix ELSE << >>) \o Greeting(mk)
    BY <1>6 DEF HelpAnswer
  <2>2. << >> \o Greeting(mk) = Greeting(mk)
    BY ConcatProperties DEF Speech
  <2>3. args' \in Seq(S)
    BY <2>1, <2>2 DEF Speech
  <2> QED
    BY <2>1, <2>3 DEF OnlyIn, HeldIn
<1> QED
  BY <1>0, <1>2, <1>3, <1>4, <1>5, <1>6 DEF ConnectStep, HelpStep

LEMMA OnlyHandler ==
    ASSUME NEW S, Speech(S), TypeOK, OnlyIn(S), HandlerStep
    PROVE  OnlyIn(S)' /\ GFilters' = GFilters /\ out'.plug = NIL
<1>0. GFilters' = GFilters /\ out'.plug = NIL
  <2>1. pc \in {"wait", "SINGLE", "SENDFROM", "fill"}
    BY DEF HandlerStep, NoMessage, OnNEW, OnCALCULATE, OnPAUSE, OnFILL, OnRESUME,
           OnSTOP, OnWithArgument, SingleArg, SendfromArg, AddFilterName,
           AddFilterPars, DelFilterName, FillStart, FillNext, On, OnlyIn, Asking
  <2>2. ~ChainStep
    BY <2>1 DEF ChainStep, TickLine, TickSingle, TickMain, Tick, FilterAnswer,
                AddFilterName, AddFilterPars, DelFilterName
  <2> QED
    BY <2>2, OtherHandlers DEF OutsideChain
<1> SUFFICES OnlyIn(S)'
  BY <1>0
<1>1. ASSUME WaitMsg, UNCHANGED cmd, pc' \notin Asking \cup {"greet"},
             gthread' \in Seq(S), sthread' \in Seq(S)
      PROVE  OnlyIn(S)'
  BY <1>1, OnlyArrived DEF OnlyIn, HeldIn
<1>2. gthread \in Seq(S) /\ sthread \in Seq(S) /\ << >> \in Seq(S)
      /\ Arrived \in S \cup {NIL}
  BY OnlyArrived DEF OnlyIn, HeldIn
<1> USE DEF program, store, line, Asking, On
<1>3. CASE NoMessage \/ OnCALCULATE \/ OnPAUSE \/ OnFILL \/ OnRESUME \/ OnSTOP
  BY <1>1, <1>2, <1>3 DEF NoMessage, OnCALCULATE, OnPAUSE, OnFILL, OnRESUME, OnSTOP
<1>4. CASE OnNEW
  BY <1>1, <1>2, <1>4 DEF OnNEW
<1>5. CASE OnWithArgument
  <2>1. pc' \in {"SINGLE", "SENDFROM"}
    BY <1>5, OnlyArrived DEF OnWithArgument, OnlyIn, Speech, Pure
  <2> QED
    BY <1>1, <1>2, <1>5, <2>1 DEF OnWithArgument
<1>6. CASE SingleArg
  <2>1. /\ WaitMsg /\ pc' = "tick" /\ UNCHANGED << gthread, cmd >>
        /\ sthread' = sthread
           \/ (Arrived \in S /\ sthread' = Append(sthread, Arrived))
    BY <1>2, <1>6 DEF SingleArg
  <2>2. sthread' \in Seq(S)
    BY <1>2, <2>1
  <2> QED
    BY <1>1, <1>2, <2>1, <2>2
<1>7. CASE SendfromArg
  BY <1>1, <1>2, <1>7 DEF SendfromArg
<1>8. CASE FillStart \/ FillNext
  <2>1. /\ WaitMsg /\ pc' \in {"tick", "fill"} /\ UNCHANGED << sthread, cmd >>
        /\ gthread' = gthread
           \/ (Arrived \in S /\ gthread' = Append(gthread, Arrived))
    <3>1. CASE FillStart
      <4>1. Arrived # NIL
        BY <3>1, NILAssumption DEF FillStart, Msg
      <4> QED
        BY <1>2, <3>1, <4>1 DEF FillStart
    <3>2. CASE FillNext
      BY <1>2, <3>2 DEF FillNext
    <3> QED
      BY <1>8, <3>1, <3>2
  <2>2. gthread' \in Seq(S)
    BY <1>2, <2>1
  <2> QED
    BY <1>1, <1>2, <2>1, <2>2
<1>9. CASE AddFilterName \/ AddFilterPars \/ DelFilterName
  BY <1>9 DEF AddFilterName, AddFilterPars, DelFilterName, OnlyIn
<1> QED
  BY <1>0, <1>3, <1>4, <1>5, <1>6, <1>7, <1>8, <1>9 DEF HandlerStep

\* On to the next filter, or to the machine.
LEMMA OnlyAnswer ==
    ASSUME NEW S, Speech(S), TypeOK, OnlyIn(S), FilterAnswer
    PROVE  /\ OnlyIn(S)' /\ GFilters' = GFilters
           /\ out'.plug = NIL \/ out'.plug.kind = "filter"
<1> DEFINE c == IF Arrived = NIL THEN cmd ELSE Arrived
<1>1. c \in S
  <2>1. cmd \in S
    <3>1. cmd \in Msg
      BY DEF FilterAnswer, TypeOK, MailboxType
    <3>2. cmd \in S \cup {NIL}
      BY DEF OnlyIn, HeldIn
    <3> QED
      BY <3>1, <3>2, NILAssumption
  <2> QED
    BY <2>1, OnlyArrived DEF OnlyIn
<1>2. /\ WaitMsg /\ pc = "filter" /\ UNCHANGED << gthread, sthread, GFilters >>
  BY DEF FilterAnswer, store
<1>3. /\ pc' = "wait" /\ cmd' \in {c, NIL} /\ out'.plug = NIL
      \/ /\ pc' = pc /\ cmd' = c /\ out'.plug = Plug("filter", GFilters[fidx + 1])
  BY PlugFacts DEF FilterAnswer, Write
<1> HIDE DEF c
<1>4. inbox' \in Seq(S)
  BY <1>2, OnlyArrived DEF OnlyIn
<1> QED
  BY <1>1, <1>2, <1>3, <1>4 DEF OnlyIn, HeldIn, Asking, Plug

LEMMA OnlyStep ==
    ASSUME NEW S, Speech(S), TypeOK, OnlyIn(S), OwnStep \/ HelpStep
    PROVE  /\ OnlyIn(S)' /\ GFilters' = GFilters
           /\ out'.plug = NIL \/ out'.plug.kind = "filter"
  BY OnlyTick, OnlyConnect, OnlyHandler, OnlyAnswer DEF OwnStep

=============================================================================
