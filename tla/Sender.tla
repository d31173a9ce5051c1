------------------------------- MODULE Sender -------------------------------
(***************************************************************************)
(* The "sender" task: the Lua task of src/bld/conf/sender/init.lua that    *)
(* owns the machine.  It has one mailbox (the user port of its tekUI task) *)
(* into which the window, the plug-ins and the task itself post words and  *)
(* payloads, one message at a time.  Its loop is                           *)
(*                                                                         *)
(*     one step of the int_state machine (when a controller is open)       *)
(*     msg = waitmsg(20); the handler of msg                               *)
(*                                                                         *)
(* and several handlers wait for more messages (their arguments) inside    *)
(* the handler.  A client of another task may post between any two of a    *)
(* request's messages, so every waitmsg is a step of its own here.         *)
(*                                                                         *)
(* The controller (Grbl, Marlin) appears through what the sender sees of   *)
(* it: the result of MK:read(), MK.out_access, whether a status query was  *)
(* sent, whether it could be opened.                                       *)
(***************************************************************************)
EXTENDS Integers, Sequences, SequencesExt, Lists

CONSTANTS
    Text,         \* the payloads: program lines, names, numbers
    ToNumber,     \* tonumber() of a payload: a number, or NIL
    Posted,       \* the messages the other tasks post
    Openings,     \* the mailboxes the task may find when it starts
    MaxHeld,      \* bound on the messages held in the task's queues
    NIL           \* Lua's nil

\* The words the loop compares a message with.
Word == {"PORT", "NEW", "CALCULATE", "PAUSE", "FILL", "RESUME", "STOP",
         "SINGLE", "SENDFROM", "ADDFILTER", "DELFILTER", "FIN"}

Msg == Word \cup Text

Controllers == {"Grbl", "Marlin"}

StopLine == "SENDER_STOP"

\* An argument that is the empty string.
Empty == "empty"

\* What the controllers post to the sender while they open the port.
GrblMode == "$10=15"
Greeting(k) == << "NEW", "CALCULATE", "SINGLE",
                  IF k = "Grbl" THEN "G21G90" ELSE "G90G21" >>
ModeFix == << "SINGLE", GrblMode >>

ASSUME TextAssumption ==
    /\ Text \cap Word = {}
    /\ {Empty, StopLine, GrblMode, "G21G90", "G90G21"} \subseteq Text
ASSUME NILAssumption == NIL \notin Msg /\ NIL \notin Int /\ NIL \notin Controllers
ASSUME NumberAssumption == ToNumber \in [Text -> Nat \cup {NIL}]
ASSUME TrafficAssumption == Posted \subseteq Msg /\ Openings \subseteq Seq(Msg)
ASSUME BoundAssumption == MaxHeld \in Nat

\* What MK:read() returns: nothing, a line that is neither, an "ok", an
\* error, a status line, a status line with its ok.
ReadResult == {"none", "other", "ok", "err", "stat", "statok"}
IsOk(r) == r \in {"ok", "statok"}

VARIABLES
    inbox,        \* the mailbox
    pc,           \* where the task is: which wait, or dead
    args,         \* arguments collected (PORT, ADDFILTER), or messages to post
    mk,           \* MK: the controller's name or NIL
    state, int_state, stat_on, req_inc_cmd, icmd, gthread, sthread, send_from,
    GFilters,     \* the names of the attached filters, in order
    cmd,          \* the line under way through the filters, or the stop line
    fidx,         \* the filter whose answer is awaited
    out_access,   \* MK.out_access
    out,          \* what the last step sent to the window, the port, a plug-in
    last,         \* history: the last program line written in this pass, or 0
    paused        \* history: a PAUSE was handled after the last RESUME

program == << gthread, icmd, req_inc_cmd, last >>
control == << mk, state, int_state, stat_on, out_access, paused >>
line    == << cmd, fidx >>
store   == << sthread, send_from, GFilters >>
vars == << inbox, pc, args, program, control, store, line, out >>

\* The events of a step: at most one message to the window's "ui" port, one
\* write to the serial port, one message to a plug-in.
Event(u, t, p) == [ui |-> u, tx |-> t, plug |-> p]
Quiet      == Event(NIL, NIL, NIL)
Ui(k, n)   == [kind |-> k, n |-> n]
Tx(k, m)   == [kind |-> k, text |-> m]
Plug(k, f) == [kind |-> k, name |-> f]

Init ==
    /\ inbox \in Openings /\ pc = "tick" /\ args = << >>
    /\ mk = NIL /\ state = "stop" /\ int_state = "s" /\ stat_on = TRUE
    /\ gthread = << >> /\ sthread = << >> /\ icmd = 1 /\ req_inc_cmd = FALSE
    /\ send_from = 1 /\ GFilters = << >> /\ cmd = NIL /\ fidx = 0
    /\ out_access = FALSE /\ out = Quiet /\ last = 0 /\ paused = FALSE

-----------------------------------------------------------------------------
(* The mailbox. *)

\* Messages held: the bound that keeps the model finite stops the clients
\* only, never the sender.
Held == Len(inbox) + Len(gthread) + Len(sthread) + Len(GFilters)

\* Sender:newcmd(m), or exec.sendmsg("sender", m), of another task.
Post(m) ==
    /\ pc # "dead"
    /\ Held < MaxHeld
    /\ inbox' = Append(inbox, m)
    /\ out' = Quiet
    /\ UNCHANGED << pc, args, program, control, store, line >>

\* exec.waitmsg(ms): the oldest message, or nil when the mailbox stays empty.
Arrived == IF inbox = << >> THEN NIL ELSE Head(inbox)
WaitMsg == inbox' = IF inbox = << >> THEN << >> ELSE Tail(inbox)

\* The handler of the word w starts.
On(w) == pc = "wait" /\ inbox # << >> /\ Head(inbox) = w /\ WaitMsg

-----------------------------------------------------------------------------
(* One step of the int_state machine. *)

\* while cmd ~= "SENDER_STOP": the loop, and with it the task, ends.
TickEnd ==
    /\ pc = "tick" /\ cmd = StopLine
    /\ pc' = "dead" /\ out' = Quiet
    /\ UNCHANGED << inbox, args, program, control, store, line >>

Tick == pc = "tick" /\ cmd # StopLine

TickNoController ==
    /\ Tick /\ mk = NIL
    /\ pc' = "wait" /\ out' = Quiet
    /\ UNCHANGED << inbox, args, program, control, store, line >>

\* sent: MK:status_query() wrote a query (it does not at its oks limit).
TickStatus(sent) ==
    /\ Tick /\ mk # NIL /\ int_state = "s"
    /\ stat_on \/ ~sent
    /\ int_state' = IF stat_on THEN "rs" ELSE "m"
    /\ out_access' = (out_access /\ ~sent)
    /\ out' = Event(NIL, IF sent THEN Tx("query", NIL) ELSE NIL, NIL)
    /\ pc' = "wait"
    /\ UNCHANGED << inbox, args, program, mk, state, stat_on, paused, store,
                    line >>

\* The number a program line is shown with.
NoLineOffset(i) == send_from + i
LineNo(i) == send_from + i - 1

\* MK:read() returned r and left out_access = acc; lapsed: a second has passed
\* since the last status query.  The report of an error adds send_from to
\* icmd, which ends the task when send_from is nil.
TickRead(r, acc, lapsed) ==
    /\ Tick /\ mk # NIL /\ int_state \in {"r", "rs"}
    /\ acc => IsOk(r)
    /\ out_access' = acc
    /\ state' = IF r = "err" /\ send_from # NIL THEN "stop" ELSE state
    /\ int_state' = IF r = "none" /\ int_state = "r" /\ stat_on /\ lapsed
                    THEN "s" ELSE "m"
    /\ out' = IF r = "err" /\ send_from # NIL
              THEN Event(Ui("error", LineNo(icmd)), NIL, NIL)
              ELSE Quiet
    /\ pc' = IF r = "err" /\ send_from = NIL THEN "dead" ELSE "wait"
    /\ UNCHANGED << inbox, args, program, mk, stat_on, paused, store, line >>

TickMain == Tick /\ mk # NIL /\ int_state = "m"

\* The line in hand was answered: on to the next one, or the program is over.
Answered == out_access /\ req_inc_cmd /\ state = "run"
EndOneEarly == Answered /\ icmd + 1 >= Len(gthread)
EndOneLate  == Answered /\ icmd > Len(gthread)
AtEnd    == Answered /\ icmd >= Len(gthread)
NextCmd  == IF Answered THEN icmd + 1 ELSE icmd

LineReady   == state = "run" /\ ~AtEnd /\ NextCmd <= Len(gthread)
SingleReady == state = "single" /\ sthread # << >>

TickProgramEnd ==
    /\ TickMain /\ AtEnd
    /\ state' = "stop" /\ icmd' = 1 /\ req_inc_cmd' = FALSE /\ last' = 0
    /\ int_state' = "r" /\ pc' = "wait"
    /\ out' = Event(Ui("Stop", 0), NIL, NIL)
    /\ UNCHANGED << inbox, args, gthread, mk, stat_on, out_access, paused,
                    store, line >>

TickIdle ==
    /\ TickMain /\ ~AtEnd
    /\ ~out_access \/ ~(LineReady \/ SingleReady)
    /\ int_state' = "r" /\ pc' = "wait" /\ out' = Quiet
    /\ UNCHANGED << inbox, args, program, mk, state, stat_on, out_access,
                    paused, store, line >>

\* MK:send(c): c goes out; n is the program line it stands for, 0 for a single
\* command.  Of cmd, only its being the stop line is ever looked at again.
WriteUncounted(c, n) ==
    /\ out_access' = FALSE /\ req_inc_cmd' = FALSE /\ int_state' = "r"
    /\ last' = IF n = 0 THEN last ELSE n
    /\ cmd' = IF c = StopLine THEN c ELSE NIL
    /\ fidx' = 0 /\ pc' = "wait"
Write(c, n) ==
    /\ out_access' = FALSE /\ req_inc_cmd' = TRUE /\ int_state' = "r"
    /\ last' = IF n = 0 THEN last ELSE n
    /\ cmd' = IF c = StopLine THEN c ELSE NIL
    /\ fidx' = 0 /\ pc' = "wait"

\* c enters the first filter, or goes out at once when there is none.  The
\* increment of icmd that opened this step is done: req_inc_cmd is FALSE.
SendOut(c, n, u) ==
    IF GFilters = << >>
    THEN /\ Write(c, n)
         /\ out' = Event(u, Tx(IF n = 0 THEN "single" ELSE "line", c), NIL)
    ELSE /\ cmd' = c /\ fidx' = 1 /\ pc' = "filter"
         /\ out' = Event(u, NIL, Plug("filter", GFilters[1]))
         /\ req_inc_cmd' = IF Answered THEN FALSE ELSE req_inc_cmd
         /\ UNCHANGED << out_access, int_state, last >>

TickLine ==
    /\ TickMain /\ LineReady /\ out_access /\ send_from # NIL
    /\ icmd' = NextCmd
    /\ SendOut(gthread[NextCmd], NextCmd, Ui("gauge", NextCmd))
    /\ UNCHANGED << inbox, args, gthread, mk, state, stat_on, paused, store >>

\* The line's number is send_from + icmd - 1: a nil send_from ends the task.
TickLineDies ==
    /\ TickMain /\ LineReady /\ out_access /\ send_from = NIL
    /\ pc' = "dead" /\ out' = Event(Ui("gauge", NextCmd), NIL, NIL)
    /\ icmd' = NextCmd /\ req_inc_cmd' = IF Answered THEN FALSE ELSE req_inc_cmd
    /\ UNCHANGED << inbox, args, gthread, last, control, store, line >>

\* Single commands are a stack: the one posted last goes out first.
SingleForever ==
    /\ TickMain /\ SingleReady /\ out_access
    /\ sthread' = SubSeq(sthread, 1, Len(sthread) - 1)
    /\ SendOut(sthread[Len(sthread)], 0, NIL)
    /\ UNCHANGED << inbox, args, gthread, icmd, mk, state, stat_on, paused,
                    send_from, GFilters >>
TickSingle ==
    /\ TickMain /\ SingleReady /\ out_access
    /\ sthread' = SubSeq(sthread, 1, Len(sthread) - 1)
    /\ state' = IF Len(sthread) = 1 THEN "stop" ELSE "single"
    /\ SendOut(sthread[Len(sthread)], 0, NIL)
    /\ UNCHANGED << inbox, args, gthread, icmd, mk, stat_on, paused, send_from,
                    GFilters >>

\* flt:filter: waitmsg(500) or cmd.  Whatever arrives first is the answer.
FilterAnswer ==
    /\ pc = "filter" /\ WaitMsg
    /\ LET c == IF Arrived = NIL THEN cmd ELSE Arrived
           n == IF state = "run" THEN icmd ELSE 0
       IN IF fidx = Len(GFilters)
          THEN /\ Write(c, n)
               /\ out' = Event(NIL, Tx(IF n = 0 THEN "single" ELSE "line", c), NIL)
          ELSE /\ cmd' = c /\ fidx' = fidx + 1
               /\ out' = Event(NIL, NIL, Plug("filter", GFilters[fidx + 1]))
               /\ UNCHANGED << pc, out_access, req_inc_cmd, int_state, last >>
    /\ UNCHANGED << args, gthread, icmd, mk, state, stat_on, paused, store >>

-----------------------------------------------------------------------------
(* msg = exec.waitmsg(20) and the handlers. *)

\* Nothing came within 20 ms; "FIN" outside a fill is consumed and ignored.
NoMessage ==
    /\ pc = "wait" /\ Arrived \in {NIL, "FIN"} /\ WaitMsg
    /\ pc' = "tick" /\ out' = Quiet
    /\ UNCHANGED << args, program, control, store, line >>

OnPORT ==
    /\ On("PORT")
    /\ pc' = "port" /\ args' = << >> /\ out' = Quiet
    /\ UNCHANGED << program, control, store, line >>

\* Controller, port and baud rate: three messages, 2 s each.
PortArg ==
    /\ pc = "port" /\ WaitMsg
    /\ args' = Append(args, Arrived)
    /\ pc' = IF Len(args) = 2 THEN "connect" ELSE "port"
    /\ out' = Quiet
    /\ UNCHANGED << program, control, store, line >>

Unfilled     == Empty \in {args[1], args[2], args[3]}
Known        == args[1] \in Controllers
Convertible  == args[2] # NIL /\ args[3] \in Text /\ ToNumber[args[3]] # NIL

\* An empty argument: nothing happens.  An unknown controller: none is open.
ConnectIgnored ==
    /\ pc = "connect" /\ (Unfilled \/ ~Known)
    /\ mk' = IF Unfilled THEN mk ELSE NIL
    /\ pc' = "tick" /\ args' = << >> /\ out' = Quiet
    /\ UNCHANGED << inbox, program, state, int_state, stat_on, out_access,
                    paused, store, line >>

\* 0 + baud of something that is no number, or rs232() failing: a Lua error.
ConnectDies ==
    /\ pc = "connect" /\ ~Unfilled /\ Known
    /\ mk' = args[1] /\ pc' = "dead" /\ args' = << >> /\ out' = Quiet
    /\ UNCHANGED << inbox, program, state, int_state, stat_on, out_access,
                    paused, store, line >>

\* The port does not exist.
ConnectFails ==
    /\ pc = "connect" /\ ~Unfilled /\ Known /\ Convertible
    /\ mk' = NIL /\ pc' = "tick" /\ args' = << >>
    /\ out' = Event(Ui("CantConnect", 0), NIL, NIL)
    /\ UNCHANGED << inbox, program, state, int_state, stat_on, out_access,
                    paused, store, line >>

\* The port opens; MK:init() asks the machine for its settings and waits for
\* the first line of the answer, however long that takes.
ConnectOpens ==
    /\ pc = "connect" /\ ~Unfilled /\ Known /\ Convertible
    /\ mk' = args[1] /\ out_access' = FALSE
    /\ pc' = "help" /\ args' = << >>
    /\ out' = Event(NIL, Tx("hello", NIL), NIL)
    /\ UNCHANGED << inbox, program, state, int_state, stat_on, paused, store,
                    line >>

\* The answer came; fix: it shows a Grbl whose $10 is not 15.
HelpAnswer(acc, fix) ==
    /\ pc = "help" /\ (fix => mk = "Grbl")
    /\ out_access' = acc
    /\ args' = (IF fix THEN ModeFix ELSE << >>) \o Greeting(mk)
    /\ pc' = "greet" /\ out' = Quiet
    /\ UNCHANGED << inbox, program, mk, state, int_state, stat_on, paused,
                    store, line >>

\* The task posts to its own mailbox, behind whatever others posted so far.
Greet ==
    /\ pc = "greet"
    /\ inbox' = Append(inbox, Head(args)) /\ args' = Tail(args)
    /\ pc' = IF Len(args) = 1 THEN "tick" ELSE "greet"
    /\ out' = Event(IF Len(args) = 1 THEN Ui("Connected", 0) ELSE NIL, NIL, NIL)
    /\ UNCHANGED << program, control, store, line >>

NewFromZero ==
    /\ On("NEW")
    /\ gthread' = << >> /\ icmd' = 0 /\ req_inc_cmd' = FALSE /\ last' = 0
    /\ state' = "stop"
    /\ pc' = "tick" /\ out' = Event(Ui("Stop", 0), NIL, NIL)
    /\ UNCHANGED << args, mk, int_state, stat_on, out_access, paused, store,
                    line >>
OnNEW ==
    /\ On("NEW")
    /\ gthread' = << >> /\ icmd' = 1 /\ req_inc_cmd' = FALSE /\ last' = 0
    /\ state' = "stop"
    /\ pc' = "tick" /\ out' = Event(Ui("Stop", 0), NIL, NIL)
    /\ UNCHANGED << args, mk, int_state, stat_on, out_access, paused, store,
                    line >>

OnCALCULATE ==
    /\ On("CALCULATE")
    /\ pc' = "tick" /\ out' = Event(Ui("setup", Len(gthread)), NIL, NIL)
    /\ UNCHANGED << args, program, control, store, line >>

\* MK:pause() writes "!" to a Grbl and nothing to a Marlin; without a
\* controller it indexes nil and the task dies.
PauseKeepsRunning ==
    /\ On("PAUSE") /\ mk # NIL
    /\ paused' = TRUE /\ pc' = "tick"
    /\ out' = Event(Ui("Pause", 0),
                    IF mk = "Grbl" THEN Tx("hold", NIL) ELSE NIL, NIL)
    /\ UNCHANGED << args, program, mk, state, int_state, stat_on, out_access,
                    store, line >>
OnPAUSE ==
    /\ On("PAUSE")
    /\ IF mk = NIL
       THEN pc' = "dead" /\ out' = Quiet /\ UNCHANGED << state, paused >>
       ELSE /\ state' = "stop" /\ paused' = TRUE /\ pc' = "tick"
            /\ out' = Event(Ui("Pause", 0),
                            IF mk = "Grbl" THEN Tx("hold", NIL) ELSE NIL, NIL)
    /\ UNCHANGED << args, program, mk, int_state, stat_on, out_access, store,
                    line >>

OnFILL ==
    /\ On("FILL")
    /\ stat_on' = FALSE /\ pc' = "tick" /\ out' = Quiet
    /\ UNCHANGED << args, program, mk, state, int_state, out_access, paused,
                    store, line >>

\* Only a stopped sender starts to run: a pending single command wins.
OnRESUME ==
    /\ On("RESUME")
    /\ IF mk = NIL
       THEN pc' = "dead" /\ out' = Quiet /\ UNCHANGED << state, stat_on, paused >>
       ELSE /\ stat_on' = TRUE /\ paused' = FALSE /\ pc' = "tick"
            /\ state' = IF state = "stop" THEN "run" ELSE state
            /\ out' = Event(IF state = "stop" THEN Ui("Run", 0) ELSE NIL,
                            IF mk = "Grbl" THEN Tx("go", NIL) ELSE NIL, NIL)
    /\ UNCHANGED << args, program, mk, int_state, out_access, store, line >>

OnSTOP ==
    /\ On("STOP")
    /\ icmd' = 1 /\ req_inc_cmd' = FALSE /\ last' = 0 /\ state' = "stop"
    /\ pc' = "tick" /\ out' = Event(Ui("Stop", 0), NIL, NIL)
    /\ UNCHANGED << args, gthread, mk, int_state, stat_on, out_access, paused,
                    store, line >>

\* The words followed by an argument.
OnWithArgument ==
    /\ \E w \in {"SINGLE", "SENDFROM", "ADDFILTER", "DELFILTER"} :
          On(w) /\ pc' = w
    /\ out' = Quiet
    /\ UNCHANGED << args, program, control, store, line >>

\* Outside "stop" the command is dropped; a timeout appends nothing.
SingleArg ==
    /\ pc = "SINGLE" /\ WaitMsg
    /\ IF state = "stop"
       THEN /\ sthread' = IF Arrived = NIL THEN sthread
                          ELSE Append(sthread, Arrived)
            /\ state' = "single"
       ELSE UNCHANGED << sthread, state >>
    /\ pc' = "tick" /\ out' = Quiet
    /\ UNCHANGED << args, program, mk, int_state, stat_on, out_access, paused,
                    send_from, GFilters, line >>

SendfromArg ==
    /\ pc = "SENDFROM" /\ WaitMsg
    /\ send_from' = IF state # "stop" \/ Arrived = NIL THEN send_from
                    ELSE IF Arrived \in Text THEN ToNumber[Arrived] ELSE NIL
    /\ pc' = "tick" /\ out' = Quiet
    /\ UNCHANGED << args, program, control, sthread, GFilters, line >>

WithoutNone(f) == GFilters
Without(f) == Removed(GFilters, f)

AddFilterName ==
    /\ pc = "ADDFILTER" /\ WaitMsg
    /\ IF Arrived = NIL
       THEN pc' = "tick" /\ UNCHANGED args
       ELSE pc' = "pars" /\ args' = << Arrived >>
    /\ out' = Quiet
    /\ UNCHANGED << program, control, store, line >>

\* pars_s:gmatch on a nil pars_s ends the task.
AddFilterPars ==
    /\ pc = "pars" /\ WaitMsg
    /\ args' = << >>
    /\ IF Arrived = NIL
       THEN pc' = "dead" /\ out' = Quiet /\ UNCHANGED GFilters
       ELSE /\ GFilters' = Append(Without(args[1]), args[1])
            /\ pc' = "tick"
            /\ out' = Event(NIL, NIL, Plug("attached", args[1]))
    /\ UNCHANGED << program, control, sthread, send_from, line >>

DelFilterName ==
    /\ pc = "DELFILTER" /\ WaitMsg
    /\ GFilters' = IF Arrived = NIL THEN GFilters ELSE Without(Arrived)
    /\ out' = Event(NIL, NIL, IF Arrived = NIL THEN NIL
                              ELSE Plug("detached", Arrived))
    /\ pc' = "tick"
    /\ UNCHANGED << args, program, control, sthread, send_from, line >>

\* Any other message opens a fill: messages are program lines, control words
\* included, until "FIN" or 20 ms of silence.
FillStart ==
    /\ pc = "wait" /\ Arrived \in Text /\ WaitMsg
    /\ gthread' = Append(gthread, Arrived)
    /\ pc' = "fill" /\ out' = Quiet
    /\ UNCHANGED << args, icmd, req_inc_cmd, last, control, store, line >>

FillNext ==
    /\ pc = "fill" /\ WaitMsg
    /\ IF Arrived \in {NIL, "FIN"}
       THEN pc' = "tick" /\ UNCHANGED gthread
       ELSE pc' = "fill" /\ gthread' = Append(gthread, Arrived)
    /\ out' = Quiet
    /\ UNCHANGED << args, icmd, req_inc_cmd, last, control, store, line >>

-----------------------------------------------------------------------------
TickStep ==
    \/ TickEnd \/ TickNoController
    \/ \E sent \in BOOLEAN : TickStatus(sent)
    \/ \E r \in ReadResult, acc, lapsed \in BOOLEAN : TickRead(r, acc, lapsed)
    \/ TickProgramEnd \/ TickIdle \/ TickLine \/ TickLineDies \/ TickSingle

ConnectStep == OnPORT \/ PortArg \/ ConnectIgnored \/ ConnectDies
               \/ ConnectFails \/ ConnectOpens \/ Greet

HelpStep == \E acc, fix \in BOOLEAN : HelpAnswer(acc, fix)

HandlerStep ==
    \/ NoMessage \/ OnNEW \/ OnCALCULATE \/ OnPAUSE \/ OnFILL \/ OnRESUME
    \/ OnSTOP \/ OnWithArgument \/ SingleArg \/ SendfromArg \/ AddFilterName
    \/ AddFilterPars \/ DelFilterName \/ FillStart \/ FillNext

\* The steps the task takes without waiting for the machine.
OwnStep == TickStep \/ ConnectStep \/ HandlerStep \/ FilterAnswer

Next == OwnStep \/ HelpStep \/ \E m \in Posted : Post(m)

Spec == Init /\ [][Next]_vars

(***************************************************************************)
(* The task is scheduled, so a step it can take of its own is taken; and a *)
(* machine that is polled forever goes on answering, so reads that give    *)
(* access happen again and again.  Nothing makes it answer the first       *)
(* question of MK:init(): HelpStep has no fairness.                        *)
(***************************************************************************)
ReadAccess == \E r \in ReadResult, lapsed \in BOOLEAN : TickRead(r, TRUE, lapsed)

LiveSpec == Spec /\ WF_vars(OwnStep) /\ SF_vars(ReadAccess)

-----------------------------------------------------------------------------
(* What the task promises. *)

UiEvent == [kind : {"Stop", "Run", "Pause", "error", "gauge", "setup",
                    "Connected", "CantConnect"}, n : Nat]
TxEvent == [kind : {"line", "single"}, text : Msg]
           \cup [kind : {"query", "hold", "go", "hello"}, text : {NIL}]
PlugEvent == [kind : {"filter", "attached", "detached"}, name : Msg]

PC == {"tick", "wait", "filter", "port", "connect", "help", "greet", "SINGLE",
       "SENDFROM", "ADDFILTER", "pars", "DELFILTER", "fill", "dead"}

MailboxType ==
    /\ inbox \in Seq(Msg) /\ pc \in PC /\ args \in Seq(Msg \cup {NIL})
    /\ pc = "greet" => args \in Seq(Msg) /\ args # << >>
    /\ cmd \in Msg \cup {NIL} /\ (pc = "filter" => cmd \in Msg)
LoopType ==
    /\ mk \in Controllers \cup {NIL}
    /\ state \in {"stop", "run", "single"} /\ int_state \in {"s", "r", "rs", "m"}
    /\ stat_on \in BOOLEAN /\ req_inc_cmd \in BOOLEAN
    /\ out_access \in BOOLEAN /\ paused \in BOOLEAN
ProgramType ==
    /\ gthread \in Seq(Msg) /\ sthread \in Seq(Msg)
    /\ icmd \in Nat /\ icmd > 0 /\ last \in Nat
    /\ send_from \in Nat \cup {NIL}
EventType ==
    out.ui \in UiEvent \cup {NIL} /\ out.tx \in TxEvent \cup {NIL}

\* Every variable of the task's loop keeps the type the loop relies on,
\* whatever is posted and wherever a timeout strikes.
TypeOK == MailboxType /\ LoopType /\ ProgramType /\ EventType

\* A filter is in the chain once, however often its plug-in attached it: the
\* old entry is removed before the new one is appended.
FiltersDistinct ==
    /\ GFilters \in Seq(Msg) /\ fidx \in 0..Len(GFilters)
    /\ out.plug \in PlugEvent \cup {NIL}
    /\ \A i, j \in 1..Len(GFilters) : GFilters[i] = GFilters[j] => i = j

Writes(kind) == out'.tx # NIL /\ out'.tx.kind = kind
Reports(kind) == out'.ui # NIL /\ out'.ui.kind = kind

\* Program lines go to the machine in the order of the program, none twice,
\* none left out, and each with its own text unless a filter rewrote it.  One
\* exception is what the code does: a single command sent before the first
\* line leaves req_inc_cmd set, and RESUME then starts with line 2.
ProgramOrder ==
    [][ Writes("line") =>
          /\ last' = last + 1 \/ (last = 0 /\ last' = 2)
          /\ GFilters = << >> => out'.tx.text = gthread[last'] ]_vars

\* The sender reports that the program is over only when its last line has
\* been written and answered (or, after that single command, when there was
\* only the skipped line).
EndAfterLastLine ==
    [][ pc = "tick" /\ Reports("Stop") =>
          /\ out_access
          /\ last = Len(gthread) \/ (last = 0 /\ Len(gthread) = 1) ]_vars

\* From the PAUSE that was handled to the RESUME that is handled no program
\* line is written, whatever is posted in between: other commands, fills,
\* single commands, a new program, a reconnection.
PausedWritesNoLine == [][ Writes("line") => ~paused /\ state = "run" ]_vars

\* An error report names the program line that was written last: icmd never
\* runs ahead of the line the machine was given.
ErrorBlamesLastLine ==
    out.ui # NIL /\ out.ui.kind = "error" /\ last # 0
        => send_from # NIL /\ out.ui.n = send_from + last - 1

\* Where the program stands.  With req_inc_cmd the line icmd is out and not
\* yet answered (or a single command went out before the first line); without
\* it the program is at its start; inside the filters the line icmd is the one
\* after the last line written.  This is what the order of the lines and the
\* numbers in error reports rest on.
Filtering == pc = "filter" /\ state = "run"
AtPlace ==
    /\ req_inc_cmd => last = icmd \/ (last = 0 /\ icmd = 1)
    /\ ~req_inc_cmd => last = 0 /\ icmd = 1
InFilters ==
    /\ ~req_inc_cmd /\ icmd <= Len(gthread)
    /\ icmd = last + 1 \/ (last = 0 /\ icmd = 2)
ProgramPlace ==
    /\ pc # "dead" => (Filtering => InFilters) /\ (~Filtering => AtPlace)
    /\ pc = "filter" => GFilters # << >>
    /\ last <= Len(gthread)
    /\ paused => state # "run"

\* On an open port a started program with at least one line ends (or is
\* paused, stopped, replaced, or fails): the sender does not stay in "run".
RunEnds ==
    (mk # NIL /\ state = "run" /\ gthread # << >>)
        ~> (state # "run" \/ pc = "dead")

\* On an open port accepted single commands are sent: the sender does not stay
\* in "single", where it would drop every further command and never run.
SinglesEnd ==
    (mk # NIL /\ state = "single" /\ sthread # << >>)
        ~> (state # "single" \/ pc = "dead")

=============================================================================
