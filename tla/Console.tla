------------------------------- MODULE Console -------------------------------
(***************************************************************************)
(* The window (the main task) and the sender task together.  The buttons   *)
(* of the run panel, the connection dialog and the terminal post requests  *)
(* of several messages to the sender; the sender's reports come back       *)
(* through the window's "ui" port.  Both ways are queues, and the window   *)
(* keeps its own idea of what the sender does, MKstate, which decides what *)
(* a button does.                                                          *)
(*                                                                         *)
(* The window runs one handler at a time: while it posts, the reports wait *)
(* in its port.  The sender is that of module Sender, with no other client *)
(* and no filters; its steps fall anywhere between the window's.           *)
(***************************************************************************)
EXTENDS Sender

CONSTANTS
    Program,      \* the lines of the program in the editor
    Buttons,      \* the buttons that are clicked
    Answers,      \* what the machine's reads return
    MaxReports,   \* bound: reports in the window's port while errors come in
    MaxClicks,    \* bound: clicks
    MaxEarly,     \* bound: clicks when connections are among them
    MaxSingles,   \* bound: clicks on a button that sends a single command
    MaxConnects   \* bound: clicks on connect; an open controller has one left, or none

ASSUME ProgramAssumption == Program \in Seq(Text)
\* What the window posts is words and texts; the start line it posts is a number.
ASSUME PostsAssumption ==
    /\ {"1", "$H", "Grbl", "Marlin", "/dev/ttyUSB0", "115200"} \subseteq Text
    /\ ToNumber["1"] # NIL
\* Lua's nil is no report.
ASSUME ReportsAssumption == NIL \notin UiEvent
ASSUME ButtonsAssumption ==
    Buttons \subseteq {"Home", "Run", "Pause", "Stop", "Connect"}
ASSUME AnswersAssumption == Answers \subseteq ReadResult
ASSUME StartAssumption == Openings = {<< >>}
ASSUME BoundsAssumption ==
    /\ MaxReports \in Nat /\ MaxClicks \in Nat /\ MaxSingles \in Nat
    /\ MaxEarly \in 0..MaxClicks /\ MaxConnects \in Nat

VARIABLES
    MKstate,      \* what the window takes the sender to do; NIL at first
    posting,      \* the messages the handler under way has still to post
    reports,      \* the "ui" port: the reports that bear on MKstate
    clicks,
    singles,      \* history: single commands clicked, or posted by an opening
    connects,     \* history: clicks on connect
    missed,       \* history: the sender's last report of stop, run, pause or
                  \* error was an error in a Marlin's words
    alone         \* history: no connection was clicked yet ("apart"), or its
                  \* messages may mix with others ("mixed"), or a Run was
                  \* clicked since they have gone ("run")

window ==
    << MKstate, posting, reports, clicks, singles, connects, missed, alone >>
allVars == << vars, window >>

\* A controller is open, its opening's messages have been dealt with and the
\* mode command they asked for was answered.
Idle ==
    /\ inbox = << >> /\ pc = "tick" /\ args = << >>
    /\ mk \in Controllers /\ state = "stop" /\ int_state = "r" /\ stat_on = TRUE
    /\ gthread = << >> /\ sthread = << >> /\ icmd = 1 /\ req_inc_cmd = TRUE
    /\ send_from = 1 /\ GFilters = << >> /\ cmd = NIL /\ fidx = 0
    /\ out_access = TRUE /\ out = Quiet /\ last = 0 /\ paused = FALSE

\* The window has just started, or a controller was opened and greeted (bound:
\* no connection is to come, or one and few other clicks).
CInit ==
    /\ \/ Init /\ MKstate = NIL
          /\ clicks = MaxClicks - MaxEarly /\ connects = 0
          /\ singles = 0
       \/ Idle /\ MKstate = "STOP"
          /\ \/ clicks = 0 /\ connects = MaxConnects /\ singles = 0
             \/ /\ clicks = MaxClicks - MaxEarly /\ connects = MaxConnects - 1
                /\ singles = MaxSingles
    /\ posting = << >> /\ reports = << >> /\ missed = FALSE /\ alone = "apart"

\* Nothing is left of a connection, nor of what was clicked while it was made:
\* the mailbox is empty, and the start line is a number.
Gone == inbox = << >> /\ pc \in {"tick", "wait"} /\ send_from # NIL

-----------------------------------------------------------------------------
(* The buttons. *)

\* The handler posts ms and leaves MKstate = s.
Click(b, ms, s) ==
    /\ b \in Buttons /\ clicks < MaxClicks /\ clicks' = clicks + 1
    /\ posting = << >> /\ posting' = ms /\ MKstate' = s
    /\ UNCHANGED << vars, reports, missed >>

\* The home button, a command typed in the terminal, a jog button.
ClickHome ==
    /\ singles < MaxSingles /\ singles' = singles + 1
    /\ Click("Home", << "SINGLE", "$H" >>, MKstate)
    /\ UNCHANGED << connects, alone >>

DoSparseAppends ==
    Program \o << "FIN", "SENDFROM", "1", "CALCULATE" >>
DoSparseNumberless ==
    << "NEW" >> \o Program \o << "FIN", "SENDFROM", "CALCULATE" >>
\* do_sparse(): the program, its start line, the gauge.
DoSparse ==
    << "NEW" >> \o Program \o << "FIN", "SENDFROM", "1", "CALCULATE" >>

ClickRun ==
    /\ MKstate = "STOP"
    /\ Click("Run", << "FILL" >> \o DoSparse \o << "RESUME" >>, "RUN")
    /\ alone' = IF alone = "mixed" /\ ~Gone THEN alone ELSE "run"
    /\ UNCHANGED << singles, connects >>

ResumeUnsaid ==
    /\ MKstate = "PAUSE"
    /\ Click("Run", << >>, "RUN") \/ Click("Pause", << >>, "RUN")
    /\ UNCHANGED << singles, connects, alone >>
ClickResume ==
    /\ MKstate = "PAUSE"
    /\ Click("Run", << "RESUME" >>, "RUN") \/ Click("Pause", << "RESUME" >>, "RUN")
    /\ UNCHANGED << singles, connects, alone >>

PauseUnsaid ==
    /\ MKstate = "RUN"
    /\ Click("Pause", << >>, "PAUSE")
    /\ UNCHANGED << singles, connects, alone >>
ClickPause ==
    /\ MKstate = "RUN"
    /\ Click("Pause", << "PAUSE" >>, "PAUSE")
    /\ UNCHANGED << singles, connects, alone >>

ClickStop ==
    /\ MKstate \in {"RUN", "PAUSE"}
    /\ Click("Stop", << "STOP", "CALCULATE" >>, "STOP")
    /\ UNCHANGED << singles, connects, alone >>

\* The dialog says STOP whether or not the port will open.  A device was
\* chosen in it; its baud rate is the empty string until one is chosen too.
ClickConnect ==
    /\ connects < MaxConnects /\ connects' = connects + 1
    /\ \E k \in Controllers, baud \in {"115200", Empty} :
          Click("Connect", << "PORT", k, "/dev/ttyUSB0", baud >>, "STOP")
    /\ alone' = "mixed" /\ singles' = singles + 1

\* Sender:newcmd() of the next message.  It tries over and over while there is
\* no such task: with a dead sender the window never gets out of it.
PostNext ==
    /\ posting # << >> /\ pc # "dead"
    /\ inbox' = Append(inbox, Head(posting)) /\ posting' = Tail(posting)
    /\ out' = Quiet
    /\ UNCHANGED << pc, args, program, control, store, line, MKstate, reports,
                    clicks, singles, connects, missed, alone >>

-----------------------------------------------------------------------------
(* The reports. *)

Bearing == {"Stop", "Run", "Pause", "error"}

\* The window knows a report by how its text begins, an error by "error:".  The
\* sender forwards an error in the machine's words: a Grbl's begin so, a
\* Marlin's begin with "Error:" or "echo:Unknown command:".
Matched(k) == k = "error" => mk = "Grbl"

\* The window posts a request's next message before the sender's wait for it
\* (200 ms, 2 s for the port's) runs out.  The waits of 20 ms may run out.
InTime ==
    pc \in {"SINGLE", "SENDFROM", "port"} /\ inbox = << >> => posting = << >>

\* Bounds: errors do not come faster than the window reads them, and only where
\* no more connections are made and none is under way.
ErrorsCome ==
    /\ Len(reports) < MaxReports
    /\ connects = MaxConnects /\ alone # "mixed"

\* A step of the sender; what it reports arrives at the port at once.  Of a
\* report that nothing matches only the text is shown: it bears on nothing.
Says == out'.ui # NIL /\ out'.ui.kind \in Bearing
ReportTo(q) ==
    IF Says /\ Matched(out'.ui.kind) THEN Append(q, out'.ui.kind) ELSE q

SenderStep ==
    /\ InTime
    /\ \/ TickEnd \/ TickNoController \/ \E sent \in BOOLEAN : TickStatus(sent)
       \/ \E r \in Answers, acc, lapsed \in BOOLEAN :
             (r = "err" => ErrorsCome) /\ TickRead(r, acc, lapsed)
       \/ TickProgramEnd \/ TickIdle \/ TickLine \/ TickLineDies \/ TickSingle
       \/ ConnectStep \/ HelpStep \/ HandlerStep
    /\ reports' = ReportTo(reports)
    /\ missed' = IF Says THEN out'.ui.kind = "error" /\ mk = "Marlin" ELSE missed
    /\ UNCHANGED << MKstate, posting, clicks, singles, connects, alone >>

\* What a report that matches makes of MKstate: an error counts as a pause.
Shown(r) ==
    CASE r \in {"error", "Pause"} -> "PAUSE"
      [] r = "Stop" -> "STOP"
      [] r = "Run"  -> "RUN"

ReadReport ==
    /\ posting = << >> /\ reports # << >>
    /\ MKstate' = Shown(Head(reports)) /\ reports' = Tail(reports)
    /\ UNCHANGED << vars, posting, clicks, singles, connects, missed, alone >>

-----------------------------------------------------------------------------
CNext ==
    \/ ClickHome \/ ClickRun \/ ClickResume \/ ClickPause \/ ClickStop
    \/ ClickConnect \/ PostNext \/ ReadReport \/ SenderStep

CSpec == CInit /\ [][CNext]_allVars

-----------------------------------------------------------------------------
(* What the two promise together. *)

\* Nothing is on its way between the two.
Settled == inbox = << >> /\ posting = << >> /\ reports = << >>
           /\ pc \in {"tick", "wait"}

\* A sender that runs a program is never shown as stopped or paused once the
\* messages between them have settled: the buttons that pause and stop it work,
\* however clicks and reports crossed on the way.  One exception is what the
\* code does while a connection may be mixed with other requests: the dialog
\* says STOP and the sender ignores a connection with a field left empty and
\* goes on running, or takes the PAUSE for a line of the program.
RunningIsShown ==
    Settled /\ mk # NIL /\ state = "run" /\ alone # "mixed" => MKstate = "RUN"

\* A window that shows a running program is right once the messages have
\* settled, with two exceptions, which are what the code does.  A single command
\* that is on as RESUME is handled, sent by a button or by the opening of a port,
\* makes the sender drop RESUME without a word.  And an error of a Marlin stops
\* the sender, but the window, which looks for "error:", does not know it for
\* one.  In both cases RUN goes on being shown: after the error, until the
\* sender's next report of a stop, a pause or a run.
ShownIsRunning ==
    Settled /\ mk # NIL /\ MKstate = "RUN" /\ singles = 0 /\ ~missed
        => state = "run"

\* The last Run's program has reached the sender.
Sent == \A q \in {inbox, posting} : \A i \in 1..Len(q) : q[i] # "NEW"

\* A program sent by the Run button, while no connection was under way that its
\* messages could mix with, starts as it was sent: every line, once, in order,
\* and nothing else, whatever was clicked before and after and wherever the
\* sender's waits ran out.
RunsWhatWasSent ==
    [][ state = "stop" /\ state' = "run" /\ last = 0 /\ alone = "run" /\ Sent
           => gthread = Program ]_allVars

\* Once a program was sent so, no order of clicks ends a task that has a
\* controller: the start line's number, above all, never goes missing.
ControlledSurvives ==
    [][ pc' = "dead" /\ pc # "dead" /\ alone = "run"
           => mk = NIL \/ pc = "connect" ]_allVars

=============================================================================
