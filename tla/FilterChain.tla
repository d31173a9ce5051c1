----------------------------- MODULE FilterChain -----------------------------
(***************************************************************************)
(* The sender and the filter plug-ins, from the start of the program.      *)
(* Each plug-in is run by the window (module PluginLoad) and has the loop  *)
(* of src/bld/conf/utils/plugin_system_engine.lua; the window sends        *)
(* it the clicks on its buttons, it asks the sender to put it into or take *)
(* it out of the chain, and the sender sends it the lines to filter.       *)
(*                                                                         *)
(* A plug-in has one mailbox for all of that, and takes whatever comes     *)
(* first for the answer to its request; the sender takes whatever comes    *)
(* first for the filtered line.  The sender is that of module Sender.      *)
(***************************************************************************)
EXTENDS Sender, PluginLoad

CONSTANTS
    Plugins,      \* the filter plug-ins' task names
    Exec,         \* what a plug-in's exec makes of a line; NIL: it fails
    Program,      \* the program in the editor
    Connection,   \* the connect button's controller, port and baud rate
    Answers,      \* what the machine's reads return
    MaxClicks,    \* bound: clicks
    MaxLate       \* bound: waits that run out before what they wait for comes

Pars == "pars"

ASSUME PluginsAssumption == Plugins \subseteq Text /\ Pars \in Text
ASSUME ExecAssumption == Exec \in [Plugins -> [Text -> Text \cup {NIL}]]
ASSUME ChainAssumption ==
    Program \in Seq(Text) /\ Connection \in Seq(Text) /\ "1" \in Text
\* No plug-in runs before the sender.
ASSUME OpeningsAssumption ==
    \A ms \in Openings : \A i \in 1..Len(ms) : ms[i] \notin {"ADDFILTER", "DELFILTER"}
ASSUME ReadsAssumption == Answers \subseteq ReadResult
\* Lua's nil is no table.
ASSUME NoTableAssumption == NIL \notin PlugEvent
ASSUME ClicksAssumption == MaxClicks \in Nat /\ MaxLate \in Nat

VARIABLES
    pbox,         \* each plug-in's mailbox
    ppc,          \* where it is: its loop, a request it is posting, dead
    shown,        \* the plug-ins in the window's list, once it read its port
    clicks,
    lates,        \* history: waits that ran out
    calm          \* history: no click fell into something under way, and no
                  \* wait ran out

plugs == << pbox, ppc, shown >>
chainVars == << vars, plugs, clicks, lates, calm, loadVars >>

\* The sender was started; the plug-ins come next.
FInit ==
    /\ Init /\ LoadInit
    /\ pbox = [p \in Plugins |-> << >>] /\ ppc = [p \in Plugins |-> "loop"]
    /\ shown = << >> /\ clicks = 0 /\ lates = 0 /\ calm = TRUE

\* Nothing is under way anywhere.
AtRest ==
    /\ inbox = << >> /\ pc \in {"tick", "wait"} /\ state = "stop"
    /\ \A p \in Plugins : pbox[p] = << >> /\ ppc[p] \in {"loop", "dead"}

-----------------------------------------------------------------------------
(* The window. *)

Loading == LoadNext /\ UNCHANGED << vars, plugs, clicks, lates, calm >>

\* The directory had these plug-ins, and none was too slow (bound: what comes
\* after another start is not followed).
Listed == {"plug_" \o ToString(list[i].name) : i \in 1..Len(list)}
Loaded == win = "up" /\ Listed = Plugins /\ ~ranOut

WindowPosts(ms) ==
    /\ pc # "dead" /\ inbox' = inbox \o ms /\ out' = Quiet
    /\ UNCHANGED << pc, args, program, control, store, line, plugs, loadVars >>

\* The connect button, until a port is open.
ClickConnect ==
    /\ Loaded /\ mk = NIL /\ AtRest
    /\ WindowPosts(<< "PORT" >> \o Connection)
    /\ UNCHANGED << clicks, lates, calm >>

\* Bound: the first of the clicks finds the sender connected and at rest.
Click ==
    /\ Loaded /\ mk # NIL /\ (clicks = 0 => AtRest)
    /\ clicks < MaxClicks /\ clicks' = clicks + 1
    /\ calm' = (calm /\ AtRest) /\ UNCHANGED lates

\* exec.sendmsg(p, m): no such task, no message.
Put(p, m) ==
    pbox' = IF p \in Plugins /\ ppc[p] # "dead"
            THEN [pbox EXCEPT ![p] = Append(@, m)] ELSE pbox

Request(k) == [kind |-> k, line |-> NIL]

\* Attach, Detach, or a click in the list or on Save, of p's panel.
ClickPlugin(p) ==
    /\ Click
    /\ \E k \in {"EXECUTE", "DETACH", "CLICK"} : Put(p, Request(k))
    /\ UNCHANGED << vars, ppc, shown, loadVars >>

\* The run button of a stopped sender.  Console follows these messages, and
\* those of the connect button, one by one.
ClickRun ==
    /\ Click /\ state = "stop"
    /\ WindowPosts(<< "FILL", "NEW" >> \o Program
                   \o << "FIN", "SENDFROM", "1", "CALCULATE", "RESUME" >>)

-----------------------------------------------------------------------------
(* A plug-in's loop. *)

Took(p) == pbox' = [pbox EXCEPT ![p] = Tail(@)]
InLoop(p, k) ==
    ppc[p] = "loop" /\ pbox[p] # << >> /\ Head(pbox[p]).kind = k /\ Took(p)
Goes(p, at) == ppc' = [ppc EXCEPT ![p] = at]
ToSender(m) ==
    /\ inbox' = IF pc = "dead" THEN inbox ELSE Append(inbox, m)
    /\ out' = Quiet
    /\ UNCHANGED << pc, args, program, control, store, line >>

\* Reports to the window, or the file of parameters: nothing that is shared.
PlugClick(p) ==
    /\ InLoop(p, "CLICK")
    /\ UNCHANGED << vars, ppc, shown, clicks, lates, calm >>

\* The first message of the request to attach or to detach.
PlugAsk(p) ==
    /\ \/ InLoop(p, "EXECUTE") /\ ToSender("ADDFILTER") /\ Goes(p, "addName")
       \/ InLoop(p, "DETACH") /\ ToSender("DELFILTER") /\ Goes(p, "delName")
    /\ UNCHANGED << shown, clicks, lates, calm >>

\* The rest of it, then waitmsg(200).
PlugAskOn(p) ==
    /\ \/ ppc[p] = "addName" /\ ToSender(p) /\ Goes(p, "addPars")
       \/ ppc[p] = "addPars" /\ ToSender(Pars) /\ Goes(p, "attaching")
       \/ ppc[p] = "delName" /\ ToSender(p) /\ Goes(p, "detaching")
    /\ UNCHANGED << pbox, shown, clicks, lates, calm >>

AttachedTwice(p) ==
    /\ ppc[p] = "attaching" /\ pbox[p] # << >> /\ Took(p) /\ Goes(p, "loop")
    /\ shown' = Append(shown, p)
    /\ UNCHANGED << vars, clicks, lates, calm >>
\* Whatever came is the answer: the window's list gets the plug-in at its end.
PlugAttached(p) ==
    /\ ppc[p] = "attaching" /\ pbox[p] # << >> /\ Took(p) /\ Goes(p, "loop")
    /\ shown' = Append(Removed(shown, p), p)
    /\ UNCHANGED << vars, clicks, lates, calm >>

PlugDetached(p) ==
    /\ ppc[p] = "detaching" /\ pbox[p] # << >> /\ Took(p) /\ Goes(p, "loop")
    /\ shown' = Removed(shown, p)
    /\ UNCHANGED << vars, clicks, lates, calm >>

\* m:match of a nil m: no answer within 200 ms ends the plug-in.
PlugUnanswered(p) ==
    /\ ppc[p] \in {"attaching", "detaching"} /\ pbox[p] = << >>
    /\ Goes(p, "dead")
    /\ lates < MaxLate /\ lates' = lates + 1 /\ calm' = FALSE
    /\ UNCHANGED << vars, pbox, shown, clicks >>

\* A control word that took a line's place goes through as it is.
Filtered(p, l) == IF l \in Text THEN Exec[p][l] ELSE l

\* conf.exec returned a line (a nil is the line itself), or failed: no answer.
PlugFilterMute(p) ==
    /\ InLoop(p, "FILTER")
    /\ UNCHANGED << vars, ppc, shown, clicks, lates, calm >>
PlugFilter(p) ==
    /\ InLoop(p, "FILTER")
    /\ LET answer == Filtered(p, Head(pbox[p]).line)
       IN IF answer = NIL THEN UNCHANGED vars ELSE ToSender(answer)
    /\ UNCHANGED << ppc, shown, clicks, lates, calm >>

\* A late "<FILTER><ATTACHED>" has no <CMD> part: pars_s:gmatch ends the task.
PlugLate(p) ==
    /\ InLoop(p, "ANSWER") /\ Goes(p, "dead")
    /\ UNCHANGED << vars, shown, clicks, lates, calm >>

PlugStep(p) ==
    /\ \/ PlugClick(p) \/ PlugAsk(p) \/ PlugAskOn(p) \/ PlugAttached(p)
       \/ PlugDetached(p) \/ PlugUnanswered(p) \/ PlugFilter(p) \/ PlugLate(p)
    /\ UNCHANGED loadVars

-----------------------------------------------------------------------------
(* The sender. *)

\* The filter asked has the line still before it, and will answer too late;
\* or the next message of a request did not come.
Late ==
    /\ inbox = << >>
    /\ \/ pc \in {"ADDFILTER", "pars", "DELFILTER"}
       \/ /\ pc = "filter" /\ GFilters[fidx] \in Plugins
          /\ \E i \in 1..Len(pbox[GFilters[fidx]]) :
                pbox[GFilters[fidx]][i].kind = "FILTER"

\* What the step sends to a plug-in arrives at once.
SenderStep ==
    /\ \/ ConnectStep \/ HelpStep
       \/ TickEnd \/ TickNoController \/ TickSingle \/ \E sent \in BOOLEAN : TickStatus(sent)
       \/ \E r \in Answers, acc, lapsed \in BOOLEAN : TickRead(r, acc, lapsed)
       \/ TickProgramEnd \/ TickIdle \/ TickLine \/ HandlerStep \/ FilterAnswer
    /\ IF out'.plug = NIL THEN UNCHANGED pbox
       ELSE Put(out'.plug.name,
                IF out'.plug.kind = "filter"
                THEN [kind |-> "FILTER", line |-> cmd'] ELSE Request("ANSWER"))
    /\ IF Late THEN lates < MaxLate /\ lates' = lates + 1 /\ calm' = FALSE
               ELSE UNCHANGED << lates, calm >>
    /\ UNCHANGED << ppc, shown, clicks, loadVars >>

FNext ==
    \/ Loading \/ ClickConnect \/ ClickRun \/ SenderStep
    \/ \E p \in Plugins : ClickPlugin(p) \/ PlugStep(p)

\* The window and the task it runs are threads, and a wait runs out in the end.
FSpec == FInit /\ [][FNext]_chainVars /\ WF_chainVars(Loading)

-----------------------------------------------------------------------------
(* What the chain promises. *)

\* What the filters fs make of a line, one after the other: Passed(fs, l)[i] is
\* the line behind the i-th.
After(l, p) == IF Filtered(p, l) = NIL THEN l ELSE Filtered(p, l)
Passed(fs, l) ==
    LET passed[i \in 0..Len(fs)] ==
          IF i = 0 THEN l ELSE After(passed[i - 1], fs[i])
    IN passed
Through(l) == Passed(GFilters, l)[Len(GFilters)]

\* A line goes to the machine as the filters attached make it, each applied
\* once and in the order of the chain, a failing one left out; unless a click
\* fell into something under way or an answer came late.
LinesFiltered ==
    [][ calm' /\ Writes("line") => out'.tx.text = Through(gthread[last']) ]_chainVars

\* Under the same condition no request and no answer is taken for another: no
\* plug-in dies of one, and what the window lists is the sender's chain.
ListIsChain ==
    calm => /\ \A p \in Plugins : ppc[p] # "dead"
            /\ AtRest => shown = GFilters

=============================================================================
