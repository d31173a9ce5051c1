------------------------------ MODULE GrblLink ------------------------------
(***************************************************************************)
(* The Grbl controller (src/bld/conf/controllers/grbl/init.lua), the        *)
(* serial line and the machine behind it.  The controller counts the        *)
(* commands it wrote and got no answer to (oks), cuts what it reads into    *)
(* lines, takes the first of them, and keeps the rest for the next read.    *)
(* The sender writes a line only while out_access is true; that flag is all *)
(* the flow control there is.                                               *)
(*                                                                          *)
(* The caller is the int_state machine of the sender ("s" query, "r"/"rs"   *)
(* read, "m" write).  The machine is external: it answers every line in     *)
(* order with "ok" or "error", and picks a "?" out of the stream to report  *)
(* its status at once, leaving a blank line that is answered too.           *)
(***************************************************************************)
EXTENDS Integers, Sequences, FiniteSets

CONSTANTS
    Answers,      \* how the machine answers a program line
    Reports,      \* the status lines it sends
    OksMax,       \* oks_max
    MaxSent,      \* bound: commands written
    MaxChat,      \* bound: unasked lines of the machine
    MaxSessions   \* bound: times the port is opened

ASSUME OksMaxAssumption == OksMax \in Nat /\ OksMax > 0
ASSUME AnswersAssumption == Answers \subseteq {"ok", "error"}

\* "stat": a status line without the RX field (masks 3 and 15 do not match it);
\* "roomy", "tight": one whose Buf and RX fields leave room, or do not.
ASSUME ReportsAssumption == Reports \subseteq {"stat", "roomy", "tight"}

Commands == {"line", "blank"}
Lines == {"ok", "error", "other"} \cup Reports

VARIABLES
    helping,          \* the caller is in help(), which waits for a first line
    int_state,        \* the caller's turn otherwise
    oks, is_resp_handled, out_access, msg_buffer,
    mk_flags,         \* what the last status said: "stat" (nothing), roomy, tight
    result,           \* what the last read returned
    toDev, fromDev,   \* the line, both ways
    asked,            \* the machine saw a "?" it has not reported on yet
    sent, chat, sessions

ctl  == << helping, int_state, oks, is_resp_handled, out_access, msg_buffer, mk_flags, result >>
dev  == << toDev, fromDev, asked >>
vars == << ctl, dev, sent, chat, sessions >>

\* The port has just been opened and help() wrote "$$".
Init ==
    /\ helping = TRUE /\ int_state = "s" /\ oks = 1 /\ is_resp_handled = FALSE
    /\ out_access = FALSE /\ msg_buffer = << >> /\ mk_flags = "stat"
    /\ result = "none"
    /\ toDev = << "line" >> /\ fromDev = << >> /\ asked = FALSE
    /\ sent = 1 /\ chat = 0 /\ sessions = 1

-----------------------------------------------------------------------------
(* Reading. *)

\* How many lines at the head of lst are "ok".
LeadingOks(lst) ==
    Cardinality({i \in 1..Len(lst) : \A j \in 1..i : lst[j] = "ok"})

Least(a, b) == IF a <= b THEN a ELSE b

\* What read() makes of the lines it has: the kind of its result, how many
\* answers it counts, how many lines it uses up.  After leading "ok"s the loop
\* has already stepped over the line that ended them: that line is gone.
Outcome(k, n, u) == [kind |-> k, oks |-> n, used |-> u]
ParseCountsUsed(lst) ==
    IF lst = << >> THEN Outcome("none", 0, 0)
    ELSE LET n == LeadingOks(lst) IN
         IF lst[1] \in {"stat", "roomy", "tight"} THEN Outcome(lst[1], 0, 1)
         ELSE IF lst[1] = "error" THEN Outcome("error", 1, 1)
         ELSE Outcome(lst[1], Least(n + 1, Len(lst)), Least(n + 1, Len(lst)))
Parse(lst) ==
    CASE lst = << >> -> Outcome("none", 0, 0)
      [] lst # << >> /\ lst[1] \in {"stat", "roomy", "tight"} ->
            IF Len(lst) > 1 /\ lst[2] = "ok" THEN Outcome(lst[1], 1, 2)
                                             ELSE Outcome(lst[1], 0, 1)
      [] lst # << >> /\ lst[1] = "error" -> Outcome("error", 1, 1)
      [] lst # << >> /\ lst[1] = "other" -> Outcome("other", 0, 1)
      [] lst # << >> /\ lst[1] = "ok" ->
            Outcome("ok", LeadingOks(lst), Least(LeadingOks(lst) + 1, Len(lst)))

\* msg.ok of a result.
HasOk(p) == p.kind \in {"ok", "stat", "roomy", "tight"} /\ p.oks > 0

\* calc_mk_status: the last command counts as answered when the last status
\* line said that there is room, or, without one, when every answer came.
HandledEarly(n) ==
    is_resp_handled \/ mk_flags = "roomy" \/ (mk_flags = "stat" /\ n <= 1)
Handled(n) ==
    is_resp_handled \/ mk_flags = "roomy" \/ (mk_flags = "stat" /\ n < 1)

AccessAnyhow(p, n) == Handled(n)
Access(p, n) == Handled(n) /\ HasOk(p)

\* What status_parse() remembers of a result: only status lines are parsed.
FlagsOfAny(p) == p.kind
Flags(p) == IF p.kind \in {"stat", "roomy", "tight"} THEN p.kind ELSE mk_flags

\* One read(): a burst of the lines that have arrived joins msg_buffer, the
\* flag is computed with the status before this one.
ReadForgets(burst) ==
    LET p == Parse(msg_buffer \o burst)
        n == oks - p.oks
    IN /\ msg_buffer' = << >> /\ oks' = n /\ result' = p.kind
       /\ is_resp_handled' = Handled(n) /\ out_access' = Access(p, n)
ReadLines(burst) ==
    LET lst == msg_buffer \o burst
        p   == Parse(lst)
        n   == oks - p.oks
    IN /\ msg_buffer' = SubSeq(lst, p.used + 1, Len(lst)) /\ oks' = n
       /\ result' = p.kind
       /\ is_resp_handled' = Handled(n) /\ out_access' = Access(p, n)

\* PORT:read returns what has arrived, up to the first pause in the stream.
Burst(k) ==
    /\ k \in 0..Len(fromDev) /\ (fromDev # << >> => k > 0)
    /\ ReadLines(SubSeq(fromDev, 1, k))
    /\ fromDev' = SubSeq(fromDev, k + 1, Len(fromDev))
    /\ UNCHANGED << toDev, asked, sent, chat, sessions >>

\* The sender's turn to read, cnc_read_parse().  After an empty read, and a
\* second after the last query, comes the turn to query the status.
Read(k) ==
    /\ ~helping /\ int_state \in {"r", "rs"}
    /\ Burst(k)
    /\ mk_flags' = Flags(Parse(msg_buffer \o SubSeq(fromDev, 1, k)))
    /\ int_state' \in IF result' = "none" /\ int_state = "r" /\ sent < MaxSent
                      THEN {"s", "m"} ELSE {"m"}
    /\ UNCHANGED helping

\* help() reads until a line comes, and parses no status.
Help(k) ==
    /\ helping
    /\ Burst(k)
    /\ helping' = (result' = "none")
    /\ UNCHANGED << int_state, mk_flags >>

-----------------------------------------------------------------------------
(* Writing. *)

\* send(): toDev gets a line; a status query is a "?" and a blank line.
Send(what) ==
    /\ toDev' = Append(toDev, what)
    /\ out_access' = FALSE /\ is_resp_handled' = FALSE /\ oks' = oks + 1
    /\ sent' = sent + 1
    /\ UNCHANGED << helping, fromDev, msg_buffer, mk_flags, result, chat, sessions >>

StatusQuery ==
    /\ ~helping /\ int_state = "s" /\ int_state' = "rs"
    /\ IF oks < OksMax /\ sent < MaxSent
       THEN Send("blank") /\ asked' = TRUE
       ELSE UNCHANGED << helping, oks, is_resp_handled, out_access, msg_buffer,
                         mk_flags, result, dev, sent, chat, sessions >>

\* The sender has a line to send and access to send it, or goes on reading.
SendLine ==
    /\ ~helping /\ int_state = "m" /\ out_access /\ sent < MaxSent
    /\ int_state' = "r" /\ Send("line") /\ UNCHANGED asked

NoLine ==
    /\ ~helping /\ int_state = "m" /\ int_state' = "r"
    /\ UNCHANGED << helping, oks, is_resp_handled, out_access, msg_buffer,
                    mk_flags, result, dev, sent, chat, sessions >>

\* The port is opened again: oks starts at 0, msg_buffer and mk_flags stay, and
\* help() writes "$$".  What is on the line survives or is flushed.
Open ==
    /\ ~helping /\ sessions < MaxSessions /\ sent < MaxSent
    /\ helping' = TRUE /\ oks' = 1
    /\ out_access' = FALSE /\ is_resp_handled' = FALSE
    /\ \E keep \in BOOLEAN :
          /\ toDev' = IF keep THEN Append(toDev, "line") ELSE << "line" >>
          /\ fromDev' = IF keep THEN fromDev ELSE << >>
          /\ asked' = (keep /\ asked)
    /\ sessions' = sessions + 1 /\ sent' = sent + 1
    /\ UNCHANGED << int_state, msg_buffer, mk_flags, result, chat >>

-----------------------------------------------------------------------------
(* The machine (external). *)

Emit(l) == fromDev' = Append(fromDev, l)

DevAnswer ==
    /\ toDev # << >> /\ toDev' = Tail(toDev)
    /\ IF Head(toDev) = "blank" THEN Emit("ok")
       ELSE \E l \in Answers : Emit(l)
    /\ UNCHANGED << ctl, asked, sent, chat, sessions >>

DevReport ==
    /\ asked /\ asked' = FALSE
    /\ \E l \in Reports : Emit(l)
    /\ UNCHANGED << ctl, toDev, sent, chat, sessions >>

DevChat ==
    /\ chat < MaxChat /\ chat' = chat + 1
    /\ Emit("other")
    /\ UNCHANGED << ctl, toDev, asked, sent, sessions >>

-----------------------------------------------------------------------------
Reads == \E k \in 0..Len(fromDev) : Read(k) \/ Help(k)
Writes == StatusQuery \/ SendLine \/ NoLine

Next == Reads \/ Writes \/ Open \/ DevAnswer \/ DevReport \/ DevChat

Spec == Init /\ [][Next]_vars

\* The sender's loop goes round and the machine answers in the end.
LiveSpec == Spec /\ WF_vars(Reads) /\ WF_vars(Writes)
                 /\ WF_vars(DevAnswer) /\ WF_vars(DevReport)

-----------------------------------------------------------------------------
(* What the link promises. *)

\* The count, the flags and the caller's turn keep their types.
TypeOK ==
    /\ helping \in BOOLEAN /\ int_state \in {"s", "r", "rs", "m"}
    /\ oks \in Int /\ is_resp_handled \in BOOLEAN /\ out_access \in BOOLEAN
    /\ msg_buffer \in Seq(Lines) /\ mk_flags \in {"stat"} \cup Reports
    /\ result \in Lines \cup {"none"}
    /\ toDev \in Seq(Commands) /\ fromDev \in Seq(Lines)
    /\ asked \in BOOLEAN /\ sent \in Nat /\ chat \in Nat /\ sessions \in Nat

AnswersIn(s) == Cardinality({i \in 1..Len(s) : s[i] \in {"ok", "error"}})

\* Commands whose answer has not been counted: unanswered ones, and answers on
\* the line or in msg_buffer.
Owed == Len(toDev) + AnswersIn(fromDev) + AnswersIn(msg_buffer)

\* Until the port is opened a second time oks never falls below what is owed,
\* however the answers are cut into bursts: an answer that is dropped with the
\* line after leading oks makes it too large, never too small.
OksCoverOwed == sessions = 1 => oks >= Owed

\* Without the RX field the machine is given one command at a time: while a
\* line may be written no earlier one is unanswered.
OneAtATime ==
    sessions = 1 /\ mk_flags = "stat" /\ out_access => Owed = 0

\* Program lines the machine has not answered.
LinesAt(s) == Cardinality({i \in 1..Len(s) : s[i] = "line"})

Stop == INSTANCE Link
        WITH pending <- LinesAt(toDev), owed <- Owed, access <- out_access

\* Without the RX field the controller implements stop-and-wait: the machine
\* is never given a line while an earlier command is unanswered, and access
\* never comes back before the last answer was read.
StopsAndWaits == Stop!Spec

\* oks_max limits all commands, though only the status query looks at it:
\* every line written is paid for by an ok, in every session.
QueueBounded == oks <= OksMax /\ (out_access => oks < OksMax)

\* A machine that answers every line with ok gets the next one: each command
\* is followed by access to write again.
AccessReturns == oks > 0 ~> out_access

=============================================================================
