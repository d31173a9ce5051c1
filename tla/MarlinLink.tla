----------------------------- MODULE MarlinLink ------------------------------
(***************************************************************************)
(* The Marlin controller (src/bld/conf/controllers/marlin/init.lua), the   *)
(* serial line and the machine behind it.  The count of unanswered         *)
(* commands, the flag and the caller are those of Grbl; reading is not:    *)
(* a status line counts as an answer and the text it was read with is not  *)
(* put back, neither what follows it nor the line itself, when it was the  *)
(* first line of msg_buffer.                                               *)
(*                                                                         *)
(* The machine is external: it answers commands in order, a line with "ok" *)
(* or "error", M114 with a position line and an "ok", M105 with a          *)
(* temperature line that is its "ok".                                      *)
(***************************************************************************)
EXTENDS Integers, Lists

CONSTANTS
    Answers,      \* how the machine answers a program line
    OksMax,       \* oks_max
    MaxSent,      \* bound: commands written
    MaxChat,      \* bound: unasked lines of the machine
    MaxPhantom    \* bound: answers nobody sent, counted while a status line is
                  \* stuck in msg_buffer

ASSUME OksMaxAssumption == OksMax \in Nat /\ OksMax > 0
ASSUME AnswersAssumption == Answers \subseteq {"ok", "error"}
ASSUME PhantomAssumption == MaxPhantom \in Nat

Commands == {"line", "M114", "M105"}
Lines == {"ok", "error", "other", "pos", "temp"}
Status == {"pos", "temp"}

VARIABLES
    helping, int_state, oks, is_resp_handled, out_access, msg_buffer,
    stat_pos_or_temp,   \* which status is asked for next
    result,
    toDev, fromDev,     \* the line, both ways
    sent, chat,
    cut,                \* history: a status line was counted without an answer
    lost                \* history: an answer was thrown away uncounted

vars == << helping, int_state, oks, is_resp_handled, out_access, msg_buffer,
           stat_pos_or_temp, result, toDev, fromDev, sent, chat, cut, lost >>

\* The port has just been opened and help() wrote "M115".
Init ==
    /\ helping = TRUE /\ int_state = "s" /\ oks = 1 /\ is_resp_handled = FALSE
    /\ out_access = FALSE /\ msg_buffer = << >> /\ stat_pos_or_temp = TRUE
    /\ result = "none" /\ toDev = << "line" >> /\ fromDev = << >>
    /\ sent = 1 /\ chat = 0 /\ cut = FALSE /\ lost = FALSE

AnswersIn(s) == Count(s, {"ok", "error", "temp"})

\* Commands whose answer has not been counted.
Owed == Len(toDev) + AnswersIn(fromDev) + AnswersIn(msg_buffer)

-----------------------------------------------------------------------------
(* Reading. *)

\* A temperature line begins with "ok" too: the loop counts it like one.
LeadingOks(lst) ==
    Cardinality({i \in 1..Len(lst) : \A j \in 1..i : lst[j] \in {"ok", "temp"}})
Least(a, b) == IF a <= b THEN a ELSE b
From(s, i) == SubSeq(s, i, Len(s))

\* What read() makes of the lines it has: its result, the answers it counts,
\* and what it leaves in msg_buffer.
Outcome(k, n, rest) == [kind |-> k, oks |-> n, rest |-> rest]
ParseFree(lst) ==
    CASE lst = << >> -> Outcome("none", 0, msg_buffer)
      [] lst # << >> /\ lst[1] \in Status -> Outcome(lst[1], 0, msg_buffer)
      [] lst # << >> /\ lst[1] = "error" -> Outcome("error", 1, From(lst, 2))
      [] lst # << >> /\ lst[1] \in {"ok", "other"} ->
            Outcome(lst[1], LeadingOks(lst), From(lst, LeadingOks(lst) + 2))
ParseGreedy(lst) ==
    CASE lst = << >> -> Outcome("none", 0, msg_buffer)
      [] lst # << >> /\ lst[1] \in Status -> Outcome(lst[1], 1, msg_buffer)
      [] lst # << >> /\ lst[1] = "error" -> Outcome("error", 1, From(lst, 2))
      [] lst # << >> /\ lst[1] \in {"ok", "other"} ->
            Outcome(lst[1], AnswersIn(lst), From(lst, LeadingOks(lst) + 2))
Parse(lst) ==
    CASE lst = << >> -> Outcome("none", 0, msg_buffer)
      [] lst # << >> /\ lst[1] \in Status -> Outcome(lst[1], 1, msg_buffer)
      [] lst # << >> /\ lst[1] = "error" -> Outcome("error", 1, From(lst, 2))
      [] lst # << >> /\ lst[1] \in {"ok", "other"} ->
            Outcome(lst[1], LeadingOks(lst), From(lst, LeadingOks(lst) + 2))

HasOk(p) == p.kind \in Status \/ p.kind = "ok"

\* calc_mk_status: the status has no RX field, every answer must have come.
HandledEarly(n) == is_resp_handled \/ n <= 1
Handled(n) == is_resp_handled \/ n < 1

\* An answer behind the first of a read that begins with a status line, or an
\* error that ends a run of oks, is neither counted nor put back.
Drops(lst, burst) ==
    \/ lst[1] \in Status /\ AnswersIn(burst) > 1
    \/ lst[1] \in {"ok", "temp"} /\ LeadingOks(lst) < Len(lst)
       /\ lst[LeadingOks(lst) + 1] = "error"

\* One read() of a burst; status_parse() turns to the other kind of status.
ReadLines(burst) ==
    LET lst == msg_buffer \o burst
        p == Parse(lst)
        n == oks - p.oks
    IN /\ n >= -MaxPhantom
       /\ msg_buffer' = p.rest /\ oks' = n /\ result' = p.kind
       /\ is_resp_handled' = Handled(n) /\ out_access' = (Handled(n) /\ HasOk(p))
       /\ cut' = (cut \/ (p.kind \in Status
                          /\ (msg_buffer # << >> \/ AnswersIn(burst) = 0)))
       /\ lost' = (lost \/ (lst # << >> /\ Drops(lst, burst)))

\* PORT:read returns what has arrived, up to the first pause in the stream.
Burst(k) ==
    /\ k \in 0..Len(fromDev) /\ (fromDev # << >> => k > 0)
    /\ ReadLines(SubSeq(fromDev, 1, k))
    /\ fromDev' = From(fromDev, k + 1)
    /\ UNCHANGED << toDev, sent, chat >>

\* The sender's turn to read: cnc_read_parse().
Read(k) ==
    /\ ~helping /\ int_state \in {"r", "rs"}
    /\ Burst(k)
    /\ stat_pos_or_temp' = IF result' \in Status THEN ~stat_pos_or_temp
                           ELSE stat_pos_or_temp
    /\ int_state' \in IF result' = "none" /\ int_state = "r" /\ sent < MaxSent
                      THEN {"s", "m"} ELSE {"m"}
    /\ UNCHANGED helping

\* help() reads until a line comes, and parses no status.
Help(k) ==
    /\ helping
    /\ Burst(k)
    /\ helping' = (result' = "none")
    /\ UNCHANGED << int_state, stat_pos_or_temp >>

-----------------------------------------------------------------------------
(* Writing. *)

Send(what) ==
    /\ toDev' = Append(toDev, what)
    /\ out_access' = FALSE /\ is_resp_handled' = FALSE /\ oks' = oks + 1
    /\ sent' = sent + 1
    /\ UNCHANGED << helping, fromDev, msg_buffer, stat_pos_or_temp, result,
                    chat, cut, lost >>
SendNothing ==
    UNCHANGED << helping, oks, is_resp_handled, out_access, msg_buffer,
                 stat_pos_or_temp, result, toDev, fromDev, sent, chat, cut, lost >>

\* Only the position is asked for within oks_max.
StatusQuery ==
    /\ ~helping /\ int_state = "s" /\ int_state' = "rs"
    /\ IF sent >= MaxSent \/ (stat_pos_or_temp /\ oks >= OksMax) THEN SendNothing
       ELSE Send(IF stat_pos_or_temp THEN "M114" ELSE "M105")

\* The sender has a line to send and access to send it, or goes on reading.
SendLine ==
    /\ ~helping /\ int_state = "m" /\ out_access /\ sent < MaxSent
    /\ int_state' = "r" /\ Send("line")
NoLine == ~helping /\ int_state = "m" /\ int_state' = "r" /\ SendNothing

-----------------------------------------------------------------------------
(* The machine (external). *)

Emit(ls) ==
    /\ fromDev' = fromDev \o ls
    /\ UNCHANGED << helping, int_state, oks, is_resp_handled, out_access,
                    msg_buffer, stat_pos_or_temp, result, sent, cut, lost >>

\* The position line leaves before its "ok".
DevPosition ==
    /\ toDev # << >> /\ Head(toDev) = "M114"
    /\ toDev' = << "line" >> \o Tail(toDev) /\ Emit(<< "pos" >>) /\ UNCHANGED chat
DevAnswer ==
    /\ toDev # << >> /\ toDev' = Tail(toDev)
    /\ \/ Head(toDev) = "M105" /\ Emit(<< "temp" >>)
       \/ Head(toDev) = "line" /\ \E l \in Answers : Emit(<< l >>)
    /\ UNCHANGED chat
DevChat ==
    /\ chat < MaxChat /\ chat' = chat + 1 /\ Emit(<< "other" >>) /\ UNCHANGED toDev

-----------------------------------------------------------------------------
Reads == \E k \in 0..Len(fromDev) : Read(k) \/ Help(k)
Writes == StatusQuery \/ SendLine \/ NoLine
Machine == DevPosition \/ DevAnswer \/ DevChat

Next == Reads \/ Writes \/ Machine

\* The sender's loop goes round and the machine answers in the end.
LiveSpec == Init /\ [][Next]_vars /\ WF_vars(Reads) /\ WF_vars(Writes)
                 /\ WF_vars(DevPosition) /\ WF_vars(DevAnswer)

-----------------------------------------------------------------------------
(* What the link promises. *)

\* As long as no position line was read apart from its "ok" and none got to
\* the head of msg_buffer, the machine is given one command at a time: while a
\* line may be written no earlier command is unanswered, however the answers
\* were cut into reads.
OneAtATime == ~cut => oks >= Owed /\ (out_access => Owed = 0)

\* Every command counts as answered in the end, so that the next read with an
\* ok gives access to write again, unless an answer was thrown away (Drops):
\* the count then stays above what the machine owes, and nothing is ever sent.
CommandsSettle == oks > 0 ~> (is_resp_handled \/ lost)

=============================================================================
