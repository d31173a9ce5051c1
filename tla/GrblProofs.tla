------------------------------ MODULE GrblProofs ------------------------------
(***************************************************************************)
(* What holds of the Grbl link for every machine and every limit: its      *)
(* types, the bound on the commands waiting in the machine, and stop and   *)
(* wait (Link) where status lines have no RX field and the port is open    *)
(* once.                                                                   *)
(***************************************************************************)
EXTENDS GrblLink, TLAPS, FiniteSetTheorems, FunctionTheorems, SequenceTheorems

USE OksMaxAssumption

\* The count of leading "ok"s is a number.
LEMMA LeadingOksType ==
    ASSUME NEW lst \in Seq(Lines)
    PROVE  LeadingOks(lst) \in Nat
<1> DEFINE S == {i \in 1..Len(lst) : \A j \in 1..i : lst[j] = "ok"}
<1>1. IsFiniteSet(1..Len(lst)) BY FS_Interval
<1>2. IsFiniteSet(S) BY <1>1, FS_Subset
<1>3. Cardinality(S) \in Nat BY <1>2, FS_CardinalityType
<1> QED BY <1>3 DEF LeadingOks

\* What read() makes of any lines: a kind, and numbers of answers and of lines.
LEMMA ParseType ==
    ASSUME NEW lst \in Seq(Lines)
    PROVE  /\ Parse(lst).kind \in Lines \cup {"none"}
           /\ Parse(lst).oks \in Nat
           /\ Parse(lst).used \in Nat
<1>1. CASE lst = << >> BY <1>1 DEF Parse, Outcome
<1>2. CASE lst # << >>
  <2>1. Len(lst) \in Nat /\ Len(lst) > 0 BY <1>2
  <2>2. lst[1] \in Lines BY <2>1
  <2>3. CASE lst[1] \in {"stat", "roomy", "tight"}
        BY <1>2, <2>3 DEF Parse, Outcome, Lines
  <2>4. CASE lst[1] = "error" BY <1>2, <2>4 DEF Parse, Outcome, Lines
  <2>5. CASE lst[1] = "other" BY <1>2, <2>5 DEF Parse, Outcome, Lines
  <2>6. CASE lst[1] = "ok"
    <3>1. LeadingOks(lst) \in Nat BY LeadingOksType
    <3>2. Parse(lst) = Outcome("ok", LeadingOks(lst),
                               Least(LeadingOks(lst) + 1, Len(lst)))
          BY <1>2, <2>6 DEF Parse
    <3>3. Least(LeadingOks(lst) + 1, Len(lst)) \in Nat BY <3>1, <2>1 DEF Least
    <3> QED BY <3>1, <3>2, <3>3 DEF Outcome, Lines
  <2> QED BY <2>2, <2>3, <2>4, <2>5, <2>6, ReportsAssumption DEF Lines
<1> QED BY <1>1, <1>2

\* A piece of a sequence of lines is a sequence of lines.
LEMMA PieceType ==
    ASSUME NEW S, NEW s \in Seq(S), NEW m \in Nat, NEW n \in 0..Len(s), m > 0
    PROVE  SubSeq(s, m, n) \in Seq(S)
OBVIOUS

-----------------------------------------------------------------------------
(* Types. *)

LEMMA BurstTypes ==
    ASSUME TypeOK, NEW k \in 0..Len(fromDev), Burst(k)
    PROVE  /\ msg_buffer' \in Seq(Lines) /\ fromDev' \in Seq(Lines)
           /\ oks' \in Int /\ result' \in Lines \cup {"none"}
           /\ is_resp_handled' \in BOOLEAN /\ out_access' \in BOOLEAN
           /\ Flags(Parse(msg_buffer \o SubSeq(fromDev, 1, k)))
                 \in {"stat"} \cup Reports
<1> DEFINE b == SubSeq(fromDev, 1, k)
           lst == msg_buffer \o b
           p == Parse(lst)
<1>1. fromDev \in Seq(Lines) /\ msg_buffer \in Seq(Lines) BY DEF TypeOK
<1>2. b \in Seq(Lines) BY <1>1, PieceType
<1>3. lst \in Seq(Lines) BY <1>1, <1>2
<1>4. p.kind \in Lines \cup {"none"} /\ p.oks \in Nat /\ p.used \in Nat
      BY <1>3, ParseType
<1> HIDE DEF p, lst, b
<1>5. ReadLines(b) /\ fromDev' = SubSeq(fromDev, k + 1, Len(fromDev))
      BY DEF Burst, b
<1>6. fromDev' \in Seq(Lines)
  <2>1. k + 1 \in Nat /\ k + 1 > 0 /\ Len(fromDev) \in 0..Len(fromDev) BY <1>1
  <2> QED BY <2>1, <1>1, <1>5, PieceType
<1>7. msg_buffer' \in Seq(Lines)
  <2>1. msg_buffer' = SubSeq(lst, p.used + 1, Len(lst))
        BY <1>5 DEF ReadLines, p, lst
  <2>2. p.used + 1 \in Nat /\ p.used + 1 > 0 /\ Len(lst) \in 0..Len(lst)
        BY <1>3, <1>4
  <2> QED BY <2>1, <2>2, <1>3, PieceType
<1>8. oks' = oks - p.oks /\ result' = p.kind BY <1>5 DEF ReadLines, p, lst
<1>9. oks' \in Int /\ result' \in Lines \cup {"none"}
      BY <1>4, <1>8 DEF TypeOK
<1>10. is_resp_handled' = Handled(oks - p.oks)
       /\ out_access' = Access(p, oks - p.oks)
       BY <1>5 DEF ReadLines, p, lst
<1>11. is_resp_handled \in BOOLEAN BY DEF TypeOK
<1>12. Handled(oks - p.oks) \in BOOLEAN
  <2>1. CASE mk_flags = "stat" BY <2>1, <1>11 DEF Handled
  <2>2. CASE mk_flags # "stat" BY <2>2, <1>11 DEF Handled
  <2> QED BY <2>1, <2>2
<1>13. Access(p, oks - p.oks) \in BOOLEAN BY <1>12 DEF Access, HasOk
<1>14. Flags(p) \in {"stat"} \cup Reports
  <2>1. mk_flags \in {"stat"} \cup Reports BY DEF TypeOK
  <2>2. p.kind \in {"stat", "roomy", "tight"} => p.kind \in Reports \cup {"stat"}
        BY <1>4 DEF Lines
  <2> QED BY <2>1, <2>2 DEF Flags
<1> QED BY <1>6, <1>7, <1>9, <1>10, <1>12, <1>13, <1>14 DEF p, lst, b

LEMMA CommandLists ==
    /\ << "line" >> \in Seq(Commands)
    /\ \A s \in Seq(Commands), c \in Commands : Append(s, c) \in Seq(Commands)
<1>1. "line" \in Commands BY DEF Commands
<1> QED BY <1>1

LEMMA TypeInit == Init => TypeOK
<1> SUFFICES ASSUME Init PROVE TypeOK OBVIOUS
<1>1. toDev \in Seq(Commands) BY CommandLists DEF Init
<1>2. fromDev \in Seq(Lines) /\ msg_buffer \in Seq(Lines) BY DEF Init
<1>3. helping \in BOOLEAN /\ is_resp_handled \in BOOLEAN
      /\ out_access \in BOOLEAN /\ asked \in BOOLEAN BY DEF Init
<1>4. /\ int_state \in {"s", "r", "rs", "m"}
      /\ mk_flags \in {"stat"} \cup Reports
      /\ result \in Lines \cup {"none"}
      BY DEF Init
<1>5. oks \in Int /\ sent \in Nat /\ chat \in Nat /\ sessions \in Nat
      BY DEF Init
<1> QED BY <1>1, <1>2, <1>3, <1>4, <1>5 DEF TypeOK

LEMMA SendTypes ==
    ASSUME TypeOK, NEW c \in Commands, Send(c), asked' \in BOOLEAN,
           int_state' \in {"s", "r", "rs", "m"}
    PROVE  TypeOK'
<1>1. toDev' \in Seq(Commands) BY CommandLists DEF Send, TypeOK
<1>2. fromDev' \in Seq(Lines) /\ msg_buffer' \in Seq(Lines)
      BY DEF Send, TypeOK
<1>3. /\ helping' \in BOOLEAN /\ is_resp_handled' \in BOOLEAN
      /\ out_access' \in BOOLEAN
      BY DEF Send, TypeOK
<1>4. /\ mk_flags' \in {"stat"} \cup Reports
      /\ result' \in Lines \cup {"none"}
      BY DEF Send, TypeOK
<1>5. oks' \in Int /\ sent' \in Nat /\ chat' \in Nat /\ sessions' \in Nat
      BY DEF Send, TypeOK
<1> QED BY <1>1, <1>2, <1>3, <1>4, <1>5 DEF TypeOK

LEMMA TypeNext == TypeOK /\ [Next]_vars => TypeOK'
<1> SUFFICES ASSUME TypeOK, [Next]_vars PROVE TypeOK' OBVIOUS
<1> USE DEF ctl, dev, vars
<1>1. ASSUME NEW k \in 0..Len(fromDev), Read(k) PROVE TypeOK'
  <2>1. Burst(k) BY <1>1 DEF Read
  <2>2. int_state' \in {"s", "m"} /\ helping' = helping
        BY <1>1 DEF Read
  <2>3. mk_flags' \in {"stat"} \cup Reports BY <1>1, <2>1, BurstTypes DEF Read
  <2> QED BY <2>1, <2>2, <2>3, BurstTypes DEF Burst, TypeOK
<1>2. ASSUME NEW k \in 0..Len(fromDev), Help(k) PROVE TypeOK'
  <2>1. Burst(k) BY <1>2 DEF Help
  <2>2. helping' \in BOOLEAN /\ UNCHANGED << int_state, mk_flags >>
        BY <1>2 DEF Help
  <2> QED BY <2>1, <2>2, BurstTypes DEF Burst, TypeOK
<1>3. CASE StatusQuery
  <2>1. CASE oks < OksMax /\ sent < MaxSent
        BY <1>3, <2>1, SendTypes DEF StatusQuery, Commands
  <2>2. CASE ~(oks < OksMax /\ sent < MaxSent)
        BY <1>3, <2>2 DEF StatusQuery, TypeOK
  <2> QED BY <2>1, <2>2
<1>4. CASE SendLine
  <2>1. Send("line") /\ int_state' = "r" /\ asked' = asked BY <1>4 DEF SendLine
  <2>2. "line" \in Commands /\ asked' \in BOOLEAN BY <2>1 DEF Commands, TypeOK
  <2> QED BY <2>1, <2>2, SendTypes
<1>5. CASE NoLine BY <1>5 DEF NoLine, TypeOK
<1>6. CASE Open
  <2>1. PICK keep \in BOOLEAN :
           /\ toDev' = IF keep THEN Append(toDev, "line") ELSE << "line" >>
           /\ fromDev' = IF keep THEN fromDev ELSE << >>
           /\ asked' = (keep /\ asked)
        BY <1>6 DEF Open
  <2>2. toDev \in Seq(Commands) /\ fromDev \in Seq(Lines) BY DEF TypeOK
  <2>3. /\ toDev' \in Seq(Commands) /\ fromDev' \in Seq(Lines)
        /\ asked' \in BOOLEAN
    <3>1. CASE keep
          BY <2>1, <2>2, <3>1, CommandLists DEF TypeOK, Commands
    <3>2. CASE ~keep BY <2>1, <3>2, CommandLists
    <3> QED BY <3>1, <3>2
  <2>4. /\ helping' = TRUE /\ oks' = 1 /\ out_access' = FALSE
        /\ is_resp_handled' = FALSE /\ sessions' = sessions + 1
        /\ sent' = sent + 1
        /\ UNCHANGED << int_state, msg_buffer, mk_flags, result, chat >>
        BY <1>6 DEF Open
  <2>5. /\ helping' \in BOOLEAN /\ is_resp_handled' \in BOOLEAN
        /\ out_access' \in BOOLEAN /\ int_state' \in {"s", "r", "rs", "m"}
        /\ mk_flags' \in {"stat"} \cup Reports
        /\ result' \in Lines \cup {"none"} /\ msg_buffer' \in Seq(Lines)
        BY <2>4 DEF TypeOK
  <2>6. oks' \in Int /\ sent' \in Nat /\ chat' \in Nat /\ sessions' \in Nat
        BY <2>4 DEF TypeOK
  <2> QED BY <2>3, <2>5, <2>6 DEF TypeOK
<1>7. CASE DevAnswer
  <2>1. \E l \in Lines : Emit(l)
        BY <1>7, AnswersAssumption DEF DevAnswer, Lines
  <2>2. fromDev' \in Seq(Lines) BY <2>1 DEF Emit, TypeOK
  <2>3. toDev' \in Seq(Commands) BY <1>7 DEF DevAnswer, TypeOK
  <2> QED BY <1>7, <2>2, <2>3 DEF DevAnswer, TypeOK
<1>8. CASE DevReport
  <2>1. \E l \in Lines : Emit(l)
        BY <1>8, ReportsAssumption DEF DevReport, Lines
  <2>2. fromDev' \in Seq(Lines) BY <2>1 DEF Emit, TypeOK
  <2> QED BY <1>8, <2>2 DEF DevReport, TypeOK
<1>9. CASE DevChat BY <1>9 DEF DevChat, Emit, Lines, TypeOK
<1>10. CASE UNCHANGED vars BY <1>10 DEF TypeOK
<1> QED BY <1>1, <1>2, <1>3, <1>4, <1>5, <1>6, <1>7, <1>8, <1>9, <1>10
        DEF Next, Reads, Writes

\* The count, the flags, the buffers and the line keep their types, whatever
\* the machine says and however its answers are cut (grbl/init.lua, read()).
THEOREM TypeCorrect == Spec => []TypeOK
<1> QED BY TypeInit, TypeNext, PTL DEF Spec

-----------------------------------------------------------------------------
(* The bound. *)

\* A read never raises the count, and gives access only when it lowers it.
LEMMA ReadPays ==
    ASSUME TypeOK, NEW k \in 0..Len(fromDev), Burst(k)
    PROVE  oks' <= oks /\ (out_access' => oks' < oks)
<1> DEFINE b == SubSeq(fromDev, 1, k)
           lst == msg_buffer \o b
           p == Parse(lst)
<1>1. fromDev \in Seq(Lines) /\ msg_buffer \in Seq(Lines) BY DEF TypeOK
<1>2. b \in Seq(Lines) BY <1>1, PieceType
<1>3. lst \in Seq(Lines) BY <1>1, <1>2
<1>4. p.oks \in Nat BY <1>3, ParseType
<1>5. oks' = oks - p.oks /\ out_access' = Access(p, oks - p.oks)
      BY DEF Burst, ReadLines
<1>6. out_access' => p.oks > 0 BY <1>5 DEF Access, HasOk
<1> HIDE DEF p
<1> QED BY <1>4, <1>5, <1>6 DEF TypeOK

LEMMA BoundInit == Init => QueueBounded
BY DEF Init, QueueBounded

LEMMA BoundNext == TypeOK /\ QueueBounded /\ [Next]_vars => QueueBounded'
<1> SUFFICES ASSUME TypeOK, QueueBounded, [Next]_vars PROVE QueueBounded'
    OBVIOUS
<1> USE DEF ctl, dev, vars
<1>1. ASSUME NEW k \in 0..Len(fromDev), Burst(k) PROVE QueueBounded'
  <2>1. oks' \in Int BY <1>1, BurstTypes
  <2>2. oks' <= oks /\ (out_access' => oks' < oks) BY <1>1, ReadPays
  <2> QED BY <2>1, <2>2 DEF QueueBounded, TypeOK
<1>2. ASSUME NEW k \in 0..Len(fromDev), Read(k) \/ Help(k) PROVE QueueBounded'
      BY <1>1, <1>2 DEF Read, Help
<1>3. CASE StatusQuery BY <1>3 DEF StatusQuery, Send, QueueBounded, TypeOK
<1>4. CASE SendLine BY <1>4 DEF SendLine, Send, QueueBounded, TypeOK
<1>5. CASE NoLine BY <1>5 DEF NoLine, QueueBounded
<1>6. CASE Open BY <1>6 DEF Open, QueueBounded
<1>7. CASE DevAnswer \/ DevReport \/ DevChat
      BY <1>7 DEF DevAnswer, DevReport, DevChat, QueueBounded
<1>8. CASE UNCHANGED vars BY <1>8 DEF QueueBounded
<1> QED BY <1>2, <1>3, <1>4, <1>5, <1>6, <1>7, <1>8 DEF Next, Reads, Writes

\* However the answers arrive, and however often the port is opened again, no
\* more than oks_max commands are counted as unanswered, and a line is written
\* only below that: only status_query() (grbl/init.lua:306) compares the two.
THEOREM QueueIsBounded == Spec => []QueueBounded
<1>1. TypeOK /\ QueueBounded /\ [Next]_vars => (TypeOK /\ QueueBounded)'
      BY TypeNext, BoundNext
<1> QED BY <1>1, TypeInit, BoundInit, PTL DEF Spec

-----------------------------------------------------------------------------
(* Counting answers. *)

IsAnswer(l) == l \in {"ok", "error"}
Places(s) == {i \in 1..Len(s) : IsAnswer(s[i])}

LEMMA AnswersAreCounted ==
    ASSUME NEW s \in Seq(Lines)
    PROVE  /\ IsFiniteSet(Places(s)) /\ AnswersIn(s) = Cardinality(Places(s))
           /\ AnswersIn(s) \in Nat
<1>1. IsFiniteSet(1..Len(s)) BY FS_Interval
<1>2. IsFiniteSet(Places(s)) BY <1>1, FS_Subset DEF Places
<1>3. AnswersIn(s) = Cardinality(Places(s)) BY DEF AnswersIn, Places, IsAnswer
<1> QED BY <1>2, <1>3, FS_CardinalityType

\* The answers in two stretches of lines, one after the other, add up.
LEMMA AnswersAdd ==
    ASSUME NEW s \in Seq(Lines), NEW t \in Seq(Lines)
    PROVE  AnswersIn(s \o t) = AnswersIn(s) + AnswersIn(t)
<1> DEFINE n == Len(s)
           far == {i \in (n + 1)..(n + Len(t)) : IsAnswer(t[i - n])}
           shift == [i \in Places(t) |-> i + n]
<1>1. n \in Nat /\ Len(t) \in Nat OBVIOUS
<1>2. s \o t \in Seq(Lines) /\ Len(s \o t) = n + Len(t) OBVIOUS
<1>3. \A i \in 1..(n + Len(t)) :
         (s \o t)[i] = IF i <= n THEN s[i] ELSE t[i - n]
      BY ConcatProperties
<1>4. Places(s \o t) = Places(s) \cup far
  <2>1. ASSUME NEW i \in 1..(n + Len(t))
        PROVE  i \in Places(s \o t) <=> i \in Places(s) \cup far
    <3>1. CASE i <= n BY <1>1, <1>2, <1>3, <3>1 DEF Places
    <3>2. CASE i > n BY <1>1, <1>2, <1>3, <3>2 DEF Places
    <3> QED BY <3>1, <3>2, <1>1
  <2>2. Places(s \o t) \subseteq 1..(n + Len(t)) BY <1>2 DEF Places
  <2>3. Places(s) \cup far \subseteq 1..(n + Len(t)) BY <1>1 DEF Places
  <2> QED BY <2>1, <2>2, <2>3
<1>5. Places(s) \cap far = {} BY <1>1 DEF Places
<1>6. shift \in Bijection(Places(t), far)
  <2>1. shift \in [Places(t) -> far] BY <1>1 DEF Places
  <2>2. \A a, b \in Places(t) : shift[a] = shift[b] => a = b
        BY <1>1 DEF Places
  <2>3. \A j \in far : \E i \in Places(t) : shift[i] = j
    <3>1. TAKE j \in far
    <3>2. j - n \in Places(t) /\ shift[j - n] = j BY <1>1 DEF Places
    <3> QED BY <3>2
  <2> HIDE DEF shift, far
  <2> QED BY <2>1, <2>2, <2>3, Fun_IsBij
<1>7. IsFiniteSet(far) /\ Cardinality(far) = Cardinality(Places(t))
  <2>1. IsFiniteSet(Places(t)) BY AnswersAreCounted
  <2>2. ExistsBijection(Places(t), far) BY <1>6, Fun_ExistsBij
  <2> HIDE DEF far
  <2> QED BY <2>1, <2>2, FS_Bijection
<1>8. Cardinality(Places(s) \cup far) = Cardinality(Places(s)) + Cardinality(far)
  <2>1. IsFiniteSet(Places(s)) /\ Cardinality(Places(s)) \in Nat
        BY AnswersAreCounted
  <2>2. Cardinality(far) \in Nat BY <1>7, FS_CardinalityType
  <2> HIDE DEF far
  <2>3. Cardinality(Places(s) \cap far) = 0 BY <1>5, FS_EmptySet
  <2>4. Cardinality(Places(s) \cup far) =
           Cardinality(Places(s)) + Cardinality(far)
              - Cardinality(Places(s) \cap far)
        BY <2>1, <1>7, FS_Union
  <2> QED BY <2>1, <2>2, <2>3, <2>4
<1> QED BY <1>2, <1>4, <1>7, <1>8, AnswersAreCounted

LEMMA AnswersAppend ==
    ASSUME NEW s \in Seq(Lines), NEW l \in Lines
    PROVE  AnswersIn(Append(s, l)) = AnswersIn(s) + IF IsAnswer(l) THEN 1 ELSE 0
<1>1. << l >> \in Seq(Lines) /\ Append(s, l) = s \o << l >> OBVIOUS
<1>2. AnswersIn(<< l >>) = IF IsAnswer(l) THEN 1 ELSE 0
  <2>1. CASE IsAnswer(l)
    <3>1. Places(<< l >>) = {1} BY <2>1 DEF Places
    <3> QED BY <2>1, <3>1, <1>1, AnswersAreCounted, FS_Singleton
  <2>2. CASE ~IsAnswer(l)
    <3>1. Places(<< l >>) = {} BY <2>2 DEF Places
    <3> QED BY <2>2, <3>1, <1>1, AnswersAreCounted, FS_EmptySet
  <2> QED BY <2>1, <2>2
<1> QED BY <1>1, <1>2, AnswersAdd

\* Cutting lines at u leaves the answers on both sides.
LEMMA AnswersCut ==
    ASSUME NEW s \in Seq(Lines), NEW u \in 0..Len(s)
    PROVE  AnswersIn(s) = AnswersIn(SubSeq(s, 1, u))
                          + AnswersIn(SubSeq(s, u + 1, Len(s)))
<1>1. SubSeq(s, 1, u) \in Seq(Lines) BY PieceType
<1>2. SubSeq(s, u + 1, Len(s)) \in Seq(Lines)
  <2>1. u + 1 \in Nat /\ u + 1 > 0 /\ Len(s) \in 0..Len(s) OBVIOUS
  <2> QED BY <2>1, PieceType
<1>3. s = SubSeq(s, 1, u) \o SubSeq(s, u + 1, Len(s))
  <2>1. SubSeq(s, 1, Len(s)) = s BY SubSeqFull
  <2>2. 1 \in 1..(Len(s) + 1) /\ u \in (1 - 1)..Len(s)
        /\ Len(s) \in u..Len(s) OBVIOUS
  <2> QED BY <2>1, <2>2, ConcatAdjacentSubSeq
<1> QED BY <1>1, <1>2, <1>3, AnswersAdd

\* The leading "ok"s lie within their number: they are the first ones.
LEMMA LeadingOksFirst ==
    ASSUME NEW lst \in Seq(Lines),
           NEW i \in 1..Len(lst), \A j \in 1..i : lst[j] = "ok"
    PROVE  i <= LeadingOks(lst)
<1> DEFINE S == {k \in 1..Len(lst) : \A j \in 1..k : lst[j] = "ok"}
<1>1. IsFiniteSet(1..Len(lst)) BY FS_Interval
<1>2. IsFiniteSet(S) BY <1>1, FS_Subset
<1>3. 1..i \subseteq S OBVIOUS
<1>4. Cardinality(1..i) = i BY FS_Interval
<1>5. Cardinality(1..i) <= Cardinality(S) BY <1>2, <1>3, FS_Subset
<1> QED BY <1>4, <1>5 DEF LeadingOks

\* read() counts no more answers than the lines it uses up hold.
LEMMA ParseCovers ==
    ASSUME NEW lst \in Seq(Lines)
    PROVE  /\ Parse(lst).used \in 0..Len(lst)
           /\ Parse(lst).oks <= AnswersIn(SubSeq(lst, 1, Parse(lst).used))
<1> DEFINE pre(u) == SubSeq(lst, 1, u)
<1>0. ASSUME NEW u \in 0..Len(lst)
      PROVE  /\ pre(u) \in Seq(Lines) /\ Len(pre(u)) = u
             /\ \A i \in 1..u : pre(u)[i] = lst[i]
             /\ IsFiniteSet(Places(pre(u)))
             /\ AnswersIn(pre(u)) = Cardinality(Places(pre(u)))
             /\ AnswersIn(pre(u)) \in Nat
  <2>1. pre(u) \in Seq(Lines) BY PieceType
  <2>2. Len(pre(u)) = u /\ \A i \in 1..u : pre(u)[i] = lst[i]
        BY SubSeqProperties
  <2> HIDE DEF pre
  <2> QED BY <2>1, <2>2, AnswersAreCounted
<1>1. ASSUME NEW u \in 0..Len(lst), NEW S, S \subseteq Places(pre(u))
      PROVE  Cardinality(S) <= AnswersIn(pre(u))
  <2>1. IsFiniteSet(Places(pre(u)))
        /\ AnswersIn(pre(u)) = Cardinality(Places(pre(u))) BY <1>0
  <2> HIDE DEF pre
  <2> QED BY <2>1, <1>1, FS_Subset
<1>2. ASSUME NEW u \in 0..Len(lst), NEW i \in 1..u, IsAnswer(lst[i])
      PROVE  1 <= AnswersIn(pre(u))
  <2>1. i \in Places(pre(u)) BY <1>0, <1>2 DEF Places
  <2>2. {i} \subseteq Places(pre(u)) BY <2>1
  <2>3. Cardinality({i}) = 1 BY FS_Singleton
  <2> HIDE DEF pre
  <2> QED BY <2>2, <2>3, <1>1
<1>3. CASE lst = << >>
  <2>1. Parse(lst).used = 0 /\ Parse(lst).oks = 0 BY <1>3 DEF Parse, Outcome
  <2>2. 0 \in 0..Len(lst) OBVIOUS
  <2> QED BY <2>1, <2>2, <1>0
<1>4. CASE lst # << >>
  <2>1. Len(lst) \in Nat /\ Len(lst) > 0 /\ lst[1] \in Lines BY <1>4
  <2>2. CASE lst[1] \in {"stat", "roomy", "tight"}
    <3>1. CASE Len(lst) > 1 /\ lst[2] = "ok"
      <4>1. Parse(lst).used = 2 /\ Parse(lst).oks = 1
            BY <1>4, <2>2, <3>1 DEF Parse, Outcome
      <4>2. 2 \in 0..Len(lst) /\ 2 \in 1..2 /\ IsAnswer(lst[2])
            BY <2>1, <3>1 DEF IsAnswer
      <4>3. 1 <= AnswersIn(pre(2)) BY <4>2, <1>2
      <4> QED BY <4>1, <4>2, <4>3
    <3>2. CASE ~(Len(lst) > 1 /\ lst[2] = "ok")
      <4>1. Parse(lst).used = 1 /\ Parse(lst).oks = 0
            BY <1>4, <2>2, <3>2 DEF Parse, Outcome
      <4>2. 1 \in 0..Len(lst) BY <2>1
      <4>3. AnswersIn(pre(1)) \in Nat BY <4>2, <1>0
      <4> QED BY <4>1, <4>2, <4>3
    <3> QED BY <3>1, <3>2
  <2>3. CASE lst[1] = "error"
    <3>1. Parse(lst).used = 1 /\ Parse(lst).oks = 1
          BY <1>4, <2>3 DEF Parse, Outcome
    <3>2. 1 \in 0..Len(lst) /\ 1 \in 1..1 /\ IsAnswer(lst[1])
          BY <2>1, <2>3 DEF IsAnswer
    <3>3. 1 <= AnswersIn(pre(1)) BY <3>2, <1>2
    <3> QED BY <3>1, <3>2, <3>3
  <2>4. CASE lst[1] = "other"
    <3>1. Parse(lst).used = 1 /\ Parse(lst).oks = 0
          BY <1>4, <2>4 DEF Parse, Outcome
    <3>2. 1 \in 0..Len(lst) BY <2>1
    <3>3. AnswersIn(pre(1)) \in Nat BY <3>2, <1>0
    <3> QED BY <3>1, <3>2, <3>3
  <2>5. CASE lst[1] = "ok"
    <3> DEFINE n == LeadingOks(lst)
               u == Least(n + 1, Len(lst))
               S == {i \in 1..Len(lst) : \A j \in 1..i : lst[j] = "ok"}
    <3>1. Parse(lst).used = u /\ Parse(lst).oks = n
          BY <1>4, <2>5 DEF Parse, Outcome
    <3>2. n \in Nat BY LeadingOksType
    <3>3. u \in 0..Len(lst) BY <2>1, <3>2 DEF Least
    <3>4. S \subseteq Places(pre(u))
      <4>1. SUFFICES ASSUME NEW i \in S PROVE i \in Places(pre(u)) OBVIOUS
      <4>2. i \in 1..Len(lst) /\ lst[i] = "ok" /\ \A j \in 1..i : lst[j] = "ok"
            OBVIOUS
      <4>3. i <= n BY <4>2, LeadingOksFirst
      <4>4. i \in 1..u BY <2>1, <3>2, <4>2, <4>3 DEF Least
      <4> HIDE DEF u, S
      <4> QED BY <1>0, <3>3, <4>2, <4>4 DEF Places, IsAnswer
    <3>5. Cardinality(S) = n BY DEF LeadingOks
    <3> HIDE DEF u, S, n
    <3>6. n <= AnswersIn(pre(u)) BY <3>3, <3>4, <3>5, <1>1
    <3> QED BY <3>1, <3>3, <3>6
  <2> QED BY <2>1, <2>2, <2>3, <2>4, <2>5, ReportsAssumption DEF Lines
<1> QED BY <1>3, <1>4

-----------------------------------------------------------------------------
(* The account of the answers. *)

LEMMA OwedType ==
    /\ TypeOK => Owed \in Nat
    /\ TypeOK' => Owed' \in Nat
<1>1. TypeOK => Owed \in Nat BY AnswersAreCounted DEF TypeOK, Owed
<1>2. ASSUME TypeOK' PROVE Owed' \in Nat
  <2>1. /\ fromDev' \in Seq(Lines) /\ msg_buffer' \in Seq(Lines)
        /\ toDev' \in Seq(Commands)
        BY <1>2 DEF TypeOK
  <2>2. AnswersIn(fromDev') \in Nat /\ AnswersIn(msg_buffer') \in Nat
        /\ Len(toDev') \in Nat
        BY <2>1, AnswersAreCounted
  <2>3. Owed' = Len(toDev') + AnswersIn(fromDev') + AnswersIn(msg_buffer')
        BY DEF Owed, AnswersIn
  <2> QED BY <2>2, <2>3
<1> QED BY <1>1, <1>2

\* Sums, for the steps whose terms are states.
LEMMA StillCovers ==
    \A n, n1, o, o1 \in Int : n1 + o >= n + o1 /\ n >= o => n1 >= o1
OBVIOUS

LEMMA Regroup ==
    \A a, b, c \in Int : /\ (a + b) + c = a + (b + c)
                         /\ (a + b) + c = b + (c + a)
                         /\ a + (b + c) = (a + c) + b
OBVIOUS

LEMMA CountTakenOff ==
    \A n, o, o1, a, c, n1 \in Int :
       o = o1 + a /\ c <= a /\ n1 = n - c => n1 + o >= n + o1
OBVIOUS

\* A read takes as much off the count as off what is owed, or less, and adds
\* nothing to what is owed.
LEMMA ReadAccounts ==
    ASSUME TypeOK, NEW k \in 0..Len(fromDev), Burst(k)
    PROVE  oks' + Owed >= oks + Owed' /\ Owed' <= Owed
<1> DEFINE b == SubSeq(fromDev, 1, k)
           rest == SubSeq(fromDev, k + 1, Len(fromDev))
           lst == msg_buffer \o b
           p == Parse(lst)
           pre == SubSeq(lst, 1, p.used)
           keep == SubSeq(lst, p.used + 1, Len(lst))
<1>1. fromDev \in Seq(Lines) /\ msg_buffer \in Seq(Lines)
      /\ toDev \in Seq(Commands) BY DEF TypeOK
<1>2. b \in Seq(Lines) BY <1>1, PieceType
<1>3. rest \in Seq(Lines)
  <2>1. k + 1 \in Nat /\ k + 1 > 0 /\ Len(fromDev) \in 0..Len(fromDev) BY <1>1
  <2> QED BY <2>1, <1>1, PieceType
<1>4. lst \in Seq(Lines) BY <1>1, <1>2
<1>5. p.used \in 0..Len(lst) /\ p.oks <= AnswersIn(pre)
      BY <1>4, ParseCovers
<1>6. p.oks \in Nat BY <1>4, ParseType
<1>7. pre \in Seq(Lines)
  <2> HIDE DEF lst, p
  <2> QED BY <1>4, <1>5, PieceType
<1>8. keep \in Seq(Lines)
  <2> HIDE DEF lst, p
  <2>1. p.used + 1 \in Nat /\ p.used + 1 > 0 /\ Len(lst) \in 0..Len(lst)
        BY <1>4, <1>5
  <2> QED BY <2>1, <1>4, PieceType
<1>9. AnswersIn(lst) = AnswersIn(msg_buffer) + AnswersIn(b)
      BY <1>1, <1>2, AnswersAdd
<1>10. AnswersIn(fromDev) = AnswersIn(b) + AnswersIn(rest)
      BY <1>1, AnswersCut
<1>11. AnswersIn(lst) = AnswersIn(pre) + AnswersIn(keep)
  <2> HIDE DEF lst, p
  <2> QED BY <1>4, <1>5, AnswersCut
<1>12. /\ oks' = oks - p.oks /\ msg_buffer' = keep /\ fromDev' = rest
       /\ toDev' = toDev
       BY DEF Burst, ReadLines
<1>13. Owed = Len(toDev) + AnswersIn(fromDev) + AnswersIn(msg_buffer)
       BY DEF Owed
<1>14. Owed' = Len(toDev) + AnswersIn(rest) + AnswersIn(keep)
       BY <1>12 DEF Owed
<1>15. oks \in Int /\ Len(toDev) \in Int BY <1>1 DEF TypeOK
<1>16. p.oks <= AnswersIn(pre) /\ oks' = oks - p.oks BY <1>5, <1>12
<1> HIDE DEF b, rest, lst, p, pre, keep
<1>17. /\ AnswersIn(msg_buffer) \in Int /\ AnswersIn(b) \in Int
       /\ AnswersIn(rest) \in Int /\ AnswersIn(pre) \in Int
       /\ AnswersIn(keep) \in Int /\ AnswersIn(fromDev) \in Int
       BY <1>1, <1>2, <1>3, <1>7, <1>8, AnswersAreCounted
<1>18. AnswersIn(msg_buffer) + AnswersIn(b) = AnswersIn(pre) + AnswersIn(keep)
       BY <1>9, <1>11
<1>19. AnswersIn(fromDev) + AnswersIn(msg_buffer)
          = (AnswersIn(rest) + AnswersIn(keep)) + AnswersIn(pre)
  <2>1. (AnswersIn(b) + AnswersIn(rest)) + AnswersIn(msg_buffer)
           = AnswersIn(rest) + (AnswersIn(msg_buffer) + AnswersIn(b))
        BY <1>17, Regroup
  <2>2. AnswersIn(rest) + (AnswersIn(pre) + AnswersIn(keep))
           = (AnswersIn(rest) + AnswersIn(keep)) + AnswersIn(pre)
        BY <1>17, Regroup
  <2> QED BY <1>10, <1>18, <2>1, <2>2
<1>20. Owed \in Int /\ Owed' \in Int BY <1>13, <1>14, <1>15, <1>17
<1>21. Owed = Owed' + AnswersIn(pre)
  <2>1. AnswersIn(rest) + AnswersIn(keep) \in Int BY <1>17
  <2>2. (Len(toDev) + AnswersIn(fromDev)) + AnswersIn(msg_buffer)
           = Len(toDev) + (AnswersIn(fromDev) + AnswersIn(msg_buffer))
        BY <1>15, <1>17, Regroup
  <2>3. (Len(toDev) + (AnswersIn(rest) + AnswersIn(keep))) + AnswersIn(pre)
           = Len(toDev) + ((AnswersIn(rest) + AnswersIn(keep)) + AnswersIn(pre))
        BY <1>15, <1>17, <2>1, Regroup
  <2>4. (Len(toDev) + AnswersIn(rest)) + AnswersIn(keep)
           = Len(toDev) + (AnswersIn(rest) + AnswersIn(keep))
        BY <1>15, <1>17, Regroup
  <2> QED BY <1>13, <1>14, <1>19, <2>2, <2>3, <2>4
<1>22. oks' \in Int /\ p.oks \in Int BY <1>6, <1>15, <1>16
<1>23. AnswersIn(pre) \in Nat BY <1>7, AnswersAreCounted
<1>24. Owed' <= Owed
  <2>1. \A o, o1 \in Int, a \in Nat : o = o1 + a => o1 <= o OBVIOUS
  <2> QED BY <1>20, <1>21, <1>23, <2>1
<1>25. oks' + Owed >= oks + Owed'
       BY <1>15, <1>16, <1>17, <1>20, <1>21, <1>22, CountTakenOff
<1> QED BY <1>24, <1>25

\* Writing a command adds one to both sides.
LEMMA SendAccounts ==
    ASSUME TypeOK, NEW c \in Commands, Send(c)
    PROVE  oks' + Owed = oks + Owed' /\ Owed' = Owed + 1
<1>1. toDev \in Seq(Commands) /\ oks \in Int BY DEF TypeOK
<1>2. /\ toDev' = Append(toDev, c) /\ oks' = oks + 1
      /\ fromDev' = fromDev /\ msg_buffer' = msg_buffer
      BY DEF Send
<1>3. Len(toDev') = Len(toDev) + 1 BY <1>1, <1>2
<1>4. AnswersIn(fromDev)' = AnswersIn(fromDev)
      /\ AnswersIn(msg_buffer)' = AnswersIn(msg_buffer)
      BY <1>2 DEF AnswersIn
<1>5. Owed' = Owed + 1
      BY <1>1, <1>3, <1>4, AnswersAreCounted DEF Owed, TypeOK
<1>6. oks' + Owed = oks + Owed' BY <1>1, <1>2, <1>5, OwedType
<1> QED BY <1>5, <1>6

\* The machine's own steps: an answer moves from toDev to fromDev, and any
\* other line counts for nothing.
LEMMA MachineAccounts ==
    ASSUME TypeOK, DevAnswer \/ DevReport \/ DevChat
    PROVE  Owed' = Owed /\ UNCHANGED << oks, sessions, mk_flags, out_access,
                                        is_resp_handled >>
<1>1. fromDev \in Seq(Lines) /\ toDev \in Seq(Commands) /\ msg_buffer \in Seq(Lines)
      BY DEF TypeOK
<1>2. AnswersIn(fromDev) \in Nat /\ AnswersIn(msg_buffer) \in Nat
      BY <1>1, AnswersAreCounted
<1>3. CASE DevAnswer
  <2>1. PICK l \in {"ok", "error"} : fromDev' = Append(fromDev, l)
        BY <1>3, AnswersAssumption DEF DevAnswer, Emit
  <2>2. AnswersIn(Append(fromDev, l)) = AnswersIn(fromDev) + 1
        BY <1>1, AnswersAppend DEF IsAnswer, Lines
  <2>3. AnswersIn(fromDev)' = AnswersIn(fromDev) + 1
        BY <2>1, <2>2 DEF AnswersIn
  <2>4. Len(toDev') = Len(toDev) - 1 /\ Len(toDev) \in Nat
        BY <1>1, <1>3 DEF DevAnswer
  <2>5. AnswersIn(msg_buffer)' = AnswersIn(msg_buffer)
        BY <1>3 DEF DevAnswer, ctl, AnswersIn
  <2> QED BY <1>2, <1>3, <2>3, <2>4, <2>5 DEF Owed, DevAnswer, ctl
<1>4. CASE DevReport \/ DevChat
  <2>1. PICK l \in Lines \ {"ok", "error"} : fromDev' = Append(fromDev, l)
        BY <1>4, ReportsAssumption DEF DevReport, DevChat, Emit, Lines
  <2>2. AnswersIn(Append(fromDev, l)) = AnswersIn(fromDev)
        BY <1>1, <1>2, AnswersAppend DEF IsAnswer
  <2>3. AnswersIn(fromDev)' = AnswersIn(fromDev)
        BY <2>1, <2>2 DEF AnswersIn
  <2>4. toDev' = toDev /\ AnswersIn(msg_buffer)' = AnswersIn(msg_buffer)
        BY <1>4 DEF DevReport, DevChat, ctl, AnswersIn
  <2> QED BY <1>4, <2>3, <2>4 DEF Owed, DevReport, DevChat, ctl
<1> QED BY <1>3, <1>4

\* While the port is open for the first time the count covers what is owed,
\* and the last command is taken for answered, without the RX field, only
\* when nothing is owed.
Account ==
    /\ sessions > 0
    /\ OksCoverOwed
    /\ Reports \subseteq {"stat"} =>
          /\ mk_flags = "stat"
          /\ (sessions = 1 /\ is_resp_handled) => oks < 1
          /\ out_access => is_resp_handled

LEMMA AccountInit == Init => Account
<1> SUFFICES ASSUME Init PROVE Account OBVIOUS
<1>1. Places(<< >>) = {} BY DEF Places
<1>2. << >> \in Seq(Lines) OBVIOUS
<1>3. AnswersIn(<< >>) = 0 BY <1>1, <1>2, AnswersAreCounted, FS_EmptySet
<1>4. Owed = 1 BY <1>3 DEF Init, Owed
<1> QED BY <1>4 DEF Init, Account, OksCoverOwed

LEMMA AccountNext == TypeOK /\ Account /\ [Next]_vars => Account'
<1> SUFFICES ASSUME TypeOK, Account, [Next]_vars PROVE Account' OBVIOUS
<1>0. TypeOK' BY TypeNext
<1>t. /\ oks \in Int /\ oks' \in Int /\ sessions \in Nat /\ sessions > 0
      /\ Owed \in Nat /\ Owed' \in Nat
      BY <1>0, OwedType DEF TypeOK, Account
<1>r. Reports \subseteq {"stat"} =>
         /\ mk_flags = "stat"
         /\ (sessions = 1 /\ is_resp_handled) => oks < 1
         /\ out_access => is_resp_handled
      BY DEF Account
<1>c. OksCoverOwed BY DEF Account
<1> USE DEF ctl, dev, vars
<1>1. ASSUME NEW k \in 0..Len(fromDev), Burst(k),
             mk_flags' = mk_flags
                \/ mk_flags' = Flags(Parse(msg_buffer \o SubSeq(fromDev, 1, k)))
      PROVE  Account'
  <2>1. oks' + Owed >= oks + Owed' BY <1>1, ReadAccounts
  <2>2. sessions' = sessions BY <1>1 DEF Burst
  <2>3. OksCoverOwed'
    <3>1. SUFFICES ASSUME sessions' = 1 PROVE oks' >= Owed' BY DEF OksCoverOwed
    <3>2. oks >= Owed BY <1>c, <2>2, <3>1 DEF OksCoverOwed
    <3>3. Owed \in Int /\ Owed' \in Int BY <1>t
    <3> QED BY <1>t, <2>1, <3>2, <3>3, StillCovers
  <2>4. ASSUME Reports \subseteq {"stat"}
        PROVE  /\ mk_flags' = "stat"
               /\ (sessions' = 1 /\ is_resp_handled') => oks' < 1
               /\ out_access' => is_resp_handled'
    <3> DEFINE p == Parse(msg_buffer \o SubSeq(fromDev, 1, k))
    <3>0. mk_flags = "stat" BY <2>4 DEF TypeOK
    <3>1. (sessions = 1 /\ is_resp_handled) => oks < 1 BY <1>r, <2>4
    <3>2. mk_flags' = "stat" BY <1>0, <2>4 DEF TypeOK
    <3>3. ReadLines(SubSeq(fromDev, 1, k)) BY <1>1 DEF Burst
    <3>4. /\ oks' = oks - p.oks
          /\ is_resp_handled' = Handled(oks - p.oks)
          /\ out_access' = Access(p, oks - p.oks)
          BY <3>3 DEF ReadLines
    <3> HIDE DEF p
    <3>5. out_access' => is_resp_handled' BY <3>4 DEF Access
    <3>6. is_resp_handled' => is_resp_handled \/ oks' < 1
      <4>1. \A n : Handled(n) => is_resp_handled \/ n < 1
        <5> TAKE n
        <5>1. mk_flags # "roomy" BY <3>0
        <5> QED BY <5>1, Zenon DEF Handled
      <4>2. is_resp_handled' => Handled(oks - p.oks) BY <3>4
      <4> QED BY <3>4, <4>1, <4>2
    <3>7. oks' <= oks BY <1>1, ReadPays
    <3>8. (sessions' = 1 /\ is_resp_handled') => oks' < 1
          BY <1>t, <2>2, <3>1, <3>6, <3>7
    <3> QED BY <3>2, <3>5, <3>8
  <2> QED BY <1>t, <2>2, <2>3, <2>4 DEF Account
<1>2. ASSUME NEW k \in 0..Len(fromDev), Read(k) \/ Help(k) PROVE Account'
      BY <1>1, <1>2 DEF Read, Help
<1>3. ASSUME NEW c \in Commands, Send(c) PROVE Account'
  <2>1. oks' + Owed = oks + Owed' BY <1>3, SendAccounts
  <2>2. /\ sessions' = sessions /\ mk_flags' = mk_flags
        /\ ~is_resp_handled' /\ ~out_access'
        BY <1>3 DEF Send
  <2>3. OksCoverOwed' BY <1>t, <1>c, <2>1, <2>2 DEF OksCoverOwed
  <2> QED BY <1>t, <1>r, <2>2, <2>3 DEF Account
<1>4. CASE StatusQuery \/ SendLine \/ NoLine
  <2>1. CASE \E c \in Commands : Send(c) BY <1>3, <2>1
  <2>2. CASE ~\E c \in Commands : Send(c)
    <3>1. UNCHANGED << oks, is_resp_handled, out_access, msg_buffer, mk_flags,
                       dev, sessions >>
          BY <1>4, <2>2 DEF StatusQuery, SendLine, NoLine, Commands
    <3>2. Owed' = Owed BY <3>1 DEF Owed, AnswersIn
    <3> QED BY <1>r, <1>c, <1>t, <3>1, <3>2 DEF Account, OksCoverOwed
  <2> QED BY <2>1, <2>2
<1>5. CASE Open
  <2>1. /\ sessions' = sessions + 1 /\ mk_flags' = mk_flags
        /\ ~out_access'
        BY <1>5 DEF Open
  <2>2. sessions' # 1 /\ sessions' > 0 BY <1>t, <2>1
  <2> QED BY <1>r, <2>1, <2>2 DEF Account, OksCoverOwed
<1>6. CASE DevAnswer \/ DevReport \/ DevChat
  <2>1. Owed' = Owed /\ UNCHANGED << oks, sessions, mk_flags, out_access,
                                     is_resp_handled >>
        BY <1>6, MachineAccounts
  <2> QED BY <1>r, <1>c, <1>t, <2>1 DEF Account, OksCoverOwed
<1>7. CASE UNCHANGED vars
  <2>1. Owed' = Owed BY <1>7 DEF Owed, AnswersIn
  <2> QED BY <1>r, <1>c, <1>t, <1>7, <2>1 DEF Account, OksCoverOwed
<1> QED BY <1>2, <1>4, <1>5, <1>6, <1>7 DEF Next, Reads, Writes

LEMMA AccountHolds == Spec => [](TypeOK /\ Account)
<1>1. TypeOK /\ Account /\ [Next]_vars => (TypeOK /\ Account)'
      BY TypeNext, AccountNext
<1> QED BY <1>1, TypeInit, AccountInit, PTL DEF Spec

\* However the answers are cut into reads, and whatever lines come between
\* them, the first opening of the port counts at least the answers it is still
\* owed: what read() drops makes oks too large, never too small.
THEOREM CountCovers == Spec => []OksCoverOwed
<1>1. Account => OksCoverOwed BY DEF Account
<1> QED BY <1>1, AccountHolds, PTL

\* Given status lines without the RX field, the Grbl controller is a
\* stop-and-wait protocol: access to write means that every command, status
\* queries included, has been answered and every answer read.
THEOREM StopAndWait ==
    ASSUME Reports \subseteq {"stat"}
    PROVE  Spec => []OneAtATime
<1>1. TypeOK /\ Account => OneAtATime
  <2> SUFFICES ASSUME TypeOK, Account, sessions = 1, out_access PROVE Owed = 0
      BY DEF OneAtATime
  <2>1. is_resp_handled /\ oks < 1 BY DEF Account
  <2>2. oks >= Owed BY DEF Account, OksCoverOwed
  <2>3. Owed \in Nat /\ oks \in Int BY OwedType DEF TypeOK
  <2>4. \A n \in Nat, m \in Int : m < 1 /\ m >= n => n = 0 OBVIOUS
  <2> QED BY <2>1, <2>2, <2>3, <2>4
<1> QED BY <1>1, AccountHolds, PTL


-----------------------------------------------------------------------------
(* Stop and wait. *)

\* Program lines among commands.
LinePlaces(s) == {i \in 1..Len(s) : s[i] = "line"}

LEMMA LinesAreCounted ==
    ASSUME NEW s \in Seq(Commands)
    PROVE  /\ IsFiniteSet(LinePlaces(s)) /\ LinesAt(s) = Cardinality(LinePlaces(s))
           /\ LinesAt(s) \in Nat /\ LinesAt(s) <= Len(s)
<1>0. Len(s) \in Nat OBVIOUS
<1>1. IsFiniteSet(1..Len(s)) /\ Cardinality(1..Len(s)) = Len(s)
      BY <1>0, FS_Interval
<1>2. LinePlaces(s) \subseteq 1..Len(s) BY DEF LinePlaces
<1>3. IsFiniteSet(LinePlaces(s)) /\ Cardinality(LinePlaces(s)) <= Len(s)
      BY <1>1, <1>2, FS_Subset
<1>4. LinesAt(s) = Cardinality(LinePlaces(s)) BY DEF LinesAt, LinePlaces
<1> QED BY <1>3, <1>4, FS_CardinalityType

\* Writing a line adds one, writing a blank none.
LEMMA LinesAppend ==
    ASSUME NEW s \in Seq(Commands), NEW c \in Commands
    PROVE  LinesAt(Append(s, c)) = LinesAt(s) + IF c = "line" THEN 1 ELSE 0
<1>1. Append(s, c) \in Seq(Commands) OBVIOUS
<1>2. Len(s) \in Nat /\ Len(Append(s, c)) = Len(s) + 1 OBVIOUS
<1>3. \A i \in 1..(Len(s) + 1) :
         Append(s, c)[i] = IF i <= Len(s) THEN s[i] ELSE c
      OBVIOUS
<1>4. CASE c = "line"
  <2>1. LinePlaces(Append(s, c)) = LinePlaces(s) \cup {Len(s) + 1}
        BY <1>2, <1>3, <1>4 DEF LinePlaces
  <2>2. Len(s) + 1 \notin LinePlaces(s) BY <1>2 DEF LinePlaces
  <2>3. Cardinality(LinePlaces(s) \cup {Len(s) + 1})
           = Cardinality(LinePlaces(s)) + 1
        BY <2>2, LinesAreCounted, FS_AddElement
  <2> QED BY <1>1, <1>4, <2>1, <2>3, LinesAreCounted
<1>5. CASE c # "line"
  <2>1. LinePlaces(Append(s, c)) = LinePlaces(s)
        BY <1>2, <1>3, <1>5 DEF LinePlaces
  <2>2. LinesAt(Append(s, c)) = Cardinality(LinePlaces(Append(s, c)))
        BY <1>1, LinesAreCounted
  <2>3. LinesAt(s) = Cardinality(LinePlaces(s)) /\ LinesAt(s) \in Nat
        BY LinesAreCounted
  <2> QED BY <1>5, <2>1, <2>2, <2>3
<1> QED BY <1>4, <1>5

\* Answering the first command takes one off if it was a line.
LEMMA LinesTail ==
    ASSUME NEW s \in Seq(Commands), s # << >>
    PROVE  LinesAt(s) = LinesAt(Tail(s)) + IF Head(s) = "line" THEN 1 ELSE 0
<1> DEFINE far == LinePlaces(s) \ {1}
           shift == [i \in LinePlaces(Tail(s)) |-> i + 1]
<1>1. Len(s) \in Nat /\ Len(s) > 0 /\ Head(s) = s[1] OBVIOUS
<1>2. Tail(s) \in Seq(Commands) /\ Len(Tail(s)) = Len(s) - 1 OBVIOUS
<1>3. \A i \in 1..(Len(s) - 1) : Tail(s)[i] = s[i + 1] OBVIOUS
<1>4. shift \in Bijection(LinePlaces(Tail(s)), far)
  <2>1. shift \in [LinePlaces(Tail(s)) -> far]
        BY <1>1, <1>2, <1>3 DEF LinePlaces
  <2>2. \A a, b \in LinePlaces(Tail(s)) : shift[a] = shift[b] => a = b
        BY <1>1, <1>2 DEF LinePlaces
  <2>3. \A j \in far : \E i \in LinePlaces(Tail(s)) : shift[i] = j
    <3>1. TAKE j \in far
    <3>2. j - 1 \in LinePlaces(Tail(s)) /\ shift[j - 1] = j
          BY <1>1, <1>2, <1>3 DEF LinePlaces
    <3> QED BY <3>2
  <2> HIDE DEF shift, far
  <2> QED BY <2>1, <2>2, <2>3, Fun_IsBij
<1>5. Cardinality(far) = LinesAt(Tail(s))
  <2>1. IsFiniteSet(LinePlaces(Tail(s))) BY <1>2, LinesAreCounted
  <2>2. ExistsBijection(LinePlaces(Tail(s)), far) BY <1>4, Fun_ExistsBij
  <2> HIDE DEF far
  <2> QED BY <1>2, <2>1, <2>2, FS_Bijection, LinesAreCounted
<1>6. CASE Head(s) = "line"
  <2>1. 1 \in LinePlaces(s) BY <1>1, <1>6 DEF LinePlaces
  <2>2. Cardinality(far) = Cardinality(LinePlaces(s)) - 1
        BY <2>1, LinesAreCounted, FS_RemoveElement
  <2>3. LinesAt(s) = Cardinality(LinePlaces(s)) /\ LinesAt(s) \in Nat
        BY LinesAreCounted
  <2> HIDE DEF far
  <2> QED BY <1>5, <1>6, <2>2, <2>3
<1>7. CASE Head(s) # "line"
  <2>1. far = LinePlaces(s) BY <1>1, <1>7 DEF LinePlaces
  <2>2. LinesAt(Tail(s)) \in Nat BY <1>2, LinesAreCounted
  <2> HIDE DEF far
  <2> QED BY <1>5, <1>7, <2>1, <2>2, LinesAreCounted
<1> QED BY <1>6, <1>7

-----------------------------------------------------------------------------
(* The steps. *)

\* The last "$$" or line is under way when the port has just been opened.
LEMMA StopInit == Init => Stop!Init
<1> SUFFICES ASSUME Init PROVE Stop!Init OBVIOUS
<1>1. Places(<< >>) = {} BY DEF Places
<1>2. << >> \in Seq(Lines) OBVIOUS
<1>3. AnswersIn(<< >>) = 0 BY <1>1, <1>2, AnswersAreCounted, FS_EmptySet
<1>4. Owed = 1 BY <1>3 DEF Init, Owed
<1>5. LinePlaces(<< "line" >>) = {1} BY DEF LinePlaces
<1>6. << "line" >> \in Seq(Commands) BY CommandLists
<1>7. LinesAt(<< "line" >>) = 1 BY <1>5, <1>6, LinesAreCounted, FS_Singleton
<1> QED BY <1>4, <1>7 DEF Stop!Init, Init

\* What is owed covers the lines that are not answered.
LEMMA OwedCoversLines == TypeOK => LinesAt(toDev) <= Owed
<1> SUFFICES ASSUME TypeOK PROVE LinesAt(toDev) <= Owed OBVIOUS
<1>1. /\ toDev \in Seq(Commands) /\ fromDev \in Seq(Lines)
      /\ msg_buffer \in Seq(Lines) BY DEF TypeOK
<1>2. /\ LinesAt(toDev) \in Nat /\ LinesAt(toDev) <= Len(toDev)
      /\ AnswersIn(fromDev) \in Nat /\ AnswersIn(msg_buffer) \in Nat
      BY <1>1, LinesAreCounted, AnswersAreCounted
<1>3. \A n, a, b, l \in Nat : l <= n => l <= n + a + b OBVIOUS
<1>4. Len(toDev) \in Nat BY <1>1
<1> QED BY <1>2, <1>3, <1>4 DEF Owed

\* Before the port is opened again, access means that nothing is owed.
First == TypeOK /\ Account /\ sessions = 1
LEMMA AccessMeansNothingOwed ==
    ASSUME Reports \subseteq {"stat"}
    PROVE  First /\ out_access => Owed = 0
<1> SUFFICES ASSUME First, out_access PROVE Owed = 0 OBVIOUS
<1>1. is_resp_handled /\ oks < 1 BY DEF First, Account
<1>2. oks >= Owed BY DEF First, Account, OksCoverOwed
<1>3. Owed \in Nat /\ oks \in Int BY OwedType DEF First, TypeOK
<1>4. \A n \in Nat, m \in Int : m < 1 /\ m >= n => n = 0 OBVIOUS
<1> QED BY <1>1, <1>2, <1>3, <1>4

\* A read counts answers, and gives access when none is left.
LEMMA ReadCounts ==
    ASSUME Reports \subseteq {"stat"}, First, First',
           NEW k \in 0..Len(fromDev), Burst(k)
    PROVE  Stop!Count
<1>1. Owed' <= Owed BY ReadAccounts DEF First
<1>2. toDev' = toDev BY DEF Burst
<1>3. LinesAt(toDev)' = LinesAt(toDev) BY <1>2 DEF LinesAt
<1>4. LinesAt(toDev') <= Owed'
  <2>1. (TypeOK => LinesAt(toDev) <= Owed)' BY OwedCoversLines, PTL
  <2>2. TypeOK' BY DEF First
  <2> QED BY <2>1, <2>2 DEF LinesAt
<1>5. out_access' => Owed' = 0
  <2>1. (First /\ out_access => Owed = 0)' BY AccessMeansNothingOwed, PTL
  <2> QED BY <2>1
<1>6. out_access' \in BOOLEAN /\ LinesAt(toDev) \in Nat
      /\ Owed \in Nat /\ Owed' \in Nat
      BY OwedType, LinesAreCounted DEF First, TypeOK
<1> QED BY <1>1, <1>3, <1>4, <1>5, <1>6 DEF Stop!Count

\* Writing: a line needs access, which a query does without.
LEMMA SendAsks ==
    ASSUME Reports \subseteq {"stat"}, First, NEW c \in Commands, Send(c),
           c = "line" => out_access
    PROVE  Stop!Next
<1>1. toDev \in Seq(Commands) /\ Owed \in Nat BY OwedType DEF First, TypeOK
<1>3. oks' = oks + 1 /\ ~out_access' /\ toDev' = Append(toDev, c)
      BY DEF Send
<1>4. Owed' = Owed + 1 BY SendAccounts DEF First
<1>5. LinesAt(toDev)' = LinesAt(Append(toDev, c)) BY <1>3 DEF LinesAt
<1>6. LinesAt(toDev)' = LinesAt(toDev) + IF c = "line" THEN 1 ELSE 0
      BY <1>1, <1>5, LinesAppend
<1>7. LinesAt(toDev) \in Nat BY <1>1, LinesAreCounted
<1>8. out_access' = FALSE BY DEF Send
<1>9. CASE c = "line"
  <2>1. out_access /\ Owed = 0 BY <1>9, AccessMeansNothingOwed
  <2>2. LinesAt(toDev)' = LinesAt(toDev) + 1 BY <1>6, <1>9
  <2> QED BY <1>4, <1>8, <2>1, <2>2 DEF Stop!Next, Stop!WriteLine
<1>10. CASE c # "line"
  <2>1. LinesAt(toDev)' = LinesAt(toDev) BY <1>6, <1>7, <1>10
  <2> QED BY <1>4, <1>8, <2>1 DEF Stop!Next, Stop!Ask
<1> QED BY <1>9, <1>10

\* The machine: answering a line shows, answering a blank does not.
LEMMA MachineAnswers ==
    ASSUME First, DevAnswer \/ DevReport \/ DevChat
    PROVE  [Stop!Next]_Stop!linkVars
<1>1. Owed' = Owed /\ UNCHANGED out_access BY MachineAccounts DEF First
<1>2. toDev \in Seq(Commands) BY DEF First, TypeOK
<1>3. CASE DevAnswer
  <2>1. toDev # << >> /\ toDev' = Tail(toDev) BY <1>3 DEF DevAnswer
  <2>2. LinesAt(toDev)' = LinesAt(Tail(toDev)) BY <2>1 DEF LinesAt
  <2>3. LinesAt(toDev) = LinesAt(toDev)'
                         + IF Head(toDev) = "line" THEN 1 ELSE 0
        BY <1>2, <2>1, <2>2, LinesTail
  <2>4. Tail(toDev) \in Seq(Commands) BY <1>2, <2>1
  <2>5. LinesAt(toDev)' \in Nat BY <2>2, <2>4, LinesAreCounted
  <2>6. CASE Head(toDev) = "line"
    <3>1. LinesAt(toDev) > 0 /\ LinesAt(toDev)' = LinesAt(toDev) - 1
          BY <2>3, <2>5, <2>6
    <3> QED BY <1>1, <3>1 DEF Stop!Next, Stop!Answer
  <2>7. CASE Head(toDev) # "line"
    <3>1. LinesAt(toDev)' = LinesAt(toDev) BY <2>3, <2>5, <2>7
    <3> QED BY <1>1, <3>1 DEF Stop!linkVars
  <2> QED BY <2>6, <2>7
<1>4. CASE DevReport \/ DevChat
  <2>1. toDev' = toDev BY <1>4 DEF DevReport, DevChat, ctl
  <2>2. LinesAt(toDev)' = LinesAt(toDev) BY <2>1 DEF LinesAt
  <2> QED BY <1>1, <2>2 DEF Stop!linkVars
<1> QED BY <1>3, <1>4

LEMMA StopNext ==
    ASSUME Reports \subseteq {"stat"}, MaxSessions = 1,
           First, First', [Next]_vars
    PROVE  [Stop!Next]_Stop!linkVars
<1>1. ASSUME NEW k \in 0..Len(fromDev), Read(k) \/ Help(k)
      PROVE  Stop!Next
      BY <1>1, ReadCounts DEF Read, Help, Stop!Next
<1>2. CASE StatusQuery
  <2>1. CASE oks < OksMax /\ sent < MaxSent
    <3>1. Send("blank") BY <1>2, <2>1 DEF StatusQuery
    <3> QED BY <3>1, SendAsks DEF Commands
  <2>2. CASE ~(oks < OksMax /\ sent < MaxSent)
    <3>1. UNCHANGED << toDev, fromDev, msg_buffer, out_access >>
          BY <1>2, <2>2 DEF StatusQuery, dev
    <3> QED BY <3>1 DEF Stop!linkVars, Owed, AnswersIn, LinesAt
  <2> QED BY <2>1, <2>2
<1>3. CASE SendLine BY <1>3, SendAsks DEF SendLine, Commands
<1>4. CASE NoLine
  <2>1. UNCHANGED << toDev, fromDev, msg_buffer, out_access >>
        BY <1>4 DEF NoLine, dev
  <2> QED BY <2>1 DEF Stop!linkVars, Owed, AnswersIn, LinesAt
<1>5. CASE Open
  <2>1. sessions = 1 /\ sessions < MaxSessions BY <1>5 DEF Open, First
  <2> QED BY <2>1
<1>6. CASE DevAnswer \/ DevReport \/ DevChat BY <1>6, MachineAnswers
<1>7. CASE UNCHANGED vars
      BY <1>7 DEF vars, ctl, dev, Stop!linkVars, Owed, AnswersIn, LinesAt
<1> QED BY <1>1, <1>2, <1>3, <1>4, <1>5, <1>6, <1>7 DEF Next, Reads, Writes

\* With one session, the session stays the first.
LEMMA OneSession ==
    ASSUME MaxSessions = 1
    PROVE  Spec => [](sessions = 1)
<1>1. Init => sessions = 1 BY DEF Init
<1>2. sessions = 1 /\ [Next]_vars => (sessions = 1)'
      BY DEF Next, Reads, Read, Help, Burst, Writes, StatusQuery, Send,
             SendLine, NoLine, Open, DevAnswer, DevReport, DevChat, vars, ctl
<1> QED BY <1>1, <1>2, PTL DEF Spec

\* Given status lines without the RX field, the Grbl controller implements
\* stop and wait while its port stays open, for any oks_max and any chat of
\* the machine: each line is written with nothing owed, and access comes back
\* only with the last answer.
THEOREM LinkStopsAndWaits ==
    ASSUME Reports \subseteq {"stat"}, MaxSessions = 1
    PROVE  Spec => StopsAndWaits
<1>1. First /\ First' /\ [Next]_vars => [Stop!Next]_Stop!linkVars
      BY StopNext
<1>2. Spec => []First BY AccountHolds, OneSession, PTL DEF First
<1> QED BY <1>1, <1>2, StopInit, PTL DEF Spec, StopsAndWaits, Stop!Spec

=============================================================================
