----------------------------- MODULE MarlinProofs -----------------------------
(***************************************************************************)
(* What holds of the Marlin link for every limit and however the answers   *)
(* are cut into reads: one command at a time, unless a status line was     *)
(* counted without its answer.                                             *)
(***************************************************************************)
EXTENDS MarlinLink, ListProofs

\* The variables the argument is about are what they should be.
Typed ==
    /\ msg_buffer \in Seq(Lines) /\ fromDev \in Seq(Lines)
    /\ toDev \in Seq(Commands) /\ oks \in Int
    /\ is_resp_handled \in BOOLEAN /\ out_access \in BOOLEAN

\* The inductive invariant: access to write comes from a count that has run
\* out, and the count stays at or above what the machine owes.
Settled ==
    /\ is_resp_handled => oks < 1
    /\ out_access => is_resp_handled
    /\ ~cut => oks >= Owed

LiveInv == Typed /\ Settled

-----------------------------------------------------------------------------
(* Reading. *)

LEMMA AnswersType ==
    ASSUME NEW S, NEW s \in Seq(S)
    PROVE  AnswersIn(s) \in Nat
BY CountType DEF AnswersIn

LEMMA AnswersCut ==
    ASSUME NEW S, NEW s \in Seq(S), NEW u \in 0..Len(s)
    PROVE  /\ SubSeq(s, 1, u) \in Seq(S) /\ From(s, u + 1) \in Seq(S)
           /\ AnswersIn(s) = AnswersIn(SubSeq(s, 1, u)) + AnswersIn(From(s, u + 1))
BY CountCut DEF AnswersIn, From

LEMMA AnswersAdd ==
    ASSUME NEW S, NEW s \in Seq(S), NEW t \in Seq(S)
    PROVE  AnswersIn(s \o t) = AnswersIn(s) + AnswersIn(t)
BY CountAdd DEF AnswersIn

LEMMA AnswersNone == AnswersIn(<< >>) = 0
BY CountEmpty DEF AnswersIn

\* The run of answers a read begins with is a number of lines of the read.
LEMMA LeadingOksType ==
    ASSUME NEW lst \in Seq(Lines)
    PROVE  LeadingOks(lst) \in 0..Len(lst)
<1> DEFINE P == {i \in 1..Len(lst) : \A j \in 1..i : lst[j] \in {"ok", "temp"}}
<1>1. IsFiniteSet(1..Len(lst)) /\ Cardinality(1..Len(lst)) = Len(lst)
  <2>1. Len(lst) \in Nat OBVIOUS
  <2>2. 1 \in Int /\ Len(lst) \in Int BY <2>1
  <2>3. Cardinality(1..Len(lst))
           = IF 1 > Len(lst) THEN 0 ELSE Len(lst) - 1 + 1
        BY <2>2, FS_Interval
  <2>4. IsFiniteSet(1..Len(lst)) BY <2>2, FS_Interval
  <2> QED BY <2>1, <2>3, <2>4
<1>2. P \subseteq 1..Len(lst) OBVIOUS
<1> HIDE DEF P
<1>3. IsFiniteSet(P) /\ Cardinality(P) <= Len(lst) BY <1>1, <1>2, FS_Subset
<1>4. Cardinality(P) \in Nat BY <1>3, FS_CardinalityType
<1>5. Cardinality(P) \in 0..Len(lst) BY <1>3, <1>4
<1> QED BY <1>5 DEF LeadingOks, P

\* It counts no more answers than there are in the lines up to one behind it.
LEMMA LeadingOksCount ==
    ASSUME NEW lst \in Seq(Lines), NEW u \in LeadingOks(lst)..Len(lst)
    PROVE  LeadingOks(lst) <= AnswersIn(SubSeq(lst, 1, u))
<1> DEFINE P == {i \in 1..Len(lst) : \A j \in 1..i : lst[j] \in {"ok", "temp"}}
           n == LeadingOks(lst)
           T == {"ok", "error", "temp"}
<1>1. n \in 0..Len(lst) BY LeadingOksType
<1>2. \A i \in P : i <= n
  <2>1. TAKE i \in P
  <2>2. i \in Nat /\ 1..i \subseteq P OBVIOUS
  <2>3. IsFiniteSet(P)
    <3>1. IsFiniteSet(1..Len(lst)) BY FS_Interval
    <3> QED BY <3>1, FS_Subset
  <2>4. Cardinality(1..i) = i BY <2>2, FS_Interval
  <2> HIDE DEF P
  <2>5. Cardinality(1..i) <= Cardinality(P) BY <2>2, <2>3, FS_Subset
  <2> QED BY <2>4, <2>5 DEF LeadingOks, P
<1>3. SubSeq(lst, 1, u) \in Seq(Lines) /\ Len(SubSeq(lst, 1, u)) = u
      /\ \A i \in 1..u : SubSeq(lst, 1, u)[i] = lst[i]
  <2>1. u \in 0..Len(lst) BY <1>1
  <2>2. SubSeq(lst, 1, u) \in Seq(Lines) BY <2>1, AnswersCut
  <2> QED BY <2>1, <2>2
<1>4. P \subseteq Spots(SubSeq(lst, 1, u), T)
  <2>1. ASSUME NEW i \in P PROVE i \in Spots(SubSeq(lst, 1, u), T)
    <3>1. i \in 1..Len(lst) /\ i <= n /\ lst[i] \in {"ok", "temp"} BY <1>2
    <3>2. i \in 1..u BY <3>1, <1>1
    <3> QED BY <3>1, <3>2, <1>3 DEF Spots
  <2> QED BY <2>1
<1> HIDE DEF P
<1>5. Cardinality(P) <= Count(SubSeq(lst, 1, u), T)
      BY <1>3, <1>4, CountAtLeast
<1> QED BY <1>5 DEF LeadingOks, AnswersIn, P

\* One line is one answer or none.
LEMMA OneLine ==
    ASSUME NEW l \in Lines
    PROVE  << l >> \in Seq(Lines)
           /\ AnswersIn(<< l >>) = IF l \in {"ok", "error", "temp"} THEN 1 ELSE 0
<1>1. << l >> \in Seq(Lines) OBVIOUS
<1> DEFINE T == {"ok", "error", "temp"}
<1> HIDE DEF T
<1>2. Count(<< l >>, T) = IF l \in T THEN 1 ELSE 0 BY CountOne
<1> QED BY <1>1, <1>2 DEF AnswersIn, T

\* What is left in msg_buffer are lines, and no fewer answers are counted than
\* have gone from the lines, unless a status line is read.
LEMMA ParseCovers ==
    ASSUME NEW lst \in Seq(Lines), lst # << >>, lst[1] \notin Status
    PROVE  /\ Parse(lst).oks \in Nat /\ Parse(lst).rest \in Seq(Lines)
           /\ AnswersIn(lst) >= Parse(lst).oks + AnswersIn(Parse(lst).rest)
<1>0. Len(lst) \in Nat /\ Len(lst) >= 1 /\ lst[1] \in Lines OBVIOUS
<1>1. CASE lst[1] = "error"
  <2>1. Parse(lst) = Outcome("error", 1, From(lst, 2))
        BY <1>1 DEF Parse, Status
  <2>2. 1 \in 0..Len(lst) /\ 1 + 1 = 2 BY <1>0
  <2>3. /\ SubSeq(lst, 1, 1) \in Seq(Lines) /\ From(lst, 2) \in Seq(Lines)
        /\ AnswersIn(lst) = AnswersIn(SubSeq(lst, 1, 1)) + AnswersIn(From(lst, 2))
    <3>1. /\ SubSeq(lst, 1, 1) \in Seq(Lines) /\ From(lst, 1 + 1) \in Seq(Lines)
          /\ AnswersIn(lst) = AnswersIn(SubSeq(lst, 1, 1))
                              + AnswersIn(From(lst, 1 + 1)) BY <2>2, AnswersCut
    <3> QED BY <3>1, <2>2
  <2>4. AnswersIn(SubSeq(lst, 1, 1)) >= 1
    <3>1. SubSeq(lst, 1, 1) = << lst[1] >>
      <4> DEFINE a == SubSeq(lst, 1, 1)
                 b == << lst[1] >>
      <4>1. a \in Seq(Lines) /\ Len(a) = 1 /\ a[1] = lst[1] BY <2>3, <1>0
      <4>2. b \in Seq(Lines) /\ Len(b) = 1 /\ b[1] = lst[1] BY <1>0
      <4>3. \A i \in 1..1 : i = 1 OBVIOUS
      <4> HIDE DEF a, b
      <4>4. \A i \in 1..1 : a[i] = b[i] BY <4>1, <4>2, <4>3
      <4>5. a = b BY <4>1, <4>2, <4>4, SeqEqual
      <4> QED BY <4>5 DEF a, b
    <3>2. AnswersIn(<< lst[1] >>) = 1 BY <1>0, <1>1, OneLine
    <3>3. AnswersIn(SubSeq(lst, 1, 1)) = 1 BY <3>1, <3>2, Zenon
    <3> QED BY <3>3
  <2>5. AnswersIn(From(lst, 2)) \in Nat /\ AnswersIn(SubSeq(lst, 1, 1)) \in Nat
        BY <2>3, AnswersType
  <2>6. Parse(lst).oks = 1 /\ Parse(lst).rest = From(lst, 2)
        BY <2>1 DEF Outcome
  <2> QED BY <2>3, <2>4, <2>5, <2>6
<1>2. CASE lst[1] \in {"ok", "other"}
  <2> DEFINE n == LeadingOks(lst)
             m == IF n < Len(lst) THEN n + 1 ELSE n
  <2>1. Parse(lst).oks = n /\ Parse(lst).rest = From(lst, n + 2)
        BY <1>2 DEF Parse, Status, Outcome
  <2>2. n \in 0..Len(lst) BY LeadingOksType
  <2> HIDE DEF n
  <2>3. m \in 0..Len(lst) /\ m \in n..Len(lst) BY <2>2, <1>0
  <2>4. From(lst, n + 2) = From(lst, m + 1)
    <3>1. CASE n < Len(lst) BY <3>1, <2>2
    <3>2. CASE ~(n < Len(lst))
      <4>1. n = Len(lst) BY <3>2, <2>2, <1>0
      <4>2. ASSUME NEW u \in Nat, u > Len(lst)
            PROVE  SubSeq(lst, u, Len(lst)) = << >>
            BY <4>2, <1>0
      <4>3. m = n BY <3>2
      <4>4. n + 2 \in Nat /\ n + 2 > Len(lst) /\ m + 1 \in Nat /\ m + 1 > Len(lst)
            BY <4>1, <4>3, <1>0
      <4> QED BY <4>2, <4>4 DEF From
    <3> QED BY <3>1, <3>2
  <2> HIDE DEF m
  <2>5. /\ SubSeq(lst, 1, m) \in Seq(Lines) /\ From(lst, m + 1) \in Seq(Lines)
        /\ AnswersIn(lst) = AnswersIn(SubSeq(lst, 1, m))
                            + AnswersIn(From(lst, m + 1)) BY <2>3, AnswersCut
  <2>6. n <= AnswersIn(SubSeq(lst, 1, m)) BY <2>3, LeadingOksCount DEF n
  <2>7. /\ AnswersIn(From(lst, m + 1)) \in Nat
        /\ AnswersIn(SubSeq(lst, 1, m)) \in Nat BY <2>5, AnswersType
  <2> QED BY <2>1, <2>2, <2>4, <2>5, <2>6, <2>7
<1> QED BY <1>0, <1>1, <1>2 DEF Lines, Status

-----------------------------------------------------------------------------
(* The steps. *)

\* A read keeps the invariant, however much of the stream it takes.
LEMMA BurstSettles ==
    ASSUME LiveInv, NEW k \in 0..Len(fromDev), Burst(k), UNCHANGED toDev
    PROVE  LiveInv'
<1> DEFINE b == SubSeq(fromDev, 1, k)
           r == From(fromDev, k + 1)
           lst == msg_buffer \o b
           p == Parse(lst)
<1>1. Typed /\ Settled BY DEF LiveInv
<1>2. b \in Seq(Lines) /\ r \in Seq(Lines)
      /\ AnswersIn(fromDev) = AnswersIn(b) + AnswersIn(r)
      BY <1>1, AnswersCut DEF Typed
<1>3. /\ fromDev' = r /\ msg_buffer' = p.rest /\ oks' = oks - p.oks
      /\ is_resp_handled' = Handled(oks - p.oks)
      /\ out_access' = (Handled(oks - p.oks) /\ HasOk(p))
      /\ cut' = (cut \/ (p.kind \in Status
                         /\ (msg_buffer # << >> \/ AnswersIn(b) = 0)))
      BY DEF Burst, ReadLines
<1> HIDE DEF b, r
<1>4. lst \in Seq(Lines) /\ AnswersIn(lst) = AnswersIn(msg_buffer) + AnswersIn(b)
      BY <1>1, <1>2, AnswersAdd DEF Typed
<1>5. /\ AnswersIn(msg_buffer) \in Nat /\ AnswersIn(b) \in Nat
      /\ AnswersIn(r) \in Nat /\ AnswersIn(lst) \in Nat
      BY <1>1, <1>2, <1>4, AnswersType DEF Typed
<1>6. /\ p.oks \in Nat /\ p.rest \in Seq(Lines)
      /\ \/ AnswersIn(lst) >= p.oks + AnswersIn(p.rest)
         \/ p.kind \in Status /\ p.oks = 1 /\ p.rest = msg_buffer
  <2>0. msg_buffer \in Seq(Lines) BY <1>1 DEF Typed
  <2>1. CASE lst = << >>
    <3>1. p = Outcome("none", 0, msg_buffer) BY <2>1 DEF Parse
    <3>2. p.oks = 0 /\ p.rest = msg_buffer BY <3>1 DEF Outcome
    <3> QED BY <3>2, <2>0, <1>4, <1>5
  <2>2. CASE lst # << >> /\ lst[1] \in Status
    <3>1. p = Outcome(lst[1], 1, msg_buffer) BY <2>2 DEF Parse, Status
    <3> HIDE DEF p, lst
    <3>2. p.kind = lst[1] /\ p.oks = 1 /\ p.rest = msg_buffer
          BY <3>1 DEF Outcome
    <3> QED BY <3>2, <2>0, <2>2
  <2>3. CASE lst # << >> /\ lst[1] \notin Status BY <2>3, <1>4, ParseCovers
  <2> QED BY <2>1, <2>2, <2>3
<1> HIDE DEF p, lst
<1>7. Typed'
      BY <1>1, <1>2, <1>3, <1>6 DEF Typed, Handled, HasOk
<1>8. (is_resp_handled => oks < 1)' /\ (out_access => is_resp_handled)'
      BY <1>1, <1>3, <1>6 DEF Typed, Settled, Handled
<1>9. (~cut => oks >= Owed)'
  <2> SUFFICES ASSUME ~cut' PROVE oks' >= Owed' OBVIOUS
  <2>1. ~cut /\ oks >= Owed BY <1>1, <1>3 DEF Settled
  <2>2. AnswersIn(p.rest) \in Nat /\ Len(toDev) \in Nat
        BY <1>1, <1>6, AnswersType DEF Typed
  <2>3. Owed = Len(toDev) + AnswersIn(fromDev) + AnswersIn(msg_buffer)
        BY DEF Owed
  <2>4. Owed' = Len(toDev) + AnswersIn(r) + AnswersIn(p.rest)
        BY <1>3 DEF Owed
  <2>5. AnswersIn(lst) >= p.oks + AnswersIn(p.rest)
    <3>1. CASE p.kind \in Status /\ p.oks = 1 /\ p.rest = msg_buffer
      <4>1. msg_buffer = << >> /\ AnswersIn(b) # 0 BY <3>1, <1>3
      <4>2. AnswersIn(msg_buffer) = 0 BY <4>1, AnswersNone
      <4> QED BY <3>1, <4>1, <4>2, <1>4, <1>5
    <3> QED BY <3>1, <1>6
  <2>6. oks \in Int /\ p.oks \in Nat /\ oks' = oks - p.oks
        BY <1>1, <1>3, <1>6 DEF Typed
  <2> DEFINE am == AnswersIn(msg_buffer)
             ab == AnswersIn(b)
             ar == AnswersIn(r)
             al == AnswersIn(lst)
             af == AnswersIn(fromDev)
             ap == AnswersIn(p.rest)
             n == p.oks
             due == Len(toDev)
  <2>7. /\ am \in Nat /\ ab \in Nat /\ ar \in Nat /\ al \in Nat /\ ap \in Nat
        /\ n \in Nat /\ due \in Nat /\ al = am + ab /\ af = ab + ar
        /\ al >= n + ap /\ oks' = oks - n /\ oks \in Int
        BY <2>2, <2>5, <2>6, <1>2, <1>4, <1>5
  <2>8. /\ Owed = due + af + am /\ Owed' = due + ar + ap
        /\ oks >= Owed BY <2>1, <2>3, <2>4
  <2> HIDE DEF am, ab, ar, al, af, ap, n, due
  <2>9. oks - n >= due + ar + ap BY <2>7, <2>8
  <2> QED BY <2>7, <2>8, <2>9
<1> QED BY <1>7, <1>8, <1>9 DEF LiveInv, Settled

\* A written command is one more that is owed and one more that is counted.
LEMMA SendSettles ==
    ASSUME LiveInv, NEW what \in Commands, Send(what)
    PROVE  LiveInv'
<1>1. Typed /\ Settled BY DEF LiveInv
<1>2. /\ toDev' = Append(toDev, what) /\ out_access' = FALSE
      /\ is_resp_handled' = FALSE /\ oks' = oks + 1
      /\ UNCHANGED << fromDev, msg_buffer, cut >> BY DEF Send
<1>3. toDev' \in Seq(Commands) /\ Len(toDev') = Len(toDev) + 1
  <2>1. toDev \in Seq(Commands) BY <1>1 DEF Typed
  <2>2. /\ Append(toDev, what) \in Seq(Commands)
        /\ Len(Append(toDev, what)) = Len(toDev) + 1 BY <2>1
  <2>3. toDev' = Append(toDev, what) BY <1>2
  <2> QED BY <2>2, <2>3
<1>4. Typed'
  <2>1. msg_buffer' \in Seq(Lines) /\ fromDev' \in Seq(Lines) BY <1>1, <1>2 DEF Typed
  <2>2. oks' \in Int BY <1>1, <1>2 DEF Typed
  <2>3. is_resp_handled' \in BOOLEAN /\ out_access' \in BOOLEAN BY <1>2
  <2> QED BY <1>3, <2>1, <2>2, <2>3 DEF Typed
<1>5. (~cut => oks >= Owed)'
  <2>1. /\ AnswersIn(fromDev) \in Nat /\ AnswersIn(msg_buffer) \in Nat
        /\ Len(toDev) \in Nat /\ oks \in Int
        BY <1>1, AnswersType DEF Typed
  <2>2. Owed' = Len(toDev') + AnswersIn(fromDev) + AnswersIn(msg_buffer)
        BY <1>2 DEF Owed
  <2> QED BY <1>1, <1>2, <1>3, <2>1, <2>2 DEF Settled, Owed
<1> QED BY <1>2, <1>4, <1>5 DEF LiveInv, Settled

\* Lines that leave the machine: what it owes grows by the answers among them
\* and shrinks by the commands they answer.
LEMMA EmitSettles ==
    ASSUME LiveInv, NEW ls \in Seq(Lines), Emit(ls), toDev' \in Seq(Commands),
           Len(toDev') + AnswersIn(ls) <= Len(toDev)
    PROVE  LiveInv'
<1>1. Typed /\ Settled BY DEF LiveInv
<1>2. /\ fromDev' = fromDev \o ls
      /\ UNCHANGED << oks, is_resp_handled, out_access, msg_buffer, cut >>
      BY DEF Emit
<1>3. fromDev' \in Seq(Lines) /\ AnswersIn(fromDev') = AnswersIn(fromDev) + AnswersIn(ls)
      BY <1>1, <1>2, AnswersAdd DEF Typed
<1>4. Typed' BY <1>1, <1>2, <1>3 DEF Typed
<1>5. (~cut => oks >= Owed)'
  <2>1. /\ AnswersIn(fromDev) \in Nat /\ AnswersIn(msg_buffer) \in Nat
        /\ AnswersIn(ls) \in Nat
        /\ Len(toDev) \in Nat /\ Len(toDev') \in Nat /\ oks \in Int
        BY <1>1, AnswersType DEF Typed
  <2>2. Owed' = Len(toDev') + AnswersIn(fromDev') + AnswersIn(msg_buffer)
        BY <1>2 DEF Owed
  <2> QED BY <1>1, <1>2, <1>3, <2>1, <2>2 DEF Settled, Owed
<1> QED BY <1>1, <1>2, <1>4, <1>5 DEF LiveInv, Settled

LEMMA TwoParts ==
    ASSUME NEW S, NEW s \in Seq(S), NEW t \in Seq(S)
    PROVE  s \o t \in Seq(S) /\ Len(s \o t) = Len(s) + Len(t)
OBVIOUS

LEMMA MachineSettles ==
    ASSUME LiveInv, Machine
    PROVE  LiveInv'
<1>1. toDev \in Seq(Commands) BY DEF LiveInv, Typed
<1>2. ASSUME toDev # << >>
      PROVE  /\ Tail(toDev) \in Seq(Commands) /\ Len(Tail(toDev)) = Len(toDev) - 1
             /\ Len(toDev) \in Nat
      BY <1>1, <1>2, HeadTailProperties
<1>3. CASE DevPosition
  <2>1. /\ toDev # << >> /\ toDev' = << "line" >> \o Tail(toDev)
        /\ Emit(<< "pos" >>) BY <1>3 DEF DevPosition
  <2>2. << "line" >> \in Seq(Commands) /\ Len(<< "line" >>) = 1 BY DEF Commands
  <2>3. toDev' \in Seq(Commands) /\ Len(toDev') = Len(toDev)
    <3> DEFINE h == << "line" >>
               t == Tail(toDev)
    <3>1. /\ h \in Seq(Commands) /\ t \in Seq(Commands) /\ toDev' = h \o t
          /\ Len(h) = 1 /\ Len(t) = Len(toDev) - 1 /\ Len(toDev) \in Nat
          BY <1>2, <2>1, <2>2
    <3> HIDE DEF h, t
    <3>2. h \o t \in Seq(Commands) /\ Len(h \o t) = Len(h) + Len(t)
      <4>1. h \in Seq(Commands) /\ t \in Seq(Commands) BY <3>1
      <4> QED BY <4>1, TwoParts
    <3>3. Len(h \o t) = Len(toDev) BY <3>1, <3>2
    <3> QED BY <3>1, <3>2, <3>3, Zenon
  <2>4. << "pos" >> \in Seq(Lines) /\ AnswersIn(<< "pos" >>) = 0
        BY OneLine DEF Lines
  <2>5. Len(toDev') + AnswersIn(<< "pos" >>) <= Len(toDev)
    <3>1. Len(toDev) \in Nat BY <1>1
    <3> QED BY <3>1, <2>3, <2>4
  <2> QED BY <2>1, <2>3, <2>4, <2>5, EmitSettles
<1>4. CASE DevAnswer
  <2>1. toDev # << >> /\ toDev' = Tail(toDev) BY <1>4 DEF DevAnswer
  <2>2. PICK l \in {"ok", "error", "temp"} : Emit(<< l >>)
        BY <1>4, AnswersAssumption DEF DevAnswer
  <2>3. << l >> \in Seq(Lines) /\ AnswersIn(<< l >>) = 1
        BY OneLine DEF Lines
  <2>4. toDev' \in Seq(Commands) /\ Len(toDev') + AnswersIn(<< l >>) <= Len(toDev)
        BY <1>2, <2>1, <2>3
  <2> QED BY <2>2, <2>3, <2>4, EmitSettles
<1>5. CASE DevChat
  <2>1. Emit(<< "other" >>) /\ toDev' = toDev BY <1>5 DEF DevChat
  <2>2. << "other" >> \in Seq(Lines) /\ AnswersIn(<< "other" >>) = 0
        BY OneLine DEF Lines
  <2>3. Len(toDev') + AnswersIn(<< "other" >>) <= Len(toDev)
    <3>1. Len(toDev) \in Nat BY <1>1
    <3> QED BY <3>1, <2>1, <2>2
  <2> QED BY <2>1, <2>2, <2>3, <1>1, EmitSettles
<1> QED BY <1>3, <1>4, <1>5 DEF Machine

LEMMA NothingChanges ==
    ASSUME LiveInv,
           UNCHANGED << oks, is_resp_handled, out_access, msg_buffer, toDev,
                        fromDev, cut >>
    PROVE  LiveInv'
BY DEF LiveInv, Typed, Settled, Owed

-----------------------------------------------------------------------------
(* The theorem. *)

LEMMA InitSettled == Init => LiveInv
<1> SUFFICES ASSUME Init PROVE LiveInv OBVIOUS
<1>1. /\ oks = 1 /\ is_resp_handled = FALSE /\ out_access = FALSE
      /\ msg_buffer = << >> /\ fromDev = << >> /\ toDev = << "line" >> BY DEF Init
<1>2. toDev \in Seq(Commands) /\ Len(toDev) = 1 BY <1>1 DEF Commands
<1>3. Owed = 1
  <2>1. Owed = Len(toDev) + AnswersIn(<< >>) + AnswersIn(<< >>)
        BY <1>1 DEF Owed
  <2> QED BY <1>2, <2>1, AnswersNone
<1>4. << >> \in Seq(Lines) OBVIOUS
<1>5. Typed
  <2>1. msg_buffer \in Seq(Lines) /\ fromDev \in Seq(Lines) BY <1>1, <1>4, Zenon
  <2>2. oks \in Int BY <1>1
  <2>3. is_resp_handled \in BOOLEAN /\ out_access \in BOOLEAN BY <1>1, Zenon
  <2> QED BY <1>2, <2>1, <2>2, <2>3, Zenon DEF Typed
<1>6. oks >= Owed BY <1>1, <1>3
<1> QED BY <1>1, <1>5, <1>6, Zenon DEF LiveInv, Settled

LEMMA StepSettles == LiveInv /\ [Next]_vars => LiveInv'
<1> SUFFICES ASSUME LiveInv, [Next]_vars PROVE LiveInv' OBVIOUS
<1>1. CASE Reads
  <2>1. PICK k \in 0..Len(fromDev) : Read(k) \/ Help(k) BY <1>1 DEF Reads
  <2>2. Burst(k) /\ UNCHANGED toDev BY <2>1 DEF Read, Help, Burst
  <2> QED BY <2>2, BurstSettles
<1>2. CASE StatusQuery
  <2>1. CASE SendNothing BY <2>1, NothingChanges DEF SendNothing
  <2>2. CASE \E what \in Commands : Send(what) BY <2>2, SendSettles
  <2> QED BY <1>2, <2>1, <2>2 DEF StatusQuery, Commands
<1>3. CASE SendLine
  <2>1. Send("line") /\ "line" \in Commands BY <1>3 DEF SendLine, Commands
  <2> QED BY <2>1, SendSettles
<1>4. CASE NoLine BY <1>4, NothingChanges DEF NoLine, SendNothing
<1>5. CASE Machine BY <1>5, MachineSettles
<1>6. CASE UNCHANGED vars BY <1>6, NothingChanges DEF vars
<1> QED BY <1>1, <1>2, <1>3, <1>4, <1>5, <1>6 DEF Next, Writes

\* As long as no status line is counted without its answer, the Marlin machine
\* is given one command at a time, whatever it answers and however its answers
\* are cut into reads: while a line may be written (out_access), no earlier
\* command is unanswered.
THEOREM MarlinOneAtATime == LiveSpec => []OneAtATime
<1>1. LiveInv => OneAtATime
  <2> SUFFICES ASSUME LiveInv, ~cut PROVE oks >= Owed /\ (out_access => Owed = 0)
      BY DEF OneAtATime
  <2>1. oks \in Int /\ oks >= Owed /\ (out_access => oks < 1)
        BY DEF LiveInv, Typed, Settled
  <2>2. /\ Len(toDev) \in Nat /\ AnswersIn(fromDev) \in Nat
        /\ AnswersIn(msg_buffer) \in Nat
        BY AnswersType DEF LiveInv, Typed
  <2>3. Owed \in Nat BY <2>2 DEF Owed
  <2> QED BY <2>1, <2>3
<1> QED BY <1>1, InitSettled, StepSettles, PTL DEF LiveSpec

=============================================================================
