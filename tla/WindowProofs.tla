---------------------------- MODULE WindowProofs ----------------------------
(* Proofs about the window: first what it and the sender make of each other,  *)
(* for every program, every number of clicks, and wherever the sender's waits *)
(* run out; then what its Run button makes of a text and of the parsed lines  *)
(* kept beside it, for texts and histories of any length.                     *)
(*                                                                            *)
(* Between window and sender, while no connection may be mixed with other     *)
(* requests, lies the rest of one request and then whole requests.  That is   *)
(* said by a list of marks beside the messages: of which request each of them *)
(* is, and which of its messages.                                             *)
(*                                                                            *)
(* A text's parser goes from line to line; its states are related to the      *)
(* lines before them (Parsed) by the induction of ListProofs, and the cache   *)
(* it leaves is the part of the state the invariant TextInv is about.         *)
EXTENDS Console, ProgramText, SenderProofs

-----------------------------------------------------------------------------
(* Lists of messages. *)

Lacks(q, W) == \A i \in 1..Len(q) : q[i] \notin W

LEMMA LacksMore ==
    ASSUME NEW S, NEW q \in Seq(S), NEW r \in Seq(S), NEW W
    PROVE  Lacks(q \o r, W) <=> Lacks(q, W) /\ Lacks(r, W)
<1>1. /\ Len(q) \in Nat /\ Len(r) \in Nat /\ Len(q \o r) = Len(q) + Len(r)
      /\ \A i \in 1..Len(q) + Len(r) :
            (q \o r)[i] = IF i <= Len(q) THEN q[i] ELSE r[i - Len(q)]
  BY ConcatProperties
<1>2. ASSUME Lacks(q \o r, W) PROVE Lacks(q, W) /\ Lacks(r, W)
  <2>1. ASSUME NEW i \in 1..Len(q) PROVE q[i] \notin W
    <3>1. i \in 1..Len(q) + Len(r) /\ i <= Len(q)
      BY <1>1
    <3> QED
      BY <1>1, <1>2, <3>1 DEF Lacks
  <2>2. ASSUME NEW i \in 1..Len(r) PROVE r[i] \notin W
    <3>1. /\ i + Len(q) \in 1..Len(q) + Len(r) /\ ~(i + Len(q) <= Len(q))
          /\ (i + Len(q)) - Len(q) = i
      BY <1>1
    <3> QED
      BY <1>1, <1>2, <3>1 DEF Lacks
  <2> QED
    BY <2>1, <2>2 DEF Lacks
<1>3. ASSUME Lacks(q, W), Lacks(r, W), NEW i \in 1..Len(q) + Len(r)
      PROVE  (q \o r)[i] \notin W
  <2>1. CASE i <= Len(q)
    BY <1>1, <1>3, <2>1 DEF Lacks
  <2>2. CASE ~(i <= Len(q))
    <3>1. i - Len(q) \in 1..Len(r)
      BY <1>1, <2>2
    <3> QED
      BY <1>1, <1>3, <2>2, <3>1 DEF Lacks
  <2> QED
    BY <2>1, <2>2
<1> QED
  BY <1>1, <1>2, <1>3 DEF Lacks

LEMMA LacksTail ==
    ASSUME NEW S, NEW q \in Seq(S), q # << >>, NEW W
    PROVE  Lacks(q, W) <=> Head(q) \notin W /\ Lacks(Tail(q), W)
<1>1. /\ Len(q) \in Nat /\ Len(q) > 0 /\ Head(q) = q[1] /\ Len(Tail(q)) = Len(q) - 1
      /\ \A i \in 1..Len(q) - 1 : Tail(q)[i] = q[i + 1]
  BY HeadTailProperties, EmptySeq
<1>2. ASSUME NEW i \in 2..Len(q) PROVE i - 1 \in 1..Len(q) - 1 /\ (i - 1) + 1 = i
  BY <1>1
<1>3. ASSUME NEW i \in 1..Len(q) - 1 PROVE i + 1 \in 1..Len(q)
  BY <1>1
<1>4. 1 \in 1..Len(q) /\ \A i \in 1..Len(q) : i = 1 \/ i \in 2..Len(q)
  BY <1>1
<1> QED
  BY <1>1, <1>2, <1>3, <1>4 DEF Lacks

\* A message goes from the window's list to the mailbox: the two together, the
\* mailbox first, are as before.
LEMMA Handed ==
    ASSUME NEW S, NEW p \in Seq(S), NEW q \in Seq(S), q # << >>
    PROVE  Append(p, Head(q)) \o Tail(q) = p \o q
<1>1. Head(q) \in S /\ Tail(q) \in Seq(S)
  BY HeadTailProperties
<1>2. Append(p, Head(q)) = p \o << Head(q) >> /\ << Head(q) >> \in Seq(S)
  BY <1>1
<1>3. << Head(q) >> \o Tail(q) = q
  BY <1>1
<1> QED
  BY <1>1, <1>2, <1>3, ConcatAssociative

LEMMA TakenOff ==
    ASSUME NEW S, NEW p \in Seq(S), NEW q \in Seq(S), p # << >>
    PROVE  p \o q # << >> /\ Head(p \o q) = Head(p) /\ Tail(p \o q) = Tail(p) \o q
<1>1. /\ Len(p) \in Nat /\ Len(p) > 0 /\ Len(q) \in Nat
      /\ p \o q \in Seq(S) /\ Len(p \o q) = Len(p) + Len(q)
      /\ Tail(p) \in Seq(S) /\ Len(Tail(p)) = Len(p) - 1
  BY ConcatProperties, HeadTailProperties, EmptySeq
<1>2. p \o q # << >>
  BY <1>1
<1>3. (p \o q)[1] = p[1]
  BY <1>1
<1>4. /\ Tail(p \o q) \in Seq(S) /\ Tail(p) \o q \in Seq(S)
      /\ Len(Tail(p \o q)) = (Len(p) + Len(q)) - 1
      /\ Len(Tail(p) \o q) = (Len(p) - 1) + Len(q)
  BY <1>1, <1>2, ConcatProperties, HeadTailProperties
<1>5. ASSUME NEW i \in 1..Len(Tail(p \o q))
      PROVE  Tail(p \o q)[i] = (Tail(p) \o q)[i]
  <2>1. Tail(p \o q)[i] = (p \o q)[i + 1]
    BY <1>1, <1>2, HeadTailProperties
  <2>2. CASE i <= Len(p) - 1
    <3>1. /\ (Tail(p) \o q)[i] = Tail(p)[i] /\ Tail(p)[i] = p[i + 1]
          /\ (p \o q)[i + 1] = p[i + 1]
      BY <1>1, <1>4, <2>2, HeadTailProperties
    <3> QED
      BY <2>1, <3>1
  <2>3. CASE ~(i <= Len(p) - 1)
    <3>1. /\ (Tail(p) \o q)[i] = q[i - (Len(p) - 1)]
          /\ (p \o q)[i + 1] = q[(i + 1) - Len(p)]
      BY <1>1, <1>4, <2>3
    <3> QED
      BY <1>1, <1>4, <2>1, <3>1
  <2> QED
    BY <2>2, <2>3
<1>6. Len(Tail(p \o q)) = Len(Tail(p) \o q)
  BY <1>1, <1>4
<1>7. Tail(p \o q) = Tail(p) \o q
  BY <1>4, <1>5, <1>6, SeqEqual
<1> QED
  BY <1>1, <1>2, <1>3, <1>7

-----------------------------------------------------------------------------
(* The window's requests, and the marks of their messages. *)

Kinds == {"Home", "Run", "Resume", "Pause", "Stop"}

Request(k) == CASE k = "Home"   -> << "SINGLE", "$H" >>
                [] k = "Run"    -> << "FILL" >> \o DoSparse \o << "RESUME" >>
                [] k = "Resume" -> << "RESUME" >>
                [] k = "Pause"  -> << "PAUSE" >>
                [] k = "Stop"   -> << "STOP", "CALCULATE" >>

L == Len(Program)

LEMMA ConsoleWords ==
    /\ {"FILL", "NEW", "FIN", "SENDFROM", "1", "CALCULATE", "RESUME", "SINGLE",
        "$H", "PAUSE", "STOP", "PORT", "Grbl", "Marlin", "/dev/ttyUSB0",
        "115200", Empty}
       \subseteq Pure
    /\ Program \in Seq(Text) /\ Program \in Seq(Pure) /\ Program \in Seq(Msg)
    /\ L \in Nat /\ Pure \subseteq Msg /\ Text \subseteq Pure
    /\ Text \cap Word = {} /\ NIL \notin Msg
    /\ \A i \in 1..L : Program[i] \in Text
<1>1. /\ {"FILL", "NEW", "FIN", "SENDFROM", "1", "CALCULATE", "RESUME", "SINGLE",
          "$H", "PAUSE", "STOP", "PORT", "Grbl", "Marlin", "/dev/ttyUSB0",
        "115200", Empty}
         \subseteq Msg
      /\ Text \subseteq Msg /\ Text \cap Word = {} /\ NIL \notin Msg
      /\ {"ADDFILTER", "DELFILTER"} \subseteq Word
  BY TextAssumption, PostsAssumption, NILAssumption DEF Msg, Word
<1>2. {"ADDFILTER", "DELFILTER"} \cap
      {"FILL", "NEW", "FIN", "SENDFROM", "1", "CALCULATE", "RESUME", "SINGLE",
       "$H", "PAUSE", "STOP", "PORT", "Grbl", "Marlin", "/dev/ttyUSB0",
        "115200", Empty} = {}
  BY DEF Empty
<1>3. Text \subseteq Pure /\ Pure \subseteq Msg
  BY <1>1 DEF Pure
<1>4. Program \in Seq(Text)
  BY ProgramAssumption
<1>5. Program \in Seq(Pure) /\ Program \in Seq(Msg)
  BY <1>3, <1>4, SeqMonotonic
<1>6. L \in Nat /\ \A i \in 1..L : Program[i] \in Text
  BY <1>4 DEF L
<1> QED
  BY <1>1, <1>2, <1>3, <1>4, <1>5, <1>6 DEF Pure

\* What the Run button posts, message by message.
RunItems(R) ==
    /\ Len(R) = L + 7 /\ R[1] = "FILL" /\ R[2] = "NEW"
    /\ \A i \in 3..L + 2 : R[i] = Program[i - 2]
    /\ R[L + 3] = "FIN" /\ R[L + 4] = "SENDFROM" /\ R[L + 5] = "1"
    /\ R[L + 6] = "CALCULATE" /\ R[L + 7] = "RESUME"

LEMMA RunIs ==
    ASSUME NEW S, Program \in Seq(S),
           {"FILL", "NEW", "FIN", "SENDFROM", "1", "CALCULATE", "RESUME"} \subseteq S
    PROVE  Request("Run") \in Seq(S) /\ RunItems(Request("Run"))
<1> DEFINE e == << "FIN", "SENDFROM", "1", "CALCULATE" >>
           a == << "NEW" >> \o Program
           b == a \o e
           c == << "FILL" >> \o b
           d == c \o << "RESUME" >>
<1>0. Request("Run") = d
  BY DEF Request, DoSparse
<1>1. L \in Nat
  BY ConsoleWords
<1>2. /\ << "NEW" >> \in Seq(S) /\ << "FILL" >> \in Seq(S) /\ << "RESUME" >> \in Seq(S)
      /\ e \in Seq(S) /\ Len(e) = 4
      /\ e[1] = "FIN" /\ e[2] = "SENDFROM" /\ e[3] = "1" /\ e[4] = "CALCULATE"
  OBVIOUS
<1>3. /\ a \in Seq(S) /\ Len(a) = L + 1 /\ a[1] = "NEW"
      /\ \A i \in 2..L + 1 : a[i] = Program[i - 1]
  BY <1>1, <1>2, ConcatProperties DEF L
<1> HIDE DEF a, e
<1>4. /\ b \in Seq(S) /\ Len(b) = L + 5
      /\ \A i \in 1..L + 5 : b[i] = IF i <= L + 1 THEN a[i] ELSE e[i - (L + 1)]
  <2>1. /\ b \in Seq(S) /\ Len(b) = Len(a) + Len(e)
        /\ \A i \in 1..Len(a) + Len(e) :
              b[i] = IF i <= Len(a) THEN a[i] ELSE e[i - Len(a)]
    BY <1>2, <1>3, ConcatProperties
  <2>2. Len(a) + Len(e) = L + 5
    BY <1>1, <1>2, <1>3
  <2> QED
    BY <1>3, <2>1, <2>2
<1>5. /\ b[1] = "NEW" /\ \A i \in 2..L + 1 : b[i] = Program[i - 1]
      /\ b[L + 2] = "FIN" /\ b[L + 3] = "SENDFROM" /\ b[L + 4] = "1"
      /\ b[L + 5] = "CALCULATE"
  <2>1. b[1] = "NEW"
    BY <1>1, <1>3, <1>4
  <2>2. ASSUME NEW i \in 2..L + 1 PROVE b[i] = Program[i - 1]
    BY <1>1, <1>3, <1>4
  <2>3. /\ (L + 2) - (L + 1) = 1 /\ (L + 3) - (L + 1) = 2
        /\ (L + 4) - (L + 1) = 3 /\ (L + 5) - (L + 1) = 4
    BY <1>1
  <2>4. ASSUME NEW i \in L + 2..L + 5 PROVE b[i] = e[i - (L + 1)]
    BY <1>1, <1>4
  <2>5. {L + 2, L + 3, L + 4, L + 5} \subseteq L + 2..L + 5
    BY <1>1
  <2>6. /\ b[L + 2] = e[1] /\ b[L + 3] = e[2] /\ b[L + 4] = e[3] /\ b[L + 5] = e[4]
    BY <2>3, <2>4, <2>5
  <2> QED
    BY <1>2, <2>1, <2>2, <2>6
<1> HIDE DEF b
<1>6. /\ c \in Seq(S) /\ Len(c) = L + 6 /\ c[1] = "FILL"
      /\ \A i \in 2..L + 6 : c[i] = b[i - 1]
  BY <1>1, <1>2, <1>4, ConcatProperties
<1> HIDE DEF c
<1>7. /\ d \in Seq(S) /\ Len(d) = L + 7 /\ d[L + 7] = "RESUME"
      /\ \A i \in 1..L + 6 : d[i] = c[i]
  BY <1>1, <1>2, <1>6, ConcatProperties
<1> HIDE DEF d
<1>8. d[1] = "FILL" /\ \A i \in 2..L + 6 : d[i] = b[i - 1]
  BY <1>1, <1>6, <1>7
<1>9. /\ 2 \in 2..L + 6 /\ L + 3 \in 2..L + 6 /\ L + 4 \in 2..L + 6
      /\ L + 5 \in 2..L + 6 /\ L + 6 \in 2..L + 6
      /\ (L + 3) - 1 = L + 2 /\ (L + 4) - 1 = L + 3 /\ (L + 5) - 1 = L + 4
      /\ (L + 6) - 1 = L + 5
  BY <1>1
<1>10. /\ d[2] = "NEW" /\ d[L + 3] = "FIN" /\ d[L + 4] = "SENDFROM"
       /\ d[L + 5] = "1" /\ d[L + 6] = "CALCULATE"
  BY <1>5, <1>8, <1>9
<1>11. ASSUME NEW i \in 3..L + 2 PROVE d[i] = Program[i - 2]
  <2>1. i \in 2..L + 6 /\ i - 1 \in 2..L + 1 /\ (i - 1) - 1 = i - 2
    BY <1>1
  <2> QED
    BY <1>5, <1>8, <2>1
<1> QED
  BY <1>0, <1>7, <1>8, <1>10, <1>11 DEF RunItems

\* The other requests.
LEMMA RequestIs ==
    /\ Request("Home") = << "SINGLE", "$H" >>
    /\ Request("Resume") = << "RESUME" >> /\ Request("Pause") = << "PAUSE" >>
    /\ Request("Stop") = << "STOP", "CALCULATE" >>
  BY DEF Request

LEMMA RequestType ==
    ASSUME NEW k \in Kinds
    PROVE  Request(k) \in Seq(Msg) /\ Len(Request(k)) \in Nat /\ Len(Request(k)) > 0
<1>1. CASE k = "Run"
  <2>1. Request("Run") \in Seq(Msg) /\ Len(Request("Run")) = L + 7
    BY ConsoleWords, RunIs DEF RunItems
  <2> QED
    BY <1>1, <2>1, ConsoleWords
<1>2. CASE k # "Run"
  <2>1. {"SINGLE", "$H", "RESUME", "PAUSE", "STOP", "CALCULATE"} \subseteq Msg
    BY ConsoleWords
  <2>2. \A x, y \in Msg : /\ << x, y >> \in Seq(Msg) /\ Len(<< x, y >>) = 2
                          /\ << x >> \in Seq(Msg) /\ Len(<< x >>) = 1
    OBVIOUS
  <2>3. CASE k \in {"Home", "Stop"}
    <3>1. \E x, y \in Msg : Request(k) = << x, y >>
      BY <2>1, <2>3, RequestIs
    <3> QED
      BY <2>2, <3>1
  <2>4. CASE k \in {"Resume", "Pause"}
    <3>1. \E x \in Msg : Request(k) = << x >>
      BY <2>1, <2>4, RequestIs
    <3> QED
      BY <2>2, <3>1
  <2> QED
    BY <1>2, <2>3, <2>4 DEF Kinds
<1> QED
  BY <1>1, <1>2

\* A mark, and the marks m of the messages q: each message is its request's,
\* and after a request's message comes its next one, after its last one a first.
Mark == [of : Kinds, at : Nat]
Goes(m, i) ==
    IF m[i].at < Len(Request(m[i].of))
    THEN i < Len(m) /\ m[i + 1].of = m[i].of /\ m[i + 1].at = m[i].at + 1
    ELSE i < Len(m) => m[i + 1].at = 1
Fits(m, q, i) == m[i].at \in 1..Len(Request(m[i].of)) /\ q[i] = Request(m[i].of)[m[i].at]
Spells(m, q) ==
    /\ m \in Seq(Mark) /\ q \in Seq(Msg) /\ Len(m) = Len(q)
    /\ \A i \in 1..Len(q) : Fits(m, q, i) /\ Goes(m, i)

LEMMA SpellsNone == Spells(<< >>, << >>)
  BY DEF Spells

LEMMA SpellsTail ==
    ASSUME NEW m, NEW q, Spells(m, q), q # << >>
    PROVE  Spells(Tail(m), Tail(q))
<1>1. /\ m \in Seq(Mark) /\ q \in Seq(Msg) /\ Len(m) = Len(q) /\ m # << >>
      /\ Len(q) \in Nat /\ Len(q) > 0
  BY EmptySeq DEF Spells
<1>2. /\ Tail(m) \in Seq(Mark) /\ Tail(q) \in Seq(Msg)
      /\ Len(Tail(m)) = Len(m) - 1 /\ Len(Tail(q)) = Len(q) - 1
      /\ \A i \in 1..Len(q) - 1 : Tail(m)[i] = m[i + 1] /\ Tail(q)[i] = q[i + 1]
  BY <1>1, HeadTailProperties
<1>3. ASSUME NEW i \in 1..Len(q) - 1
      PROVE  Fits(Tail(m), Tail(q), i) /\ Goes(Tail(m), i)
  <2>1. i + 1 \in 1..Len(q) /\ i \in Nat
    BY <1>1
  <2>2. Fits(m, q, i + 1) /\ Goes(m, i + 1)
    BY <2>1 DEF Spells
  <2>3. Fits(Tail(m), Tail(q), i)
    BY <1>2, <2>2 DEF Fits
  <2>4. i < Len(q) - 1 => Tail(m)[i + 1] = m[(i + 1) + 1]
    BY <1>1, <1>2
  <2>5. i < Len(q) - 1 <=> i + 1 < Len(q)
    BY <1>1
  <2>6. Goes(Tail(m), i)
    BY <1>1, <1>2, <2>2, <2>4, <2>5 DEF Goes
  <2> QED
    BY <2>3, <2>6
<1> QED
  BY <1>1, <1>2, <1>3 DEF Spells

\* One more request.
Marked(k) == [i \in 1..Len(Request(k)) |-> [of |-> k, at |-> i]]

LEMMA SpellsMore ==
    ASSUME NEW m, NEW q, Spells(m, q), NEW k \in Kinds
    PROVE  Spells(m \o Marked(k), q \o Request(k))
<1> DEFINE R == Request(k)
           K == Marked(k)
           n == m \o K
           p == q \o R
<1>1. R \in Seq(Msg) /\ Len(R) \in Nat /\ Len(R) > 0
  BY RequestType
<1>2. /\ K \in Seq(Mark) /\ Len(K) = Len(R)
      /\ \A j \in 1..Len(R) : K[j] = [of |-> k, at |-> j]
  BY <1>1 DEF Marked, Mark
<1>3. m \in Seq(Mark) /\ q \in Seq(Msg) /\ Len(m) = Len(q) /\ Len(q) \in Nat
  BY DEF Spells
<1> HIDE DEF K
<1>4. /\ n \in Seq(Mark) /\ p \in Seq(Msg)
      /\ Len(n) = Len(q) + Len(R) /\ Len(p) = Len(q) + Len(R)
      /\ \A i \in 1..Len(q) + Len(R) :
            /\ n[i] = IF i <= Len(q) THEN m[i] ELSE K[i - Len(q)]
            /\ p[i] = IF i <= Len(q) THEN q[i] ELSE R[i - Len(q)]
  <2> HIDE DEF R
  <2>1. /\ n \in Seq(Mark) /\ Len(n) = Len(m) + Len(K)
        /\ \A i \in 1..Len(m) + Len(K) :
              n[i] = IF i <= Len(m) THEN m[i] ELSE K[i - Len(m)]
    BY <1>2, <1>3, ConcatProperties
  <2>2. /\ p \in Seq(Msg) /\ Len(p) = Len(q) + Len(R)
        /\ \A i \in 1..Len(q) + Len(R) :
              p[i] = IF i <= Len(q) THEN q[i] ELSE R[i - Len(q)]
    BY <1>1, <1>3, ConcatProperties
  <2> HIDE DEF n, p
  <2> QED
    BY <1>2, <1>3, <2>1, <2>2
<1> HIDE DEF n, p
<1>5. ASSUME NEW i \in 1..Len(q) PROVE Fits(n, p, i) /\ Goes(n, i)
  <2>1. Fits(m, q, i) /\ Goes(m, i)
    BY DEF Spells
  <2>2. i \in 1..Len(q) + Len(R) /\ i <= Len(q) /\ i \in Nat
    BY <1>1, <1>3
  <2>3. n[i] = m[i] /\ p[i] = q[i]
    BY <1>4, <2>2
  <2>4. Fits(n, p, i)
    BY <2>1, <2>3 DEF Fits
  <2>5. CASE i < Len(q)
    <3>1. n[i + 1] = m[i + 1] /\ i < Len(q) + Len(R)
      BY <1>1, <1>3, <1>4, <2>5
    <3>2. Goes(n, i)
      BY <1>3, <1>4, <2>1, <2>3, <2>5, <3>1 DEF Goes
    <3> QED
      BY <2>4, <3>2
  <2>6. CASE i = Len(q)
    <3>1. ~(m[i].at < Len(Request(m[i].of)))
      BY <1>3, <2>1, <2>6 DEF Goes
    <3>2. /\ i + 1 \in 1..Len(q) + Len(R) /\ ~(i + 1 <= Len(q)) /\ (i + 1) - Len(q) = 1
          /\ 1 \in 1..Len(R)
      BY <1>1, <1>3, <2>6
    <3>3. n[i + 1] = K[1] /\ K[1] = [of |-> k, at |-> 1]
      <4> HIDE DEF R
      <4>1. n[i + 1] = K[(i + 1) - Len(q)]
        BY <1>4, <3>2
      <4> QED
        BY <1>2, <3>2, <4>1
    <3>4. Goes(n, i)
      BY <2>3, <3>1, <3>3 DEF Goes
    <3> QED
      BY <2>4, <3>4
  <2> QED
    BY <1>3, <2>2, <2>5, <2>6
<1>6. ASSUME NEW i \in 1..Len(q) + Len(R), ~(i <= Len(q))
      PROVE  Fits(n, p, i) /\ Goes(n, i)
  <2> DEFINE j == i - Len(q)
  <2>1. j \in 1..Len(R) /\ j \in Nat
    BY <1>1, <1>3, <1>6
  <2>2. n[i] = [of |-> k, at |-> j] /\ p[i] = R[j]
    BY <1>2, <1>4, <1>6, <2>1
  <2>3. Fits(n, p, i)
    BY <2>1, <2>2 DEF Fits
  <2>4. CASE j < Len(R)
    <3>1. /\ i + 1 \in 1..Len(q) + Len(R) /\ ~(i + 1 <= Len(q))
          /\ (i + 1) - Len(q) = j + 1 /\ j + 1 \in 1..Len(R) /\ i < Len(q) + Len(R)
      BY <1>1, <1>3, <1>6, <2>4
    <3>2. n[i + 1] = [of |-> k, at |-> j + 1]
      BY <1>2, <1>4, <3>1
    <3>3. Goes(n, i)
      BY <1>4, <2>2, <2>4, <3>1, <3>2 DEF Goes
    <3> QED
      BY <2>3, <3>3
  <2>5. CASE ~(j < Len(R))
    <3>1. ~(i < Len(q) + Len(R))
      BY <1>1, <1>3, <1>6, <2>1, <2>5
    <3>2. Goes(n, i)
      BY <1>4, <2>2, <2>5, <3>1 DEF Goes
    <3> QED
      BY <2>3, <3>2
  <2> QED
    BY <2>4, <2>5
<1>7. \A i \in 1..Len(q) + Len(R) : Fits(n, p, i) /\ Goes(n, i)
  BY <1>1, <1>3, <1>5, <1>6
<1>8. Spells(n, p)
  BY <1>4, <1>7 DEF Spells
<1> QED
  BY <1>8 DEF n, p, K

\* How far a Run's messages were taken: the place of the next one, or 0; and
\* whether the next message is the command of the home button.
RunAt(m) == IF m # << >> /\ m[1].of = "Run" THEN m[1].at ELSE 0
HomeAt(m) == m # << >> /\ m[1].of = "Home" /\ m[1].at = 2

\* The first message, from its mark.
ItemOf(m, w) ==
    /\ RunAt(m) \in 0..L + 7
    /\ RunAt(m) = 1 => w = "FILL"
    /\ RunAt(m) = 2 => w = "NEW"
    /\ RunAt(m) \in 3..L + 2 => w = Program[RunAt(m) - 2]
    /\ RunAt(m) = L + 3 => w = "FIN"
    /\ RunAt(m) = L + 4 => w = "SENDFROM"
    /\ RunAt(m) = L + 5 => w = "1"
    /\ RunAt(m) = L + 6 => w = "CALCULATE"
    /\ RunAt(m) = L + 7 => w = "RESUME"
    /\ RunAt(m) = 0 =>
          \/ HomeAt(m) /\ w = "$H"
          \/ ~HomeAt(m) /\ w \in {"SINGLE", "RESUME", "PAUSE", "STOP", "CALCULATE"}
    /\ RunAt(m) # 0 => ~HomeAt(m)

\* Where the marks go from there.
NextOf(m, n, w) ==
    /\ HomeAt(n) <=> RunAt(m) = 0 /\ w = "SINGLE"
    /\ RunAt(m) \in 1..L + 6 => RunAt(n) = RunAt(m) + 1
    /\ RunAt(m) \in {0, L + 7} => RunAt(n) \in {0, 1}

LEMMA FirstMark ==
    ASSUME NEW m, NEW q, Spells(m, q), q # << >>
    PROVE  /\ m # << >> /\ m[1].of \in Kinds
           /\ m[1].at \in 1..Len(Request(m[1].of))
           /\ Head(q) = Request(m[1].of)[m[1].at]
           /\ IF m[1].at < Len(Request(m[1].of))
              THEN /\ Tail(m) # << >> /\ Tail(m)[1].of = m[1].of
                   /\ Tail(m)[1].at = m[1].at + 1
              ELSE Tail(m) # << >> => Tail(m)[1].at = 1
<1>1. /\ m \in Seq(Mark) /\ q \in Seq(Msg) /\ Len(m) = Len(q)
      /\ Len(q) \in Nat /\ Len(q) > 0
  BY EmptySeq DEF Spells
<1>2. m # << >> /\ Head(q) = q[1] /\ 1 \in 1..Len(q) /\ m[1] \in Mark
  BY <1>1, EmptySeq
<1>3. Fits(m, q, 1) /\ Goes(m, 1)
  BY <1>2 DEF Spells
<1>4. /\ Tail(m) \in Seq(Mark) /\ Len(Tail(m)) = Len(m) - 1
      /\ \A i \in 1..Len(m) - 1 : Tail(m)[i] = m[i + 1]
  <2>1. m \in Seq(Mark) /\ m # << >>
    BY <1>1, <1>2
  <2>2. /\ Tail(m) \in Seq(Mark) /\ Len(Tail(m)) = Len(m) - 1
        /\ \A i \in 1..Len(Tail(m)) : Tail(m)[i] = m[i + 1]
    BY <2>1, HeadTailProperties
  <2> QED
    BY <1>1, <2>2
<1>5. Tail(m) # << >> <=> 1 < Len(m)
  <2>1. Tail(m) = << >> <=> Len(Tail(m)) = 0
    BY <1>4
  <2>2. /\ Len(m) \in Nat /\ Len(m) > 0 /\ Len(Tail(m)) = Len(m) - 1
        /\ Len(Tail(m)) \in Nat
    BY <1>1, <1>4
  <2>3. \A a, b \in Nat : a > 0 /\ b = a - 1 => (b = 0 <=> ~(1 < a))
    OBVIOUS
  <2> QED
    BY <2>1, <2>2, <2>3
<1>6. 1 < Len(m) => Tail(m)[1] = m[1 + 1]
  BY <1>1, <1>4
<1>7. IF m[1].at < Len(Request(m[1].of))
      THEN /\ Tail(m) # << >> /\ Tail(m)[1].of = m[1].of
           /\ Tail(m)[1].at = m[1].at + 1
      ELSE Tail(m) # << >> => Tail(m)[1].at = 1
  BY <1>3, <1>5, <1>6 DEF Goes
<1> QED
  BY <1>2, <1>3, <1>7 DEF Fits, Mark

LEMMA MarksTell ==
    ASSUME NEW m, NEW q, Spells(m, q), q # << >>
    PROVE  ItemOf(m, Head(q)) /\ NextOf(m, Tail(m), Head(q))
<1> DEFINE k == m[1].of
           i == m[1].at
           w == Head(q)
           n == Tail(m)
           R == Request(k)
<1>1. /\ m # << >> /\ k \in Kinds /\ i \in 1..Len(R) /\ w = R[i]
      /\ i < Len(R) => n # << >> /\ n[1].of = k /\ n[1].at = i + 1
      /\ ~(i < Len(R)) => (n # << >> => n[1].at = 1)
  <2>1. /\ m # << >> /\ k \in Kinds /\ i \in 1..Len(R) /\ w = R[i]
        /\ IF i < Len(R) THEN n # << >> /\ n[1].of = k /\ n[1].at = i + 1
                         ELSE n # << >> => n[1].at = 1
    BY FirstMark
  <2> QED
    BY <2>1
<1>2. L \in Nat
  BY ConsoleWords
<1>3. RunAt(m) = IF k = "Run" THEN i ELSE 0
  BY <1>1 DEF RunAt
<1>4. HomeAt(m) <=> k = "Home" /\ i = 2
  BY <1>1 DEF HomeAt
<1> HIDE DEF k, i, w, n
<1>5. CASE k = "Run"
  <2>1. RunItems(R) /\ Len(R) = L + 7
    BY <1>5, ConsoleWords, RunIs DEF RunItems
  <2> HIDE DEF R
  <2>2. RunAt(m) = i /\ i \in 1..L + 7 /\ ~HomeAt(m) /\ w = R[i]
    BY <1>1, <1>3, <1>4, <1>5, <2>1
  <2>3. ItemOf(m, w)
    BY <1>2, <2>1, <2>2 DEF ItemOf, RunItems
  <2>4. CASE i < L + 7
    <3>1. n # << >> /\ n[1].of = "Run" /\ n[1].at = i + 1
      BY <1>1, <1>5, <2>1, <2>4
    <3>2. RunAt(n) = i + 1 /\ ~HomeAt(n)
      BY <3>1 DEF RunAt, HomeAt
    <3> QED
      BY <1>2, <2>2, <2>3, <2>4, <3>2 DEF NextOf, w, n
  <2>5. CASE ~(i < L + 7)
    <3>1. n # << >> => n[1].at = 1
      BY <1>1, <2>1, <2>5
    <3>2. RunAt(n) \in {0, 1} /\ ~HomeAt(n)
      BY <3>1 DEF RunAt, HomeAt
    <3> QED
      BY <1>2, <2>2, <2>3, <2>5, <3>2 DEF NextOf, w, n
  <2> QED
    BY <2>4, <2>5
<1>6. CASE k # "Run"
  <2>1. RunAt(m) = 0 /\ 0 \in 0..L + 7
    BY <1>2, <1>3, <1>6
  <2>2. /\ 0 \notin 3..L + 2 /\ 0 # 1 /\ 0 # 2 /\ 0 # L + 3 /\ 0 # L + 4 /\ 0 # L + 5
        /\ 0 # L + 6 /\ 0 # L + 7 /\ 0 \notin 1..L + 6
    BY <1>2
  <2>3. ASSUME \/ HomeAt(m) /\ w = "$H"
               \/ ~HomeAt(m) /\ w \in {"SINGLE", "RESUME", "PAUSE", "STOP", "CALCULATE"},
               RunAt(n) \in {0, 1}, HomeAt(n) <=> w = "SINGLE"
        PROVE  ItemOf(m, w) /\ NextOf(m, n, w)
    BY <2>1, <2>2, <2>3 DEF ItemOf, NextOf
  <2>4. CASE k = "Home"
    <3>1. Len(R) = 2 /\ R[1] = "SINGLE" /\ R[2] = "$H"
      BY <2>4, RequestIs
    <3> HIDE DEF R
    <3>2. i = 1 \/ i = 2
      BY <1>1, <3>1
    <3>3. CASE i = 1
      <4>1. w = "SINGLE" /\ n # << >> /\ n[1].of = "Home" /\ n[1].at = 2
        BY <1>1, <2>4, <3>1, <3>3
      <4>2. RunAt(n) = 0 /\ HomeAt(n) /\ ~HomeAt(m)
        BY <1>4, <3>3, <4>1 DEF RunAt, HomeAt
      <4> QED
        BY <2>3, <4>1, <4>2 DEF w, n
    <3>4. CASE i = 2
      <4>1. w = "$H" /\ (n # << >> => n[1].at = 1)
        BY <1>1, <3>1, <3>4
      <4>2. RunAt(n) \in {0, 1} /\ ~HomeAt(n) /\ HomeAt(m)
        BY <1>4, <2>4, <3>4, <4>1 DEF RunAt, HomeAt
      <4> QED
        BY <2>3, <4>1, <4>2 DEF w, n
    <3> QED
      BY <3>2, <3>3, <3>4
  <2>5. CASE k = "Stop"
    <3>1. Len(R) = 2 /\ R[1] = "STOP" /\ R[2] = "CALCULATE"
      BY <2>5, RequestIs
    <3> HIDE DEF R
    <3>2. i = 1 \/ i = 2
      BY <1>1, <3>1
    <3>3. w \in {"STOP", "CALCULATE"} /\ ~HomeAt(m)
      BY <1>1, <1>4, <2>5, <3>1, <3>2
    <3>4. CASE i = 1
      <4>1. n # << >> /\ n[1].of = "Stop"
        BY <1>1, <2>5, <3>1, <3>4
      <4>2. RunAt(n) = 0 /\ ~HomeAt(n)
        BY <4>1 DEF RunAt, HomeAt
      <4> QED
        BY <2>3, <3>3, <4>2 DEF w, n
    <3>5. CASE i = 2
      <4>1. n # << >> => n[1].at = 1
        BY <1>1, <3>1, <3>5
      <4>2. RunAt(n) \in {0, 1} /\ ~HomeAt(n)
        BY <4>1 DEF RunAt, HomeAt
      <4> QED
        BY <2>3, <3>3, <4>2 DEF w, n
    <3> QED
      BY <3>2, <3>4, <3>5
  <2>6. CASE k \in {"Resume", "Pause"}
    <3>1. Len(R) = 1 /\ R[1] \in {"RESUME", "PAUSE"}
      BY <2>6, RequestIs
    <3> HIDE DEF R
    <3>2. i = 1 /\ w \in {"RESUME", "PAUSE"} /\ (n # << >> => n[1].at = 1)
      BY <1>1, <3>1
    <3>3. RunAt(n) \in {0, 1} /\ ~HomeAt(n) /\ ~HomeAt(m)
      BY <1>4, <2>6, <3>2 DEF RunAt, HomeAt
    <3> QED
      BY <2>3, <3>2, <3>3 DEF w, n
  <2> QED
    BY <1>1, <1>6, <2>4, <2>5, <2>6 DEF Kinds
<1> QED
  BY <1>5, <1>6

\* With nothing left there is no mark.
LEMMA NoMarks ==
    ASSUME NEW m, Spells(m, << >>) PROVE RunAt(m) = 0 /\ ~HomeAt(m)
<1>1. m \in Seq(Mark) /\ Len(m) = 0
  BY DEF Spells
<1>2. m = << >>
  BY <1>1, EmptySeq
<1> QED
  BY <1>2 DEF RunAt, HomeAt

-----------------------------------------------------------------------------
(* What a step of the sender reports, and does to the run. *)

\* The step leaves the window's picture alone, ends the run, with a report or
\* with one that the window misses, or begins it.
Keeps  == reports' = reports /\ missed' = missed /\ (state' = "run" <=> state = "run")
Halts  == /\ state' # "run"
          /\ \E r \in {"Stop", "Pause", "error"} : reports' = Append(reports, r)
Misses == state' # "run" /\ reports' = reports /\ missed'
Starts == state = "stop" /\ state' = "run" /\ reports' = Append(reports, "Run")

\* What the step reported.
ReportSteps ==
    /\ reports' = ReportTo(reports)
    /\ missed' = IF Says THEN out'.ui.kind = "error" /\ mk = "Marlin" ELSE missed

LEMMA ReportIs ==
    ASSUME NEW u, NEW t, NEW p, out' = Event(u, t, p), ReportSteps
    PROVE  /\ u = NIL => reports' = reports /\ missed' = missed
           /\ \A k \in Bearing \ {"error"}, n \in Nat :
                 u = Ui(k, n) => reports' = Append(reports, k)
           /\ \A n \in Nat : u = Ui("error", n) =>
                 /\ mk = "Grbl" => reports' = Append(reports, "error")
                 /\ mk = "Marlin" => reports' = reports /\ missed'
           /\ \A k, n : k \notin Bearing /\ u = Ui(k, n)
                 => reports' = reports /\ missed' = missed
<1>1. out'.ui = u
  BY EventFacts
<1>2. ASSUME NEW k \in Bearing, NEW n \in Nat PROVE Ui(k, n) # NIL
  BY EventFacts, ReportsAssumption DEF Bearing
<1>3. CASE u = NIL
  <2>1. ~Says
    BY <1>1, <1>3 DEF Says
  <2> QED
    BY <1>2, <1>3, <2>1 DEF ReportSteps, ReportTo, Bearing
<1>4. ASSUME NEW k, NEW n, k \notin Bearing, u = Ui(k, n)
      PROVE  reports' = reports /\ missed' = missed
  <2>1. ~Says
    BY <1>1, <1>4, KindFacts DEF Says
  <2> QED
    BY <2>1 DEF ReportSteps, ReportTo
<1>5. ASSUME NEW k \in Bearing, NEW n \in Nat, u = Ui(k, n)
      PROVE  Says /\ out'.ui.kind = k
  BY <1>1, <1>2, <1>5, KindFacts DEF Says
<1>6. ASSUME NEW k \in Bearing \ {"error"}, NEW n \in Nat, u = Ui(k, n)
      PROVE  reports' = Append(reports, k)
  BY <1>5, <1>6 DEF ReportSteps, ReportTo, Matched
<1>7. ASSUME NEW n \in Nat, u = Ui("error", n)
      PROVE  /\ mk = "Grbl" => reports' = Append(reports, "error")
             /\ mk = "Marlin" => reports' = reports /\ missed'
  <2>1. Says /\ out'.ui.kind = "error"
    BY <1>5, <1>7 DEF Bearing
  <2> QED
    BY <2>1 DEF ReportSteps, ReportTo, Matched
<1> QED
  BY <1>3, <1>4, <1>6, <1>7

LEMMA QuietReport ==
    ASSUME out' = Quiet, ReportSteps PROVE reports' = reports /\ missed' = missed
  BY ReportIs DEF Quiet

\* What each place of the loop can do.
LEMMA WhatTicks ==
    ASSUME pc = "tick", SenderStep
    PROVE  \/ TickEnd \/ TickNoController \/ \E asked \in BOOLEAN : TickStatus(asked)
           \/ \E r \in Answers, acc, lapsed \in BOOLEAN : TickRead(r, acc, lapsed)
           \/ TickProgramEnd \/ TickIdle \/ TickLine \/ TickLineDies \/ TickSingle
<1>1. ~ConnectStep /\ ~HelpStep
  BY DEF ConnectStep, HelpStep, HelpAnswer, OnPORT, PortArg, ConnectIgnored, ConnectDies,
         ConnectFails, ConnectOpens, Greet, On
<1>2. ~HandlerStep
  BY DEF HandlerStep, NoMessage, OnNEW, OnCALCULATE, OnPAUSE, OnFILL, OnRESUME, OnSTOP,
         OnWithArgument, SingleArg, SendfromArg, AddFilterName, AddFilterPars,
         DelFilterName, FillStart, FillNext, On
<1> QED
  BY <1>1, <1>2 DEF SenderStep

LEMMA WhatHandles ==
    ASSUME pc \in {"wait", "SINGLE", "SENDFROM", "fill"}, SenderStep
    PROVE  OnPORT \/ HandlerStep
<1>1. ~TickStep
  BY DEF TickStep, TickEnd, TickNoController, TickStatus, TickRead, TickProgramEnd,
         TickIdle, TickLine, TickLineDies, TickSingle, TickMain, Tick
<1>2. ConnectStep \/ HelpStep => OnPORT
  BY DEF ConnectStep, HelpStep, HelpAnswer, OnPORT, PortArg, ConnectIgnored, ConnectDies,
         ConnectFails, ConnectOpens, Greet, On
<1>3. \A r \in Answers : r \in ReadResult
  BY AnswersAssumption
<1> QED
  BY <1>1, <1>2, <1>3 DEF SenderStep, TickStep

LEMMA WaitHandles ==
    ASSUME pc = "wait", HandlerStep
    PROVE  \/ NoMessage \/ OnNEW \/ OnCALCULATE \/ OnPAUSE \/ OnFILL \/ OnRESUME
           \/ OnSTOP \/ OnWithArgument \/ FillStart
  BY DEF HandlerStep, SingleArg, SendfromArg, AddFilterName, AddFilterPars,
         DelFilterName, FillNext

LEMMA ArgumentHandles ==
    ASSUME HandlerStep
    PROVE  /\ pc = "SINGLE" => SingleArg
           /\ pc = "SENDFROM" => SendfromArg
           /\ pc = "fill" => FillNext
<1>1. pc # "wait" => ~(NoMessage \/ OnNEW \/ OnCALCULATE \/ OnPAUSE \/ OnFILL \/ OnRESUME
                       \/ OnSTOP \/ OnWithArgument \/ FillStart)
  BY DEF NoMessage, OnNEW, OnCALCULATE, OnPAUSE, OnFILL, OnRESUME, OnSTOP,
         OnWithArgument, FillStart, On
<1>2. /\ SingleArg => pc = "SINGLE"
      /\ SendfromArg => pc = "SENDFROM"
      /\ FillNext => pc = "fill"
      /\ AddFilterName => pc = "ADDFILTER"
      /\ AddFilterPars => pc = "pars"
      /\ DelFilterName => pc = "DELFILTER"
  BY DEF SingleArg, SendfromArg, FillNext, AddFilterName, AddFilterPars, DelFilterName
<1> QED
  BY <1>1, <1>2 DEF HandlerStep

\* One step of the int_state machine.
TickKeeps ==
    /\ inbox' = inbox /\ mk' = mk /\ gthread' = gthread /\ send_from' = send_from
    /\ pc' \in {"wait", "dead"}
    /\ pc' = "dead" => cmd = StopLine \/ send_from = NIL
    /\ state' = "single" => state = "single"
    /\ Keeps \/ Halts \/ Misses

LEMMA TickEffect ==
    ASSUME TypeOK, GFilters = << >>, pc = "tick", SenderStep
    PROVE  TickKeeps
<1> USE DEF TickKeeps, Keeps, Tick, TickMain, program, control, store, line
<1>0. ReportSteps
  BY DEF SenderStep, ReportSteps
<1>1. CASE TickEnd
  BY <1>0, <1>1, QuietReport DEF TickEnd
<1>2. CASE TickNoController
  BY <1>0, <1>2, QuietReport DEF TickNoController
<1>3. ASSUME NEW asked \in BOOLEAN, TickStatus(asked) PROVE TickKeeps
  <2>1. reports' = reports /\ missed' = missed
    BY <1>0, <1>3, ReportIs DEF TickStatus
  <2> QED
    BY <1>3, <2>1 DEF TickStatus
<1>4. ASSUME NEW r, NEW acc, NEW lapsed, TickRead(r, acc, lapsed) PROVE TickKeeps
  <2>1. CASE r = "err" /\ send_from # NIL
    <3>1. LineNo(icmd) \in Nat
      BY <2>1 DEF LineNo, TypeOK, ProgramType
    <3>2. out' = Event(Ui("error", LineNo(icmd)), NIL, NIL) /\ state' = "stop"
          /\ pc' = "wait"
      BY <1>4, <2>1 DEF TickRead
    <3>3. mk \in {"Grbl", "Marlin"}
      BY <1>4 DEF TickRead, TypeOK, LoopType, Controllers
    <3>4. Halts \/ Misses
      BY <1>0, <3>1, <3>2, <3>3, ReportIs DEF Halts, Misses
    <3> QED
      BY <1>4, <3>2, <3>4 DEF TickRead
  <2>2. CASE ~(r = "err" /\ send_from # NIL)
    <3>1. out' = Quiet /\ state' = state
      BY <1>4, <2>2 DEF TickRead
    <3>2. reports' = reports /\ missed' = missed
      BY <1>0, <3>1, QuietReport
    <3> QED
      BY <1>4, <2>2, <3>1, <3>2 DEF TickRead
  <2> QED
    BY <2>1, <2>2
<1>5. CASE TickProgramEnd
  <2>1. reports' = Append(reports, "Stop") /\ state' = "stop"
    BY <1>0, <1>5, ReportIs DEF TickProgramEnd, Bearing
  <2>2. Halts
    BY <2>1 DEF Halts
  <2> QED
    BY <1>5, <2>2 DEF TickProgramEnd
<1>6. CASE TickIdle
  BY <1>0, <1>6, QuietReport DEF TickIdle
<1>7. CASE TickLine
  <2>1. /\ Write(gthread[NextCmd], NextCmd)
        /\ \E t, p : out' = Event(Ui("gauge", NextCmd), t, p)
    BY <1>7 DEF TickLine, SendOut
  <2>2. reports' = reports /\ missed' = missed
    BY <1>0, <2>1, ReportIs DEF Bearing
  <2> QED
    BY <1>7, <2>1, <2>2 DEF TickLine, Write
<1>8. CASE TickLineDies
  <2>1. reports' = reports /\ missed' = missed
    BY <1>0, <1>8, ReportIs DEF TickLineDies, Bearing
  <2> QED
    BY <1>8, <2>1 DEF TickLineDies
<1>9. CASE TickSingle
  <2>1. /\ Write(sthread[Len(sthread)], 0)
        /\ \E t, p : out' = Event(NIL, t, p)
    BY <1>9 DEF TickSingle, SendOut
  <2>2. reports' = reports /\ missed' = missed
    BY <1>0, <2>1, ReportIs
  <2>3. state = "single" /\ state' # "run"
    BY <1>9 DEF TickSingle, SingleReady
  <2> QED
    BY <1>9, <2>1, <2>2, <2>3 DEF TickSingle, Write
<1> QED
  BY <1>1, <1>2, <1>3, <1>4, <1>5, <1>6, <1>7, <1>8, <1>9, WhatTicks

\* The handler of the message w.
Handles(w) ==
    /\ inbox' = Tail(inbox) /\ mk' = mk /\ send_from' = send_from
    /\ state' = "single" => state = "single"
    /\ w \in {"FILL", "CALCULATE", "FIN"} => pc' = "tick" /\ gthread' = gthread /\ Keeps
    /\ w \in {"SINGLE", "SENDFROM"} => pc' = w /\ gthread' = gthread /\ Keeps
    /\ w \in Text => pc' = "fill" /\ gthread' = Append(gthread, w) /\ Keeps
    /\ w = "NEW" => pc' = "tick" /\ gthread' = << >> /\ Halts
    /\ w = "STOP" => pc' = "tick" /\ gthread' = gthread /\ Halts
    /\ w = "PAUSE" => /\ gthread' = gthread
                      /\ IF mk = NIL THEN pc' = "dead" /\ Keeps
                                     ELSE pc' = "tick" /\ Halts
    /\ w = "RESUME" => /\ gthread' = gthread
                       /\ IF mk = NIL THEN pc' = "dead" /\ Keeps
                          ELSE /\ pc' = "tick"
                               /\ \/ Starts
                                  \/ Keeps /\ state' = state /\ state # "stop"

LEMMA WaitEffect ==
    ASSUME TypeOK, pc = "wait", inbox # << >>, SenderStep
    PROVE  Handles(Head(inbox))
<1> DEFINE w == Head(inbox)
<1>1. w \in Msg /\ w # NIL /\ Arrived = w
  BY HeadTailProperties, NILAssumption DEF TypeOK, MailboxType, Arrived
<1>2. ReportSteps
  BY DEF SenderStep, ReportSteps
<1>3. /\ Text \cap Word = {}
      /\ {"FILL", "CALCULATE", "FIN", "SINGLE", "SENDFROM", "NEW", "STOP", "PAUSE",
          "RESUME", "PORT", "ADDFILTER", "DELFILTER"} \subseteq Word
  BY TextAssumption DEF Word
<1>4. inbox' = Tail(inbox) <=> WaitMsg
  BY DEF WaitMsg
<1> SUFFICES Handles(w)
  OBVIOUS
<1> HIDE DEF w
<1> USE <1>1, <1>4 DEF Handles, Keeps, program, control, store, line
<1>5. CASE OnPORT
  <2>1. w = "PORT" /\ w \notin Text /\ WaitMsg
    BY <1>3, <1>5 DEF OnPORT, On, w
  <2> QED
    BY <1>5, <2>1 DEF OnPORT
<1>6. CASE NoMessage
  <2>1. w = "FIN" /\ w \notin Text /\ reports' = reports /\ missed' = missed
    BY <1>2, <1>3, <1>6, QuietReport DEF NoMessage
  <2> QED
    BY <1>6, <2>1 DEF NoMessage
<1>7. CASE OnNEW
  <2>1. w = "NEW" /\ w \notin Text /\ WaitMsg
    BY <1>3, <1>7 DEF OnNEW, On, w
  <2>2. Halts
    <3>1. reports' = Append(reports, "Stop")
      BY <1>2, <1>7, ReportIs DEF OnNEW, Bearing
    <3> QED
      BY <1>7, <3>1 DEF OnNEW, Halts
  <2> QED
    BY <1>7, <2>1, <2>2 DEF OnNEW
<1>8. CASE OnCALCULATE
  <2>1. w = "CALCULATE" /\ w \notin Text /\ WaitMsg
    BY <1>3, <1>8 DEF OnCALCULATE, On, w
  <2>2. reports' = reports /\ missed' = missed
    BY <1>2, <1>8, ReportIs DEF OnCALCULATE, Bearing
  <2> QED
    BY <1>8, <2>1, <2>2 DEF OnCALCULATE
<1>9. CASE OnPAUSE
  <2>1. w = "PAUSE" /\ w \notin Text /\ WaitMsg
    BY <1>3, <1>9 DEF OnPAUSE, On, w
  <2>2. CASE mk = NIL
    <3>1. reports' = reports /\ missed' = missed
      BY <1>2, <1>9, <2>2, QuietReport DEF OnPAUSE
    <3> QED
      BY <1>9, <2>1, <2>2, <3>1 DEF OnPAUSE
  <2>3. CASE mk # NIL
    <3>1. \E t : out' = Event(Ui("Pause", 0), t, NIL)
      BY <1>9, <2>3 DEF OnPAUSE
    <3>2. reports' = Append(reports, "Pause")
      BY <1>2, <3>1, ReportIs DEF Bearing
    <3>3. Halts
      BY <1>9, <2>3, <3>2 DEF OnPAUSE, Halts
    <3> QED
      BY <1>9, <2>1, <2>3, <3>3 DEF OnPAUSE
  <2> QED
    BY <2>2, <2>3
<1>10. CASE OnFILL
  <2>1. w = "FILL" /\ w \notin Text /\ WaitMsg
    BY <1>3, <1>10 DEF OnFILL, On, w
  <2>2. reports' = reports /\ missed' = missed
    BY <1>2, <1>10, QuietReport DEF OnFILL
  <2> QED
    BY <1>10, <2>1, <2>2 DEF OnFILL
<1>11. CASE OnRESUME
  <2>1. w = "RESUME" /\ w \notin Text /\ WaitMsg
    BY <1>3, <1>11 DEF OnRESUME, On, w
  <2>2. CASE mk = NIL
    <3>1. reports' = reports /\ missed' = missed
      BY <1>2, <1>11, <2>2, QuietReport DEF OnRESUME
    <3> QED
      BY <1>11, <2>1, <2>2, <3>1 DEF OnRESUME
  <2>3. CASE mk # NIL /\ state = "stop"
    <3>1. \E t : out' = Event(Ui("Run", 0), t, NIL)
      BY <1>11, <2>3 DEF OnRESUME
    <3>2. reports' = Append(reports, "Run")
      BY <1>2, <3>1, ReportIs DEF Bearing
    <3>3. Starts
      BY <1>11, <2>3, <3>2 DEF OnRESUME, Starts
    <3> QED
      BY <1>11, <2>1, <2>3, <3>3 DEF OnRESUME
  <2>4. CASE mk # NIL /\ state # "stop"
    <3>1. \E t : out' = Event(NIL, t, NIL)
      BY <1>11, <2>4 DEF OnRESUME
    <3>2. reports' = reports /\ missed' = missed
      BY <1>2, <3>1, ReportIs
    <3> QED
      BY <1>11, <2>1, <2>4, <3>2 DEF OnRESUME
  <2> QED
    BY <2>2, <2>3, <2>4
<1>12. CASE OnSTOP
  <2>1. w = "STOP" /\ w \notin Text /\ WaitMsg
    BY <1>3, <1>12 DEF OnSTOP, On, w
  <2>2. Halts
    <3>1. reports' = Append(reports, "Stop")
      BY <1>2, <1>12, ReportIs DEF OnSTOP, Bearing
    <3> QED
      BY <1>12, <3>1 DEF OnSTOP, Halts
  <2> QED
    BY <1>12, <2>1, <2>2 DEF OnSTOP
<1>13. CASE OnWithArgument
  <2>1. w \in {"SINGLE", "SENDFROM", "ADDFILTER", "DELFILTER"}
        /\ w \notin Text /\ pc' = w /\ WaitMsg
    BY <1>3, <1>13 DEF OnWithArgument, On, w
  <2>2. reports' = reports /\ missed' = missed
    BY <1>2, <1>13, QuietReport DEF OnWithArgument
  <2> QED
    BY <1>13, <2>1, <2>2 DEF OnWithArgument
<1>14. CASE FillStart
  <2>1. w \in Text /\ WaitMsg /\ reports' = reports /\ missed' = missed
    BY <1>2, <1>14, QuietReport DEF FillStart
  <2>2. w \notin Word
    BY <1>3, <2>1
  <2> QED
    BY <1>3, <1>14, <2>1, <2>2 DEF FillStart
<1> QED
  BY <1>5, <1>6, <1>7, <1>8, <1>9, <1>10, <1>11, <1>12, <1>13, <1>14,
     WhatHandles, WaitHandles

\* A wait of the loop that nothing ends.
LEMMA SilentWait ==
    ASSUME TypeOK, pc \in {"wait", "fill"}, inbox = << >>, SenderStep
    PROVE  /\ inbox' = << >> /\ pc' = "tick" /\ Keeps
           /\ UNCHANGED << mk, gthread, send_from, state >>
<1>1. Arrived = NIL /\ NIL \notin Text
  BY NILAssumption DEF Arrived, Msg
<1>2. ReportSteps
  BY DEF SenderStep, ReportSteps
<1>3. NoMessage \/ FillNext
  <2>1. ~OnPORT /\ ~OnNEW /\ ~OnCALCULATE /\ ~OnPAUSE /\ ~OnFILL /\ ~OnRESUME /\ ~OnSTOP
        /\ ~OnWithArgument
    BY DEF OnPORT, OnNEW, OnCALCULATE, OnPAUSE, OnFILL, OnRESUME, OnSTOP,
           OnWithArgument, On
  <2>2. ~FillStart
    BY <1>1 DEF FillStart
  <2> QED
    BY <2>1, <2>2, WhatHandles, WaitHandles, ArgumentHandles
<1>4. out' = Quiet
  BY <1>3 DEF NoMessage, FillNext
<1>5. reports' = reports /\ missed' = missed
  BY <1>2, <1>4, QuietReport
<1> QED
  BY <1>1, <1>3, <1>5
     DEF NoMessage, FillNext, WaitMsg, Keeps, program, control, store, line

\* The message is the argument that a handler waits for, or a line of a fill.
LEMMA ArgumentEffect ==
    ASSUME TypeOK, pc \in {"SINGLE", "SENDFROM", "fill"}, inbox # << >>, SenderStep
    PROVE  /\ inbox' = Tail(inbox) /\ mk' = mk /\ Keeps
           /\ pc = "SINGLE" => /\ pc' = "tick" /\ UNCHANGED << gthread, send_from >>
           /\ pc # "SINGLE" => state' = state
           /\ pc = "SENDFROM" =>
                 /\ pc' = "tick" /\ gthread' = gthread
                 /\ \/ send_from' = send_from
                    \/ send_from' = IF Head(inbox) \in Text THEN ToNumber[Head(inbox)]
                                                            ELSE NIL
           /\ pc = "fill" =>
                 /\ send_from' = send_from
                 /\ IF Head(inbox) = "FIN" THEN pc' = "tick" /\ gthread' = gthread
                    ELSE pc' = "fill" /\ gthread' = Append(gthread, Head(inbox))
<1>1. Arrived = Head(inbox) /\ Arrived # NIL
  BY HeadTailProperties, NILAssumption DEF TypeOK, MailboxType, Arrived
<1>2. ReportSteps
  BY DEF SenderStep, ReportSteps
<1>3. ~OnPORT
  BY DEF OnPORT, On
<1>4. /\ pc = "SINGLE" => SingleArg
      /\ pc = "SENDFROM" => SendfromArg
      /\ pc = "fill" => FillNext
  BY <1>3, WhatHandles, ArgumentHandles
<1>5. out' = Quiet /\ WaitMsg
  BY <1>4 DEF SingleArg, SendfromArg, FillNext
<1>6. reports' = reports /\ missed' = missed /\ inbox' = Tail(inbox)
  BY <1>2, <1>5, QuietReport DEF WaitMsg
<1> USE DEF Keeps, program, control, store, line
<1>7. CASE pc = "SINGLE"
  BY <1>4, <1>6, <1>7 DEF SingleArg
<1>8. CASE pc = "SENDFROM"
  BY <1>1, <1>4, <1>6, <1>8 DEF SendfromArg
<1>9. CASE pc = "fill"
  BY <1>1, <1>4, <1>6, <1>9 DEF FillNext
<1> QED
  BY <1>7, <1>8, <1>9

-----------------------------------------------------------------------------
(* While messages are not mixed. *)

\* What lies between the window's handler and the sender's, in its order.
Trail == inbox \o posting

\* The sender is where the next message's mark says.
CalmPC == {"tick", "wait", "SINGLE", "SENDFROM", "fill"}
Placed(m) ==
    /\ pc \in CalmPC
    /\ pc = "SINGLE" <=> HomeAt(m)
    /\ pc = "SENDFROM" <=> RunAt(m) = L + 5
    /\ pc = "fill" => RunAt(m) \in 3..L + 3

\* What taking the message w does, which stands at the first of the marks m.
Bears(w) ==
    /\ Keeps \/ Halts \/ Starts
    /\ state = "stop" /\ state' = "run" => w = "RESUME"
    /\ w \in {"NEW", "PAUSE", "STOP"} /\ pc' # "dead" => Halts
    /\ w = "RESUME" /\ pc' # "dead" /\ state # "single" => state' = "run"
    /\ state' = "single" => state = "single" \/ pc = "SINGLE"
Moves(m, w) ==
    /\ pc' \in CalmPC \cup {"dead"}
    /\ pc' = "dead" => mk = NIL
    /\ pc' # "dead" => /\ pc' = "SINGLE" <=> RunAt(m) = 0 /\ w = "SINGLE"
                       /\ pc' = "SENDFROM" <=> RunAt(m) = L + 4
                       /\ pc' = "fill" => RunAt(m) \in 3..L + 2
Fills(m, w) ==
    gthread' = IF RunAt(m) = 2 THEN << >>
               ELSE IF RunAt(m) \in 3..L + 2 THEN Append(gthread, w) ELSE gthread
Taken(m, w) ==
    /\ inbox' = Tail(inbox) /\ mk' = mk /\ send_from' # NIL
    /\ Bears(w) /\ Moves(m, w) /\ Fills(m, w)

LEMMA WordBears ==
    ASSUME TypeOK, NEW w, Handles(w), pc = "wait",
           w \in Text \cup {"FILL", "CALCULATE", "FIN", "SINGLE", "SENDFROM", "NEW", "STOP",
                            "PAUSE", "RESUME"}
    PROVE  Bears(w)
<1>1. /\ Text \cap Word = {}
      /\ {"FILL", "CALCULATE", "FIN", "SINGLE", "SENDFROM", "NEW", "STOP", "PAUSE",
          "RESUME"} \subseteq Word
  BY TextAssumption DEF Word
<1>2. Halts => state' # "run"
  BY DEF Halts
<1>3. Starts => state = "stop" /\ state' = "run"
  BY DEF Starts
<1>4. Keeps => (state' = "run" <=> state = "run")
  BY DEF Keeps
<1>5. state' = "single" => state = "single"
  BY DEF Handles
<1>6. ASSUME Keeps, w \notin {"NEW", "PAUSE", "STOP", "RESUME"} PROVE Bears(w)
  BY <1>4, <1>5, <1>6 DEF Bears
<1>7. ASSUME Halts, w # "RESUME" PROVE Bears(w)
  BY <1>2, <1>5, <1>7 DEF Bears
<1>8. CASE w \in Text \cup {"FILL", "CALCULATE", "FIN", "SINGLE", "SENDFROM"}
  <2>1. Keeps
    BY <1>8 DEF Handles
  <2>2. w \notin {"NEW", "PAUSE", "STOP", "RESUME"}
    BY <1>1, <1>8
  <2> QED
    BY <1>6, <2>1, <2>2
<1>9. CASE w \in {"NEW", "STOP"}
  BY <1>7, <1>9 DEF Handles
<1>10. CASE w = "PAUSE"
  <2>1. (pc' = "dead" /\ Keeps) \/ Halts
    BY <1>10 DEF Handles
  <2>2. ASSUME pc' = "dead", Keeps PROVE Bears(w)
    BY <1>4, <1>5, <1>10, <2>2 DEF Bears
  <2> QED
    BY <1>7, <1>10, <2>1, <2>2
<1>11. CASE w = "RESUME"
  <2>1. \/ pc' = "dead" /\ Keeps
        \/ Starts
        \/ Keeps /\ state' = state /\ state # "stop"
    BY <1>11 DEF Handles
  <2>2. state \in {"stop", "run", "single"}
    BY DEF TypeOK, LoopType
  <2> QED
    BY <1>3, <1>4, <1>5, <1>11, <2>1, <2>2 DEF Bears
<1> QED
  BY <1>8, <1>9, <1>10, <1>11

LEMMA WordTaken ==
    ASSUME TypeOK, NEW m, NEW w, ItemOf(m, w), Placed(m), pc = "wait", send_from # NIL,
           Handles(w)
    PROVE  Taken(m, w)
<1> DEFINE r == RunAt(m)
<1>1. /\ Text \cap Word = {} /\ L \in Nat /\ \A i \in 1..L : Program[i] \in Text
      /\ {"FILL", "CALCULATE", "FIN", "SINGLE", "SENDFROM", "NEW", "STOP", "PAUSE",
          "RESUME"} \subseteq Word
  BY ConsoleWords DEF Word
<1>2. ~HomeAt(m) /\ r # L + 5 /\ r \in 0..L + 7
  BY DEF Placed, ItemOf
<1>3. r = 0 => w \in {"SINGLE", "RESUME", "PAUSE", "STOP", "CALCULATE"}
  BY <1>2 DEF ItemOf
<1>4. /\ r = 1 => w = "FILL"
      /\ r = 2 => w = "NEW"
      /\ r = L + 3 => w = "FIN"
      /\ r = L + 4 => w = "SENDFROM"
      /\ r = L + 6 => w = "CALCULATE"
      /\ r = L + 7 => w = "RESUME"
  BY DEF ItemOf
<1>5. r \in 3..L + 2 => w \in Text
  <2>1. ASSUME r \in 3..L + 2 PROVE r - 2 \in 1..L
    BY <1>1, <2>1
  <2> QED
    BY <1>1, <2>1 DEF ItemOf
<1> HIDE DEF r
<1>6. /\ inbox' = Tail(inbox) /\ mk' = mk /\ send_from' # NIL
  BY DEF Handles
<1>7. ASSUME Bears(w), Moves(m, w), Fills(m, w) PROVE Taken(m, w)
  BY <1>6, <1>7 DEF Taken
<1>8. CASE r \in 3..L + 2
  <2>1. w \in Text /\ w # "SINGLE"
    BY <1>1, <1>5, <1>8
  <2>2. pc' = "fill" /\ gthread' = Append(gthread, w)
    BY <2>1 DEF Handles
  <2>3. r # 2 /\ r # 0 /\ r # L + 4
    BY <1>1, <1>8
  <2>4. Moves(m, w)
    BY <1>8, <2>2, <2>3 DEF Moves, CalmPC, r
  <2>5. Fills(m, w)
    BY <1>8, <2>2, <2>3 DEF Fills, r
  <2> QED
    BY <1>7, <2>1, <2>4, <2>5, WordBears
<1>9. CASE r = 2
  <2>1. w = "NEW"
    BY <1>4, <1>9
  <2>2. pc' = "tick" /\ gthread' = << >>
    BY <2>1 DEF Handles
  <2>3. r # L + 4 /\ r # 0
    BY <1>1, <1>9
  <2>4. Moves(m, w)
    BY <2>2, <2>3 DEF Moves, CalmPC, r
  <2>5. Fills(m, w)
    BY <1>9, <2>2 DEF Fills, r
  <2> QED
    BY <1>7, <2>1, <2>4, <2>5, WordBears
<1>10. CASE r = L + 4
  <2>1. w = "SENDFROM"
    BY <1>4, <1>10
  <2>2. pc' = "SENDFROM" /\ gthread' = gthread
    BY <2>1 DEF Handles
  <2>3. r # 2 /\ r # 0 /\ r \notin 3..L + 2
    BY <1>1, <1>10
  <2>4. Moves(m, w)
    BY <1>10, <2>2, <2>3 DEF Moves, CalmPC, r
  <2>5. Fills(m, w)
    BY <2>2, <2>3 DEF Fills, r
  <2> QED
    BY <1>7, <2>1, <2>4, <2>5, WordBears
<1>11. CASE r \in {0, 1, L + 3, L + 6, L + 7}
  <2>1. r # 2 /\ r \notin 3..L + 2 /\ r # L + 4
    BY <1>1, <1>11
  <2>2. w = "SINGLE" => r = 0
    BY <1>1, <1>3, <1>4, <1>11
  <2>3. w \in {"SINGLE", "RESUME", "PAUSE", "STOP", "CALCULATE", "FILL", "FIN"}
    BY <1>3, <1>4, <1>11
  <2>4. /\ gthread' = gthread
        /\ w = "SINGLE" => pc' = "SINGLE"
        /\ w # "SINGLE" => pc' = "tick" \/ (pc' = "dead" /\ mk = NIL)
    BY <2>3 DEF Handles
  <2>5. Moves(m, w)
    BY <2>1, <2>2, <2>4 DEF Moves, CalmPC, r
  <2>6. Fills(m, w)
    BY <2>1, <2>4 DEF Fills, r
  <2> QED
    BY <1>7, <2>3, <2>5, <2>6, WordBears
<1>12. r \in 3..L + 2 \/ r = 2 \/ r = L + 4 \/ r \in {0, 1, L + 3, L + 6, L + 7}
  BY <1>1, <1>2
<1> QED
  BY <1>8, <1>9, <1>10, <1>11, <1>12

LEMMA MessageTaken ==
    ASSUME TypeOK, NEW m, Spells(m, Trail), Placed(m), inbox # << >>,
           posting \in Seq(Msg), pc # "tick", send_from # NIL, SenderStep
    PROVE  Taken(m, Head(inbox))
<1> DEFINE w == Head(inbox)
           r == RunAt(m)
<1>1. inbox \in Seq(Msg)
  BY DEF TypeOK, MailboxType
<1>2. Trail # << >> /\ Head(Trail) = w
  BY <1>1, TakenOff DEF Trail
<1>3. ItemOf(m, w)
  BY <1>2, MarksTell
<1>4. /\ Text \cap Word = {} /\ L \in Nat /\ \A i \in 1..L : Program[i] \in Text
      /\ {"FIN", "SINGLE", "NEW", "STOP", "PAUSE", "RESUME"} \subseteq Word
      /\ "$H" \in Text /\ "1" \in Text /\ ToNumber["1"] # NIL
  BY ConsoleWords, PostsAssumption DEF Word
<1>5. CASE pc = "wait"
  BY <1>3, <1>5, WaitEffect, WordTaken
<1> SUFFICES ASSUME pc \in {"SINGLE", "SENDFROM", "fill"} PROVE Taken(m, w)
  BY <1>5 DEF Placed, CalmPC
<1>6. /\ inbox' = Tail(inbox) /\ mk' = mk /\ Keeps
      /\ pc = "SINGLE" => /\ pc' = "tick" /\ UNCHANGED << gthread, send_from >>
      /\ pc # "SINGLE" => state' = state
      /\ pc = "SENDFROM" =>
            /\ pc' = "tick" /\ gthread' = gthread
            /\ \/ send_from' = send_from
               \/ send_from' = IF w \in Text THEN ToNumber[w] ELSE NIL
      /\ pc = "fill" =>
            /\ send_from' = send_from
            /\ IF w = "FIN" THEN pc' = "tick" /\ gthread' = gthread
               ELSE pc' = "fill" /\ gthread' = Append(gthread, w)
  BY ArgumentEffect
<1> HIDE DEF w, r
<1>7. w \notin {"NEW", "PAUSE", "STOP", "RESUME", "SINGLE"} => Bears(w)
  BY <1>6 DEF Bears, Keeps
<1>8. CASE pc = "SINGLE"
  <2>1. w = "$H" /\ r = 0
    BY <1>3, <1>8 DEF Placed, ItemOf, r
  <2>2. w \notin {"NEW", "PAUSE", "STOP", "RESUME", "SINGLE"}
    BY <2>1
  <2>3. 0 # L + 4 /\ 0 \notin 3..L + 2
    BY <1>4
  <2>4. Moves(m, w) /\ Fills(m, w)
    BY <1>6, <1>8, <2>1, <2>2, <2>3 DEF Moves, Fills, CalmPC, r
  <2> QED
    BY <1>6, <1>7, <1>8, <2>2, <2>4 DEF Taken
<1>9. CASE pc = "SENDFROM"
  <2>1. r = L + 5
    BY <1>9 DEF Placed, r
  <2>2. w = "1"
    BY <1>3, <2>1 DEF ItemOf, r
  <2>3. w \notin {"NEW", "PAUSE", "STOP", "RESUME", "SINGLE"} /\ send_from' # NIL
    BY <1>4, <1>6, <1>9, <2>2
  <2>4. r # L + 4 /\ r \notin 3..L + 2 /\ r # 2 /\ r # 0
    BY <1>4, <2>1
  <2>5. Moves(m, w) /\ Fills(m, w)
    BY <1>6, <1>9, <2>3, <2>4 DEF Moves, Fills, CalmPC, r
  <2> QED
    BY <1>6, <1>7, <2>3, <2>5 DEF Taken
<1>10. CASE pc = "fill"
  <2>1. r \in 3..L + 3
    BY <1>10 DEF Placed, r
  <2>2. send_from' # NIL /\ r # 0 /\ r # 2 /\ r # L + 4
    BY <1>4, <1>6, <1>10, <2>1
  <2>3. CASE r = L + 3
    <3>1. w = "FIN" /\ r \notin 3..L + 2
      BY <1>3, <1>4, <2>3 DEF ItemOf, r
    <3>2. Moves(m, w) /\ Fills(m, w)
      BY <1>6, <1>10, <2>2, <3>1 DEF Moves, Fills, CalmPC, r
    <3> QED
      BY <1>6, <1>7, <2>2, <3>1, <3>2 DEF Taken
  <2>4. CASE r \in 3..L + 2
    <3>1. w \in Text
      <4>1. r - 2 \in 1..L
        BY <1>4, <2>4
      <4> QED
        BY <1>3, <1>4, <2>4, <4>1 DEF ItemOf, r
    <3>2. w \notin {"NEW", "PAUSE", "STOP", "RESUME", "SINGLE", "FIN"}
      BY <1>4, <3>1
    <3>3. pc' = "fill" /\ gthread' = Append(gthread, w)
      BY <1>6, <1>10, <3>2
    <3>4. Moves(m, w)
      BY <2>2, <2>4, <3>3 DEF Moves, CalmPC, r
    <3>5. Fills(m, w)
      BY <2>2, <2>4, <3>3 DEF Fills, r
    <3> QED
      BY <1>6, <1>7, <2>2, <3>2, <3>4, <3>5 DEF Taken
  <2>5. r = L + 3 \/ r \in 3..L + 2
    BY <1>4, <2>1
  <2> QED
    BY <2>3, <2>4, <2>5
<1> QED
  BY <1>8, <1>9, <1>10 DEF w

-----------------------------------------------------------------------------
(* The words of the window and of the sender. *)

\* What the handlers of the window post, but for the program.
WindowWords == {"FILL", "NEW", "FIN", "SENDFROM", "1", "CALCULATE", "RESUME",
                "SINGLE", "$H", "PAUSE", "STOP", "PORT", "Grbl", "Marlin",
                "/dev/ttyUSB0", "115200", Empty}

Vocabulary(S) == Speech(S) /\ WindowWords \subseteq S /\ Program \in Seq(S)

\* No message in the sender or on its way to it is one that is not in S.
Said(S) == TypeOK /\ OnlyIn(S) /\ GFilters = << >> /\ posting \in Seq(S)

NoStopLine == \A i \in 1..L : Program[i] # StopLine

LEMMA Vocabularies ==
    /\ Vocabulary(Pure)
    /\ NoStopLine => Vocabulary(Pure \ {StopLine})
<1>1. WindowWords \subseteq Pure /\ Program \in Seq(Pure)
  BY ConsoleWords DEF WindowWords
<1>2. Vocabulary(Pure)
  BY <1>1, PureGreetings DEF Vocabulary
<1>3. ASSUME NoStopLine PROVE Vocabulary(Pure \ {StopLine})
  <2>1. WindowWords \subseteq Pure \ {StopLine}
    <3>1. StopLine \notin WindowWords
      BY DEF WindowWords, StopLine, Empty
    <3> QED
      BY <1>1, <3>1
  <2>2. Program \in Seq(Pure \ {StopLine})
    BY <1>1, <1>3 DEF NoStopLine, L
  <2>3. Speech(Pure \ {StopLine})
    <3>1. {"NEW", "CALCULATE", "SINGLE", "G21G90", "G90G21", GrblMode} \subseteq Pure
      BY TextAssumption DEF Pure, Msg, Word
    <3>2. StopLine \notin {"NEW", "CALCULATE", "SINGLE", "G21G90", "G90G21", GrblMode}
      BY DEF StopLine, GrblMode
    <3>3. /\ Pure \ {StopLine} \subseteq Pure
          /\ {"NEW", "CALCULATE", "SINGLE", "G21G90", "G90G21", GrblMode}
             \subseteq Pure \ {StopLine}
      BY <3>1, <3>2
    <3> QED
      BY <3>3, GreetingsIn
  <2> QED
    BY <2>1, <2>2, <2>3 DEF Vocabulary
<1> QED
  BY <1>2, <1>3

LEMMA RequestIn ==
    ASSUME NEW S, Vocabulary(S), NEW k \in Kinds
    PROVE  Request(k) \in Seq(S)
<1>1. CASE k = "Run"
  BY <1>1, RunIs DEF Vocabulary, WindowWords
<1>2. CASE k # "Run"
  <2>1. {"SINGLE", "$H", "RESUME", "PAUSE", "STOP", "CALCULATE"} \subseteq S
    BY DEF Vocabulary, WindowWords
  <2>2. \A x, y \in S : << x, y >> \in Seq(S) /\ << x >> \in Seq(S)
    OBVIOUS
  <2>3. CASE k \in {"Home", "Stop"}
    <3>1. \E x, y \in S : Request(k) = << x, y >>
      BY <2>1, <2>3, RequestIs
    <3> QED
      BY <2>2, <3>1
  <2>4. CASE k \in {"Resume", "Pause"}
    <3>1. \E x \in S : Request(k) = << x >>
      BY <2>1, <2>4, RequestIs
    <3> QED
      BY <2>2, <3>1
  <2> QED
    BY <1>2, <2>3, <2>4 DEF Kinds
<1> QED
  BY <1>1, <1>2

\* A click posts one request; clicking connect posts the port's.
Asks(k) ==
    posting = << >> /\ posting' = Request(k) /\ UNCHANGED << vars, reports, missed >>

LEMMA WhatIsAsked ==
    /\ ClickHome => /\ Asks("Home") /\ singles' = singles + 1
                    /\ UNCHANGED << MKstate, alone >>
    /\ ClickRun => /\ Asks("Run") /\ MKstate' = "RUN" /\ singles' = singles
                   /\ \/ alone' = "run" /\ (alone # "mixed" \/ Gone)
                      \/ alone = "mixed" /\ alone' = "mixed"
    /\ ClickResume => /\ Asks("Resume") /\ MKstate' = "RUN"
                      /\ UNCHANGED << singles, alone >>
    /\ ClickPause => /\ Asks("Pause") /\ MKstate' = "PAUSE"
                     /\ UNCHANGED << singles, alone >>
    /\ ClickStop => /\ Asks("Stop") /\ MKstate' = "STOP"
                    /\ UNCHANGED << singles, alone >>
  BY RequestIs
     DEF ClickHome, ClickRun, ClickResume, ClickPause, ClickStop, Click, Asks, Request

LEMMA OwnOrHelp == SenderStep => OwnStep \/ HelpStep
<1>1. \A r \in Answers : r \in ReadResult
  BY AnswersAssumption
<1> QED
  BY <1>1 DEF SenderStep, OwnStep, TickStep

LEMMA SaidStep ==
    ASSUME NEW S, Vocabulary(S), Said(S), [CNext]_allVars
    PROVE  Said(S)'
<1> USE DEF Said
<1>1. S \subseteq Msg
  BY SpeechIs DEF Vocabulary
<1>2. ASSUME UNCHANGED vars PROVE (TypeOK /\ OnlyIn(S) /\ GFilters = << >>)'
  <2>1. UNCHANGED << inbox, pc, args, gthread, sthread, cmd, GFilters >>
    BY <1>2 DEF vars, program, store, line
  <2>2. TypeOK'
    BY <1>2, TypeStep
  <2> QED
    BY <2>1, <2>2 DEF OnlyIn, HeldIn, Asking
<1>3. ASSUME NEW k \in Kinds, Asks(k) PROVE Said(S)'
  BY <1>2, <1>3, RequestIn DEF Asks
<1>4. CASE ClickHome \/ ClickRun \/ ClickResume \/ ClickPause \/ ClickStop
  BY <1>3, <1>4, WhatIsAsked DEF Kinds
<1>5. CASE ClickConnect
  <2>1. UNCHANGED vars /\ \E k, b \in S : posting' = << "PORT", k, "/dev/ttyUSB0", b >>
    BY <1>5 DEF ClickConnect, Click, Vocabulary, WindowWords, Controllers
  <2>2. posting' \in Seq(S)
    BY <2>1 DEF Vocabulary, WindowWords
  <2> QED
    BY <1>2, <2>1, <2>2
<1>6. CASE ReadReport
  BY <1>2, <1>6 DEF ReadReport
<1>7. CASE SenderStep
  <2>1. OwnStep \/ HelpStep
    BY <1>7, OwnOrHelp
  <2>2. OnlyIn(S)' /\ GFilters' = << >>
    BY <2>1, OnlyStep DEF Vocabulary
  <2>3. TypeOK'
    BY <2>1, TypeStep DEF Next
  <2> QED
    BY <1>7, <2>2, <2>3 DEF SenderStep
<1>8. CASE PostNext
  <2>1. Head(posting) \in S /\ Tail(posting) \in Seq(S)
    BY <1>8, HeadTailProperties DEF PostNext
  <2>2. /\ inbox' = Append(inbox, Head(posting)) /\ posting' = Tail(posting)
        /\ out' = Quiet
        /\ UNCHANGED << pc, args, gthread, icmd, req_inc_cmd, last, mk, state, int_state,
                        stat_on, out_access, paused, sthread, send_from, GFilters, cmd >>
    BY <1>8 DEF PostNext, program, control, store, line
  <2>3. inbox' \in Seq(S)
    BY <2>1, <2>2 DEF OnlyIn
  <2>4. inbox' \in Seq(Msg)
    BY <1>1, <2>3, SeqMonotonic
  <2>5. TypeOK'
    <3>1. MailboxType'
      BY <2>2, <2>4 DEF TypeOK, MailboxType
    <3>2. LoopType' /\ ProgramType'
      BY <2>2 DEF TypeOK, LoopType, ProgramType
    <3>3. EventType'
      BY <2>2, QuietFacts DEF EventType
    <3> QED
      BY <3>1, <3>2, <3>3 DEF TypeOK
  <2>6. OnlyIn(S)'
    BY <2>2, <2>3 DEF OnlyIn, HeldIn, Asking
  <2> QED
    BY <2>1, <2>2, <2>5, <2>6
<1>9. CASE UNCHANGED allVars
  BY <1>2, <1>9 DEF allVars, window
<1> QED
  BY <1>4, <1>5, <1>6, <1>7, <1>8, <1>9 DEF CNext

LEMMA SaidInit ==
    ASSUME NEW S, Vocabulary(S), CInit
    PROVE  Said(S)
<1>1. CASE Init
  <2>1. inbox = << >>
    BY <1>1, StartAssumption DEF Init
  <2>2. TypeOK
    BY <1>1, TypeInit
  <2> QED
    BY <1>1, <2>1, <2>2 DEF Init, CInit, Said, OnlyIn, HeldIn, Asking
<1>2. CASE Idle
  <2>1. MailboxType
    BY <1>2 DEF Idle, MailboxType, PC
  <2>2. LoopType
    BY <1>2 DEF Idle, LoopType, Controllers
  <2>3. ProgramType
    BY <1>2 DEF Idle, ProgramType
  <2>4. EventType
    BY <1>2, QuietFacts DEF Idle, EventType
  <2> QED
    BY <1>2, <2>1, <2>2, <2>3, <2>4
       DEF TypeOK, Idle, CInit, Said, OnlyIn, HeldIn, Asking
<1> QED
  BY <1>1, <1>2 DEF CInit

-----------------------------------------------------------------------------
(* The invariant. *)

\* How much of the program has reached the sender when the next message is a
\* Run's at the place r: all of it, unless that Run's program is on its way.
Fill(r) == IF r \in 3..L + 3 THEN SubSeq(Program, 1, r - 3) ELSE Program

LEMMA FillFacts ==
    /\ Fill(0) = Program /\ Fill(1) = Program /\ Fill(2) = Program
    /\ Fill(3) = << >> /\ Fill(L + 3) = Program /\ Fill(L + 7) = Program
    /\ \A r \in 3..L + 2 : Append(Fill(r), Program[r - 2]) = Fill(r + 1)
    /\ \A r \in L + 3..L + 6 : Fill(r) = Program /\ Fill(r + 1) = Program
<1>1. L \in Nat /\ Program \in Seq(Text) /\ L = Len(Program)
  BY ConsoleWords DEF L
<1>2. SubSeq(Program, 1, L) = Program
  BY <1>1
<1>3. \A r : r \notin 3..L + 3 => Fill(r) = Program
  BY DEF Fill
<1>4. Fill(0) = Program /\ Fill(1) = Program /\ Fill(2) = Program
  BY <1>1, <1>3
<1>5. Fill(L + 3) = Program
  <2>1. L + 3 \in 3..L + 3 /\ (L + 3) - 3 = L
    BY <1>1
  <2> QED
    BY <1>2, <2>1 DEF Fill
<1>6. \A r \in L + 4..L + 7 : Fill(r) = Program
  BY <1>1, <1>3
<1>7. Fill(3) = << >>
  <2>1. 3 \in 3..L + 3 /\ 3 - 3 = 0
    BY <1>1
  <2>2. SubSeq(Program, 1, 0) = << >>
    BY <1>1
  <2> QED
    BY <2>1, <2>2 DEF Fill
<1>8. ASSUME NEW r \in 3..L + 2 PROVE Append(Fill(r), Program[r - 2]) = Fill(r + 1)
  <2>1. /\ r \in 3..L + 3 /\ r + 1 \in 3..L + 3 /\ (r + 1) - 3 = r - 2
        /\ r - 2 \in 1..L /\ (r - 2) - 1 = r - 3
    BY <1>1
  <2>2. \A n \in 1..L : Append(SubSeq(Program, 1, n - 1), Program[n]) = SubSeq(Program, 1, n)
    <3>1. ASSUME NEW n \in 1..L
          PROVE  SubSeq(Program, 1, n) = SubSeq(Program, 1, n - 1) \o << Program[n] >>
      BY <1>1, SubSeqRecursiveSecond
    <3>2. ASSUME NEW n \in 1..L
          PROVE  /\ SubSeq(Program, 1, n - 1) \in Seq(Text) /\ Program[n] \in Text
      BY <1>1, SubSeqProperties
    <3>3. \A s \in Seq(Text), x \in Text : Append(s, x) = s \o << x >>
      OBVIOUS
    <3> QED
      BY <3>1, <3>2, <3>3
  <2>3. Append(SubSeq(Program, 1, r - 3), Program[r - 2]) = SubSeq(Program, 1, r - 2)
    BY <2>1, <2>2
  <2> QED
    BY <2>1, <2>3 DEF Fill
<1>9. L + 7 \in L + 4..L + 7 /\ \A r \in L + 3..L + 6 : r + 1 \in L + 4..L + 7
                             /\ \A s \in L + 3..L + 6 : s = L + 3 \/ s \in L + 4..L + 7
  BY <1>1
<1> QED
  BY <1>4, <1>5, <1>6, <1>7, <1>8, <1>9

\* What the window will show when it has read the reports that wait.
Showing == IF reports = << >> THEN MKstate ELSE Shown(reports[Len(reports)])

WindowType ==
    /\ reports \in Seq(Bearing) /\ singles \in Nat
    /\ alone = "mixed" => singles # 0

\* The sender holds the clicked program as far as it was handed over.
Filled(m) == alone = "run" /\ Lacks(Trail, {"NEW"}) => gthread = Fill(RunAt(m))
\* Where nothing is on its way that ends a run, a run will be shown.
RunShown ==
    state = "run" /\ Lacks(Trail, {"NEW", "PAUSE", "STOP"}) => Showing = "RUN"
\* Where nothing is on its way that begins or ends one, what will be shown is so.
ShownRuns ==
    mk # NIL /\ ~missed /\ Lacks(Trail, {"NEW", "PAUSE", "STOP", "RESUME"})
        /\ Showing = "RUN" => state = "run"
NoSingle == state # "single" /\ pc # "SINGLE" /\ Lacks(Trail, {"SINGLE"})

\* While messages are not mixed, what is between the two is requests.
Ordered == \E m : Spells(m, Trail) /\ Placed(m) /\ Filled(m)
Calm ==
    /\ send_from # NIL /\ Ordered /\ RunShown
    /\ singles = 0 => NoSingle /\ ShownRuns

ConsoleInv ==
    /\ Said(Pure) /\ WindowType
    /\ alone # "mixed" /\ pc # "dead" => Calm

LEMMA ShownFacts ==
    /\ Shown("Run") = "RUN" /\ Shown("Stop") = "STOP"
    /\ Shown("Pause") = "PAUSE" /\ Shown("error") = "PAUSE"
  BY DEF Shown

LEMMA ShowingNext ==
    Showing' = IF reports' = << >> THEN MKstate' ELSE Shown(reports'[Len(reports')])
  BY DEF Showing, Shown

\* What a report does to it.
LEMMA ReportShown ==
    ASSUME reports \in Seq(Bearing), MKstate' = MKstate
    PROVE  /\ reports' = reports => Showing' = Showing
           /\ \A r \in Bearing : reports' = Append(reports, r) => Showing' = Shown(r)
<1>1. ASSUME NEW r \in Bearing, reports' = Append(reports, r) PROVE Showing' = Shown(r)
  <2>1. /\ Append(reports, r) # << >> /\ Len(Append(reports, r)) = Len(reports) + 1
        /\ Append(reports, r)[Len(reports) + 1] = r
    OBVIOUS
  <2>2. reports' # << >> /\ reports'[Len(reports')] = r
    BY <1>1, <2>1
  <2> QED
    BY <2>2, ShowingNext
<1>2. reports' = reports => Showing' = Showing
  BY ShowingNext DEF Showing
<1> QED
  BY <1>1, <1>2

\* A report that is read changes nothing of what will be shown.
LEMMA ReadKeeps ==
    ASSUME reports \in Seq(Bearing), ReadReport
    PROVE  Showing' = Showing /\ reports' \in Seq(Bearing)
<1>1. /\ reports # << >> /\ reports' = Tail(reports) /\ MKstate' = Shown(Head(reports))
  BY DEF ReadReport
<1>2. /\ Len(reports) \in Nat /\ Len(reports) > 0 /\ Head(reports) = reports[1]
      /\ reports' \in Seq(Bearing) /\ Len(reports') = Len(reports) - 1
      /\ \A i \in 1..Len(reports) - 1 : reports'[i] = reports[i + 1]
  BY <1>1, HeadTailProperties, EmptySeq
<1>3. reports' = << >> <=> Len(reports') = 0
  BY <1>2
<1>4. CASE Len(reports) = 1
  <2>1. reports' = << >> /\ reports[Len(reports)] = Head(reports)
    BY <1>2, <1>3, <1>4
  <2> QED
    BY <1>1, <2>1, ShowingNext DEF Showing
<1>5. CASE Len(reports) # 1
  <2>1. /\ Len(reports') # 0 /\ Len(reports') \in 1..Len(reports) - 1
        /\ Len(reports') + 1 = Len(reports)
    BY <1>2, <1>5
  <2>2. reports' # << >> /\ reports'[Len(reports')] = reports[Len(reports)]
    BY <1>2, <1>3, <2>1
  <2> QED
    BY <1>1, <2>2, ShowingNext DEF Showing
<1> QED
  BY <1>2, <1>4, <1>5

\* Keeping, ending and beginning a run, as the window will show it.
LEMMA ShowingAfter ==
    ASSUME reports \in Seq(Bearing), MKstate' = MKstate
    PROVE  /\ Keeps => Showing' = Showing /\ reports' \in Seq(Bearing)
           /\ Halts => Showing' # "RUN" /\ reports' \in Seq(Bearing)
           /\ Misses => Showing' = Showing /\ reports' \in Seq(Bearing)
           /\ Starts => Showing' = "RUN" /\ reports' \in Seq(Bearing)
<1>1. {"Stop", "Pause", "error", "Run"} \subseteq Bearing
  BY DEF Bearing
<1>2. \A r \in Bearing : Append(reports, r) \in Seq(Bearing)
  OBVIOUS
<1>3. ASSUME Halts PROVE Showing' # "RUN" /\ reports' \in Seq(Bearing)
  <2>1. PICK r \in {"Stop", "Pause", "error"} : reports' = Append(reports, r)
    BY <1>3 DEF Halts
  <2>2. Showing' = Shown(r) /\ reports' \in Seq(Bearing)
    BY <1>1, <1>2, <2>1, ReportShown
  <2> QED
    BY <2>1, <2>2, ShownFacts
<1>4. ASSUME Starts PROVE Showing' = "RUN" /\ reports' \in Seq(Bearing)
  BY <1>1, <1>2, <1>4, ReportShown, ShownFacts DEF Starts
<1> QED
  BY <1>3, <1>4, ReportShown DEF Keeps, Misses

-----------------------------------------------------------------------------
(* The window's steps. *)

LEMMA MarkedFirst ==
    ASSUME NEW m \in Seq(Mark), NEW k \in Kinds
    PROVE  /\ m = << >> => /\ RunAt(m \o Marked(k)) \in {0, 1} /\ ~HomeAt(m \o Marked(k))
                           /\ RunAt(m) = 0 /\ ~HomeAt(m)
           /\ m # << >> => /\ RunAt(m \o Marked(k)) = RunAt(m)
                           /\ HomeAt(m \o Marked(k)) <=> HomeAt(m)
<1>1. Len(Request(k)) \in Nat /\ Len(Request(k)) > 0
  BY RequestType
<1>2. /\ Marked(k) \in Seq(Mark) /\ Len(Marked(k)) > 0
      /\ Marked(k)[1] = [of |-> k, at |-> 1]
  BY <1>1 DEF Marked, Mark
<1>3. CASE m = << >>
  <2>1. m \o Marked(k) = Marked(k)
    BY <1>2, <1>3
  <2>2. Marked(k)[1].of = k /\ Marked(k)[1].at = 1
    BY <1>2
  <2> QED
    BY <1>3, <2>1, <2>2 DEF RunAt, HomeAt
<1>4. CASE m # << >>
  <2>1. /\ Len(m) \in Nat /\ Len(m) > 0
        /\ m \o Marked(k) \in Seq(Mark) /\ Len(m \o Marked(k)) = Len(m) + Len(Marked(k))
        /\ (m \o Marked(k))[1] = m[1]
    BY <1>2, <1>4, ConcatProperties, EmptySeq
  <2>2. m \o Marked(k) # << >>
    BY <1>2, <2>1
  <2> QED
    BY <1>4, <2>1, <2>2 DEF RunAt, HomeAt
<1> QED
  BY <1>3, <1>4

\* Which requests end a run, which begin one, which send a single command.
LEMMA RequestLacks ==
    /\ ~Lacks(Request("Run"), {"NEW"})
    /\ \A k \in {"Run", "Pause", "Stop"} : ~Lacks(Request(k), {"NEW", "PAUSE", "STOP"})
    /\ \A k \in Kinds \ {"Home"} :
          /\ ~Lacks(Request(k), {"NEW", "PAUSE", "STOP", "RESUME"})
          /\ Lacks(Request(k), {"SINGLE"})
<1>1. RunItems(Request("Run")) /\ L \in Nat
  BY ConsoleWords, RunIs
<1>2. 2 \in 1..Len(Request("Run")) /\ Request("Run")[2] = "NEW"
  BY <1>1 DEF RunItems
<1>3. ASSUME NEW i \in 1..Len(Request("Run")) PROVE Request("Run")[i] # "SINGLE"
  <2>1. /\ Text \cap Word = {} /\ "SINGLE" \in Word /\ \A j \in 1..L : Program[j] \in Text
    BY ConsoleWords DEF Word
  <2>2. i \in 1..L + 7
    BY <1>1 DEF RunItems
  <2>3. CASE i \in 3..L + 2
    <3>1. i - 2 \in 1..L
      BY <1>1, <2>3
    <3> QED
      BY <1>1, <2>1, <2>3, <3>1 DEF RunItems
  <2>4. CASE i \notin 3..L + 2
    <3>1. i \in {1, 2, L + 3, L + 4, L + 5, L + 6, L + 7}
      BY <1>1, <2>2, <2>4
    <3> QED
      BY <1>1, <3>1 DEF RunItems
  <2> QED
    BY <2>3, <2>4
<1>4. \A W : "NEW" \in W => ~Lacks(Request("Run"), W)
  BY <1>2 DEF Lacks
<1>5. Lacks(Request("Run"), {"SINGLE"})
  BY <1>3 DEF Lacks
<1>6. /\ 1 \in 1..Len(Request("Pause")) /\ Request("Pause")[1] = "PAUSE"
      /\ 1 \in 1..Len(Request("Stop")) /\ Request("Stop")[1] = "STOP"
      /\ 1 \in 1..Len(Request("Resume")) /\ Request("Resume")[1] = "RESUME"
  BY RequestIs
<1>7. /\ \A W : "PAUSE" \in W => ~Lacks(Request("Pause"), W)
      /\ \A W : "STOP" \in W => ~Lacks(Request("Stop"), W)
      /\ \A W : "RESUME" \in W => ~Lacks(Request("Resume"), W)
  BY <1>6 DEF Lacks
<1>8. \A k \in {"Pause", "Stop", "Resume"} : Lacks(Request(k), {"SINGLE"})
  <2>1. Lacks(Request("Pause"), {"SINGLE"}) /\ Lacks(Request("Resume"), {"SINGLE"})
    BY RequestIs DEF Lacks
  <2>2. Lacks(Request("Stop"), {"SINGLE"})
    <3>1. \A i \in 1..2 : i = 1 \/ i = 2
      OBVIOUS
    <3>2. Len(Request("Stop")) = 2 /\ Request("Stop")[1] = "STOP"
          /\ Request("Stop")[2] = "CALCULATE"
      BY RequestIs
    <3> QED
      BY <3>1, <3>2 DEF Lacks
  <2> QED
    BY <2>1, <2>2
<1>9. \A k \in Kinds \ {"Home"} : k \in {"Run", "Resume", "Pause", "Stop"}
  BY DEF Kinds
<1>10. \A k \in Kinds \ {"Home"} : ~Lacks(Request(k), {"NEW", "PAUSE", "STOP", "RESUME"})
  BY <1>4, <1>7, <1>9
<1>11. \A k \in Kinds \ {"Home"} : Lacks(Request(k), {"SINGLE"})
  BY <1>5, <1>8, <1>9
<1> QED
  BY <1>4, <1>7, <1>10, <1>11

\* One more request, behind what is on its way.
LEMMA AskedBehind ==
    ASSUME Said(Pure), NEW k \in Kinds, Asks(k), NEW m, Spells(m, inbox), Placed(m)
    PROVE  /\ Trail' = inbox \o Request(k)
           /\ \A W : Lacks(Trail', W) <=> Lacks(inbox, W) /\ Lacks(Request(k), W)
           /\ \E n : /\ Spells(n, Trail') /\ Placed(n)'
                     /\ Fill(RunAt(n)) = Fill(RunAt(m))
<1>1. /\ inbox \in Seq(Msg) /\ Request(k) \in Seq(Msg)
  BY RequestType DEF Said, TypeOK, MailboxType
<1>2. inbox' = inbox /\ pc' = pc
  BY DEF Asks, vars
<1>3. Trail' = inbox \o Request(k)
  BY <1>2 DEF Asks, Trail
<1>4. \A W : Lacks(Trail', W) <=> Lacks(inbox, W) /\ Lacks(Request(k), W)
  BY <1>1, <1>3, LacksMore
<1> DEFINE n == m \o Marked(k)
<1>5. Spells(n, Trail')
  BY <1>3, SpellsMore
<1>6. m \in Seq(Mark) /\ L \in Nat
  BY ConsoleWords DEF Spells
<1>7. /\ RunAt(n) = RunAt(m) \/ (RunAt(m) = 0 /\ RunAt(n) \in {0, 1})
      /\ HomeAt(n) <=> HomeAt(m)
  BY <1>6, MarkedFirst
<1> HIDE DEF n
<1>8. Fill(RunAt(n)) = Fill(RunAt(m))
  BY <1>7, FillFacts
<1>9. Placed(n)'
  <2>1. 0 # L + 5 /\ 1 # L + 5 /\ 0 \notin 3..L + 3
    BY <1>6
  <2> QED
    BY <1>2, <1>7, <2>1 DEF Placed
<1> QED
  BY <1>3, <1>4, <1>5, <1>8, <1>9

\* A click while messages are not mixed.
LEMMA CalmAsked ==
    ASSUME Said(Pure), WindowType, Calm, NEW k \in Kinds, Asks(k),
           alone' = alone \/ k = "Run",
           k = "Home" => MKstate' = MKstate /\ singles' = singles + 1,
           k # "Home" => singles' = singles,
           k = "Resume" => MKstate' = "RUN"
    PROVE  Calm'
<1>1. /\ inbox \in Seq(Msg) /\ posting = << >> /\ reports' = reports
      /\ UNCHANGED << inbox, pc, mk, state, send_from, gthread >>
  BY DEF Said, TypeOK, MailboxType, Asks, vars, program, control, store
<1>2. Trail = inbox
  BY <1>1 DEF Trail
<1>3. PICK m : Spells(m, inbox) /\ Placed(m) /\ Filled(m)
  BY <1>2 DEF Calm, Ordered
<1>4. /\ \A W : Lacks(Trail', W) <=> Lacks(Trail, W) /\ Lacks(Request(k), W)
      /\ \E n : /\ Spells(n, Trail') /\ Placed(n)'
                /\ Fill(RunAt(n)) = Fill(RunAt(m))
  BY <1>2, <1>3, AskedBehind
<1>5. PICK n : /\ Spells(n, Trail') /\ Placed(n)'
               /\ Fill(RunAt(n)) = Fill(RunAt(m))
  BY <1>4
<1>6. Filled(n)'
  <2>1. ASSUME alone' = "run", Lacks(Trail', {"NEW"}) PROVE gthread' = Fill(RunAt(n))
    <3>1. Lacks(Trail, {"NEW"}) /\ k # "Run"
      BY <1>4, <2>1, RequestLacks
    <3> QED
      BY <1>1, <1>3, <1>5, <2>1, <3>1 DEF Filled
  <2> QED
    BY <2>1 DEF Filled, Fill, RunAt
<1>7. Ordered'
  <2>1. Spells(n, Trail)'
    BY <1>5 DEF Spells, Fits, Goes
  <2> QED
    BY <1>5, <1>6, <2>1 DEF Ordered
<1>8. RunShown'
  <2>1. ASSUME state' = "run", Lacks(Trail', {"NEW", "PAUSE", "STOP"})
        PROVE  Showing' = "RUN"
    <3>1. Lacks(Trail, {"NEW", "PAUSE", "STOP"}) /\ k \notin {"Run", "Pause", "Stop"}
      BY <1>4, <2>1, RequestLacks
    <3>2. Showing = "RUN"
      BY <1>1, <2>1, <3>1 DEF Calm, RunShown
    <3>3. MKstate' = MKstate \/ MKstate' = "RUN"
      BY <3>1 DEF Kinds
    <3> QED
      BY <1>1, <3>2, <3>3, ShowingNext DEF Showing
  <2> QED
    BY <2>1 DEF RunShown
<1>9. ASSUME singles' = 0 PROVE NoSingle' /\ ShownRuns'
  <2>1. singles = 0 /\ k # "Home"
    BY <1>9 DEF WindowType
  <2>2. NoSingle
    BY <2>1 DEF Calm
  <2>3. /\ ~Lacks(Trail', {"NEW", "PAUSE", "STOP", "RESUME"})
        /\ Lacks(Trail, {"SINGLE"}) => Lacks(Trail', {"SINGLE"})
    BY <1>4, <2>1, RequestLacks
  <2> QED
    BY <1>1, <2>2, <2>3 DEF NoSingle, ShownRuns
<1> QED
  BY <1>1, <1>7, <1>8, <1>9 DEF Calm

\* A Run that is clicked when nothing is left of a connection.
LEMMA CalmAgain ==
    ASSUME Said(Pure), WindowType, Gone, singles # 0, Asks("Run"), singles' = singles
    PROVE  Calm'
<1>1. /\ inbox = << >> /\ pc \in {"tick", "wait"} /\ send_from # NIL
      /\ send_from' = send_from
  BY DEF Gone, Asks, vars, store
<1>2. Spells(<< >>, inbox) /\ Placed(<< >>)
  <2>1. RunAt(<< >>) = 0 /\ ~HomeAt(<< >>)
    BY DEF RunAt, HomeAt
  <2>2. 0 # L + 5
    BY ConsoleWords
  <2> QED
    BY <1>1, <2>1, <2>2, SpellsNone DEF Placed, CalmPC
<1>3. "Run" \in Kinds
  BY DEF Kinds
<1>4. /\ \A W : Lacks(Trail', W) => Lacks(Request("Run"), W)
      /\ \E n : Spells(n, Trail') /\ Placed(n)'
  BY <1>2, <1>3, AskedBehind
<1>5. PICK n : Spells(n, Trail') /\ Placed(n)'
  BY <1>4
<1>6. ~Lacks(Trail', {"NEW"}) /\ ~Lacks(Trail', {"NEW", "PAUSE", "STOP"})
  BY <1>4, RequestLacks
<1>7. Filled(n)' /\ RunShown'
  BY <1>6 DEF Filled, RunShown
<1>8. Spells(n, Trail)'
  BY <1>5 DEF Spells, Fits, Goes
<1>9. Ordered'
  BY <1>5, <1>7, <1>8 DEF Ordered
<1> QED
  BY <1>1, <1>7, <1>9 DEF Calm

\* A message is handed over: what is on its way is what it was.
LEMMA CalmPosted ==
    ASSUME Said(Pure), Calm, PostNext
    PROVE  Calm'
<1>1. /\ inbox \in Seq(Pure) /\ posting \in Seq(Pure) /\ posting # << >>
      /\ inbox' = Append(inbox, Head(posting)) /\ posting' = Tail(posting)
      /\ UNCHANGED << pc, mk, state, send_from, gthread, MKstate, reports, missed, singles,
                      alone >>
  BY DEF PostNext, Said, OnlyIn, program, control, store
<1>2. Trail' = Trail
  BY <1>1, Handed DEF Trail
<1>3. Showing' = Showing
  BY <1>1, ShowingNext DEF Showing
<1>4. ASSUME NEW m, Spells(m, Trail), Placed(m), Filled(m)
      PROVE  Spells(m, Trail)' /\ Placed(m)' /\ Filled(m)'
  <2>1. Spells(m, Trail)'
    BY <1>2, <1>4 DEF Spells, Fits, Goes
  <2>2. Placed(m)'
    BY <1>1, <1>4 DEF Placed, RunAt, HomeAt
  <2>3. Filled(m)'
    BY <1>1, <1>2, <1>4 DEF Filled, Fill, RunAt, Lacks
  <2> QED
    BY <2>1, <2>2, <2>3
<1>5. Ordered'
  BY <1>4 DEF Calm, Ordered
<1>6. \A W : Lacks(Trail', W) <=> Lacks(Trail, W)
  BY <1>2
<1>7. RunShown' /\ (NoSingle => NoSingle') /\ (ShownRuns => ShownRuns')
  BY <1>1, <1>2, <1>3 DEF Calm, RunShown, NoSingle, ShownRuns, Lacks
<1> QED
  BY <1>1, <1>5, <1>7 DEF Calm

-----------------------------------------------------------------------------
(* The sender's steps. *)

LEMMA DeadStays == SenderStep => pc # "dead"
<1>1. ASSUME TickStep PROVE pc # "dead"
  BY <1>1 DEF TickStep, TickEnd, TickNoController, TickStatus, TickRead, TickProgramEnd,
              TickIdle, TickLine, TickLineDies, TickSingle, TickMain, Tick
<1>2. ASSUME ConnectStep \/ HelpStep PROVE pc # "dead"
  BY <1>2 DEF ConnectStep, HelpStep, HelpAnswer, OnPORT, PortArg, ConnectIgnored,
              ConnectDies, ConnectFails, ConnectOpens, Greet, On
<1>3. ASSUME HandlerStep PROVE pc # "dead"
  BY <1>3 DEF HandlerStep, NoMessage, OnNEW, OnCALCULATE, OnPAUSE, OnFILL, OnRESUME,
              OnSTOP, OnWithArgument, SingleArg, SendfromArg, AddFilterName,
              AddFilterPars, DelFilterName, FillStart, FillNext, On
<1>4. FilterAnswer => pc # "dead"
  BY DEF FilterAnswer
<1> QED
  BY <1>1, <1>2, <1>3, <1>4, OwnOrHelp DEF OwnStep

\* A step that takes no message.
Rests ==
    /\ inbox' = inbox /\ mk' = mk /\ gthread' = gthread /\ send_from' = send_from
    /\ pc \notin {"SINGLE", "SENDFROM"} /\ pc' \in {"tick", "wait", "dead"}
    /\ pc' = "dead" => cmd = StopLine \/ send_from = NIL
    /\ state' = "single" => state = "single"
    /\ Keeps \/ Halts \/ Misses

LEMMA RestCalm ==
    ASSUME WindowType, Calm, Rests, pc' # "dead",
           UNCHANGED << MKstate, posting, singles, alone >>
    PROVE  Calm'
<1>1. Trail' = Trail
  BY DEF Rests, Trail
<1>2. ASSUME NEW m, Spells(m, Trail), Placed(m), Filled(m)
      PROVE  Spells(m, Trail)' /\ Placed(m)' /\ Filled(m)'
  <2>1. Spells(m, Trail)'
    BY <1>1, <1>2 DEF Spells, Fits, Goes
  <2>2. Placed(m)'
    BY <1>2 DEF Placed, Rests, CalmPC, RunAt, HomeAt
  <2>3. Filled(m)'
    BY <1>1, <1>2 DEF Filled, Fill, RunAt, Lacks, Rests
  <2> QED
    BY <2>1, <2>2, <2>3
<1>3. Ordered' /\ send_from' # NIL
  BY <1>2 DEF Calm, Ordered, Rests
<1>4. /\ Keeps => /\ Showing' = Showing /\ missed' = missed
                   /\ (state' = "run" <=> state = "run")
      /\ Halts => Showing' # "RUN" /\ state' # "run"
      /\ Misses => missed' /\ state' # "run"
  BY ShowingAfter DEF WindowType, Keeps, Halts, Misses
<1>5. Keeps \/ Halts \/ Misses
  BY DEF Rests
<1>6. \A W : Lacks(Trail, W)' <=> Lacks(Trail, W)
  BY <1>1 DEF Lacks
<1>7. RunShown'
  BY <1>4, <1>5, <1>6 DEF Calm, RunShown
<1>8. ASSUME singles = 0 PROVE NoSingle' /\ ShownRuns'
  <2>1. NoSingle /\ ShownRuns
    BY <1>8 DEF Calm
  <2>2. ShownRuns'
    BY <1>4, <1>5, <1>6, <2>1 DEF ShownRuns, Rests
  <2>3. NoSingle'
    BY <1>6, <2>1 DEF NoSingle, Rests
  <2> QED
    BY <2>2, <2>3
<1> QED
  BY <1>3, <1>7, <1>8 DEF Calm

\* Where the marks are after a message was taken, and the sender with them.
LEMMA PlacedNext ==
    ASSUME NEW m, NEW n, NEW w, ItemOf(m, w), NextOf(m, n, w), Moves(m, w), pc' # "dead"
    PROVE  Placed(n)'
<1> DEFINE r == RunAt(m)
           s == RunAt(n)
<1>1. L \in Nat /\ r \in 0..L + 7
  BY ConsoleWords DEF ItemOf
<1>2. /\ r \in 1..L + 6 => s = r + 1
      /\ r \in {0, L + 7} => s \in {0, 1}
  BY DEF NextOf
<1>3. /\ pc' \in CalmPC
      /\ pc' = "SINGLE" <=> HomeAt(n)
      /\ pc' = "SENDFROM" <=> r = L + 4
      /\ pc' = "fill" => r \in 3..L + 2
  BY DEF Moves, NextOf, CalmPC
<1> HIDE DEF r, s
<1>4. r \in 1..L + 6 \/ r \in {0, L + 7}
  BY <1>1
<1>5. r = L + 4 <=> s = L + 5
  BY <1>1, <1>2, <1>4
<1>6. r \in 3..L + 2 => s \in 3..L + 3
  BY <1>1, <1>2, <1>4
<1> QED
  BY <1>3, <1>5, <1>6 DEF Placed, CalmPC, s

\* What the sender holds after a message was taken.
LEMMA FilledNext ==
    ASSUME NEW m, NEW n, NEW w, ItemOf(m, w), NextOf(m, n, w), Fills(m, w),
           w # "NEW" => gthread = Fill(RunAt(m))
    PROVE  gthread' = Fill(RunAt(n))
<1> DEFINE r == RunAt(m)
           s == RunAt(n)
<1>1. /\ L \in Nat /\ r \in 0..L + 7 /\ Text \cap Word = {} /\ "NEW" \in Word
      /\ \A i \in 1..L : Program[i] \in Text
  BY ConsoleWords DEF ItemOf, Word
<1>2. /\ r \in 1..L + 6 => s = r + 1
      /\ r \in {0, L + 7} => s \in {0, 1}
  BY DEF NextOf
<1>3. gthread' = IF r = 2 THEN << >>
                 ELSE IF r \in 3..L + 2 THEN Append(gthread, w) ELSE gthread
  BY DEF Fills
<1>4. r \in 3..L + 2 => w = Program[r - 2] /\ w # "NEW"
  <2>1. ASSUME r \in 3..L + 2 PROVE r - 2 \in 1..L
    BY <1>1, <2>1
  <2> QED
    BY <1>1, <2>1 DEF ItemOf
<1>5. r \in {0, 1, L + 3, L + 4, L + 5, L + 6, L + 7} => w # "NEW"
  <2>1. /\ r = 0 => w \in {"$H", "SINGLE", "RESUME", "PAUSE", "STOP", "CALCULATE"}
        /\ r = 1 => w = "FILL"
        /\ r = L + 3 => w = "FIN"
        /\ r = L + 4 => w = "SENDFROM"
        /\ r = L + 5 => w = "1"
        /\ r = L + 6 => w = "CALCULATE"
        /\ r = L + 7 => w = "RESUME"
    BY DEF ItemOf
  <2> HIDE DEF r
  <2> QED
    BY <2>1
<1>6. w # "NEW" => gthread = Fill(r)
  OBVIOUS
<1> SUFFICES gthread' = Fill(s)
  OBVIOUS
<1> HIDE DEF r, s
<1>7. CASE r = 2
  <2>1. s = 3
    BY <1>1, <1>2, <1>7
  <2> QED
    BY <1>3, <1>7, <2>1, FillFacts
<1>8. CASE r \in 3..L + 2
  <2>1. s = r + 1 /\ r # 2
    BY <1>1, <1>2, <1>8
  <2> QED
    BY <1>3, <1>4, <1>6, <1>8, <2>1, FillFacts
<1>9. CASE r \in {0, 1, L + 7}
  <2>1. s \in {0, 1, 2} /\ r # 2 /\ r \notin 3..L + 2
    BY <1>1, <1>2, <1>9
  <2> QED
    BY <1>3, <1>5, <1>6, <1>9, <2>1, FillFacts
<1>10. CASE r \in L + 3..L + 6
  <2>1. /\ s = r + 1 /\ r # 2 /\ r \notin 3..L + 2
        /\ r \in {L + 3, L + 4, L + 5, L + 6}
    BY <1>1, <1>2, <1>10
  <2>2. Fill(r) = Program /\ Fill(s) = Program
    BY <1>10, <2>1, FillFacts
  <2> QED
    BY <1>3, <1>5, <1>6, <2>1, <2>2
<1>11. r = 2 \/ r \in 3..L + 2 \/ r \in {0, 1, L + 7} \/ r \in L + 3..L + 6
  BY <1>1
<1> QED
  BY <1>7, <1>8, <1>9, <1>10, <1>11

LEMMA TakenCalm ==
    ASSUME Said(Pure), WindowType, Calm, inbox # << >>, pc' # "dead",
           NEW m, Spells(m, Trail), Filled(m), Taken(m, Head(inbox)),
           UNCHANGED << MKstate, posting, singles, alone >>
    PROVE  Calm'
<1> DEFINE w == Head(inbox)
           n == Tail(m)
<1>1. inbox \in Seq(Pure) /\ posting \in Seq(Pure) /\ Trail \in Seq(Pure)
  BY DEF Said, OnlyIn, Trail
<1>2. Trail # << >> /\ Head(Trail) = w /\ Tail(Trail) = Tail(inbox) \o posting
  BY <1>1, TakenOff DEF Trail
<1>3. Trail' = Tail(Trail)
  BY <1>2 DEF Taken, Trail
<1>4. \A W : Lacks(Trail, W) <=> w \notin W /\ Lacks(Tail(Trail), W)
  BY <1>1, <1>2, LacksTail
<1>5. \A W : Lacks(Trail, W)' <=> Lacks(Tail(Trail), W)
  BY <1>3 DEF Lacks
<1>6. ItemOf(m, w) /\ NextOf(m, n, w) /\ Spells(n, Tail(Trail))
  BY <1>2, MarksTell, SpellsTail
<1>7. /\ mk' = mk /\ send_from' # NIL
      /\ Bears(w) /\ Moves(m, w) /\ Fills(m, w)
  BY DEF Taken
<1> HIDE DEF w, n
<1>8. Spells(n, Trail)'
  BY <1>3, <1>6 DEF Spells, Fits, Goes, n
<1>9. Placed(n)'
  BY <1>6, <1>7, PlacedNext
<1>10. Filled(n)'
  <2>1. ASSUME alone' = "run", Lacks(Tail(Trail), {"NEW"}) PROVE gthread' = Fill(RunAt(n))
    <3>1. w # "NEW" => Lacks(Trail, {"NEW"})
      BY <1>4, <2>1
    <3>2. w # "NEW" => gthread = Fill(RunAt(m))
      BY <2>1, <3>1 DEF Filled
    <3> QED
      BY <1>6, <1>7, <3>2, FilledNext
  <2> QED
    BY <1>5, <2>1 DEF Filled, Fill, RunAt, n
<1>11. Ordered'
  BY <1>8, <1>9, <1>10 DEF Ordered
<1>12. /\ Keeps => /\ Showing' = Showing /\ missed' = missed
                    /\ (state' = "run" <=> state = "run")
       /\ Halts => Showing' # "RUN" /\ state' # "run"
       /\ Starts => Showing' = "RUN" /\ state' = "run"
  BY ShowingAfter DEF WindowType, Keeps, Halts, Starts
<1>13. /\ Keeps \/ Halts \/ Starts
       /\ w \in {"NEW", "PAUSE", "STOP"} => Halts
       /\ w = "RESUME" /\ state # "single" => state' = "run"
       /\ state' = "single" => state = "single" \/ pc = "SINGLE"
  BY <1>7 DEF Bears
<1>14. RunShown'
  <2>1. ASSUME state' = "run", Lacks(Tail(Trail), {"NEW", "PAUSE", "STOP"})
        PROVE  Showing' = "RUN"
    <3>1. Lacks(Trail, {"NEW", "PAUSE", "STOP"})
      BY <1>4, <1>12, <1>13, <2>1
    <3>2. state = "run" => Showing = "RUN"
      BY <3>1 DEF Calm, RunShown
    <3> QED
      BY <1>12, <1>13, <2>1, <3>2
  <2> QED
    BY <1>5, <2>1 DEF RunShown
<1>15. ASSUME singles = 0 PROVE NoSingle' /\ ShownRuns'
  <2>1. NoSingle /\ ShownRuns
    BY <1>15 DEF Calm
  <2>2. state # "single" /\ pc # "SINGLE" /\ w # "SINGLE" /\ Lacks(Tail(Trail), {"SINGLE"})
    BY <1>4, <2>1 DEF NoSingle
  <2>3. NoSingle'
    <3>1. state' # "single"
      BY <1>13, <2>2
    <3>2. pc' # "SINGLE"
      BY <1>7, <2>2 DEF Moves
    <3> QED
      BY <1>5, <2>2, <3>1, <3>2 DEF NoSingle
  <2>4. ASSUME mk # NIL, ~missed', Lacks(Tail(Trail), {"NEW", "PAUSE", "STOP", "RESUME"}),
               Showing' = "RUN"
        PROVE  state' = "run"
    <3>1. CASE w \in {"NEW", "PAUSE", "STOP", "RESUME"}
      BY <1>12, <1>13, <2>2, <2>4, <3>1
    <3>2. CASE w \notin {"NEW", "PAUSE", "STOP", "RESUME"}
      <4>1. Lacks(Trail, {"NEW", "PAUSE", "STOP", "RESUME"})
        BY <1>4, <2>4, <3>2
      <4>2. ~missed /\ Showing = "RUN" => state = "run"
        BY <2>1, <2>4, <4>1 DEF ShownRuns
      <4> QED
        BY <1>12, <1>13, <2>4, <4>2
    <3> QED
      BY <3>1, <3>2
  <2>5. ShownRuns'
    BY <1>5, <1>7, <2>4 DEF ShownRuns
  <2> QED
    BY <2>3, <2>5
<1> QED
  BY <1>7, <1>11, <1>14, <1>15 DEF Calm

\* The sender goes on by itself, or takes the message that is next: its waits
\* for an argument of a request never run out.
LEMMA RestsOrTakes ==
    ASSUME Said(Pure), send_from # NIL, NEW m, Spells(m, Trail), Placed(m), SenderStep
    PROVE  Rests \/ (inbox # << >> /\ Taken(m, Head(inbox)))
<1>1. TypeOK /\ GFilters = << >> /\ inbox \in Seq(Msg) /\ posting \in Seq(Msg)
  <2>1. Pure \subseteq Msg
    BY DEF Pure
  <2> QED
    BY <2>1, SeqMonotonic DEF Said, TypeOK, MailboxType
<1>2. CASE pc = "tick"
  <2>1. TickKeeps
    BY <1>1, <1>2, TickEffect
  <2> QED
    BY <1>2, <2>1 DEF TickKeeps, Rests
<1>3. CASE pc \in {"wait", "fill"} /\ inbox = << >>
  <2>1. /\ inbox' = << >> /\ pc' = "tick" /\ Keeps
        /\ UNCHANGED << mk, gthread, send_from, state >>
    BY <1>1, <1>3, SilentWait
  <2> QED
    BY <1>3, <2>1 DEF Rests
<1>4. CASE pc \in {"SINGLE", "SENDFROM"} /\ inbox = << >>
  <2>1. posting = << >>
    BY <1>4 DEF SenderStep, InTime
  <2>2. Trail = << >>
    BY <1>4, <2>1 DEF Trail
  <2>3. RunAt(m) = 0 /\ ~HomeAt(m) /\ 0 # L + 5
    BY <2>2, NoMarks, ConsoleWords
  <2> QED
    BY <1>4, <2>3 DEF Placed
<1>5. CASE pc # "tick" /\ inbox # << >>
  BY <1>1, <1>5, MessageTaken
<1> QED
  BY <1>2, <1>3, <1>4, <1>5 DEF Placed, CalmPC

LEMMA SenderKeepsReports ==
    ASSUME reports \in Seq(Bearing), SenderStep PROVE reports' \in Seq(Bearing)
<1>1. reports' = ReportTo(reports)
  BY DEF SenderStep
<1> QED
  BY <1>1 DEF ReportTo, Says

LEMMA CalmSender ==
    ASSUME Said(Pure), WindowType, Calm, SenderStep, pc' # "dead"
    PROVE  Calm'
<1>1. UNCHANGED << MKstate, posting, singles, alone >>
  BY DEF SenderStep
<1>2. PICK m : Spells(m, Trail) /\ Placed(m) /\ Filled(m)
  BY DEF Calm, Ordered
<1>3. Rests \/ (inbox # << >> /\ Taken(m, Head(inbox)))
  BY <1>2, RestsOrTakes DEF Calm
<1> QED
  BY <1>1, <1>2, <1>3, RestCalm, TakenCalm

-----------------------------------------------------------------------------
(* The theorems. *)

\* Nothing of it depends on anything else.
LEMMA CalmSame ==
    ASSUME UNCHANGED << pc, mk, state, send_from, gthread, missed, singles, alone >>,
           Trail' = Trail, Showing' = Showing, Calm
    PROVE  Calm'
<1>1. ASSUME NEW m, Spells(m, Trail), Placed(m), Filled(m)
      PROVE  Spells(m, Trail)' /\ Placed(m)' /\ Filled(m)'
  BY <1>1 DEF Spells, Fits, Goes, Placed, Filled, Fill, RunAt, HomeAt, Lacks
<1>2. Ordered' /\ send_from' # NIL
  BY <1>1 DEF Calm, Ordered
<1>3. RunShown' /\ (NoSingle => NoSingle') /\ (ShownRuns => ShownRuns')
  BY DEF Calm, RunShown, NoSingle, ShownRuns, Lacks
<1> QED
  BY <1>2, <1>3 DEF Calm

LEMMA ConsoleInit == CInit => ConsoleInv
<1> SUFFICES ASSUME CInit PROVE ConsoleInv
  OBVIOUS
<1>1. Said(Pure)
  BY SaidInit, Vocabularies
<1>2. /\ inbox = << >> /\ posting = << >> /\ reports = << >> /\ alone = "apart"
      /\ pc = "tick" /\ state = "stop" /\ send_from = 1 /\ MKstate \in {NIL, "STOP"}
      /\ singles \in Nat
  BY StartAssumption, BoundsAssumption DEF CInit, Init, Idle
<1>3. reports \in Seq(Bearing)
  BY <1>2
<1>4. Trail = << >>
  BY <1>2 DEF Trail
<1>5. Spells(<< >>, Trail) /\ Placed(<< >>) /\ Filled(<< >>)
  <2>1. RunAt(<< >>) = 0 /\ ~HomeAt(<< >>)
    BY DEF RunAt, HomeAt
  <2>2. 0 # L + 5
    BY ConsoleWords
  <2> QED
    BY <1>2, <1>4, <2>1, <2>2, SpellsNone DEF Placed, Filled, CalmPC
<1>6. send_from # NIL
  BY <1>2, NILAssumption
<1>7. NoSingle /\ RunShown
  BY <1>2, <1>4 DEF NoSingle, RunShown, Lacks
<1>8. ShownRuns
  <2>1. Showing = MKstate
    BY <1>2 DEF Showing
  <2>2. MKstate = NIL => mk = NIL
    <3>1. CASE Init
      BY <3>1 DEF Init
    <3>2. CASE Idle /\ MKstate = "STOP"
      BY <3>2, NILAssumption DEF Msg, Word
    <3> QED
      BY <3>1, <3>2 DEF CInit
  <2> QED
    BY <1>2, <2>1, <2>2 DEF ShownRuns
<1> QED
  BY <1>1, <1>2, <1>3, <1>5, <1>6, <1>7, <1>8 DEF ConsoleInv, WindowType, Calm, Ordered

LEMMA ConsoleStep == ConsoleInv /\ [CNext]_allVars => ConsoleInv'
<1> SUFFICES ASSUME ConsoleInv, [CNext]_allVars PROVE ConsoleInv'
  OBVIOUS
<1>1. Said(Pure) /\ WindowType /\ (alone # "mixed" /\ pc # "dead" => Calm)
  BY DEF ConsoleInv
<1>2. Said(Pure)'
  BY <1>1, SaidStep, Vocabularies
<1> SUFFICES WindowType' /\ (alone' # "mixed" /\ pc' # "dead" => Calm')
  BY <1>2 DEF ConsoleInv
<1>3. ASSUME NEW k \in Kinds, Asks(k), alone' = alone \/ (k = "Run" /\ alone # "mixed"),
             k = "Home" => MKstate' = MKstate /\ singles' = singles + 1,
             k # "Home" => singles' = singles,
             k = "Resume" => MKstate' = "RUN",
             alone' \in {alone, "run"}
      PROVE  WindowType' /\ (alone' # "mixed" /\ pc' # "dead" => Calm')
  <2>1. reports' = reports /\ pc' = pc
    BY <1>3 DEF Asks, vars
  <2>2. WindowType'
    BY <1>1, <1>3, <2>1 DEF WindowType
  <2>3. ASSUME alone' # "mixed", pc' # "dead" PROVE Calm'
    <3>1. Calm
      BY <1>1, <1>3, <2>1, <2>3
    <3> QED
      BY <1>1, <1>3, <3>1, CalmAsked
  <2> QED
    BY <2>2, <2>3
<1>4. CASE ClickHome
  <2>1. Asks("Home") /\ singles' = singles + 1 /\ UNCHANGED << MKstate, alone >>
    BY <1>4, WhatIsAsked
  <2> QED
    BY <1>3, <2>1 DEF Kinds
<1>5. CASE ClickResume \/ ClickPause \/ ClickStop
  <2>1. UNCHANGED << singles, alone >>
    BY <1>5, WhatIsAsked
  <2>2. \/ Asks("Resume") /\ MKstate' = "RUN"
        \/ Asks("Pause") \/ Asks("Stop")
    BY <1>5, WhatIsAsked
  <2> QED
    BY <1>3, <2>1, <2>2 DEF Kinds
<1>6. CASE ClickRun
  <2>1. /\ Asks("Run") /\ singles' = singles
        /\ \/ alone' = "run" /\ (alone # "mixed" \/ Gone)
           \/ alone = "mixed" /\ alone' = "mixed"
    BY <1>6, WhatIsAsked
  <2>2. reports' = reports
    BY <2>1 DEF Asks
  <2>3. CASE alone' = "run" /\ alone # "mixed"
    BY <1>3, <2>1, <2>3 DEF Kinds
  <2>4. CASE alone = "mixed"
    <3>1. singles # 0
      BY <1>1, <2>4 DEF WindowType
    <3>2. WindowType'
      BY <1>1, <2>1, <2>2, <3>1 DEF WindowType
    <3>3. ASSUME alone' # "mixed" PROVE Calm'
      BY <1>1, <2>1, <2>4, <3>1, <3>3, CalmAgain
    <3> QED
      BY <3>2, <3>3
  <2> QED
    BY <2>1, <2>3, <2>4
<1>7. CASE ClickConnect
  <2>1. alone' = "mixed" /\ singles' = singles + 1 /\ reports' = reports
    BY <1>7 DEF ClickConnect, Click
  <2> QED
    BY <1>1, <2>1 DEF WindowType
<1>8. CASE PostNext
  <2>1. UNCHANGED << pc, reports, singles, alone >>
    BY <1>8 DEF PostNext
  <2> QED
    BY <1>1, <1>8, <2>1, CalmPosted DEF WindowType
<1>9. CASE ReadReport
  <2>1. UNCHANGED << vars, posting, missed, singles, alone >>
    BY <1>9 DEF ReadReport
  <2>2. UNCHANGED << inbox, pc, mk, state, send_from, gthread >>
    BY <2>1 DEF vars, program, control, store
  <2>3. Showing' = Showing /\ reports' \in Seq(Bearing)
    BY <1>1, <1>9, ReadKeeps DEF WindowType
  <2>4. WindowType'
    BY <1>1, <2>1, <2>3 DEF WindowType
  <2>5. Trail' = Trail
    BY <2>1, <2>2 DEF Trail
  <2>6. Calm => Calm'
    BY <2>1, <2>2, <2>3, <2>5, CalmSame
  <2> QED
    BY <1>1, <2>1, <2>2, <2>4, <2>6
<1>10. CASE SenderStep
  <2>1. UNCHANGED << singles, alone >> /\ pc # "dead"
    BY <1>10, DeadStays DEF SenderStep
  <2>2. WindowType'
    BY <1>1, <1>10, <2>1, SenderKeepsReports DEF WindowType
  <2> QED
    BY <1>1, <1>10, <2>1, <2>2, CalmSender
<1>11. CASE UNCHANGED allVars
  <2>1. UNCHANGED << vars, MKstate, reports, missed, posting, singles, alone >>
    BY <1>11 DEF allVars, window
  <2>2. UNCHANGED << inbox, pc, mk, state, send_from, gthread >>
    BY <2>1 DEF vars, program, control, store
  <2>3. Trail' = Trail /\ Showing' = Showing
    BY <2>1, <2>2, ShowingNext DEF Trail, Showing
  <2>4. WindowType'
    BY <1>1, <2>1 DEF WindowType
  <2>5. Calm => Calm'
    BY <2>1, <2>2, <2>3, CalmSame
  <2> QED
    BY <1>1, <2>1, <2>2, <2>4, <2>5
<1> QED
  BY <1>4, <1>5, <1>6, <1>7, <1>8, <1>9, <1>10, <1>11 DEF CNext

\* The window's picture of the sender is right when nothing is on its way:
\* do_run, do_pause and do_stop of the run panel offer the buttons that fit.
THEOREM RunsAreShown == CSpec => []RunningIsShown
<1>1. ASSUME ConsoleInv PROVE RunningIsShown
  <2>1. ASSUME Settled, mk # NIL, state = "run", alone # "mixed" PROVE MKstate = "RUN"
    <3>1. Trail = << >> /\ pc # "dead" /\ reports = << >>
      BY <2>1 DEF Settled, Trail
    <3>2. RunShown /\ Lacks(Trail, {"NEW", "PAUSE", "STOP"})
      BY <1>1, <2>1, <3>1 DEF ConsoleInv, Calm, Lacks
    <3> QED
      BY <2>1, <3>1, <3>2 DEF RunShown, Showing
  <2> QED
    BY <2>1 DEF RunningIsShown
<1> QED
  BY <1>1, ConsoleInit, ConsoleStep, PTL DEF CSpec

\* A window that shows a run is right when nothing is on its way, as long as no
\* single command came between and the sender's last word was no error of a
\* Marlin, which the window's "^error:" does not match.
THEOREM ShownRunsRun == CSpec => []ShownIsRunning
<1>1. ASSUME ConsoleInv PROVE ShownIsRunning
  <2>1. ASSUME Settled, mk # NIL, MKstate = "RUN", singles = 0, ~missed
        PROVE  state = "run"
    <3>1. Trail = << >> /\ pc # "dead" /\ reports = << >> /\ alone # "mixed"
      BY <1>1, <2>1 DEF Settled, Trail, ConsoleInv, WindowType
    <3>2. /\ ShownRuns
          /\ Lacks(Trail, {"NEW", "PAUSE", "STOP", "RESUME"})
      BY <1>1, <2>1, <3>1 DEF ConsoleInv, Calm, Lacks
    <3> QED
      BY <2>1, <3>1, <3>2 DEF ShownRuns, Showing
  <2> QED
    BY <2>1 DEF ShownIsRunning
<1> QED
  BY <1>1, ConsoleInit, ConsoleStep, PTL DEF CSpec

\* The program that starts is the one the Run button sent, whole and in order.
THEOREM StartsWhatWasSent == CSpec => RunsWhatWasSent
<1>1. ASSUME ConsoleInv, [CNext]_allVars
      PROVE  [state = "stop" /\ state' = "run" /\ last = 0 /\ alone = "run" /\ Sent
                => gthread = Program]_allVars
  <2> SUFFICES ASSUME CNext, state = "stop", state' = "run", alone = "run", Sent
               PROVE  gthread = Program
    BY <1>1
  <2>1. SenderStep
    <3>1. state' # state
      OBVIOUS
    <3>2. UNCHANGED vars => state' = state
      BY DEF vars, control
    <3>3. ~PostNext
      BY <3>1 DEF PostNext, control
    <3> QED
      BY <3>1, <3>2, <3>3
         DEF CNext, ClickHome, ClickRun, ClickResume, ClickPause, ClickStop,
             ClickConnect, Click, ReadReport
  <2>2. Said(Pure) /\ Calm
    <3>1. alone # "mixed"
      OBVIOUS
    <3> QED
      BY <1>1, <2>1, <3>1, DeadStays DEF ConsoleInv
  <2>3. PICK m : Spells(m, Trail) /\ Placed(m) /\ Filled(m)
    BY <2>2 DEF Calm, Ordered
  <2>4. Rests \/ (inbox # << >> /\ Taken(m, Head(inbox)))
    BY <2>1, <2>2, <2>3, RestsOrTakes DEF Calm
  <2>5. ~Rests
    BY DEF Rests, Keeps, Halts, Misses
  <2>6. inbox # << >> /\ Head(inbox) = "RESUME"
    BY <2>4, <2>5 DEF Taken, Bears
  <2>7. inbox \in Seq(Pure) /\ posting \in Seq(Pure)
    BY <2>2 DEF Said, OnlyIn
  <2>8. ItemOf(m, "RESUME")
    <3>1. Trail # << >> /\ Head(Trail) = "RESUME"
      BY <2>6, <2>7, TakenOff DEF Trail
    <3> QED
      BY <2>3, <3>1, MarksTell
  <2>9. RunAt(m) \in {0, L + 7}
    <3>1. /\ L \in Nat /\ Text \cap Word = {} /\ "RESUME" \in Word
          /\ \A i \in 1..L : Program[i] \in Text
      BY ConsoleWords DEF Word
    <3>2. RunAt(m) \notin 3..L + 2
      <4>1. ASSUME RunAt(m) \in 3..L + 2 PROVE RunAt(m) - 2 \in 1..L
        BY <3>1, <4>1
      <4> QED
        BY <2>8, <3>1, <4>1 DEF ItemOf
    <3>3. /\ RunAt(m) \in 0..L + 7
          /\ RunAt(m) \notin {1, 2, L + 3, L + 4, L + 5, L + 6}
      BY <2>8 DEF ItemOf
    <3> QED
      BY <3>1, <3>2, <3>3
  <2>10. Lacks(Trail, {"NEW"})
    <3>1. Lacks(inbox, {"NEW"}) /\ Lacks(posting, {"NEW"})
      BY DEF Sent, Lacks
    <3> QED
      BY <2>7, <3>1, LacksMore DEF Trail
  <2> QED
    BY <2>3, <2>9, <2>10, FillFacts DEF Filled
<1> QED
  BY <1>1, ConsoleInit, ConsoleStep, PTL DEF CSpec, RunsWhatWasSent

\* No order of clicks ends a task that has a controller, once a program was
\* sent, unless a line of that program is the task's own stop line.
THEOREM SenderSurvives ==
    ASSUME NoStopLine
    PROVE  CSpec => ControlledSurvives
<1>1. CInit => Said(Pure \ {StopLine})
  BY SaidInit, Vocabularies
<1>2. ASSUME Said(Pure \ {StopLine}), [CNext]_allVars PROVE Said(Pure \ {StopLine})'
  BY <1>2, SaidStep, Vocabularies
<1>3. ASSUME ConsoleInv, Said(Pure \ {StopLine}), [CNext]_allVars
      PROVE  [pc' = "dead" /\ pc # "dead" /\ alone = "run"
                => mk = NIL \/ pc = "connect"]_allVars
  <2> SUFFICES ASSUME CNext, pc' = "dead", pc # "dead", alone = "run"
               PROVE  mk = NIL
    BY <1>3
  <2>1. SenderStep
    <3>1. UNCHANGED vars => pc' = pc
      BY DEF vars
    <3>2. ~PostNext
      BY DEF PostNext
    <3> QED
      BY <3>1, <3>2
         DEF CNext, ClickHome, ClickRun, ClickResume, ClickPause, ClickStop,
             ClickConnect, Click, ReadReport
  <2>2. Said(Pure) /\ Calm
    <3>1. alone # "mixed"
      OBVIOUS
    <3> QED
      BY <1>3, <3>1 DEF ConsoleInv
  <2>3. PICK m : Spells(m, Trail) /\ Placed(m) /\ Filled(m)
    BY <2>2 DEF Calm, Ordered
  <2>4. Rests \/ Taken(m, Head(inbox))
    BY <2>1, <2>2, <2>3, RestsOrTakes DEF Calm
  <2>5. cmd # StopLine
    <3>1. StopLine # NIL
      BY TextAssumption, NILAssumption DEF Msg
    <3> QED
      BY <1>3, <3>1 DEF Said, OnlyIn, HeldIn
  <2>6. ~Rests
    BY <2>2, <2>5 DEF Rests, Calm
  <2> QED
    BY <2>4, <2>6 DEF Taken, Moves
<1> QED
  BY <1>1, <1>2, <1>3, ConsoleInit, ConsoleStep, PTL DEF CSpec, ControlledSurvives

-----------------------------------------------------------------------------
(* The text and its parsed lines. *)

TextLine == Lines \cup {Blank}

\* A set of positions that is not empty has a greatest.
LEMMA GreatestIsOne ==
    ASSUME NEW n \in Nat, NEW I \in SUBSET (0..n), I # {}
    PROVE  Max(I) \in I /\ \A i \in I : i <= Max(I)
<1> DEFINE M == {k \in 0..n : n - k \in I}
<1>1. M \subseteq Nat
  OBVIOUS
<1>2. M # {}
  <2>1. PICK i \in I : TRUE
    OBVIOUS
  <2>2. n - i \in 0..n /\ n - (n - i) = i
    OBVIOUS
  <2> QED
    BY <2>1, <2>2
<1>3. PICK k \in M : \A l \in M : ~(<< l, k >> \in OpToRel(<, Nat))
  <2> HIDE DEF M
  <2> QED
    BY <1>1, <1>2, NatLessThanWellFounded, WFMin, Zenon
<1>4. ASSUME NEW i \in I PROVE i <= n - k
  <2>1. i \in 0..n /\ k \in 0..n
    OBVIOUS
  <2>2. n - i \in M
    <3>1. n - i \in 0..n /\ n - (n - i) = i
      BY <2>1
    <3> QED
      BY <3>1
  <2>3. n - i < k => << n - i, k >> \in OpToRel(<, Nat)
    BY <2>1, SMT DEF OpToRel
  <2>4. ~(n - i < k)
    BY <1>3, <2>2, <2>3
  <2> QED
    BY <2>1, <2>4
<1>5. n - k \in I /\ \A i \in I : n - k >= i
  <2>1. n \in Nat /\ k \in 0..n /\ n - k \in I /\ \A i \in I : i \in 0..n
    OBVIOUS
  <2> QED
    BY <1>4, <2>1
<1>6. \E m \in I : \A i \in I : m >= i
  BY <1>5
<1>7. Max(I) \in I /\ \A i \in I : Max(I) >= i
  BY <1>6 DEF Max
<1>8. \A i \in I : i \in Int
  OBVIOUS
<1> QED
  BY <1>7, <1>8

LEMMA GreaterOfTwo ==
    ASSUME NEW a \in Int, NEW b \in Int
    PROVE  Max({a, b}) = IF a >= b THEN a ELSE b
<1> DEFINE m == IF a >= b THEN a ELSE b
<1>1. m \in {a, b} /\ m \in Int /\ \A y \in {a, b} : m >= y
  OBVIOUS
<1> HIDE DEF m
<1>2. /\ Max({a, b}) \in {a, b}
      /\ \A y \in {a, b} : Max({a, b}) >= y
  BY <1>1 DEF Max
<1>3. Max({a, b}) >= m /\ m >= Max({a, b}) /\ Max({a, b}) \in Int
  BY <1>1, <1>2
<1> QED
  BY <1>1, <1>3 DEF m

-----------------------------------------------------------------------------
(* One end of line. *)

\* What the parser's callbacks keep: the lines counted, those posted, and the
\* cache, of entries in W.
ParserState(W) == [ln_cur : Nat, out : Seq(W), cache : Seq(W)]

\* The callback pads up to the line's number and puts its words there.
Put(r, s, pad, words, cacheBlanks) ==
    /\ r.ln_cur = pad + 1 /\ Len(r.out) = pad + 1 /\ Len(r.cache) >= pad + 1
    /\ r.out[pad + 1] = words /\ r.cache[pad + 1] = words
    /\ \A k \in 1..s.ln_cur : r.out[k] = s.out[k]
    /\ \A k \in (s.ln_cur + 1)..pad : r.out[k] = NoWords
    /\ Len(s.cache) >= s.ln_cur => \A k \in 1..s.ln_cur : r.cache[k] = s.cache[k]
    /\ cacheBlanks => \A k \in (s.ln_cur + 1)..pad : r.cache[k] = NoWords

Pad(s, l) == IF s.ln_cur >= l - 1 THEN s.ln_cur ELSE l - 1

LEMMA EolPlaces ==
    ASSUME NEW W, nil \in W, NoWords \in W,
           NEW s \in ParserState(W), Len(s.out) = s.ln_cur,
           NEW l \in Int, NEW words \in W, NEW cacheBlanks \in BOOLEAN
    PROVE  /\ Eol(s, l, words, cacheBlanks) \in ParserState(W)
           /\ Put(Eol(s, l, words, cacheBlanks), s, Pad(s, l), words, cacheBlanks)
<1> DEFINE n   == s.ln_cur
           pad == IF n >= l - 1 THEN n ELSE l - 1
           old == s.cache
           known == [i \in 1..(pad + 1) |->
                      IF i = pad + 1 THEN words
                      ELSE IF i > n /\ cacheBlanks THEN NoWords
                      ELSE IF i <= Len(old) THEN old[i] ELSE nil]
           blanks == [i \in 1..(pad - n) |-> NoWords]
           rest == SubSeq(old, pad + 2, Len(old))
<1>1. n \in Nat /\ s.out \in Seq(W) /\ old \in Seq(W) /\ Len(old) \in Nat
  BY DEF ParserState
<1>2. pad \in Nat /\ pad >= n
  BY <1>1
<1>3. Max({n, l - 1}) = pad
  BY <1>1, GreaterOfTwo
<1> HIDE DEF n, pad
<1>4. known \in Seq(W) /\ Len(known) = pad + 1
  <2>1. \A i \in 1..Len(old) : old[i] \in W
    BY <1>1
  <2>2. known \in [1..(pad + 1) -> W]
    <3>1. ASSUME NEW i \in 1..(pad + 1) PROVE known[i] \in W
      <4>1. CASE i = pad + 1
        BY <4>1
      <4>2. CASE i # pad + 1 /\ i > n /\ cacheBlanks
        BY <4>2
      <4>3. CASE i # pad + 1 /\ ~(i > n /\ cacheBlanks)
        <5>1. known[i] = IF i <= Len(old) THEN old[i] ELSE nil
          BY <4>3
        <5>2. i <= Len(old) => old[i] \in W
          BY <1>1, <1>2, <2>1
        <5> QED
          BY <5>1, <5>2
      <4> QED
        BY <4>1, <4>2, <4>3
    <3> QED
      BY <3>1
  <2> QED
    BY <1>2, <2>2
<1>5. blanks \in Seq(W) /\ Len(blanks) = pad - n
  BY <1>1, <1>2
<1>6. rest \in Seq(W) /\ Len(rest) \in Nat
  <2>1. \A i \in (pad + 2)..Len(old) : old[i] \in W
    BY <1>1, <1>2
  <2>2. rest \in Seq(W)
    BY <1>1, <1>2, <2>1, SubSeqProperties
  <2> QED
    BY <2>2
<1> DEFINE posted == s.out \o blanks \o << words >>
           cache == known \o rest
<1>7. Eol(s, l, words, cacheBlanks) = [ln_cur |-> pad + 1, out |-> posted, cache |-> cache]
  BY <1>3, Zenon DEF Eol, n
<1>8. \A k \in 1..(pad + 1) :
         /\ k = pad + 1 => known[k] = words
         /\ k # pad + 1 /\ k > n /\ cacheBlanks => known[k] = NoWords
         /\ k <= n /\ n <= Len(old) => known[k] = old[k]
  BY <1>1, <1>2
<1>9. \A k \in 1..(pad - n) : blanks[k] = NoWords
  OBVIOUS
<1> HIDE DEF known, blanks, rest
<1>10. /\ cache \in Seq(W) /\ Len(cache) = pad + 1 + Len(rest)
       /\ \A k \in 1..(pad + 1) : cache[k] = known[k]
  <2>1. /\ cache \in Seq(W) /\ Len(cache) = Len(known) + Len(rest)
        /\ \A k \in 1..(Len(known) + Len(rest)) :
              cache[k] = IF k <= Len(known) THEN known[k] ELSE rest[k - Len(known)]
    BY <1>4, <1>6, ConcatProperties
  <2> HIDE DEF cache
  <2>2. \A k \in 1..(pad + 1) : k \in 1..(Len(known) + Len(rest)) /\ k <= Len(known)
    BY <1>2, <1>4, <1>6
  <2> QED
    BY <1>4, <2>1, <2>2
<1>11. /\ posted \in Seq(W) /\ Len(posted) = pad + 1
       /\ posted[pad + 1] = words
       /\ \A k \in 1..n : posted[k] = s.out[k]
       /\ \A k \in (n + 1)..pad : posted[k] = NoWords
  <2> DEFINE a == s.out \o blanks
  <2>1. /\ a \in Seq(W) /\ Len(a) = pad
        /\ \A k \in 1..pad : a[k] = IF k <= n THEN s.out[k] ELSE blanks[k - n]
    <3>1. Len(s.out) = n
      BY DEF n
    <3>2. Len(s.out) + Len(blanks) = pad
      BY <1>1, <1>2, <1>5, <3>1
    <3> QED
      BY <1>1, <1>5, <3>1, <3>2, ConcatProperties
  <2>2. << words >> \in Seq(W) /\ Len(<< words >>) = 1 /\ << words >>[1] = words
    OBVIOUS
  <2> HIDE DEF a
  <2>3. /\ a \o << words >> \in Seq(W) /\ Len(a \o << words >>) = pad + 1
        /\ \A k \in 1..(pad + 1) :
              (a \o << words >>)[k] = IF k <= pad THEN a[k] ELSE << words >>[k - pad]
    BY <2>1, <2>2, ConcatProperties
  <2>4. posted = a \o << words >>
    BY DEF a
  <2> HIDE DEF posted
  <2>5. posted[pad + 1] = words
    BY <1>2, <2>2, <2>3, <2>4
  <2>6. \A k \in 1..n : posted[k] = s.out[k]
    BY <1>1, <1>2, <2>1, <2>3, <2>4
  <2>7. ASSUME NEW k \in (n + 1)..pad PROVE posted[k] = NoWords
    <3>1. k \in 1..pad /\ ~(k <= n) /\ k - n \in 1..(pad - n)
      BY <1>1, <1>2
    <3>2. posted[k] = a[k]
      BY <1>2, <2>3, <2>4, <3>1
    <3> QED
      BY <1>9, <2>1, <3>1, <3>2
  <2> QED
    BY <2>3, <2>4, <2>5, <2>6, <2>7
<1> HIDE DEF posted, cache
<1> DEFINE r == Eol(s, l, words, cacheBlanks)
<1>12. r.ln_cur = pad + 1 /\ r.out = posted /\ r.cache = cache /\ r \in ParserState(W)
  BY <1>2, <1>7, <1>10, <1>11 DEF ParserState
<1> HIDE DEF r
<1>13. /\ r.cache[pad + 1] = words /\ Len(r.cache) >= pad + 1
       /\ Len(old) >= n => \A k \in 1..n : r.cache[k] = old[k]
       /\ cacheBlanks => \A k \in (n + 1)..pad : r.cache[k] = NoWords
  <2>1. r.cache[pad + 1] = words /\ Len(r.cache) >= pad + 1
    BY <1>2, <1>6, <1>8, <1>10, <1>12
  <2>2. ASSUME Len(old) >= n, NEW k \in 1..n PROVE r.cache[k] = old[k]
    <3>1. k \in 1..(pad + 1) /\ k <= n /\ n <= Len(old)
      BY <1>1, <1>2, <2>2
    <3> QED
      BY <1>8, <1>10, <1>12, <3>1
  <2>3. ASSUME cacheBlanks, NEW k \in (n + 1)..pad PROVE r.cache[k] = NoWords
    <3>1. k \in 1..(pad + 1) /\ k # pad + 1 /\ k > n
      BY <1>1, <1>2
    <3> QED
      BY <1>8, <1>10, <1>12, <2>3, <3>1
  <2> QED
    BY <2>1, <2>2, <2>3
<1>14. Put(r, s, pad, words, cacheBlanks)
  BY <1>11, <1>12, <1>13 DEF Put, n
<1> QED
  BY <1>12, <1>14 DEF r, pad, n, Pad

-----------------------------------------------------------------------------
(* A whole text. *)

\* A state in which as many lines were posted as were counted.
Even(W) == {s \in ParserState(W) : Len(s.out) = s.ln_cur}

\* W has the words of every line of the text, and what a cache may hold.
HoldsWords(W, text, tr, cache) ==
    /\ nil \in W /\ NoWords \in W /\ cache \in Seq(W)
    /\ \A i \in 1..Len(text) : Words(text, i, tr) \in W

Start(cache) == [ln_cur |-> 0, out |-> <<>>, cache |-> cache]

EolAt(s, text, i, tr, ended, cacheBlanks) ==
    IF i \notin Reported(text, ended) THEN s
    ELSE Eol(s, NumberOf(i, text, ended), Words(text, i, tr), cacheBlanks)

LEMMA EolAtEven ==
    ASSUME NEW W, NEW text \in Seq(TextLine), NEW tr, NEW cache,
           HoldsWords(W, text, tr, cache),
           NEW ended \in BOOLEAN, NEW cacheBlanks \in BOOLEAN,
           NEW s \in Even(W), NEW i \in 1..Len(text)
    PROVE  EolAt(s, text, i, tr, ended, cacheBlanks) \in Even(W)
<1> DEFINE l == NumberOf(i, text, ended)
           words == Words(text, i, tr)
           r == Eol(s, l, words, cacheBlanks)
<1>1. l \in Int /\ words \in W /\ nil \in W /\ NoWords \in W
  BY DEF NumberOf, HoldsWords
<1>2. s \in ParserState(W) /\ Len(s.out) = s.ln_cur
  BY DEF Even
<1> HIDE DEF l, words
<1>3. r \in ParserState(W) /\ Len(r.out) = r.ln_cur
  <2>1. r \in ParserState(W) /\ Put(r, s, Pad(s, l), words, cacheBlanks)
    BY <1>1, <1>2, EolPlaces
  <2> QED
    BY <2>1 DEF Put
<1> QED
  BY <1>3 DEF EolAt, Even, l, words

\* The states of the parser from line to line.
ParserRuns(W, text, tr, ended, cacheBlanks, cache) ==
  \E f \in [0..Len(text) -> Even(W)] :
    /\ f[0] = Start(cache)
    /\ \A i \in 1..Len(text) : f[i] = EolAt(f[i - 1], text, i, tr, ended, cacheBlanks)
    /\ Parse(text, tr, ended, cacheBlanks, cache) = f[Len(text)]

LEMMA ParseRuns ==
    ASSUME NEW W, NEW text \in Seq(TextLine), NEW tr, NEW cache,
           HoldsWords(W, text, tr, cache),
           NEW ended \in BOOLEAN, NEW cacheBlanks \in BOOLEAN
    PROVE  ParserRuns(W, text, tr, ended, cacheBlanks, cache)
<1> DEFINE n == Len(text)
           S == Even(W)
           step == [x \in S \X (1..n) |-> EolAt(x[1], text, x[2], tr, ended, cacheBlanks)]
<1>1. n \in Nat
  OBVIOUS
<1>2. Start(cache) \in S
  BY DEF Start, Even, ParserState, HoldsWords
<1>3. step \in [S \X (1..n) -> S]
  <2>1. ASSUME NEW x \in S \X (1..n)
        PROVE  EolAt(x[1], text, x[2], tr, ended, cacheBlanks) \in S
    <3>1. x[1] \in S /\ x[2] \in 1..n
      OBVIOUS
    <3> HIDE DEF S
    <3> QED
      BY <3>1, EolAtEven DEF S
  <2> HIDE DEF S
  <2> QED
    BY <2>1
<1>4. \A s \in S, i \in 1..n :
         step[<< s, i >>] = EolAt(s, text, i, tr, ended, cacheBlanks)
  <2> HIDE DEF S
  <2> QED
    OBVIOUS
<1> DEFINE Body(f) == [i \in 0..n |->
                         IF i = 0 THEN Start(cache)
                         ELSE EolAt(f[i - 1], text, i, tr, ended, cacheBlanks)]
<1>5. PICK g \in [0..n -> S] :
         g = [i \in 0..n |-> IF i = 0 THEN Start(cache) ELSE step[<< g[i - 1], i >>]]
  <2> HIDE DEF S, step, n
  <2>1. \E g \in [0..n -> S] : IsLoop(g, n, Start(cache), step)
    BY <1>1, <1>2, <1>3, LoopStates
  <2> QED
    BY <2>1 DEF IsLoop
<1>6. g = Body(g)
  <2> HIDE DEF S, step
  <2>1. \A i \in 0..n : i # 0 => g[i - 1] \in S /\ i \in 1..n
    BY <1>1
  <2>2. \A i \in 0..n : i # 0 =>
           step[<< g[i - 1], i >>] = EolAt(g[i - 1], text, i, tr, ended, cacheBlanks)
    BY <1>4, <2>1
  <2> QED
    BY <1>5, <2>2
<1> DEFINE f == CHOOSE h : h = Body(h)
<1>7. f = Body(f)
  <2>1. \E h : h = Body(h)
    BY <1>6
  <2> HIDE DEF Body
  <2> QED
    BY <2>1
<1>8. Parse(text, tr, ended, cacheBlanks, cache) = f[n]
  BY DEF Parse, Start, EolAt
<1> HIDE DEF f
<1>9. /\ f[0] = Start(cache)
      /\ \A i \in 1..n : f[i] = EolAt(f[i - 1], text, i, tr, ended, cacheBlanks)
  <2>1. \A i \in 1..n : i \in 0..n /\ i # 0
    BY <1>1
  <2> QED
    BY <1>1, <1>7, <2>1
<1>10. f \in [0..n -> S]
  <2> DEFINE T == {k \in Nat : k <= n => f[k] \in S}
  <2>1. 0 \in T
    BY <1>2, <1>9
  <2>2. ASSUME NEW k \in Nat, k < n, k \in T PROVE k + 1 \in T
    <3>1. f[k] \in S /\ k + 1 \in 1..n /\ (k + 1) - 1 = k
      BY <1>1, <2>2
    <3>2. f[k + 1] = EolAt(f[k], text, k + 1, tr, ended, cacheBlanks)
      BY <1>9, <3>1
    <3>3. f[k + 1] \in S
      <4> HIDE DEF n
      <4> QED
        BY <3>1, <3>2, EolAtEven DEF n
    <3> QED
      BY <3>3
  <2> HIDE DEF T
  <2>3. 0..n \subseteq T
    BY <1>1, <2>1, <2>2, UpTo
  <2>4. \A k \in 0..n : f[k] \in S
    BY <2>3 DEF T
  <2>5. f = [i \in 0..n |-> f[i]]
    BY <1>7
  <2> HIDE DEF S
  <2> QED
    BY <2>4, <2>5
<1> QED
  BY <1>8, <1>9, <1>10 DEF ParserRuns

\* The last line has its own number: it is ended, or the line before it is not
\* blank.
Numbered(text, ended) ==
    ended \/ (Len(text) > 1 => text[Len(text) - 1] # Blank)

NoBlanks(text) == \A k \in 1..Len(text) : text[k] # Blank

\* After the first i lines: what was counted and posted are these lines, up to
\* the last that was reported, and the cache has them where it leaves no holes.
Parsed(s, text, i, tr, ended, cacheBlanks) ==
    /\ s.ln_cur <= i
    /\ \A k \in (s.ln_cur + 1)..i : k \notin Reported(text, ended)
    /\ \A k \in 1..s.ln_cur : s.out[k] = Words(text, k, tr)
    /\ cacheBlanks \/ NoBlanks(text) =>
          /\ Len(s.cache) >= s.ln_cur
          /\ \A k \in 1..s.ln_cur : s.cache[k] = Words(text, k, tr)

LEMMA ParsedNext ==
    ASSUME NEW W, NEW text \in Seq(TextLine), NEW tr, NEW cache,
           HoldsWords(W, text, tr, cache),
           NEW ended \in BOOLEAN, NEW cacheBlanks \in BOOLEAN,
           Numbered(text, ended),
           NEW s \in Even(W), NEW i \in 1..Len(text),
           Parsed(s, text, i - 1, tr, ended, cacheBlanks)
    PROVE  Parsed(EolAt(s, text, i, tr, ended, cacheBlanks),
                  text, i, tr, ended, cacheBlanks)
<1> DEFINE n == s.ln_cur
           l == NumberOf(i, text, ended)
           words == Words(text, i, tr)
<1>1. /\ s \in ParserState(W) /\ Len(s.out) = n /\ n \in Nat /\ n <= i - 1
      /\ i \in Nat /\ i >= 1 /\ Len(text) \in Nat
  BY DEF Even, ParserState, Parsed
<1>2. \A k \in (n + 1)..(i - 1) : k \notin Reported(text, ended)
  BY DEF Parsed
<1>3. CASE i \notin Reported(text, ended)
  <2>1. EolAt(s, text, i, tr, ended, cacheBlanks) = s
    BY <1>3 DEF EolAt
  <2>2. \A k \in (n + 1)..i : k \notin Reported(text, ended)
    <3>1. \A k \in (n + 1)..i : k = i \/ k \in (n + 1)..(i - 1)
      BY <1>1
    <3> QED
      BY <1>2, <1>3, <3>1
  <2>3. s.ln_cur <= i
    BY <1>1
  <2> QED
    BY <2>1, <2>2, <2>3 DEF Parsed
<1>4. CASE i \in Reported(text, ended)
  <2> DEFINE r == Eol(s, l, words, cacheBlanks)
  <2>1. EolAt(s, text, i, tr, ended, cacheBlanks) = r
    BY <1>4 DEF EolAt
  <2>2. l \in Int /\ words \in W /\ nil \in W /\ NoWords \in W
    BY DEF NumberOf, HoldsWords
  <2>3. \A k \in 1..Len(text) : text[k] # Blank => k \in Reported(text, ended)
    BY DEF Reported
  <2>4. Pad(s, l) = i - 1
    <3>1. CASE l = i
      BY <1>1, <3>1 DEF Pad
    <3>2. CASE l # i
      <4>1. l = i - 1 /\ i = Len(text) /\ ~ended
        BY <3>2 DEF NumberOf
      <4>2. CASE i = 1
        BY <1>1, <4>1, <4>2 DEF Pad
      <4>3. CASE i > 1
        <5>1. text[i - 1] # Blank /\ i - 1 \in 1..Len(text)
          BY <1>1, <4>1, <4>3 DEF Numbered
        <5>2. i - 1 \in Reported(text, ended)
          BY <2>3, <5>1
        <5>3. ~(n < i - 1)
          <6>1. n < i - 1 => i - 1 \in (n + 1)..(i - 1)
            BY <1>1
          <6> QED
            BY <1>2, <5>2, <6>1
        <5>4. n = i - 1
          BY <1>1, <5>3
        <5> QED
          BY <1>1, <4>1, <5>4 DEF Pad
      <4> QED
        BY <1>1, <4>2, <4>3
    <3> QED
      BY <3>1, <3>2
  <2> HIDE DEF l, words
  <2>5. Put(r, s, i - 1, words, cacheBlanks)
    BY <1>1, <2>2, <2>4, EolPlaces
  <2> HIDE DEF r
  <2>6. ASSUME NEW k \in (n + 1)..(i - 1) PROVE Words(text, k, tr) = NoWords
    <3>1. k \in 1..Len(text)
      BY <1>1
    <3>2. text[k] = Blank
      BY <1>2, <2>3, <2>6, <3>1
    <3> QED
      BY <3>2 DEF Words
  <2>7. r.ln_cur = i
    BY <1>1, <2>5 DEF Put
  <2>8. \A k \in 1..i : k \in 1..n \/ k \in (n + 1)..(i - 1) \/ k = i
    BY <1>1
  <2>9. ASSUME NEW k \in 1..i PROVE r.out[k] = Words(text, k, tr)
    <3>1. CASE k \in 1..n
      BY <2>5, <3>1 DEF Put, Parsed
    <3>2. CASE k \in (n + 1)..(i - 1)
      BY <2>5, <2>6, <3>2 DEF Put
    <3>3. CASE k = i
      BY <1>1, <2>5, <3>3 DEF Put, words
    <3> QED
      BY <2>8, <3>1, <3>2, <3>3
  <2>10. ASSUME cacheBlanks \/ NoBlanks(text)
         PROVE  /\ Len(r.cache) >= i
                /\ \A k \in 1..i : r.cache[k] = Words(text, k, tr)
    <3>1. Len(r.cache) >= i
      BY <1>1, <2>5 DEF Put
    <3>2. /\ Len(s.cache) >= n
          /\ \A k \in 1..n : s.cache[k] = Words(text, k, tr)
      BY <2>10 DEF Parsed
    <3>3. ASSUME NEW k \in 1..i PROVE r.cache[k] = Words(text, k, tr)
      <4>1. CASE k \in 1..n
        BY <2>5, <3>2, <4>1 DEF Put
      <4>2. CASE k \in (n + 1)..(i - 1)
        <5>1. k \in 1..Len(text) /\ k \notin Reported(text, ended)
          BY <1>1, <1>2, <4>2
        <5>2. text[k] = Blank
          BY <2>3, <5>1
        <5>3. cacheBlanks
          BY <2>10, <5>1, <5>2 DEF NoBlanks
        <5> QED
          BY <2>5, <2>6, <4>2, <5>3 DEF Put
      <4>3. CASE k = i
        BY <1>1, <2>5, <4>3 DEF Put, words
      <4> QED
        BY <2>8, <4>1, <4>2, <4>3
    <3> QED
      BY <3>1, <3>3
  <2>11. \A k \in (i + 1)..i : FALSE
    BY <1>1
  <2>12. r.ln_cur <= i
    BY <1>1, <2>7
  <2>13. Parsed(r, text, i, tr, ended, cacheBlanks)
    BY <2>7, <2>9, <2>10, <2>11, <2>12 DEF Parsed
  <2> QED
    BY <2>1, <2>13
<1> QED
  BY <1>3, <1>4

\* The words of a text are posted in order up to its last line that was reported,
\* and cached where no holes are left.
LEMMA ParseIsParsed ==
    ASSUME NEW W, NEW text \in Seq(TextLine), NEW tr, NEW cache,
           HoldsWords(W, text, tr, cache),
           NEW ended \in BOOLEAN, NEW cacheBlanks \in BOOLEAN,
           Numbered(text, ended)
    PROVE  LET p == Parse(text, tr, ended, cacheBlanks, cache)
           IN  p \in Even(W) /\ Parsed(p, text, Len(text), tr, ended, cacheBlanks)
<1> DEFINE n == Len(text)
           p == Parse(text, tr, ended, cacheBlanks, cache)
<1>1. n \in Nat
  OBVIOUS
<1>a. ParserRuns(W, text, tr, ended, cacheBlanks, cache)
  BY ParseRuns
<1>2. PICK f \in [0..n -> Even(W)] :
         /\ f[0] = Start(cache)
         /\ \A i \in 1..n : f[i] = EolAt(f[i - 1], text, i, tr, ended, cacheBlanks)
         /\ p = f[n]
  BY <1>a DEF ParserRuns
<1> DEFINE T == {k \in Nat : k <= n => Parsed(f[k], text, k, tr, ended, cacheBlanks)}
<1>3. 0 \in T
  <2>1. \A k : k \notin 1..0
    OBVIOUS
  <2>2. cache \in Seq(W)
    BY DEF HoldsWords
  <2>3. Start(cache).ln_cur = 0 /\ Start(cache).cache = cache
    BY DEF Start
  <2> DEFINE s == Start(cache)
  <2> HIDE DEF s
  <2>4. s.ln_cur = 0 /\ Len(s.cache) >= 0
    BY <2>2, <2>3 DEF s
  <2>5. Parsed(s, text, 0, tr, ended, cacheBlanks)
    BY <2>1, <2>4 DEF Parsed
  <2> QED
    BY <1>2, <2>5 DEF s
<1>4. ASSUME NEW k \in Nat, k < n, k \in T PROVE k + 1 \in T
  <2>1. f[k] \in Even(W) /\ k + 1 \in 1..n /\ (k + 1) - 1 = k
    BY <1>1, <1>2, <1>4
  <2>2. f[k + 1] = EolAt(f[k], text, k + 1, tr, ended, cacheBlanks)
    BY <1>2, <2>1
  <2>3. Parsed(f[k], text, k, tr, ended, cacheBlanks)
    BY <1>4
  <2> DEFINE i == k + 1
             s == f[k]
  <2> HIDE DEF i, s
  <2>4. s \in Even(W) /\ i \in 1..Len(text) /\ Parsed(s, text, i - 1, tr, ended, cacheBlanks)
    BY <2>1, <2>3 DEF i, s
  <2>5. Parsed(EolAt(s, text, i, tr, ended, cacheBlanks), text, i, tr, ended, cacheBlanks)
    BY <2>4, ParsedNext
  <2>6. Parsed(f[k + 1], text, k + 1, tr, ended, cacheBlanks)
    BY <2>2, <2>5 DEF i, s
  <2> QED
    BY <2>6
<1> HIDE DEF T
<1>5. 0..n \subseteq T
  BY <1>1, <1>3, <1>4, UpTo
<1>6. Parsed(f[n], text, n, tr, ended, cacheBlanks) /\ f[n] \in Even(W)
  BY <1>1, <1>2, <1>5 DEF T
<1> QED
  BY <1>2, <1>6

-----------------------------------------------------------------------------
(* Words, and what is left of a program without the blank lines at its end. *)

Entry == ParsedLines \cup {nil}

LEMMA WordsAreParsed ==
    ASSUME NEW text \in Seq(TextLine), NEW i \in 1..Len(text), NEW tr \in Transforms
    PROVE  Words(text, i, tr) \in ParsedLines /\ Words(text, i, tr) # nil
<1>1. CASE text[i] = Blank
  BY <1>1, NilAssumption DEF Words, ParsedLines
<1>2. CASE text[i] # Blank
  <2>1. text[i] \in Lines
    BY <1>2 DEF TextLine
  <2>2. ASSUME NEW axis PROVE LastGiving(axis, text, i) \in Lines \cup {nil}
    <3> DEFINE before == {j \in 1..(i - 1) : text[j] # Blank /\ axis \in Gives[text[j]]}
    <3>1. CASE before = {}
      BY <3>1 DEF LastGiving
    <3>2. CASE before # {}
      <4>1. before \in SUBSET (0..Len(text)) /\ Len(text) \in Nat
        OBVIOUS
      <4>2. \A j \in before : text[j] \in Lines
        <5>1. \A j \in before : j \in 1..Len(text) /\ text[j] # Blank
          OBVIOUS
        <5> QED
          BY <5>1 DEF TextLine
      <4>3. LastGiving(axis, text, i) = text[Max(before)]
        BY <3>2 DEF LastGiving
      <4> HIDE DEF before
      <4>4. Max(before) \in before
        BY <3>2, <4>1, GreatestIsOne
      <4> QED
        BY <4>2, <4>3, <4>4
    <3> QED
      BY <3>1, <3>2
  <2>3. Carried(text, i) \in SUBSET ({"X", "Y"} \X (Lines \cup {nil}))
    BY <2>2 DEF Carried
  <2>4. Words(text, i, tr) = << text[i], tr, Carried(text, i) >>
    BY <1>2 DEF Words
  <2>5. Words(text, i, tr) \in ParsedLines
    BY <2>1, <2>3, <2>4 DEF ParsedLines
  <2> QED
    BY <2>5, NilAssumption
<1> QED
  BY <1>1, <1>2

\* So what the parser keeps are words of lines, or nil.
LEMMA EntriesHoldWords ==
    ASSUME NEW text \in Seq(TextLine), NEW tr \in Transforms, NEW cache \in Seq(Entry)
    PROVE  HoldsWords(Entry, text, tr, cache)
<1>1. nil \in Entry /\ NoWords \in Entry /\ ParsedLines \subseteq Entry
  BY DEF Entry, ParsedLines
<1>2. \A i \in 1..Len(text) : Words(text, i, tr) \in Entry
  BY <1>1, WordsAreParsed
<1> QED
  BY <1>1, <1>2 DEF HoldsWords

\* Blank lines more or less at the end are trimmed off.
LEMMA TrimmedSame ==
    ASSUME NEW W, NEW s \in Seq(W), NEW t \in Seq(W), Len(s) <= Len(t),
           \A k \in 1..Len(s) : s[k] = t[k],
           \A k \in (Len(s) + 1)..Len(t) : t[k] = NoWords
    PROVE  Trimmed(s) = Trimmed(t)
<1> DEFINE I == {0} \cup {i \in DOMAIN s : s[i] # NoWords}
           J == {0} \cup {i \in DOMAIN t : t[i] # NoWords}
           m == Max(I)
<1>1. Len(s) \in Nat /\ Len(t) \in Nat /\ DOMAIN s = 1..Len(s) /\ DOMAIN t = 1..Len(t)
  OBVIOUS
<1>2. I = J
  <2>1. \A i \in 1..Len(t) : i \in 1..Len(s) \/ i \in (Len(s) + 1)..Len(t)
    BY <1>1
  <2>2. \A i \in 1..Len(s) : i \in 1..Len(t)
    BY <1>1
  <2> QED
    BY <1>1, <2>1, <2>2
<1>3. I \in SUBSET (0..Len(s)) /\ I # {}
  BY <1>1
<1>4. Trimmed(s) = SubSeq(s, 1, m) /\ Trimmed(t) = SubSeq(t, 1, m)
  <2>1. Trimmed(s) = SubSeq(s, 1, Max(I)) /\ Trimmed(t) = SubSeq(t, 1, Max(J))
    BY DEF Trimmed
  <2> HIDE DEF I, J
  <2> QED
    BY <1>2, <2>1
<1> HIDE DEF I, J
<1>5. m \in I
  BY <1>1, <1>3, GreatestIsOne
<1> HIDE DEF m
<1>6. m \in 0..Len(s)
  BY <1>3, <1>5
<1>7. \A i \in 1..m : s[i] \in W /\ t[i] \in W /\ s[i] = t[i]
  <2>1. \A i \in 1..m : i \in 1..Len(s) /\ i \in 1..Len(t)
    BY <1>1, <1>6
  <2> QED
    BY <2>1
<1>8. m \in Int
  BY <1>1, <1>6
<1> DEFINE a == SubSeq(s, 1, m)
           b == SubSeq(t, 1, m)
<1>9. a \in Seq(W) /\ Len(a) = m /\ \A i \in 1..m : a[i] = s[i]
  <2>1. /\ a \in Seq(W) /\ Len(a) = IF 1 <= m THEN m - 1 + 1 ELSE 0
        /\ \A i \in 1..(m - 1 + 1) : a[i] = s[1 + i - 1]
    BY <1>7, <1>8, SubSeqProperties
  <2> HIDE DEF a
  <2>2. Len(a) = m
    BY <1>1, <1>6, <2>1
  <2>3. \A i \in 1..m : i \in 1..(m - 1 + 1) /\ 1 + i - 1 = i
    BY <1>1, <1>6
  <2> QED
    BY <2>1, <2>2, <2>3
<1>10. b \in Seq(W) /\ Len(b) = m /\ \A i \in 1..m : b[i] = t[i]
  <2>1. /\ b \in Seq(W) /\ Len(b) = IF 1 <= m THEN m - 1 + 1 ELSE 0
        /\ \A i \in 1..(m - 1 + 1) : b[i] = t[1 + i - 1]
    BY <1>7, <1>8, SubSeqProperties
  <2> HIDE DEF b
  <2>2. Len(b) = m
    BY <1>1, <1>6, <2>1
  <2>3. \A i \in 1..m : i \in 1..(m - 1 + 1) /\ 1 + i - 1 = i
    BY <1>1, <1>6
  <2> QED
    BY <2>1, <2>2, <2>3
<1> HIDE DEF a, b
<1>11. a = b
  BY <1>7, <1>9, <1>10, SeqEqual
<1> QED
  BY <1>4, <1>11 DEF a, b

-----------------------------------------------------------------------------
(* What the two parsers leave. *)

\* Run's parser, whose text is ended, posts the words of every line in order, up
\* to blank ones at the end.
LEMMA EndedParse ==
    ASSUME NEW text \in Seq(TextLine), NEW tr \in Transforms,
           NEW cache \in Seq(Entry), NEW cacheBlanks \in BOOLEAN
    PROVE  Trimmed(Parse(text, tr, TRUE, cacheBlanks, cache).out)
              = Trimmed([k \in 1..Len(text) |-> Words(text, k, tr)])
<1> DEFINE p == Parse(text, tr, TRUE, cacheBlanks, cache)
           all == [k \in 1..Len(text) |-> Words(text, k, tr)]
<1>1. HoldsWords(Entry, text, tr, cache)
  BY EntriesHoldWords
<1>2. Numbered(text, TRUE)
  BY DEF Numbered
<1>3. p \in Even(Entry) /\ Parsed(p, text, Len(text), tr, TRUE, cacheBlanks)
  BY <1>1, <1>2, ParseIsParsed
<1>4. all \in Seq(Entry) /\ Len(all) = Len(text) /\ Len(text) \in Nat
  <2>1. \A k \in 1..Len(text) : Words(text, k, tr) \in Entry
    BY <1>1 DEF HoldsWords
  <2> QED
    BY <2>1
<1>5. \A k \in 1..Len(text) : all[k] = Words(text, k, tr)
  OBVIOUS
<1> HIDE DEF p, all
<1>6. p.out \in Seq(Entry) /\ Len(p.out) = p.ln_cur /\ p.ln_cur \in Nat
      /\ p.ln_cur <= Len(text)
  BY <1>3 DEF Even, ParserState, Parsed
<1>7. \A k \in 1..Len(p.out) : p.out[k] = all[k]
  <2>1. \A k \in 1..Len(p.out) : k \in 1..p.ln_cur /\ k \in 1..Len(text)
    BY <1>4, <1>6
  <2> QED
    BY <1>3, <1>5, <2>1 DEF Parsed
<1>8. ASSUME NEW k \in (Len(p.out) + 1)..Len(all) PROVE all[k] = NoWords
  <2>1. k \in (p.ln_cur + 1)..Len(text) /\ k \in 1..Len(text)
    BY <1>4, <1>6
  <2>2. k \notin Reported(text, TRUE)
    BY <1>3, <2>1 DEF Parsed
  <2>3. text[k] = Blank
    BY <2>1, <2>2 DEF Reported
  <2> QED
    BY <1>5, <2>1, <2>3 DEF Words
<1>9. Trimmed(p.out) = Trimmed(all)
  BY <1>4, <1>6, <1>7, <1>8, TrimmedSame
<1> QED
  BY <1>9 DEF p, all

\* Which lines of a parsed text must not be blank for the cache to be without
\* holes.
HolesIn(text, blanks) ==
    IF blanks THEN DOMAIN text \cap {Len(text) - 1, Len(text)} ELSE DOMAIN text

HasWords(cache, text, tr, blanks) ==
    (\A i \in HolesIn(text, blanks) : text[i] # Blank) =>
       /\ Len(cache) >= Len(text)
       /\ \A k \in 1..Len(text) : cache[k] = Words(text, k, tr)

\* Each parser leaves a cache with the words of every line of its text, but for
\* the holes.
LEMMA ParseFills ==
    ASSUME NEW text \in Seq(TextLine), NEW tr \in Transforms,
           NEW cache \in Seq(Entry), NEW cacheBlanks \in BOOLEAN
    PROVE  /\ Parse(text, tr, ~cacheBlanks, cacheBlanks, cache).cache \in Seq(Entry)
           /\ HasWords(Parse(text, tr, ~cacheBlanks, cacheBlanks, cache).cache,
                     text, tr, cacheBlanks)
<1> DEFINE ended == ~cacheBlanks
           p == Parse(text, tr, ended, cacheBlanks, cache)
           n == Len(text)
<1>1. HoldsWords(Entry, text, tr, cache)
  BY EntriesHoldWords
<1>2. ended \in BOOLEAN /\ n \in Nat
  OBVIOUS
<1> HIDE DEF ended
<1>3. p.cache \in Seq(Entry)
  <2>1. ParserRuns(Entry, text, tr, ended, cacheBlanks, cache)
    BY <1>1, <1>2, ParseRuns
  <2>2. p \in Even(Entry)
    BY <1>2, <2>1 DEF ParserRuns
  <2> QED
    BY <2>2 DEF Even, ParserState
<1>4. ASSUME \A i \in HolesIn(text, cacheBlanks) : text[i] # Blank
      PROVE  /\ Len(p.cache) >= n
             /\ \A k \in 1..n : p.cache[k] = Words(text, k, tr)
  <2>1. Numbered(text, ended) /\ (cacheBlanks \/ NoBlanks(text))
        /\ (n > 0 => text[n] # Blank)
    <3>1. CASE cacheBlanks
      <4>1. \A i \in 1..n : i \in {n - 1, n} => text[i] # Blank
        BY <1>4, <3>1 DEF HolesIn
      <4>2. n > 0 => n \in 1..n
        BY <1>2
      <4>3. n > 1 => n - 1 \in 1..n
        BY <1>2
      <4> QED
        BY <3>1, <4>1, <4>2, <4>3 DEF Numbered
    <3>2. CASE ~cacheBlanks
      <4>1. \A i \in 1..n : text[i] # Blank
        BY <1>4, <3>2 DEF HolesIn
      <4>2. n > 0 => n \in 1..n
        BY <1>2
      <4> QED
        BY <3>2, <4>1, <4>2 DEF Numbered, NoBlanks, ended
    <3> QED
      BY <3>1, <3>2
  <2>2. p \in Even(Entry) /\ Parsed(p, text, n, tr, ended, cacheBlanks)
    BY <1>1, <1>2, <2>1, ParseIsParsed
  <2> HIDE DEF p
  <2>3. p.ln_cur \in Nat
    BY <2>2 DEF Even, ParserState
  <2>4. p.ln_cur = n
    <3>1. p.ln_cur < n => n \in (p.ln_cur + 1)..n /\ n > 0 /\ n \in 1..n
      BY <1>2, <2>3
    <3>2. n \in 1..n /\ text[n] # Blank => n \in Reported(text, ended)
      BY DEF Reported
    <3>3. \A k \in (p.ln_cur + 1)..n : k \notin Reported(text, ended)
      BY <2>2 DEF Parsed
    <3>4. ~(p.ln_cur < n)
      BY <2>1, <3>1, <3>2, <3>3
    <3>5. p.ln_cur <= n
      BY <2>2 DEF Parsed
    <3> QED
      BY <1>2, <2>3, <3>4, <3>5
  <2> QED
    BY <2>1, <2>2, <2>4 DEF Parsed
<1>5. HasWords(p.cache, text, tr, cacheBlanks)
  BY <1>4 DEF HasWords
<1> QED
  BY <1>3, <1>5 DEF ended

-----------------------------------------------------------------------------
(* The invariant. *)

TextTypes ==
    /\ GTXT \in Seq(TextLine) /\ GTXT_parsed \in Seq(Entry)
    /\ GTXT0 \in TextLine \cup {nil}
    /\ SelectedLine \in Nat /\ sent_lines \in SUBSET Nat
    /\ SendFrom \in Nat \cup {nil} /\ SendTo \in Nat \cup {nil}
    /\ Transformations \in Transforms
    /\ isEdited \in BOOLEAN /\ failed \in BOOLEAN /\ ran \in BOOLEAN
    /\ cut \in BOOLEAN /\ off \in SUBSET {"from", "to"}
    /\ drawn \in [text : Seq(TextLine), tr : Transforms, blanks : BOOLEAN]

\* The cache has what was last parsed.
CacheFilled == HasWords(GTXT_parsed, drawn.text, drawn.tr, drawn.blanks)

\* The range begins at a line and ends in the text, unless its ends were taken
\* from what is no line, or lines were deleted since the end was chosen.
RangeInside ==
    /\ "from" \notin off => From >= 1
    /\ ~cut /\ "to" \notin off => To <= Len(GTXT)

TextInv ==
    /\ TextTypes
    /\ CacheFilled
    /\ RangeInside
    /\ FailsOnlyOffText

LEMMA TextInit_Inv == TextInit => TextInv
<1> SUFFICES ASSUME TextInit PROVE TextInv
  OBVIOUS
<1>1. /\ GTXT = <<>> /\ GTXT_parsed = <<>> /\ drawn.text = <<>>
      /\ SendFrom = nil /\ SendTo = nil /\ ~failed
      /\ drawn = [text |-> <<>>, tr |-> Transformations, blanks |-> TRUE]
      /\ Transformations \in Transforms /\ ~isEdited /\ ~cut
  BY DEF TextInit
<1>2. TextTypes
  <2>1. <<>> \in Seq(TextLine) /\ <<>> \in Seq(Entry)
    BY EmptySeq
  <2>2. drawn \in [text : Seq(TextLine), tr : Transforms, blanks : BOOLEAN]
    BY <1>1, <2>1
  <2>3. isEdited = FALSE /\ failed = FALSE /\ cut = FALSE /\ ran = FALSE /\ off = {}
        /\ GTXT0 = nil /\ SelectedLine = 0 /\ sent_lines = {1}
    BY DEF TextInit
  <2>4. /\ isEdited \in BOOLEAN /\ failed \in BOOLEAN /\ ran \in BOOLEAN /\ cut \in BOOLEAN
        /\ off \in SUBSET {"from", "to"}
    BY <2>3
  <2>5. SelectedLine \in Nat /\ sent_lines \in SUBSET Nat /\ GTXT0 \in TextLine \cup {nil}
    BY <2>3
  <2>6. SendFrom \in Nat \cup {nil} /\ SendTo \in Nat \cup {nil}
    BY <1>1
  <2> QED
    BY <1>1, <2>1, <2>2, <2>4, <2>5, <2>6 DEF TextTypes
<1>3. Len(GTXT_parsed) >= Len(drawn.text) /\ \A k \in 1..Len(drawn.text) : FALSE
  BY <1>1
<1>4. CacheFilled
  BY <1>3 DEF CacheFilled, HasWords
<1>5. RangeInside /\ FailsOnlyOffText
  BY <1>1 DEF RangeInside, FailsOnlyOffText, From, To
<1> QED
  BY <1>2, <1>4, <1>5 DEF TextInv

\* The range is one of numbers.
LEMMA RangeType ==
    ASSUME TextTypes
    PROVE  From \in Nat /\ To \in Nat
<1>1. Len(GTXT) \in Nat
  BY DEF TextTypes
<1> QED
  BY <1>1 DEF TextTypes, From, To

\* A picture drawn anew leaves the cache filled.
LEMMA VparseFills ==
    ASSUME TextTypes, NEW text \in Seq(TextLine),
           GTXT_parsed' = Parse(text, Transformations, FALSE, TRUE, GTXT_parsed).cache,
           drawn' = [text |-> text, tr |-> Transformations, blanks |-> TRUE]
    PROVE  /\ GTXT_parsed' \in Seq(Entry) /\ CacheFilled'
           /\ drawn' \in [text : Seq(TextLine), tr : Transforms, blanks : BOOLEAN]
<1>1. Transformations \in Transforms /\ GTXT_parsed \in Seq(Entry)
  BY DEF TextTypes
<1> DEFINE tr == Transformations
           cache == GTXT_parsed
<1> HIDE DEF tr, cache
<1>2. /\ Parse(text, tr, FALSE, TRUE, cache).cache \in Seq(Entry)
      /\ HasWords(Parse(text, tr, FALSE, TRUE, cache).cache, text, tr, TRUE)
  <2>1. /\ Parse(text, tr, ~TRUE, TRUE, cache).cache \in Seq(Entry)
        /\ HasWords(Parse(text, tr, ~TRUE, TRUE, cache).cache, text, tr, TRUE)
    BY <1>1, ParseFills DEF tr, cache
  <2>2. (~TRUE) = FALSE
    OBVIOUS
  <2> QED
    BY <2>1, <2>2
<1>3. GTXT_parsed' = Parse(text, tr, FALSE, TRUE, cache).cache
      /\ drawn' = [text |-> text, tr |-> tr, blanks |-> TRUE]
  BY DEF tr, cache
<1>4. drawn'.text = text /\ drawn'.tr = tr /\ drawn'.blanks = TRUE
  BY <1>3
<1>5. CacheFilled'
  BY <1>2, <1>3, <1>4 DEF CacheFilled
<1>6. drawn' \in [text : Seq(TextLine), tr : Transforms, blanks : BOOLEAN]
  <2>1. tr \in Transforms
    BY <1>1 DEF tr
  <2> QED
    BY <1>3, <2>1
<1> QED
  BY <1>2, <1>3, <1>5, <1>6

\* A step that parses nothing leaves the cache as it was.
LEMMA UnparsedKeeps ==
    ASSUME TextInv, Unparsed
    PROVE  /\ GTXT_parsed' \in Seq(Entry) /\ CacheFilled'
           /\ drawn' \in [text : Seq(TextLine), tr : Transforms, blanks : BOOLEAN]
  BY DEF TextInv, TextTypes, CacheFilled, Unparsed

\* One line replaced by another, or by none.
LEMMA LineReplaced ==
    ASSUME TextTypes, NEW n, NEW ln \in TextLine,
           GTXT' = [i \in DOMAIN GTXT |-> IF i = n THEN ln ELSE GTXT[i]]
    PROVE  GTXT' \in Seq(TextLine) /\ Len(GTXT') = Len(GTXT)
<1>1. GTXT \in Seq(TextLine) /\ Len(GTXT) \in Nat /\ DOMAIN GTXT = 1..Len(GTXT)
  BY DEF TextTypes
<1>2. \A i \in 1..Len(GTXT) : (IF i = n THEN ln ELSE GTXT[i]) \in TextLine
  BY <1>1
<1> QED
  BY <1>1, <1>2

\* A line written at the selection, or behind the last.
LEMMA LineWritten ==
    ASSUME TextTypes, SelectedLine \in 1..(Len(GTXT) + 1), NEW ln \in TextLine,
           GTXT' = [i \in 1..Max({SelectedLine, Len(GTXT)}) |->
                      IF i = SelectedLine THEN ln ELSE GTXT[i]]
    PROVE  GTXT' \in Seq(TextLine) /\ Len(GTXT') >= Len(GTXT)
<1> DEFINE m == Max({SelectedLine, Len(GTXT)})
<1>1. GTXT \in Seq(TextLine) /\ Len(GTXT) \in Nat
  BY DEF TextTypes
<1>2. m \in Nat /\ m >= Len(GTXT)
      /\ \A i \in 1..m : i = SelectedLine \/ i \in 1..Len(GTXT)
  <2>1. m = IF SelectedLine >= Len(GTXT) THEN SelectedLine ELSE Len(GTXT)
    BY <1>1, GreaterOfTwo
  <2> HIDE DEF m
  <2> QED
    BY <1>1, <2>1
<1> HIDE DEF m
<1> DEFINE text == [i \in 1..m |-> IF i = SelectedLine THEN ln ELSE GTXT[i]]
<1>3. GTXT' = text
  BY DEF m
<1>4. \A i \in 1..m : (IF i = SelectedLine THEN ln ELSE GTXT[i]) \in TextLine
  BY <1>1, <1>2
<1>5. text \in [1..m -> TextLine]
  BY <1>4
<1>6. text \in Seq(TextLine) /\ Len(text) = m
  BY <1>2, <1>5
<1> QED
  BY <1>2, <1>3, <1>6

LEMMA LineInserted ==
    ASSUME TextTypes, NEW n \in 0..Len(GTXT), GTXT' = InsertAt(GTXT, n + 1, Blank)
    PROVE  GTXT' \in Seq(TextLine) /\ Len(GTXT') = Len(GTXT) + 1
<1> DEFINE a == SubSeq(GTXT, 1, (n + 1) - 1)
           b == SubSeq(GTXT, n + 1, Len(GTXT))
<1>1. GTXT \in Seq(TextLine) /\ Len(GTXT) \in Nat /\ Blank \in TextLine
  BY DEF TextTypes, TextLine
<1>2. \A i \in 1..Len(GTXT) : GTXT[i] \in TextLine
  BY <1>1
<1>3. a \in Seq(TextLine) /\ Len(a) = n
  <2>1. \A i \in 1..((n + 1) - 1) : GTXT[i] \in TextLine
    BY <1>1, <1>2
  <2>2. /\ a \in Seq(TextLine)
        /\ Len(a) = IF 1 <= (n + 1) - 1 THEN ((n + 1) - 1) - 1 + 1 ELSE 0
    BY <1>1, <2>1, SubSeqProperties
  <2> HIDE DEF a
  <2> QED
    BY <1>1, <2>2
<1>4. b \in Seq(TextLine) /\ Len(b) = Len(GTXT) - n
  <2>1. \A i \in (n + 1)..Len(GTXT) : GTXT[i] \in TextLine
    BY <1>1, <1>2
  <2>2. /\ b \in Seq(TextLine)
        /\ Len(b) = IF n + 1 <= Len(GTXT) THEN Len(GTXT) - (n + 1) + 1 ELSE 0
    BY <1>1, <2>1, SubSeqProperties
  <2> HIDE DEF b
  <2> QED
    BY <1>1, <2>2
<1>5. GTXT' = a \o << Blank >> \o b
  BY DEF InsertAt
<1> HIDE DEF a, b
<1>6. << Blank >> \in Seq(TextLine) /\ Len(<< Blank >>) = 1
  BY <1>1
<1>7. a \o << Blank >> \in Seq(TextLine) /\ Len(a \o << Blank >>) = n + 1
  BY <1>3, <1>6, ConcatProperties
<1> DEFINE c == a \o << Blank >>
<1>8. c \in Seq(TextLine) /\ Len(c) = n + 1 /\ GTXT' = c \o b
  BY <1>5, <1>7
<1> HIDE DEF c
<1>9. c \o b \in Seq(TextLine) /\ Len(c \o b) = Len(c) + Len(b)
  BY <1>4, <1>8, ConcatProperties
<1>10. Len(GTXT') = (n + 1) + Len(b) /\ n \in Int /\ Len(b) \in Int
  <2>1. Len(c \o b) = (n + 1) + Len(b)
    BY <1>8, <1>9
  <2>2. Len(GTXT') = Len(c \o b)
    BY <1>8
  <2>3. n \in Int /\ Len(b) \in Int
    BY <1>1, <1>4
  <2> QED
    BY <2>1, <2>2, <2>3
<1>11. \A x, y, z \in Int : z = y - x => (x + 1) + z = y + 1
  OBVIOUS
<1>12. Len(GTXT') = Len(GTXT) + 1
  BY <1>1, <1>4, <1>10, <1>11
<1> QED
  BY <1>8, <1>9, <1>12

LEMMA LineDeleted ==
    ASSUME TextTypes, NEW n \in 1..Len(GTXT), GTXT' = RemoveAt(GTXT, n)
    PROVE  GTXT' \in Seq(TextLine)
<1> DEFINE a == SubSeq(GTXT, 1, n - 1)
           b == SubSeq(GTXT, n + 1, Len(GTXT))
<1>1. GTXT \in Seq(TextLine) /\ Len(GTXT) \in Nat
  BY DEF TextTypes
<1>2. \A i \in 1..Len(GTXT) : GTXT[i] \in TextLine
  BY <1>1
<1>3. a \in Seq(TextLine)
  <2>1. \A i \in 1..(n - 1) : GTXT[i] \in TextLine
    BY <1>1, <1>2
  <2> QED
    BY <1>1, <2>1, SubSeqProperties
<1>4. b \in Seq(TextLine)
  <2>1. \A i \in (n + 1)..Len(GTXT) : GTXT[i] \in TextLine
    BY <1>1, <1>2
  <2> QED
    BY <1>1, <2>1, SubSeqProperties
<1>5. GTXT' = a \o b
  BY DEF RemoveAt
<1> HIDE DEF a, b
<1> QED
  BY <1>3, <1>4, <1>5, ConcatProperties

-----------------------------------------------------------------------------
(* The range as a text. *)

\* How many lines the range has.
RangeLen == IF From <= To THEN To - From + 1 ELSE 0

LEMMA RangeLength ==
    ASSUME TextTypes
    PROVE  RangeLen \in Nat /\ InRange = 1..RangeLen
<1>1. From \in Nat /\ To \in Nat /\ (To - From) + 1 \in Int
  BY RangeType
<1>2. Max({0, To - From + 1}) = IF 0 >= To - From + 1 THEN 0 ELSE To - From + 1
  BY <1>1, GreaterOfTwo
<1>3. Max({0, To - From + 1}) = RangeLen
  BY <1>1, <1>2 DEF RangeLen
<1> QED
  BY <1>1, <1>3 DEF InRange, RangeLen

\* A range without a gap is a text of its own.
LEMMA SliceText ==
    ASSUME TextTypes, Concats
    PROVE  /\ Slice \in Seq(TextLine) /\ Len(Slice) = RangeLen
           /\ From >= 1 => \A k \in 1..RangeLen :
                 /\ From + k - 1 \in 1..Len(GTXT)
                 /\ Slice[k] = GTXT[From + k - 1]
<1>1. GTXT \in Seq(TextLine) /\ Len(GTXT) \in Nat /\ DOMAIN GTXT = 1..Len(GTXT)
  BY DEF TextTypes
<1>2. RangeLen \in Nat /\ InRange = 1..RangeLen
  BY RangeLength
<1>3. Slice = [k \in 1..RangeLen |-> LineAt(From + k - 1)]
  BY <1>2 DEF Slice
<1>4. ASSUME NEW k \in 1..RangeLen PROVE LineAt(From + k - 1) \in TextLine
  <2>1. LineAt(From + k - 1) # nil
    BY <1>2 DEF Concats
  <2>2. \A i : LineAt(i) \in TextLine \cup {nil}
    BY <1>1 DEF LineAt, TextTypes
  <2> QED
    BY <2>1, <2>2
<1>5. Slice \in Seq(TextLine) /\ Len(Slice) = RangeLen
  BY <1>2, <1>3, <1>4
<1>6. ASSUME From >= 1, NEW k \in 1..RangeLen
      PROVE  From + k - 1 \in 1..Len(GTXT) /\ Slice[k] = GTXT[From + k - 1]
  <2> DEFINE i == From + k - 1
  <2>1. i \in Nat /\ i # 0
    BY <1>2, <1>6, RangeType
  <2>2. LineAt(i) # nil
    BY <1>2 DEF Concats
  <2> HIDE DEF i
  <2>3. i \in DOMAIN GTXT /\ LineAt(i) = GTXT[i]
    BY <2>1, <2>2 DEF LineAt
  <2> QED
    BY <1>1, <1>3, <2>3 DEF i
<1> QED
  BY <1>5, <1>6

LEMMA JoinedText ==
    ASSUME TextTypes, Concats
    PROVE  Joined \in Seq(TextLine)
<1>1. << Blank >> \in Seq(TextLine)
  BY DEF TextLine
<1> QED
  BY <1>1, SliceText DEF Joined

\* A range inside the text has no gap.
LEMMA InsideConcats ==
    ASSUME TextTypes, From >= 1, To <= Len(GTXT)
    PROVE  Concats
<1>1. GTXT \in Seq(TextLine) /\ Len(GTXT) \in Nat /\ DOMAIN GTXT = 1..Len(GTXT)
  BY DEF TextTypes
<1>2. nil \notin TextLine
  BY LinesAssumption DEF TextLine
<1> SUFFICES ASSUME NEW k \in InRange PROVE LineAt(From + k - 1) # nil
  BY DEF Concats
<1>3. From \in Nat /\ To \in Nat /\ k \in 1..RangeLen /\ RangeLen \in Nat
  BY RangeType, RangeLength
<1> DEFINE i == From + k - 1
<1>4. i # 0 /\ i \in 1..Len(GTXT)
  BY <1>1, <1>3 DEF RangeLen
<1> HIDE DEF i
<1>5. LineAt(i) = GTXT[i]
  BY <1>1, <1>4 DEF LineAt
<1> QED
  BY <1>1, <1>2, <1>4, <1>5 DEF i

-----------------------------------------------------------------------------
(* The steps. *)

\* What is left to show of a step that does not fail.
LEMMA EditKeepsInv ==
    ASSUME TextInv, ~failed, failed' = failed,
           GTXT' \in Seq(TextLine), GTXT0' \in TextLine \cup {nil},
           GTXT_parsed' \in Seq(Entry), CacheFilled',
           drawn' \in [text : Seq(TextLine), tr : Transforms, blanks : BOOLEAN],
           SelectedLine' \in Nat, sent_lines' \in SUBSET Nat,
           SendFrom' \in Nat \cup {nil}, SendTo' \in Nat \cup {nil},
           Transformations' \in Transforms,
           isEdited' \in BOOLEAN, ran' \in BOOLEAN,
           cut' \in BOOLEAN, off' \in SUBSET {"from", "to"},
           RangeInside'
    PROVE  TextInv'
<1>1. failed \in BOOLEAN /\ failed' \in BOOLEAN /\ ~failed'
  BY DEF TextInv, TextTypes
<1>2. TextTypes'
  BY <1>1 DEF TextTypes
<1>3. FailsOnlyOffText'
  BY <1>1 DEF FailsOnlyOffText
<1> QED
  BY <1>2, <1>3 DEF TextInv

LEMMA LoadKeeps ==
    ASSUME TextInv, NEW t \in Texts, Load(t)
    PROVE  TextInv'
<1>1. t \in Seq(TextLine) /\ GTXT' = t /\ GTXT' \in Seq(TextLine) /\ Len(t) \in Nat
  BY LinesAssumption DEF Load, TextLine
<1>2. TextTypes /\ Vparse(t) /\ ~failed /\ failed' = failed /\ ran' = FALSE
  BY DEF Load, TextInv, Press, Pressed
<1>3. /\ GTXT_parsed' \in Seq(Entry) /\ CacheFilled'
      /\ drawn' \in [text : Seq(TextLine), tr : Transforms, blanks : BOOLEAN]
  BY <1>1, <1>2, VparseFills DEF Vparse
<1>4. /\ SendFrom' = 1 /\ SendTo' = Len(t) /\ cut' = FALSE /\ off' = {} /\ GTXT0' = nil
      /\ isEdited' = isEdited /\ Transformations' = Transformations
      /\ SelectedLine' = SelectedLine /\ sent_lines' = sent_lines
  BY DEF Load, LastOf, sending
<1>5. RangeInside'
  <2>1. To' = Len(GTXT') /\ From' = 1
    BY <1>1, <1>4 DEF To, From
  <2>2. Len(GTXT') \in Nat
    BY <1>1
  <2> QED
    BY <2>1, <2>2 DEF RangeInside
<1>6. /\ SendFrom' \in Nat \cup {nil} /\ SendTo' \in Nat \cup {nil}
      /\ isEdited' \in BOOLEAN /\ Transformations' \in Transforms /\ cut' \in BOOLEAN
      /\ off' \in SUBSET {"from", "to"} /\ ran' \in BOOLEAN
      /\ GTXT0' \in TextLine \cup {nil}
      /\ SelectedLine' \in Nat /\ sent_lines' \in SUBSET Nat
  <2>1. isEdited \in BOOLEAN /\ Transformations \in Transforms
        /\ SelectedLine \in Nat /\ sent_lines \in SUBSET Nat
    BY <1>2 DEF TextTypes
  <2> QED
    BY <1>1, <1>2, <1>4, <2>1
<1> QED
  BY <1>1, <1>2, <1>3, <1>5, <1>6, EditKeepsInv

\* The edits that leave range and transformation alone: the text does not shrink
\* but by a deletion, and that is remembered.
LEMMA EditKeeps ==
    ASSUME TextInv, ~failed, failed' = failed,
           GTXT' \in Seq(TextLine), GTXT0' \in TextLine \cup {nil},
           (cut' = cut /\ Len(GTXT') >= Len(GTXT)) \/ cut' = TRUE,
           SelectedLine' \in Nat, isEdited' \in BOOLEAN, ran' \in BOOLEAN,
           UNCHANGED << SendFrom, SendTo, Transformations, off, sent_lines >>,
           \/ \E text \in Seq(TextLine) : Vparse(text)
           \/ Unparsed
    PROVE  TextInv'
<1>1. TextTypes
  BY DEF TextInv
<1>2. /\ GTXT_parsed' \in Seq(Entry) /\ CacheFilled'
      /\ drawn' \in [text : Seq(TextLine), tr : Transforms, blanks : BOOLEAN]
  <2>1. CASE Unparsed
    BY <2>1, UnparsedKeeps
  <2>2. CASE \E text \in Seq(TextLine) : Vparse(text)
    <3>1. PICK text \in Seq(TextLine) : Vparse(text)
      BY <2>2
    <3> QED
      BY <1>1, <3>1, VparseFills DEF Vparse
  <2> QED
    BY <2>1, <2>2
<1>3. RangeInside'
  <2>1. From' = From
    BY DEF From
  <2>2. CASE cut' = TRUE
    BY <2>1, <2>2 DEF TextInv, RangeInside
  <2>3. CASE cut' = cut /\ Len(GTXT') >= Len(GTXT)
    <3>1. Len(GTXT) \in Nat /\ Len(GTXT') \in Nat /\ To \in Nat
      BY <1>1, RangeType DEF TextTypes
    <3>2. To' = IF SendTo = nil THEN Len(GTXT') ELSE To
      BY DEF To
    <3> QED
      BY <2>1, <2>3, <3>1, <3>2 DEF TextInv, RangeInside
  <2> QED
    BY <2>2, <2>3
<1>4. /\ SendFrom' \in Nat \cup {nil} /\ SendTo' \in Nat \cup {nil}
      /\ Transformations' \in Transforms /\ cut' \in BOOLEAN
      /\ off' \in SUBSET {"from", "to"} /\ sent_lines' \in SUBSET Nat
  BY <1>1 DEF TextTypes
<1> QED
  BY <1>2, <1>3, <1>4, EditKeepsInv

LEMMA SelectKeeps ==
    ASSUME TextInv, NEW n, Select(n)
    PROVE  TextInv'
<1>1. TextTypes /\ GTXT \in Seq(TextLine) /\ Len(GTXT) \in Nat /\ DOMAIN GTXT = 1..Len(GTXT)
      /\ SelectedLine \in Nat /\ sent_lines \in SUBSET Nat /\ ran \in BOOLEAN
      /\ isEdited \in BOOLEAN /\ GTXT0 \in TextLine \cup {nil}
  BY DEF TextInv, TextTypes
<1>2. n \in DOMAIN GTXT \cup {Begin} \cup sent_lines /\ SelectedLine' = n /\ ~failed
  BY DEF Select
<1>3. n \in Nat
  <2>1. Begin \in Nat
    BY <1>1 DEF Begin
  <2>2. (\A i \in DOMAIN GTXT : i \in Nat) /\ \A i \in sent_lines : i \in Nat
    BY <1>1
  <2> QED
    BY <1>2, <2>1, <2>2
<1>4. /\ failed' = failed /\ cut' = cut /\ isEdited' = isEdited /\ ran' = ran
      /\ GTXT' = GTXT /\ GTXT0' = GTXT0 /\ Unparsed
      /\ UNCHANGED << SendFrom, SendTo, Transformations, off, sent_lines >>
  BY DEF Select, choices, sending
<1>5. Len(GTXT') >= Len(GTXT) /\ GTXT' \in Seq(TextLine) /\ GTXT0' \in TextLine \cup {nil}
      /\ isEdited' \in BOOLEAN /\ ran' \in BOOLEAN
  BY <1>1, <1>4
<1> QED
  BY <1>2, <1>3, <1>4, <1>5, EditKeeps

LEMMA EditStepsKeep ==
    ASSUME TextInv,
           \/ New \/ Delete \/ UpdateDrawing \/ SetAutoRedraw
           \/ \E ln \in TextLine : Update(ln)
           \/ \E ln \in TextLine, n \in {Begin} \cup DOMAIN GTXT : Replace(n, ln)
    PROVE  TextInv'
<1>1. TextTypes /\ GTXT \in Seq(TextLine) /\ Len(GTXT) \in Nat /\ DOMAIN GTXT = 1..Len(GTXT)
      /\ SelectedLine \in Nat /\ Begin \in Nat
      /\ isEdited \in BOOLEAN /\ cut \in BOOLEAN /\ GTXT0 \in TextLine \cup {nil}
  BY DEF TextInv, TextTypes, Begin
<1>2. ~failed /\ failed' = failed /\ ran' \in BOOLEAN
      /\ UNCHANGED << SendFrom, SendTo, Transformations, off, sent_lines >>
  BY DEF New, Delete, UpdateDrawing, SetAutoRedraw, Update, Replace,
         Press, Pressed, choices, sending
<1>3. CASE New
  <2>1. GTXT' = InsertAt(GTXT, SelectedLine + 1, Blank) /\ SelectedLine \in 0..Len(GTXT)
    BY <1>1, <1>3 DEF New
  <2>2. GTXT' \in Seq(TextLine) /\ Len(GTXT') = Len(GTXT) + 1
    BY <1>1, <2>1, LineInserted
  <2>3. Len(GTXT') >= Len(GTXT)
    BY <1>1, <2>2
  <2>4. cut' = cut /\ isEdited' = TRUE /\ Unparsed /\ GTXT0' = GTXT0
        /\ SelectedLine' = SelectedLine
    BY <1>3 DEF New
  <2> QED
    BY <1>1, <1>2, <2>2, <2>3, <2>4, EditKeeps
<1>4. CASE Delete
  <2>1. isEdited' = TRUE /\ Unparsed /\ SelectedLine' = SelectedLine
        /\ GTXT0' \in TextLine \cup {nil}
    BY <1>1, <1>4 DEF Delete
  <2>2. CASE OnLine
    <3>1. GTXT' = RemoveAt(GTXT, SelectedLine) /\ cut' = TRUE
      BY <1>1, <1>4, <2>2 DEF Delete
    <3>2. GTXT' \in Seq(TextLine)
      BY <1>1, <2>2, <3>1, LineDeleted DEF OnLine
    <3> QED
      BY <1>1, <1>2, <2>1, <3>1, <3>2, EditKeeps
  <2>3. CASE ~OnLine
    <3>1. GTXT' = GTXT /\ cut' = cut
      BY <1>1, <1>4, <2>3 DEF Delete
    <3>2. GTXT' \in Seq(TextLine) /\ Len(GTXT') >= Len(GTXT)
      BY <1>1, <3>1
    <3> QED
      BY <1>1, <1>2, <2>1, <3>1, <3>2, EditKeeps
  <2> QED
    BY <2>2, <2>3
<1>5. ASSUME NEW ln \in TextLine, Update(ln) PROVE TextInv'
  <2>1. cut' = cut /\ isEdited' = TRUE /\ SelectedLine' = SelectedLine
        /\ (Vparse(GTXT') \/ Unparsed) /\ SelectedLine <= Len(GTXT) + 1
    BY <1>5 DEF Update
  <2>2. GTXT' \in Seq(TextLine) /\ Len(GTXT') >= Len(GTXT) /\ GTXT0' \in TextLine \cup {nil}
    <3>1. CASE SelectedLine = 0
      <4>1. GTXT' = GTXT /\ GTXT0' = ln
        BY <1>5, <3>1 DEF Update
      <4> QED
        BY <1>1, <4>1
    <3>2. CASE SelectedLine # 0
      <4>1. GTXT' = [i \in 1..Max({SelectedLine, Len(GTXT)}) |->
                       IF i = SelectedLine THEN ln ELSE GTXT[i]] /\ GTXT0' = GTXT0
        BY <1>5, <3>2 DEF Update
      <4>2. SelectedLine \in 1..(Len(GTXT) + 1)
        BY <1>1, <2>1, <3>2
      <4> QED
        BY <1>1, <4>1, <4>2, LineWritten
    <3> QED
      BY <3>1, <3>2
  <2>3. (\E text \in Seq(TextLine) : Vparse(text)) \/ Unparsed
    BY <2>1, <2>2
  <2> QED
    BY <1>1, <1>2, <2>1, <2>2, <2>3, EditKeeps
<1>6. ASSUME NEW ln \in TextLine, NEW n \in {Begin} \cup DOMAIN GTXT, Replace(n, ln)
      PROVE  TextInv'
  <2>1. GTXT' = [i \in DOMAIN GTXT |-> IF i = n THEN ln ELSE GTXT[i]]
        /\ cut' = cut /\ isEdited' = isEdited /\ SelectedLine' = n /\ GTXT0' = GTXT0
        /\ (Vparse(GTXT') \/ Unparsed)
    BY <1>6 DEF Replace
  <2>2. GTXT' \in Seq(TextLine) /\ Len(GTXT') >= Len(GTXT) /\ n \in Nat
    BY <1>1, <2>1, LineReplaced
  <2>3. (\E text \in Seq(TextLine) : Vparse(text)) \/ Unparsed
    BY <2>1, <2>2
  <2> QED
    BY <1>1, <1>2, <2>1, <2>2, <2>3, EditKeeps
<1>7. CASE UpdateDrawing \/ SetAutoRedraw
  <2>1. GTXT' = GTXT /\ GTXT0' = GTXT0 /\ cut' = cut /\ isEdited' = isEdited
        /\ SelectedLine' = SelectedLine
    BY <1>7 DEF UpdateDrawing, SetAutoRedraw
  <2>2. Len(GTXT') >= Len(GTXT) /\ GTXT' \in Seq(TextLine)
    BY <1>1, <2>1
  <2>3. (\E text \in Seq(TextLine) : Vparse(text)) \/ Unparsed
    BY <1>1, <1>7 DEF UpdateDrawing, SetAutoRedraw
  <2> QED
    BY <1>1, <1>2, <2>1, <2>2, <2>3, EditKeeps
<1> QED
  BY <1>3, <1>4, <1>5, <1>6, <1>7

\* An end of the range taken from the selection is inside the text, or is
\* remembered not to be.
LEMMA ChoicesKeep ==
    ASSUME TextInv, FromSel \/ ToSel \/ \E tr \in Transforms : Transform(tr)
    PROVE  TextInv'
<1>1. TextTypes /\ GTXT \in Seq(TextLine) /\ Len(GTXT) \in Nat /\ DOMAIN GTXT = 1..Len(GTXT)
      /\ SelectedLine \in Nat /\ sent_lines \in SUBSET Nat /\ GTXT0 \in TextLine \cup {nil}
      /\ isEdited \in BOOLEAN /\ cut \in BOOLEAN /\ off \in SUBSET {"from", "to"}
      /\ SendFrom \in Nat \cup {nil} /\ SendTo \in Nat \cup {nil}
      /\ Transformations \in Transforms /\ RangeInside
  BY DEF TextInv, TextTypes
<1>2. /\ ~failed /\ failed' = failed /\ GTXT' = GTXT /\ GTXT0' = GTXT0
      /\ isEdited' = isEdited /\ Unparsed /\ ran' \in BOOLEAN
      /\ SelectedLine' = SelectedLine /\ sent_lines' = sent_lines
  BY DEF FromSel, ToSel, Transform, Press, Pressed, sending
<1>3. /\ GTXT_parsed' \in Seq(Entry) /\ CacheFilled'
      /\ drawn' \in [text : Seq(TextLine), tr : Transforms, blanks : BOOLEAN]
  BY <1>2, UnparsedKeeps
<1>4. GTXT' \in Seq(TextLine) /\ GTXT0' \in TextLine \cup {nil} /\ SelectedLine' \in Nat
      /\ sent_lines' \in SUBSET Nat /\ isEdited' \in BOOLEAN
  BY <1>1, <1>2
<1> DEFINE Rest == /\ SendFrom' \in Nat \cup {nil} /\ SendTo' \in Nat \cup {nil}
                   /\ Transformations' \in Transforms /\ cut' \in BOOLEAN
                   /\ off' \in SUBSET {"from", "to"} /\ RangeInside'
<1>5. ASSUME FromSel PROVE Rest
  <2>1. SendFrom' = SelectedLine /\ SendTo' = SendTo /\ cut' = cut
        /\ Transformations' = Transformations
        /\ off' = IF OnLine THEN off \ {"from"} ELSE off \cup {"from"}
    BY <1>5 DEF FromSel, Noted
  <2>2. From' = (IF SelectedLine = nil THEN 1 ELSE SelectedLine) /\ To' = To
    BY <1>2, <2>1 DEF From, To
  <2>3. "from" \notin off' => From' >= 1
    BY <1>1, <2>1, <2>2 DEF OnLine
  <2>4. "to" \notin off' => "to" \notin off
    BY <2>1
  <2>5. RangeInside'
    BY <1>1, <1>2, <2>1, <2>2, <2>3, <2>4 DEF RangeInside
  <2>6. off' \in SUBSET {"from", "to"}
    BY <1>1, <2>1
  <2> QED
    BY <1>1, <2>1, <2>5, <2>6
<1>6. ASSUME ToSel PROVE Rest
  <2>1. SendTo' = SelectedLine /\ SendFrom' = SendFrom /\ cut' = FALSE
        /\ Transformations' = Transformations
        /\ off' = IF OnLine THEN off \ {"to"} ELSE off \cup {"to"}
    BY <1>6 DEF ToSel, Noted
  <2>2. To' = (IF SelectedLine = nil THEN Len(GTXT) ELSE SelectedLine) /\ From' = From
    BY <1>2, <2>1 DEF From, To
  <2>3. "to" \notin off' => To' <= Len(GTXT)
    BY <1>1, <2>1, <2>2 DEF OnLine
  <2>4. "from" \notin off' => "from" \notin off
    BY <2>1
  <2>5. RangeInside'
    BY <1>1, <1>2, <2>1, <2>2, <2>3, <2>4 DEF RangeInside
  <2>6. off' \in SUBSET {"from", "to"}
    BY <1>1, <2>1
  <2> QED
    BY <1>1, <2>1, <2>5, <2>6
<1>7. ASSUME NEW tr \in Transforms, Transform(tr) PROVE Rest
  <2>1. SendTo' = SendTo /\ SendFrom' = SendFrom /\ cut' = cut /\ off' = off
        /\ Transformations' = tr
    BY <1>7 DEF Transform
  <2>2. RangeInside'
    BY <1>1, <1>2, <2>1 DEF RangeInside, From, To
  <2>3. Transformations' \in Transforms
    BY <1>7, <2>1
  <2> QED
    BY <1>1, <2>1, <2>2, <2>3
<1>8. Rest
  BY <1>5, <1>6, <1>7
<1> QED
  BY <1>2, <1>3, <1>4, <1>8, EditKeepsInv

\* Run keeps the range, as numbers.
LEMMA SetsRangeKeeps ==
    ASSUME TextTypes, RangeInside, SetsRange, GTXT' = GTXT, cut' = cut, off' = off
    PROVE  /\ SendFrom' \in Nat \cup {nil} /\ SendTo' \in Nat \cup {nil}
           /\ sent_lines' \in SUBSET Nat /\ RangeInside'
<1>1. From \in Nat /\ To \in Nat /\ Len(GTXT) \in Nat
  BY RangeType DEF TextTypes
<1>2. SendFrom' = From /\ SendTo' = To /\ sent_lines' = {From} \cup (From..To)
  BY DEF SetsRange
<1>3. sent_lines' \in SUBSET Nat
  BY <1>1, <1>2
<1>4. From' = (IF From = nil THEN 1 ELSE From)
      /\ To' = (IF To = nil THEN Len(GTXT) ELSE To)
  <2>1. From' = (IF SendFrom' = nil THEN 1 ELSE SendFrom')
        /\ To' = (IF SendTo' = nil THEN Len(GTXT') ELSE SendTo')
    BY DEF From, To
  <2> QED
    BY <1>2, <2>1
<1>5. From' >= From \/ From' >= 1
  BY <1>1, <1>4
<1>6. RangeInside'
  BY <1>1, <1>4 DEF RangeInside
<1> QED
  BY <1>1, <1>2, <1>3, <1>6

LEMMA RunEditedKeeps ==
    ASSUME TextInv, RunEdited
    PROVE  TextInv'
<1>1. TextTypes /\ GTXT \in Seq(TextLine) /\ Len(GTXT) \in Nat /\ cut \in BOOLEAN
      /\ Transformations \in Transforms /\ GTXT_parsed \in Seq(Entry) /\ RangeInside
      /\ GTXT0 \in TextLine \cup {nil} /\ SelectedLine \in Nat
      /\ off \in SUBSET {"from", "to"}
  BY DEF TextInv, TextTypes
<1>2. ~failed /\ failed' = failed /\ GTXT' = GTXT /\ isEdited' = FALSE /\ cut' = cut
      /\ Transformations' = Transformations /\ SetsRange /\ Concats /\ off' = off
      /\ GTXT0' = GTXT0 /\ SelectedLine' = SelectedLine /\ ran' = TRUE
      /\ drawn' = [text |-> Slice, tr |-> Transformations, blanks |-> FALSE]
  BY DEF RunEdited, PressRun, Pressed
<1>3. Slice \in Seq(TextLine) /\ Joined \in Seq(TextLine)
  BY <1>1, <1>2, SliceText, JoinedText
<1> DEFINE tr == Transformations
           old == GTXT_parsed
           new == Parse(Joined, tr, TRUE, FALSE, old).cache
<1>4. GTXT_parsed' = new
  BY DEF RunEdited
<1>5. new \in Seq(Entry) /\ HasWords(new, Joined, tr, FALSE)
  <2> DEFINE text == Joined
  <2> HIDE DEF text, tr, old, new
  <2>1. text \in Seq(TextLine) /\ tr \in Transforms /\ old \in Seq(Entry)
    BY <1>1, <1>3 DEF text, tr, old
  <2>2. /\ Parse(text, tr, ~FALSE, FALSE, old).cache \in Seq(Entry)
        /\ HasWords(Parse(text, tr, ~FALSE, FALSE, old).cache, text, tr, FALSE)
    BY <2>1, ParseFills
  <2>3. (~FALSE) = TRUE
    OBVIOUS
  <2> QED
    BY <2>2, <2>3 DEF text, new
<1> HIDE DEF new, tr, old
<1>6. HasWords(new, Slice, tr, FALSE)
  <2>1. CASE InRange = {}
    <3>1. Len(Slice) = 0
      <4>1. RangeLen \in Nat /\ InRange = 1..RangeLen /\ Len(Slice) = RangeLen
        BY <1>1, <1>2, RangeLength, SliceText
      <4>2. RangeLen # 0 => 1 \in 1..RangeLen
        BY <4>1
      <4> QED
        BY <2>1, <4>1, <4>2
    <3>2. Len(new) >= Len(Slice) /\ \A k \in 1..Len(Slice) : FALSE
      BY <1>5, <3>1
    <3> QED
      BY <3>2 DEF HasWords
  <2>2. CASE InRange # {}
    BY <1>5, <2>2 DEF Joined
  <2> QED
    BY <2>1, <2>2
<1>7. CacheFilled'
  <2>1. drawn'.text = Slice /\ drawn'.tr = tr /\ drawn'.blanks = FALSE
    BY <1>2 DEF tr
  <2> QED
    BY <1>4, <1>6, <2>1 DEF CacheFilled
<1>8. drawn' \in [text : Seq(TextLine), tr : Transforms, blanks : BOOLEAN]
  BY <1>1, <1>2, <1>3
<1>9. /\ SendFrom' \in Nat \cup {nil} /\ SendTo' \in Nat \cup {nil}
      /\ sent_lines' \in SUBSET Nat /\ RangeInside'
  BY <1>1, <1>2, SetsRangeKeeps
<1> QED
  BY <1>1, <1>2, <1>4, <1>5, <1>7, <1>8, <1>9, EditKeepsInv

LEMMA OtherRunsKeep ==
    ASSUME TextInv, RunFails \/ EditFails \/ RunCached \/ UNCHANGED textVars
    PROVE  TextInv'
<1>1. TextTypes /\ GTXT \in Seq(TextLine) /\ Len(GTXT) \in Nat /\ cut \in BOOLEAN
      /\ Transformations \in Transforms /\ isEdited \in BOOLEAN /\ RangeInside
      /\ GTXT0 \in TextLine \cup {nil} /\ SelectedLine \in Nat
      /\ off \in SUBSET {"from", "to"}
  BY DEF TextInv, TextTypes
<1>2. CASE RunFails \/ EditFails
  <2>1. /\ failed' = TRUE /\ Unparsed /\ ran' \in BOOLEAN
        /\ UNCHANGED << GTXT, GTXT0, SelectedLine, isEdited, SendFrom, SendTo,
                        Transformations, sent_lines, cut, off >>
    BY <1>2 DEF RunFails, EditFails, Press, PressRun, Pressed, choices, sending
  <2>2. ran' => cut \/ off # {}
    <3>1. ran' => ~Concats
      BY <1>2 DEF RunFails, EditFails, Press
    <3>2. ran' => ~(From >= 1 /\ To <= Len(GTXT))
      BY <1>1, <3>1, InsideConcats
    <3> QED
      BY <1>1, <3>2 DEF RangeInside
  <2>3. TextTypes' /\ CacheFilled'
    BY <1>1, <2>1, UnparsedKeeps DEF TextTypes
  <2>4. From' = From /\ To' = To
    BY <2>1 DEF From, To
  <2> QED
    BY <1>1, <2>1, <2>2, <2>3, <2>4 DEF TextInv, RangeInside, FailsOnlyOffText
<1>3. CASE RunCached
  <2>1. /\ ~failed /\ failed' = failed /\ Unparsed /\ SetsRange /\ ran' = TRUE
        /\ UNCHANGED << GTXT, GTXT0, SelectedLine, isEdited, Transformations, cut, off >>
    BY <1>3 DEF RunCached, PressRun, Pressed
  <2>2. /\ SendFrom' \in Nat \cup {nil} /\ SendTo' \in Nat \cup {nil}
        /\ sent_lines' \in SUBSET Nat /\ RangeInside'
    BY <1>1, <2>1, SetsRangeKeeps
  <2>3. /\ GTXT_parsed' \in Seq(Entry) /\ CacheFilled'
        /\ drawn' \in [text : Seq(TextLine), tr : Transforms, blanks : BOOLEAN]
    BY <2>1, UnparsedKeeps
  <2> QED
    BY <1>1, <2>1, <2>2, <2>3, EditKeepsInv
<1>4. CASE UNCHANGED textVars
  BY <1>4 DEF textVars, choices, sending, TextInv, TextTypes, CacheFilled, RangeInside,
             From, To, FailsOnlyOffText
<1> QED
  BY <1>2, <1>3, <1>4

LEMMA TextNext_Inv == TextInv /\ [TextNext]_textVars => TextInv'
<1> SUFFICES ASSUME TextInv, [TextNext]_textVars PROVE TextInv'
  OBVIOUS
<1>1. CASE \E t \in Texts : Load(t)
  BY <1>1, LoadKeeps
<1>2. CASE \E n \in DOMAIN GTXT \cup {Begin} \cup sent_lines : Select(n)
  BY <1>2, SelectKeeps
<1>3. CASE \/ New \/ Delete \/ UpdateDrawing \/ SetAutoRedraw
           \/ \E ln \in Lines \cup {Blank} : Update(ln)
           \/ \E ln \in Lines \cup {Blank}, n \in {Begin} \cup DOMAIN GTXT : Replace(n, ln)
  BY <1>3, EditStepsKeep DEF TextLine
<1>4. CASE FromSel \/ ToSel \/ \E tr \in Transforms : Transform(tr)
  BY <1>4, ChoicesKeep
<1>5. CASE RunEdited
  BY <1>5, RunEditedKeeps
<1>6. CASE RunFails \/ EditFails \/ RunCached \/ UNCHANGED textVars
  BY <1>6, OtherRunsKeep
<1> QED
  BY <1>1, <1>2, <1>3, <1>4, <1>5, <1>6 DEF TextNext

LEMMA TextHolds == TextSpec => []TextInv
<1> QED
  BY TextInit_Inv, TextNext_Inv, PTL DEF TextSpec

\* A Lua error in the run button's handler means that the range has left the
\* text: lines were deleted since its end was chosen, or an end was taken from a
\* selection that was no line of the text, none at all or one of a longer text.
\* Inserting, updating, appending, replacing and loading never bring it about,
\* for texts of any length.
THEOREM RunFailsOnlyOffText == TextSpec => []FailsOnlyOffText
<1>1. TextInv => FailsOnlyOffText
  BY DEF TextInv
<1> QED
  BY <1>1, TextHolds, PTL

-----------------------------------------------------------------------------
(* What Run sends. *)

\* The first line asked for, and how many they are.
First == IF From >= 1 THEN From ELSE 1
WantedLen == IF First <= To THEN To - First + 1 ELSE 0

\* The lines asked for are a text of parsed lines.
LEMMA WantedText ==
    ASSUME TextTypes, \A k \in 1..WantedLen : First + k - 1 \in 1..Len(GTXT)
    PROVE  /\ WantedLen \in Nat /\ Wanted \in Seq(Entry) /\ Len(Wanted) = WantedLen
           /\ \A k \in 1..WantedLen :
                 /\ Wanted[k] = Words(GTXT, First + k - 1, Transformations)
                 /\ Wanted[k] \in ParsedLines /\ Wanted[k] # nil
<1> DEFINE tr == Transformations
           n == WantedLen
<1>1. GTXT \in Seq(TextLine) /\ tr \in Transforms
  BY DEF TextTypes
<1>2. From \in Nat /\ To \in Nat /\ First \in Nat /\ n \in Nat
  BY RangeType DEF First, WantedLen
<1>3. Max({1, From}) = First
  <2>1. Max({1, From}) = IF 1 >= From THEN 1 ELSE From
    BY <1>2, GreaterOfTwo
  <2> QED
    BY <1>2, <2>1 DEF First
<1>4. Max({0, To - First + 1}) = n
  <2>1. (To - First) + 1 \in Int
    BY <1>2
  <2>2. Max({0, To - First + 1}) = IF 0 >= To - First + 1 THEN 0 ELSE To - First + 1
    BY <2>1, GreaterOfTwo
  <2> QED
    BY <1>2, <2>2 DEF WantedLen
<1>5. Wanted = [k \in 1..n |-> Words(GTXT, First + k - 1, tr)]
  BY <1>3, <1>4 DEF Wanted
<1>6. \A k \in 1..n : /\ Words(GTXT, First + k - 1, tr) \in ParsedLines
                      /\ Words(GTXT, First + k - 1, tr) # nil
  BY <1>1, WordsAreParsed
<1> HIDE DEF tr, n
<1>7. \A k \in 1..n : Words(GTXT, First + k - 1, tr) \in Entry
  BY <1>6 DEF Entry
<1>8. Wanted \in Seq(Entry) /\ Len(Wanted) = n
  BY <1>2, <1>5, <1>7
<1> QED
  BY <1>2, <1>5, <1>6, <1>8 DEF tr, n

\* What an edited run posts are the lines asked for.
LEMMA EditedSends ==
    ASSUME TextTypes, RunEdited, From >= 1,
           \A k \in DOMAIN Slice :
              Slice[k] # Blank => Carried(Slice, k) = Carried(GTXT, From + k - 1)
    PROVE  Trimmed(sent') = Trimmed(Wanted)
<1> DEFINE tr == Transformations
           text == Joined
           all == [k \in 1..Len(text) |-> Words(text, k, tr)]
<1>1. Concats /\ sent' = Parse(text, tr, TRUE, FALSE, GTXT_parsed).out
  BY DEF RunEdited
<1>2. text \in Seq(TextLine) /\ tr \in Transforms /\ GTXT_parsed \in Seq(Entry)
  BY <1>1, JoinedText DEF TextTypes
<1>3. Slice \in Seq(TextLine) /\ Len(Slice) = RangeLen /\ InRange = 1..RangeLen
      /\ \A k \in 1..RangeLen : /\ From + k - 1 \in 1..Len(GTXT)
                               /\ Slice[k] = GTXT[From + k - 1]
  BY <1>1, SliceText, RangeLength
<1>4. Wanted \in Seq(Entry) /\ Len(Wanted) = Len(Slice)
      /\ \A k \in 1..Len(Slice) : Wanted[k] = Words(GTXT, From + k - 1, tr)
  <2>1. First = From /\ WantedLen = RangeLen
    BY DEF First, WantedLen, RangeLen
  <2> QED
    BY <1>3, <2>1, WantedText
<1> HIDE DEF tr, text
<1>5. Trimmed(sent') = Trimmed(all)
  BY <1>1, <1>2, EndedParse
<1>6. all \in Seq(Entry) /\ Len(all) = Len(text) /\ Len(text) \in Nat
      /\ \A k \in 1..Len(text) : all[k] = Words(text, k, tr)
  <2>1. \A k \in 1..Len(text) : Words(text, k, tr) \in Entry
    BY <1>2, WordsAreParsed DEF Entry
  <2> QED
    BY <1>2, <2>1
<1> HIDE DEF all
<1>7. CASE InRange = {}
  <2>0. Len(Slice) = 0
    BY <1>3, <1>7
  <2>1. text = << Blank >> /\ Len(text) = 1 /\ text[1] = Blank
    BY <1>7 DEF text, Joined
  <2>2. Len(Wanted) = 0 /\ Len(all) = 1 /\ all[1] = NoWords
    BY <1>4, <1>6, <2>0, <2>1 DEF Words
  <2>3. /\ Len(Wanted) <= Len(all) /\ \A k \in 1..Len(Wanted) : Wanted[k] = all[k]
        /\ \A k \in (Len(Wanted) + 1)..Len(all) : all[k] = NoWords
    <3>1. \A k \in (0 + 1)..1 : k = 1
      OBVIOUS
    <3> QED
      BY <2>2, <3>1
  <2>4. Trimmed(Wanted) = Trimmed(all)
    BY <1>4, <1>6, <2>3, TrimmedSame
  <2> QED
    BY <1>5, <2>4
<1>8. CASE InRange # {}
  <2>1. text = Slice
    BY <1>8 DEF text, Joined
  <2>2. ASSUME NEW k \in 1..Len(Slice) PROVE all[k] = Wanted[k]
    <3>1. all[k] = Words(Slice, k, tr) /\ Wanted[k] = Words(GTXT, From + k - 1, tr)
      BY <1>4, <1>6, <2>1
    <3>2. Slice[k] = GTXT[From + k - 1]
      BY <1>3
    <3>3. Slice[k] # Blank => Carried(Slice, k) = Carried(GTXT, From + k - 1)
      <4>1. k \in DOMAIN Slice
        BY <1>3
      <4> QED
        BY <4>1
    <3>4. Words(Slice, k, tr) = Words(GTXT, From + k - 1, tr)
      BY <3>2, <3>3 DEF Words
    <3> QED
      BY <3>1, <3>4
  <2>3. all = Wanted
    BY <1>4, <1>6, <2>1, <2>2, SeqEqual
  <2> QED
    BY <1>5, <2>3
<1> QED
  BY <1>7, <1>8

\* A Run after an edit sends the lines asked for, each at its place, under the
\* transformation of the moment, for programs and ranges of any length: parsing
\* the range from its first line loses nothing but the axes given before it.
THEOREM EditedRunSends == TextSpec => EditedRunSendsRange
<1> DEFINE Same == \A k \in DOMAIN Slice :
                      Slice[k] # Blank => Carried(Slice, k) = Carried(GTXT, From + k - 1)
<1>1. ASSUME TextInv, [TextNext]_textVars, isEdited, ~isEdited', From >= 1, Same
      PROVE  Trimmed(sent') = Trimmed(Wanted)
  <2>1. TextTypes
    BY <1>1 DEF TextInv
  <2>2. RunEdited
    BY <1>1 DEF TextNext, Load, Select, New, Delete, EditFails, FromSel, ToSel, Update, Replace,
                UpdateDrawing, SetAutoRedraw, Transform, RunFails, RunCached, textVars
  <2> HIDE DEF Same
  <2>3. Same
    BY <1>1
  <2> QED
    BY <1>1, <2>1, <2>2, <2>3, EditedSends DEF Same
<1>2. TextInv /\ [TextNext]_textVars
        => [/\ isEdited /\ ~isEdited' /\ From >= 1 /\ Same
              => Trimmed(sent') = Trimmed(Wanted)]_textVars
  BY <1>1
<1> QED
  BY <1>2, TextHolds, PTL DEF TextSpec, EditedRunSendsRange

\* A list whose first item alone is x, without x.
LEMMA RemovedFirst ==
    ASSUME NEW S, NEW s \in Seq(S), Len(s) >= 1, s[1] = nil,
           \A i \in 2..Len(s) : s[i] # nil
    PROVE  /\ Removed(s, nil) \in Seq(S) /\ Len(Removed(s, nil)) = Len(s) - 1
           /\ \A k \in 1..(Len(s) - 1) : Removed(s, nil)[k] = s[k + 1]
<1> DEFINE n == Len(s)
           I == 2..n
<1>1. n \in Nat /\ n >= 1 /\ I \in SUBSET (1..n)
  OBVIOUS
<1>2. {i \in 1..n : s[i] # nil} = I
  <2>1. \A i \in 1..n : i = 1 \/ i \in I
    BY <1>1
  <2>2. 1 \notin I
    OBVIOUS
  <2> QED
    BY <1>1, <2>1, <2>2
<1>3. Cardinality(I) = n - 1
  BY <1>1, FS_Interval
<1>4. ASSUME NEW i \in I PROVE Rank(I, i) = i - 1
  <2>1. {j \in I : j <= i} = 2..i
    BY <1>1
  <2>2. Cardinality(2..i) = i - 1
    BY <1>1, FS_Interval
  <2> QED
    BY <2>1, <2>2 DEF Rank
<1>5. Removed(s, nil) = Picked(s, I)
  BY <1>2 DEF Removed
<1>6. /\ Picked(s, I) \in Seq(S) /\ Len(Picked(s, I)) = Cardinality(I)
      /\ \A i \in I : Picked(s, I)[Rank(I, i)] = s[i]
  BY <1>1, PickedList
<1> HIDE DEF I, n
<1>7. ASSUME NEW k \in 1..(n - 1) PROVE Picked(s, I)[k] = s[k + 1]
  <2>1. k + 1 \in I /\ (k + 1) - 1 = k
    BY <1>1 DEF I
  <2> QED
    BY <1>4, <1>6, <2>1
<1> QED
  BY <1>3, <1>5, <1>6, <1>7 DEF n

\* What a run from a filled cache posts are the lines asked for.
LEMMA CachedSends ==
    ASSUME TextTypes, CacheFilled, RunCached,
           drawn.text = GTXT, drawn.tr = Transformations, To <= Len(GTXT),
           \A i \in Holes : GTXT[i] # Blank
    PROVE  sent' = Wanted
<1> DEFINE all == [k \in 1..RangeLen |-> Cached(From + k - 1)]
           n == WantedLen
<1>1. From \in Nat /\ To \in Nat /\ RangeLen \in Nat /\ InRange = 1..RangeLen
      /\ First \in Nat /\ n \in Nat /\ Len(GTXT) \in Nat
  BY RangeType, RangeLength DEF TextTypes, First, WantedLen
<1>2. \A k \in 1..n : First + k - 1 \in 1..Len(GTXT)
  BY <1>1 DEF First, WantedLen
<1>3. Wanted \in Seq(Entry) /\ Len(Wanted) = n
      /\ \A k \in 1..n : Wanted[k] = Words(GTXT, First + k - 1, Transformations)
                         /\ Wanted[k] # nil
  BY <1>2, WantedText
<1>4. /\ Len(GTXT_parsed) >= Len(GTXT)
      /\ \A k \in 1..Len(GTXT) : GTXT_parsed[k] = Words(GTXT, k, Transformations)
  <2>1. \A i \in HolesIn(drawn.text, drawn.blanks) : drawn.text[i] # Blank
    BY DEF Holes, HolesIn
  <2> QED
    BY <2>1 DEF CacheFilled, HasWords
<1>5. GTXT_parsed \in Seq(Entry) /\ Len(GTXT_parsed) \in Nat
      /\ DOMAIN GTXT_parsed = 1..Len(GTXT_parsed)
  BY DEF TextTypes
<1> HIDE DEF n
<1>6. \A k \in 1..n : Cached(First + k - 1) = Wanted[k]
  <2>1. TAKE k \in 1..n
  <2>2. First + k - 1 \in 1..Len(GTXT) /\ First + k - 1 \in 1..Len(GTXT_parsed)
    BY <1>1, <1>2, <1>4, <1>5
  <2>3. Cached(First + k - 1) = GTXT_parsed[First + k - 1]
    BY <1>5, <2>2 DEF Cached
  <2> QED
    BY <1>3, <1>4, <2>2, <2>3
<1>7. sent' = Removed(all, nil)
  BY <1>1 DEF RunCached
<1>8. CASE From >= 1
  <2>1. First = From /\ n = RangeLen
    BY <1>8 DEF First, WantedLen, RangeLen, n
  <2>2. all = [k \in 1..n |-> Wanted[k]] /\ Wanted = [k \in 1..n |-> Wanted[k]]
    BY <1>3, <1>6, <2>1
  <2>3. {k \in 1..Len(Wanted) : Wanted[k] # nil} = 1..Len(Wanted)
    BY <1>3
  <2>4. Removed(Wanted, nil) = Wanted
    BY <1>3, <2>3, PickedAll DEF Removed
  <2> QED
    BY <1>7, <2>2, <2>4
<1>9. CASE From = 0
  <2>1. First = 1 /\ RangeLen = n + 1
    BY <1>1, <1>9 DEF First, WantedLen, RangeLen, n
  <2>2. Cached(0) = nil
    BY <1>5 DEF Cached
  <2>3. all[1] = nil
    BY <1>1, <1>9, <2>1, <2>2
  <2>4. ASSUME NEW k \in 2..(n + 1) PROVE all[k] = Wanted[k - 1] /\ k - 1 \in 1..n
    <3>1. k \in 1..RangeLen /\ k - 1 \in 1..n /\ From + k - 1 = First + (k - 1) - 1
      BY <1>1, <1>9, <2>1
    <3> QED
      BY <1>6, <3>1
  <2>5. all \in Seq(Entry) /\ Len(all) = n + 1
    <3>1. \A i : Cached(i) \in Entry
      BY <1>5 DEF Cached, Entry
    <3> QED
      BY <1>1, <2>1, <3>1
  <2> HIDE DEF all
  <2>6. Len(all) >= 1 /\ \A k \in 2..Len(all) : all[k] # nil
    BY <1>1, <1>3, <2>4, <2>5
  <2>7. /\ Removed(all, nil) \in Seq(Entry) /\ Len(Removed(all, nil)) = n
        /\ \A k \in 1..n : Removed(all, nil)[k] = all[k + 1]
    <3>1. Len(all) - 1 = n
      BY <1>1, <2>5
    <3> QED
      BY <2>3, <2>5, <2>6, <3>1, RemovedFirst
  <2>8. \A k \in 1..n : Removed(all, nil)[k] = Wanted[k]
    <3>1. \A k \in 1..n : k + 1 \in 2..(n + 1) /\ (k + 1) - 1 = k
      BY <1>1
    <3> QED
      BY <2>4, <2>7, <3>1
  <2>9. Removed(all, nil) = Wanted
    BY <1>3, <2>7, <2>8, SeqEqual
  <2> QED
    BY <1>7, <2>9
<1> QED
  BY <1>1, <1>8, <1>9

\* A Run without an edit sends the lines asked for from the cache, when the text
\* and the transformation are those last parsed and no blank line stands where
\* the parser left a hole: what the cache has was put there by an earlier press.
THEOREM CachedRunSends == TextSpec => CachedRunSendsRange
<1> DEFINE Same == drawn.text = GTXT /\ drawn.tr = Transformations /\ To <= Len(GTXT)
                   /\ \A i \in Holes : GTXT[i] # Blank
<1>1. ASSUME TextInv, [TextNext]_textVars, ~isEdited, ran', presses' # presses, Same
      PROVE  Trimmed(sent') = Trimmed(Wanted)
  <2>1. TextTypes /\ CacheFilled
    BY <1>1 DEF TextInv
  <2>2. RunCached
    BY <1>1 DEF TextNext, Load, Select, New, Delete, EditFails, FromSel, ToSel, Update, Replace, Press,
                UpdateDrawing, SetAutoRedraw, Transform, RunEdited, RunFails, textVars
  <2>3. sent' = Wanted
    BY <1>1, <2>1, <2>2, CachedSends
  <2> QED
    BY <2>3
<1>2. TextInv /\ [TextNext]_textVars
        => [/\ ~isEdited /\ ran' /\ presses' # presses
            /\ drawn.text = GTXT /\ drawn.tr = Transformations
            /\ To <= Len(GTXT)
            /\ \A i \in Holes : GTXT[i] # Blank
            => Trimmed(sent') = Trimmed(Wanted)]_textVars
  BY <1>1
<1> QED
  BY <1>2, TextHolds, PTL DEF TextSpec, CachedRunSendsRange

=============================================================================
