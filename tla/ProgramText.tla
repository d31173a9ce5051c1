---------------------------- MODULE ProgramText ----------------------------
(* The program in the editor, the parsed lines kept beside it, and what the *)
(* run button makes of both: gui/edit, gui/common/panel_file.lua, gparser.  *)
(* All of it runs in the window's task, one click at a time.                *)
EXTENDS Integers, Sequences, SequencesExt, FiniteSetsExt, Lists

CONSTANTS Lines,        \* lines with g-code words
          Gives,        \* Gives[l]: which of the axes X and Y line l names
          Blank,        \* a line without words: empty, or a ";" comment
          Texts,        \* the programs that can be loaded
          Transforms,   \* settings of the transformation
          nil,          \* nil: a line or an entry that is not there, no range
          MaxLines,     \* bound on the length of the text
          MaxPresses    \* bound on the number of presses

ASSUME LinesAssumption ==
  /\ Blank \notin Lines /\ nil \notin Lines \cup {Blank}
  /\ Gives \in [Lines -> SUBSET {"X", "Y"}]
  /\ Texts \subseteq Seq(Lines \cup {Blank})
  /\ MaxLines \in Nat /\ MaxPresses \in Nat

VARIABLES GTXT,         \* the text, a sequence of lines
          GTXT0,        \* what Update wrote at index 0, where no line is
          GTXT_parsed,  \* the parsed lines of an earlier text, by index
          SelectedLine, \* the list's selection: 0 when none was ever made,
                        \* and never taken back when the text shrinks
          isEdited, SendFrom, SendTo, AutoRedraw, Transformations,
          sent,         \* what the last Run posted between NEW and FIN
          sent_lines,   \* the numbers of the lines it asked for
          failed,       \* a click handler ended in a Lua error
          presses,      \* the presses so far
          drawn,        \* history: what was last parsed, under which
                        \* transformation, and whether blanks were cached
          cut,          \* history: lines were deleted since SendTo was set
          off,          \* history: the ends of the range ("from", "to") that
                        \* were taken from a selection that was no line
          ran           \* history: the last button pressed was Run

choices == <<SendFrom, SendTo, AutoRedraw, Transformations>>
sending == <<sent, sent_lines>>
textVars == <<GTXT, GTXT0, GTXT_parsed, SelectedLine, isEdited, choices,
              sending, failed, presses, drawn, cut, off, ran>>

-----------------------------------------------------------------------------
(* Parsing.  A parsed line is its words, rewritten: a line that names X or Y *)
(* gets both, transformed, the one it does not name as the parsed text last  *)
(* gave it, which at its start is 0 (here nil).  A blank line has no words.  *)
NoWords == <<>>
ParsedLines ==
  {NoWords} \cup Lines \X Transforms \X SUBSET ({"X", "Y"} \X (Lines \cup {nil}))

ASSUME NilAssumption == nil \notin ParsedLines

LastGiving(axis, text, i) ==
  LET before == {j \in 1..(i - 1) : text[j] # Blank /\ axis \in Gives[text[j]]}
  IN IF before = {} THEN nil ELSE text[Max(before)]

Carried(text, i) ==
  LET given == Gives[text[i]]
  IN IF given = {} THEN {}
     ELSE {<<axis, LastGiving(axis, text, i)>> : axis \in {"X", "Y"} \ given}

Words(text, i, tr) ==
  IF text[i] = Blank THEN NoWords ELSE <<text[i], tr, Carried(text, i)>>

(* The lines for which the grammar's main loop reports an end of line: the  *)
(* first, and every later one with words, for blank lines are skipped       *)
(* behind the end of another.  A text of nothing but one unended blank line *)
(* never enters the loop.                                                   *)
Reported(text, ended) ==
  {i \in 1..Len(text) : \/ text[i] # Blank
                        \/ i = 1 /\ (ended \/ Len(text) > 1)}

(* The number that comes with it: the end of line is counted when it is     *)
(* read, so a last line that has none is reported one too low.              *)
NumberOf(i, text, ended) == IF i = Len(text) /\ ~ended THEN i - 1 ELSE i

(* One call of eol(): pad up to the line's number, then the line itself.    *)
(* s.ln_cur is the parser's line count, s.out the lines posted.  scb_eol    *)
(* posts blanks and caches only the line; vcb_eol posts nothing and caches  *)
(* both.                                                                    *)
EolUnpadded(s, l, words, cacheBlanks) ==
  [ln_cur |-> s.ln_cur + 1,
   out    |-> Append(s.out, words),
   cache  |-> [i \in 1..Max({s.ln_cur + 1, Len(s.cache)}) |->
                 IF i = s.ln_cur + 1 THEN words
                 ELSE IF i <= Len(s.cache) THEN s.cache[i] ELSE nil]]

Eol(s, l, words, cacheBlanks) ==
  LET pad == Max({s.ln_cur, l - 1})
      known == [i \in 1..(pad + 1) |->
                 IF i = pad + 1 THEN words
                 ELSE IF i > s.ln_cur /\ cacheBlanks THEN NoWords
                 ELSE IF i <= Len(s.cache) THEN s.cache[i] ELSE nil]
  IN [ln_cur |-> pad + 1,
      out    |-> s.out \o [i \in 1..(pad - s.ln_cur) |-> NoWords] \o <<words>>,
      cache  |-> known \o SubSeq(s.cache, pad + 2, Len(s.cache))]

Parse(text, tr, ended, cacheBlanks, cache) ==
  LET after[i \in 0..Len(text)] ==
        IF i = 0 THEN [ln_cur |-> 0, out |-> <<>>, cache |-> cache]
        ELSE IF i \notin Reported(text, ended) THEN after[i - 1]
        ELSE Eol(after[i - 1], NumberOf(i, text, ended), Words(text, i, tr), cacheBlanks)
  IN after[Len(text)]

(* do_vparse(): the whole text into the cache, for the picture.             *)
Vparse(text) ==
  /\ GTXT_parsed' = Parse(text, Transformations, FALSE, TRUE, GTXT_parsed).cache
  /\ drawn' = [text |-> text, tr |-> Transformations, blanks |-> TRUE]

Unparsed == UNCHANGED <<GTXT_parsed, drawn>>

-----------------------------------------------------------------------------
TextInit ==
  /\ GTXT = <<>> /\ GTXT0 = nil /\ GTXT_parsed = <<>>
  /\ SelectedLine = 0 /\ isEdited = FALSE
  /\ SendFrom = nil /\ SendTo = nil /\ AutoRedraw = TRUE
  /\ Transformations \in Transforms
  /\ sent = <<>> /\ sent_lines = {1} /\ failed = FALSE /\ presses = 0
  /\ drawn = [text |-> <<>>, tr |-> Transformations, blanks |-> TRUE]
  /\ cut = FALSE /\ off = {} /\ ran = FALSE

Pressed == ~failed /\ presses < MaxPresses /\ presses' = presses + 1
Press    == Pressed /\ ran' = FALSE
PressRun == Pressed /\ ran' = TRUE

OneBehindLast(t) == Len(t) + 1
LastOf(t) == Len(t)

(* A file, or the g-code of a plug-in, takes the text's place; the list and *)
(* the range start anew, isEdited and the selection are left as they are.   *)
Load(t) ==
  /\ Press /\ GTXT' = t /\ GTXT0' = nil
  /\ SendFrom' = 1 /\ SendTo' = LastOf(t) /\ cut' = FALSE /\ off' = {}
  /\ Vparse(t)
  /\ UNCHANGED <<SelectedLine, isEdited, AutoRedraw, Transformations, sending, failed>>

(* What selects a line: a click on it; the search, which starts at the      *)
(* selected line and stays there when it finds nothing; and a reported      *)
(* error, by the number of the line sent.                                   *)
Begin == IF SelectedLine = 0 THEN 1 ELSE SelectedLine

Select(n) ==
  /\ ~failed /\ n \in DOMAIN GTXT \cup {Begin} \cup sent_lines
  /\ SelectedLine' = n
  /\ Unparsed
  /\ UNCHANGED <<GTXT, GTXT0, isEdited, choices, sending, failed, presses, cut, off, ran>>

\* Only the lines of the text have an index table.insert and table.remove take.
OnLine == SelectedLine \in DOMAIN GTXT

(* A blank line behind the selected one, or at the start.                   *)
New ==
  /\ Press /\ Len(GTXT) < MaxLines /\ SelectedLine <= Len(GTXT)
  /\ GTXT' = InsertAt(GTXT, SelectedLine + 1, Blank) /\ isEdited' = TRUE
  /\ Unparsed
  /\ UNCHANGED <<GTXT0, SelectedLine, choices, sending, failed, cut, off>>

(* Behind the end of the text by one, the line is appended; with nothing     *)
(* selected it is written where no line is.  Further behind (a text with a   *)
(* gap) is not followed.                                                     *)
Update(line) ==
  /\ Press /\ SelectedLine <= Len(GTXT) + 1 /\ SelectedLine <= MaxLines
  /\ IF SelectedLine = 0 THEN GTXT0' = line /\ GTXT' = GTXT
     ELSE /\ GTXT' = [i \in 1..Max({SelectedLine, Len(GTXT)}) |->
                        IF i = SelectedLine THEN line ELSE GTXT[i]]
          /\ GTXT0' = GTXT0
  /\ isEdited' = TRUE
  /\ IF AutoRedraw THEN Vparse(GTXT') ELSE Unparsed
  /\ UNCHANGED <<SelectedLine, choices, sending, failed, cut, off>>

(* table.remove takes the index behind the end too, and index 0 of an empty *)
(* text.                                                                    *)
Delete ==
  /\ Press
  /\ OnLine \/ SelectedLine = Len(GTXT) + 1 \/ (SelectedLine = 0 /\ GTXT = <<>>)
  /\ GTXT' = IF OnLine THEN RemoveAt(GTXT, SelectedLine) ELSE GTXT
  /\ GTXT0' = IF SelectedLine = 0 THEN nil ELSE GTXT0
  /\ isEdited' = TRUE /\ cut' = (cut \/ OnLine)
  /\ Unparsed /\ UNCHANGED <<SelectedLine, choices, sending, failed, off>>

(* New and Delete end in a Lua error at a selection they cannot take.       *)
EditFails ==
  /\ Press
  /\ \/ SelectedLine > Len(GTXT)                             \* New
     \/ SelectedLine = 0 /\ GTXT # <<>>                      \* Delete
  /\ failed' = TRUE
  /\ Unparsed
  /\ UNCHANGED <<GTXT, GTXT0, SelectedLine, isEdited, choices, sending, cut, off>>

(* The editor's replace button changes, and selects, the line it finds; it   *)
(* does not set isEdited.                                                    *)
Replace(n, line) ==
  /\ Press /\ n \in {Begin} \cup (Begin..Len(GTXT))
  /\ GTXT' = [i \in DOMAIN GTXT |-> IF i = n THEN line ELSE GTXT[i]]
  /\ SelectedLine' = n
  /\ IF AutoRedraw THEN Vparse(GTXT') ELSE Unparsed
  /\ UNCHANGED <<GTXT0, isEdited, choices, sending, failed, cut, off>>

Noted(end) == off' = IF OnLine THEN off \ {end} ELSE off \cup {end}

FromSel ==
  /\ Press /\ SendFrom' = SelectedLine /\ Noted("from")
  /\ Unparsed
  /\ UNCHANGED <<GTXT, GTXT0, SelectedLine, isEdited, SendTo, AutoRedraw,
                 Transformations, sending, failed, cut>>

ToSel ==
  /\ Press /\ SendTo' = SelectedLine /\ Noted("to") /\ cut' = FALSE
  /\ Unparsed
  /\ UNCHANGED <<GTXT, GTXT0, SelectedLine, isEdited, SendFrom, AutoRedraw,
                 Transformations, sending, failed>>

UpdateDrawing ==
  /\ Press /\ Vparse(GTXT)
  /\ UNCHANGED <<GTXT, GTXT0, SelectedLine, isEdited, choices, sending, failed, cut, off>>

SetAutoRedraw ==
  /\ Press /\ AutoRedraw' = ~AutoRedraw
  /\ Unparsed
  /\ UNCHANGED <<GTXT, GTXT0, SelectedLine, isEdited, SendFrom, SendTo,
                 Transformations, sending, failed, cut, off>>

(* The transformation's OK button draws the picture anew and parses nothing.*)
Transform(tr) ==
  /\ Press /\ tr # Transformations /\ Transformations' = tr
  /\ Unparsed
  /\ UNCHANGED <<GTXT, GTXT0, SelectedLine, isEdited, SendFrom, SendTo, AutoRedraw,
                 sending, failed, cut, off>>

-----------------------------------------------------------------------------
(* do_sparse(SendFrom, SendTo).  Before the first load they are nil, which  *)
(* it takes for the whole text.                                             *)
From == IF SendFrom = nil THEN 1 ELSE SendFrom
To   == IF SendTo = nil THEN Len(GTXT) ELSE SendTo

LineAt(i) == IF i = 0 THEN GTXT0 ELSE IF i \in DOMAIN GTXT THEN GTXT[i] ELSE nil
InRange == 1..Max({0, To - From + 1})
Slice == [k \in InRange |-> LineAt(From + k - 1)]

\* table.concat takes no nil.
Concats == \A k \in InRange : LineAt(From + k - 1) # nil

(* The range as one text: nothing at all is still one ended, blank line.    *)
Joined == IF InRange = {} THEN <<Blank>> ELSE Slice

SetsRange ==
  SendFrom' = From /\ SendTo' = To /\ sent_lines' = {From} \cup (From..To)

(* An edited text is parsed; its lines go to the cache from index 1 on.     *)
RunEdited ==
  /\ PressRun /\ isEdited /\ Concats
  /\ LET p == Parse(Joined, Transformations, TRUE, FALSE, GTXT_parsed)
     IN sent' = p.out /\ GTXT_parsed' = p.cache
  /\ SetsRange /\ isEdited' = FALSE
  /\ drawn' = [text |-> Slice, tr |-> Transformations, blanks |-> FALSE]
  /\ UNCHANGED <<GTXT, GTXT0, SelectedLine, AutoRedraw, Transformations, failed, cut, off>>

RunFails ==
  /\ PressRun /\ isEdited /\ ~Concats
  /\ failed' = TRUE
  /\ Unparsed
  /\ UNCHANGED <<GTXT, GTXT0, SelectedLine, isEdited, choices, sending, cut, off>>

CachedFromZero(i) == IF i - 1 \in DOMAIN GTXT_parsed THEN GTXT_parsed[i - 1] ELSE nil
Cached(i) == IF i \in DOMAIN GTXT_parsed THEN GTXT_parsed[i] ELSE nil

(* An unedited one is sent from the cache; newcmd() leaves out a nil.       *)
RunCached ==
  /\ PressRun /\ ~isEdited
  /\ sent' = Removed([k \in InRange |-> Cached(From + k - 1)], nil)
  /\ SetsRange
  /\ Unparsed
  /\ UNCHANGED <<GTXT, GTXT0, SelectedLine, isEdited, AutoRedraw, Transformations,
                 failed, cut, off>>

TextNext ==
  \/ \E t \in Texts : Load(t)
  \/ \E n \in DOMAIN GTXT \cup {Begin} \cup sent_lines : Select(n)
  \/ New \/ Delete \/ EditFails
  \/ \E line \in Lines \cup {Blank} : Update(line)
  \/ \E line \in Lines \cup {Blank}, n \in {Begin} \cup DOMAIN GTXT : Replace(n, line)
  \/ FromSel \/ ToSel \/ UpdateDrawing \/ SetAutoRedraw
  \/ \E tr \in Transforms : Transform(tr)
  \/ RunEdited \/ RunFails \/ RunCached

TextSpec == TextInit /\ [][TextNext]_textVars

-----------------------------------------------------------------------------
(* The lines asked for: the selection, which gives the range its ends, is 0 *)
(* when there is none, and the list has no line 0.                           *)
Wanted ==
  [k \in 1..Max({0, To - Max({1, From}) + 1}) |->
     Words(GTXT, Max({1, From}) + k - 1, Transformations)]

(* Blank lines at the end of a program do nothing; they are left out.       *)
Trimmed(s) == SubSeq(s, 1, Max({0} \cup {i \in DOMAIN s : s[i] # NoWords}))

(* Run, after an edit, sends the lines asked for, each at its place, blank  *)
(* ones included, under the transformation of the moment: the parser skips  *)
(* blank lines and scb_eol counts them in again.  A range that starts behind *)
(* line 1 is exempt where it relies on an axis given before it, for that     *)
(* axis is sent as 0; and one from line 0, where Run fails or sends what was *)
(* written there.                                                            *)
EditedRunSendsRange ==
  [][/\ isEdited /\ ~isEdited' /\ From >= 1
     /\ \A k \in DOMAIN Slice : Slice[k] # Blank =>
          Carried(Slice, k) = Carried(GTXT, From + k - 1)
     => Trimmed(sent') = Trimmed(Wanted)]_textVars

(* Run without an edit sends the lines asked for from the cache, if the     *)
(* text was parsed since it, or the transformation, last changed; and if    *)
(* the text has no blank lines where the parsers leave holes in the cache:  *)
(* do_sparse at any blank line, do_vparse at the last two.                  *)
Holes == IF drawn.blanks THEN DOMAIN GTXT \cap {Len(GTXT) - 1, Len(GTXT)} ELSE DOMAIN GTXT
CachedRunSendsRange ==
  [][/\ ~isEdited /\ ran' /\ presses' # presses
     /\ drawn.text = GTXT /\ drawn.tr = Transformations
     /\ To <= Len(GTXT)
     /\ \A i \in Holes : GTXT[i] # Blank
     => Trimmed(sent') = Trimmed(Wanted)]_textVars

(* Run ends in a Lua error only where its range left the text, and that      *)
(* takes a deletion since the end was chosen, or an end taken from a         *)
(* selection that is no line: none at all, or one a longer text has left     *)
(* behind.  New, updated, appended and replaced lines never do it, and a     *)
(* loaded file mends whatever was chosen before.                             *)
FailsOnlyOffText == failed /\ ran => cut \/ off # {}

(* A Run that sent the range asked for, pressed again, sends it again.  The *)
(* captions of the editor say what is sent: "Send: from sel ... to sel"     *)
(* (cmdlst.lua:134-149).                                                    *)
RunAgainSendsRange ==
  [][/\ ran /\ To <= Len(GTXT) /\ Trimmed(sent) = Trimmed(Wanted)
     /\ ran' /\ presses' # presses /\ ~failed'
     => Trimmed(sent') = Trimmed(Wanted)]_textVars
=============================================================================
