# Verification of lua.gcode.sender

TLA+ models of the g-code sender in this repository, the TLC runs that check
them on small instances, and TLAPS proofs of what they promise for all values
of their constants. The code is a Lua program (`src/bld`) on tekUI tasks
(`src/tekUI`, C). Its core is the *sender task*, which owns the machine and gives
it one line at a time, and the *controllers*, which decide when the next line may
go out. Under it lies the kernel that runs its tasks, carries their messages and
gives them memory.

Run a check with `tlc -config Program.cfg MCSender.tla`, a proof with
`tlapm SenderProofs.tla`. `PROJECT.json` lists runs, mutants (for each property
a plausible bug of the code that breaks it), theorems, hazards and the source
lines of every definition.

## The system

Paths are relative to `src/bld/conf` unless they start with `src/`.

| Part | State it keeps | Operations | Speaks to |
|---|---|---|---|
| sender task, `sender/init.lua` | `state`, `int_state`, program `gthread` and place `icmd`, stack of single commands `sthread`, `stat_on`, `send_from`, chain `GFilters`, the controller `MK` | loop: one `int_state` step, then one message: PORT NEW CALCULATE PAUSE FILL RESUME STOP SINGLE SENDFROM ADDFILTER DELFILTER, or a program line | its mailbox; `MK`; reports to the window; lines to plug-ins |
| Grbl, `controllers/grbl/init.lua` | `oks`, `is_resp_handled`, `out_access`, `msg_buffer`, `mk_flags` | open init help send read status_query pause resume | serial port; posts to the sender's mailbox |
| Marlin, `controllers/marlin/init.lua` | the same, no RX field; `stat_pos_or_temp` | the same, other answers | same |
| run panel and status line, `gui/common/panel_run.lua`, `gui/init.lua` | `MKstate` | home, run/resume, pause, stop; reports | posts to the sender |
| connection dialog, `gui/file/popen.lua` | names chosen | connect | posts PORT and three arguments |
| jog, terminal, `gui/control`, `gui/terminal` | - | SINGLE requests | post to the sender |
| editor, `gui/edit`, `gui/common/panel_file.lua` | the text `GTXT`, `SelectedLine`, `SendFrom`, `SendTo`, `isEdited`, `AutoRedraw` | load, select, new, update, delete, replace, range, redraw, transform | the parsers |
| parsers, `gparser` | `GTXT_parsed` | `do_sparse` (posts a program), `do_vparse` (draws) | the sender |
| plug-in engine and plug-ins, `utils/plugin_system_engine.lua`, `plugins` | one task per plug-in; the window's list of filters | start, click, execute, attach, detach, filter | sender and window |
| g-code writer `gen/gcode`, transformations `utils/transform_coords.lua`, drawing `gui/common/display*` | numbers | formatting, matrices, drawing | - |
| tasks and mailboxes, `src/tekUI/tek/lib/exec_lua.c`, `src/tekUI/src/exec/exec_doexec.c`, `exec_api.c` | tasks, their status, names (atoms), ports and signals; the kernel's lists | run, sendmsg, waitmsg, getmsg, join, abort; births, exits and atoms in the kernel | all |
| timer, locks and requests, `src/tekUI/src/exec/exec_time.c`, `exec_api.c`, `exec_mod.c`, `src/tekUI/src/hal/posix/hal.c` | the device's request list, `DevLock`, locks with their waiters, sync ports | timed wait, abort of its request, lock, unlock, request to the kernel, close | every wait of a task |
| memory pools, `src/tekUI/src/exec/exec_memory.c` | puddles and their free lists | alloc, free, realloc | every allocation of tekUI |

All communication between tasks is by messages: each task has FIFO mailboxes
without a bound. A *request* is often several messages (`SINGLE` and the command,
`PORT` and three arguments), posted one by one and taken one by one, each wait
with a time-out. Nothing makes a request atomic, and the sender posts to its own
mailbox too.

What is hard here, and what the properties are about:

- *Interleaving.* Messages of two clients mix inside a request. The handler
  takes the first one as its argument, a fill takes control words as lines of
  the program, and a filter's answer is whatever arrives first. A plug-in has one
  mailbox for clicks, lines and answers. In the kernel a message is queued, then
  signalled, and its receiver may read it and end in between.
- *Time-outs.* 20 ms of silence ends a fill. An argument that does not come is
  nil, and some handlers fail on nil, which ends the task. A filter that is late
  answers a question nobody asks any more. A timed wait ends by its request's
  answer, by a message, or by both at once.
- *Counting.* The only flow control is a count of answers, computed from reads
  that cut the stream anywhere between lines, with status reports that overtake
  answers and a status field that is one read old. Marlin's status lines are
  counted as answers too, and stay to be counted again.
- *Two views.* The window's `MKstate` and the sender's `state` are brought
  together by messages that cross; so are the window's list of filters and the
  sender's chain, the text and its parsed copy.
- *One signal for everything.* Locks, requests and timers of the kernel all wait
  for SINGLE, and none knows who sent it.
- *Progress.* A program must end, single commands must go out, access must come
  back, every wait must return, the application must be able to quit.

What makes each part correct:

- *sender*: lines go out in order, once each, only while running; the end is
  reported after the last line was answered; errors name the right line; programs
  and single commands come to an end.
- *controllers*: never more commands unanswered than the machine can hold, and a
  write is always allowed again in the end.
- *window*: shows what the sender does, and what Run sends is what starts.
- *editor and parsers*: what is sent is the text, from the line asked for.
- *plug-ins*: each line is filtered once by each filter of the chain, in its
  order, and the list shown is the chain.
- *tasks*: a name means one task, no task touches another that is gone, no
  message is slept through, and the application's end ends its children.
- *waits*: a lock has one owner, a wait leaves nothing behind for the next, and
  every wait ends.
- *memory*: every byte of a pool is in one free node or in one caller's block.

## Modules

| Module | Extends | Models |
|---|---|---|
| `Sender` | - | the sender task among arbitrary clients |
| `Console` | `Sender` | window and sender |
| `PluginLoad` | - | the start of the plug-ins by the window |
| `FilterChain` | `Sender`, `PluginLoad` | plug-in tasks, window and sender, from the start on |
| `ProgramText` | - | the text, its parsed copy and what Run sends |
| `GrblLink`, `MarlinLink` | - | a controller, its serial line and machine |
| `Link` | - | what a controller promises: stop and wait |
| `ExecTask` | - | tasks, names, mailboxes, the kernel's task lists |
| `ExecSync` | - | timed waits, locks, kernel requests under them |
| `ExecMemory` | - | memory pools |
| `Lists` | - | part of a list, and how often something stands in it, without recursion; used by `Sender`, `MarlinLink` and `ExecTask` |
| `ListProofs` | `Lists` | what the operators of `Lists` return; induction up to a number, and what a recursive function over a sequence runs through |
| `SenderProofs`, `MarlinProofs`, `TaskProofs` | `Sender`, `MarlinLink`, `ExecTask`, each with `ListProofs` | proofs |
| `WindowProofs` | `Console`, `ProgramText`, `SenderProofs` | proofs about window and sender, and about the text |
| `ChainProofs` | `FilterChain`, `SenderProofs` | proofs about the start, the chain and the lines that go through it |
| `GrblProofs` | `GrblLink` | proofs, the refinement of `Link` among them |
| `KernelProofs` | `ExecMemory`, `ExecSync`, `ListProofs` | proofs about memory and waits |
| `MC...` | the module named | instances for TLC |

### Sender (`Sender.tla`)

The sender task as a state machine. Variables carry the code's names
(`state`, `int_state`, `icmd`, `req_inc_cmd`, `gthread`, `sthread`, `stat_on`,
`send_from`, `GFilters`, `mk` for `MK`, `out_access`). `pc` says which wait the
task is in: `tick` before the `int_state` step, `wait` at the loop's
`waitmsg(20)`, one value per wait inside a handler (`SINGLE`, `port`, `pars`,
`fill`, `filter` and so on), `help` in the controller's start, `greet` while the
controller posts to its own task, `dead` after a Lua error or the stop line.
One action is one stretch of code between two waits, because another task can
post at any wait and nowhere else matters.

| Code in `sender/init.lua` | Actions |
|---|---|
| 61-115, steps `s`, `r`, `rs` | `TickEnd` `TickNoController` `TickStatus` `TickRead` |
| 117-181, step `m` | `TickProgramEnd` `TickIdle` `TickLine` `TickLineDies` `TickSingle` `FilterAnswer` |
| 185-206, PORT | `OnPORT` `PortArg` `ConnectIgnored` `ConnectDies` `ConnectFails` `ConnectOpens`, then `HelpAnswer` and `Greet` for `MK:init()` |
| 207-290, the words | `OnNEW` ... `OnSTOP`, `OnWithArgument` and one action per argument |
| 292-300, a fill | `FillStart` `FillNext` |

`out` holds what the last step sent to the window, the port and a plug-in, so
that properties can speak of it. `last` (line written last in this pass) and
`paused` are history. A payload is a model value; `ToNumber` is `tonumber`, with
NIL for text that is no number. The controller appears by what the sender sees
of it: any read result, any `out_access` that goes with it.

Clients are arbitrary: any message of `Posted`, at any time, including halves of
requests, behind any mailbox of `Openings`. That covers every client the
repository has and more, so what holds here does not rest on the clients' good
manners.

### Console (`Console.tla`)

EXTENDS Sender: the whole sender task and the window. `MKstate` is the window's;
`posting` holds what the click handler under way has still to post; `reports` is
the window's port. A click posts its messages one at a time, the sender's steps
fall anywhere between, and reports are read when no handler runs. `ReadReport`
is the handler of `gui/init.lua` that sets `MKstate`. It knows a report by its
text, an error by `^error:`, and the sender forwards an error in the machine's
words: those of a Grbl match, those of a Marlin (`Error:`, `echo:Unknown command:`)
do not and leave `MKstate` alone (`Matched`). `missed` remembers that the sender's
last report was such an error. The start is a window without a controller, or one
with an idle Grbl or Marlin (`Idle`). Connecting chooses either and may leave the
baud rate empty. `alone` tells whether no connection was clicked yet ("apart"),
whether its messages may mix with others ("mixed"), or whether a Run was clicked
since they were gone ("run"): mixed messages are what `RunningIsShown` and
`RunsWhatWasSent` have to leave out.

One assumption: the window posts the next message of a request before the
sender's wait for it (200 ms, 2 s) runs out (`InTime`). Without it the number of
`SENDFROM` becomes a line of the program. The waits of 20 ms may run out.

### PluginLoad (`PluginLoad.tla`)

`collect_plugins`: for each file the window runs a task under the next free name
(`RunFile`), waits a second for its configuration, and either lists the task
(`ListPlugin`) or joins it (`RefusePlugin`, `WaitRunsOut`, `Joined`). A file is a
plug-in, one of a wrong type (it posts an empty message and ends), one that cannot
be read or run (it ends without a word), or one that fails (a Lua error signals the
window, whose wait raises it). `task` is the task in hand, `mail` the window's
mailbox, `list` is `Flags.Plugins`, `serves` which configuration the task of each
number came with. A time-out may fall before the message it was for: `ranOut`
remembers it. The task's birth, its end and the join in detail are ExecTask's; here
a join waits until the task has ended and clears the abortion signal.

### FilterChain (`FilterChain.tla`)

EXTENDS Sender and PluginLoad. The sender has been started and idles while the
window loads the plug-ins; then the window connects, and clicks follow, the first
of them when the sender is connected and at rest. There is one loop of
`plugin_system_engine.lua` per plug-in,
with its mailbox `pbox` and its place `ppc`. A click in the window puts EXECUTE,
DETACH or CLICK into a plug-in's mailbox; the plug-in posts its request to the
sender in three messages and waits 200 ms for whatever comes first; a line to
filter is answered, unless the plug-in's function failed. `shown` is the window's
list. The window's steps are reduced to the clicks and to what the reports make of
the list. `calm` remembers whether a click fell into something under way or a wait
ran out: the code does not handle that, and the properties say what holds
otherwise. `Late` tells a time-out from an answer that is there. `Through` is what the filters
attached, one after the other, make of a line (`Passed` lists what is behind each).

### ProgramText (`ProgramText.tla`)

The editor's text and what becomes of it. A line is a model value with the axes it
names; its parsed form is the line, the transformation, and what the line before
gives for an axis it does not name (`Words`). `Reported` and `NumberOf` are the
end-of-line callbacks the grammar makes and the line numbers it makes them with;
`Eol` is the callback, which pads up to the number; `Parse`, a recursive function, makes
it for one line after the other.
Each button is an action, `RunEdited`, `RunCached` and `RunFails` are Run. All of
it is one task, so the interest is in the order of the clicks, not in interleaving.

The buttons work on the list's selection (`SelectedLine`). It is 0 until a line is
selected, and nothing takes it back when lines go: a shorter file or a deletion
leaves the number of a line that is no more. Clicks, the search and reported errors
set it (`Select`). "From sel" and "to sel" take it as it is; `off` remembers the ends
of the range that were taken when it was no line. New and Delete end in a Lua error
where `table.insert` and `table.remove` refuse the index (`EditFails`), Run where
`table.concat` meets a line that is not there (`Concats`). Update with nothing
selected writes to index 0 (`GTXT0`), which a range from 0 then finds.

### GrblLink and MarlinLink (`GrblLink.tla`, `MarlinLink.tla`, `Link.tla`)

The controllers' flow control with the serial line and the machine. `Parse` is
`read()`'s loop over the lines it has. Grbl: leading `ok`s are counted together
and the line that ended them is dropped; a status line takes an `ok` after it
along. Marlin: a status line is an answer, and the text it was read with is not
put back: nor is the line itself, if it was the first of `msg_buffer`, which
is therefore read again. `Handled`/`Access` are `calc_mk_status()`, `Flags` the RX
part of `status_parse()`, which runs after the flag was computed. The caller is
the `int_state` machine: `Read`, `StatusQuery`, `SendLine`, `NoLine`; `Help` is
`help()`, which reads until a line comes.

The machine is external: it answers lines in order, reports a status on a query,
Grbl's ahead of answers still due, and may send lines nobody asked for. A read
gets any number of whole lines. (A read that ends inside a line is not modelled:
`read()` has the same state until the rest is there, except that a fragment could
be taken for a line, which the port's time-out of the read makes improbable.)

`Link` is the abstract link: program lines the machine has not answered, commands
whose answer is not counted, access. `GrblLink` implements it under
`Stop == INSTANCE Link WITH pending <- LinesAt(toDev), owed <- Owed,
access <- out_access`; `StopsAndWaits` is its specification, checked and proved.
Marlin does not: its phantom answers give access with commands unanswered, and
`OneAtATime` says where it does.

### ExecTask (`ExecTask.tla`)

The application and its children. A child is created by the application's request
to the kernel, claims its name (an atom: a lock of the kernel whose data is the
task), says that it is up, runs its program, gives the name up, and tells the
kernel; the application's join sends a request that is answered when the child
has finished, then frees it. `pc` is the place of a task in these protocols; what
its program calls next is free. A send by name locks the atom shared, puts the
message, signals the owner and unlocks, four steps among which other tasks run; a
send by handle has no lock. `waitmsg` looks under the port's lock and sleeps
outside it. An atom is lock, owner, nest count, and FIFO waiters of both modes.
A request to the kernel and its handling are one step: the port keeps their order
and nothing else touches what the handlers do. The application waits only in its
window, where ABORT is an error, and in a join, where it is forwarded.

### ExecSync (`ExecSync.tla`)

The waits under all of this: `exec_WaitTime` with its request to the timer device
and its abortion under `DevLock`; the device's thread; the recursive `TLock`; a
request to the kernel and its reply; `hal_close`, which ends the device. `sig` is a
task's pending signals; putting a message and signalling its owner are two steps
wherever the code has two. `Poke` is any message of another task.

### ExecMemory (`ExecMemory.tla`)

A puddle's allocate, free and reallocate as operators on its free list, and the
pool above them: which puddle serves, when a new one is asked from `TAlloc`, which
may fail, when one is given back, how the order of the list and the adapting
sizes change. `blocks` is what the callers hold; the code keeps no record of it,
and callers give back only what they have. Sizes are counted in halves of a
node, so that rounding to `Align` is visible. `Places` are the addresses `TAlloc` may
answer with; they lie as far apart as a puddle can be long (`PlacesAssumption`), since
memory it has given out is given to nobody else.

## Runs

The numbers are distinct states. Deadlock is not checked
(`CHECK_DEADLOCK FALSE`): tasks that ended stop, and the bounds stop the clients
and the machine. That nothing waits for ever is stated by the liveness properties.

| Run | Instance | Shows |
|---|---|---|
| `program` (Program.cfg) | an opening of Grbl or Marlin with a filter, a second connection or panel requests behind it; then NEW, a line, RESUME, PAUSE, SINGLE in any order, 3 messages held; 561 thousand | order of lines, end of program, silence in a pause, line number in errors; programs and single commands come to an end |
| `filters` (Filters.cfg) | a directory of 3 files of any kind; where two are plug-ins, whose filters do not commute, a program of two lines, 3 clicks, 1 wait that runs out; 2.1 million | the list is what serves, and the start ends; filters once in the chain, the program's place while answers and requests are confused; the window's list and the lines the machine gets |
| `console` (Console.cfg) | from an idle Grbl or Marlin 4 clicks on home, run, pause, stop; from a window without controller 2, connect as well; errors; 1.6 million | window and sender agree when messages have settled, both ways; a Run starts what it sent; no order of clicks ends the task |
| `grbl_live` (GrblLive.cfg) | no RX field, answers `ok`, `oks_max` 3, 5 commands, 1 unasked line; 9 thousand | one command at a time; access to write returns; the link implements `Link` |
| `grbl_rx` (GrblRx.cfg) | status with and without room, errors, `oks_max` 2, 6 commands, 2 sessions; 269 thousand | the count covers what is owed and keeps under `oks_max` |
| `marlin` (Marlin.cfg) | lines, both queries, errors, `oks_max` 3, 5 commands, 1 unasked line, at most 3 phantom answers; 90 thousand | where the count is right; every command settles |
| `text` (Text.cfg) | two lines and a blank, texts up to 3 lines, 2 transformations, any selection, 5 clicks; 345 thousand | a Run sends the text of its range, first and repeated; what makes a Run fail |
| `exec_tasks` (Tasks.cfg) | 2 children, 2 names, 2 calls by the application, 1 by a child; 493 thousand | no task touches one that is gone; names; atoms; wakeups; the end of the application |
| `exec_sync` (Sync.cfg) | 2 tasks, a lock taken twice; 22 thousand | one owner; nothing left behind; every wait and the device end |
| `memory` (Memory.cfg) | 3 blocks of 4 sizes, fixed and growing pools, first and best fit, AutoAdapt; 99 thousand | memory is tiled; no empty puddle is kept; LARGE puddles are last |
| `abort` (Abort.cfg) | `exec_tasks` with children of either `abort` | a child run with `abort = false` fails and ends the application: a finding |
| `run_again` (RunAgain.cfg) | three lines, 5 clicks | a Run pressed again sends other lines: a finding |

Why the bounds are enough.

*Sender.* `MaxHeld` counts messages in the mailbox, lines, single commands and
filters together and stops only the clients, never the task: with 3 there is a
program of two lines with a command behind it, so every pair of handlers meets in
either order at every wait, and messages already handled make room for more
without end. Two lines tell first, last and next apart; a third repeats the second.

*Console.* `Program` has two different lines so that a lost, doubled or misplaced
one shows. Four clicks are run, pause, resume and stop, or two runs with a stop or
a single command between them. Two clicks from the start (`MaxEarly`) are a
connection and whatever falls into it. `MaxReports` keeps a machine that reports
errors endlessly from filling the window's port; errors come only once no
connection is to come (`ErrorsCome`). What follows a connection is followed only
while a Run may still set it apart (`Promising`): where messages stay mixed no
property says anything. The proofs have none of these bounds.

*PluginLoad.* Three files are a slow one of a wrong type, the good one it spoils and
one behind it; every kind in every order, each wait in time or not.

*FilterChain.* Followed where the directory held exactly the two plug-ins and no wait
of the start ran out (`Loaded`). Three clicks are attach, run and detach, or two plug-ins attached
in either order, or one twice; one wait may run out (`MaxLate`), more only end more
tasks. One filter fails on a line and one makes a line only from what the other
makes, so that order, omission and repetition show in the line written.

*Links.* `MaxSent` 5 or 6 lets lines, queries and a second session overlap with
`oks_max` reached; `MaxChat` 1 puts an unasked line between any two answers.
`MaxPhantom` is how far below zero Marlin's count may be read.

*ProgramText.* Three lines hold a blank at the start, in the middle and at the
end, a line that names one axis behind one that names both, and a range at each
end. Five clicks are load, an edit, a range's end, a redraw and a Run, or two Runs
with an edit between; selecting a line is not counted. A Run that fails takes three:
New, "from sel" with nothing selected, Run. So does each other cause, with a load more.

*Exec.* Two children under two names are one name for two tasks, two names, a name
claimed while it is given up. The application's two calls are two births, a birth
and a join, a birth and a send. `MaxOps` 1: a child sends or waits once, while the
others are at any step. In ExecSync there is no bound but the depth of the lock:
two tasks wait, ask, lock and are poked for ever, until they close.

*ExecMemory.* Sizes 1 and 3 are rounded, 6 is one more than the threshold as it is
given but not as it is rounded, 7 is LARGE; three blocks leave a hole between two
others and a free node on either side of a block. `MaxPud` bounds AutoAdapt.

The mutants confirm that each bound lets its bug show.

Fairness. `Sender!LiveSpec`: weak fairness of the task's own steps, since tekUI
gives every task its thread and all its waits but one have a time-out; strong
fairness of reads that give access, since a machine that is polled for ever goes
on answering. The one exception is `help()`, which waits without a time-out for
the machine's first line: `HelpStep` has no fairness and the properties do not
need it. `GrblLink!LiveSpec` and `MarlinLink!LiveSpec`: weak fairness of the
caller's reads and writes (the same loop) and of the machine's answers and
reports. The first refines the assumption about reads: `AccessReturns` is what
`Sender`'s strong fairness relies on. `FilterChain!FSpec`: weak fairness of the start alone, for the window
and the task it runs are threads, and its wait runs out in the end.
`ExecTask!LiveSpec`: every child's thread,
the application and the kernel take the steps they have; what a program calls
next, when it ends and when its wait times out is its own business, so a child may
wait for a message for ever, and only the abort at the application's end gets it
out. `ExecSync!LiveSpec`: strong fairness of a task inside a call and of the device
(`DevLock` is a mutex of the system: whoever asks again and again gets it), weak
fairness of the kernel and of time, and an owner gives its lock up.

## Proofs

The theorems hold for every value of the constants: any set of payloads, messages
and mailboxes, any bound, any `oks_max`, any number of sessions, tasks, names,
plug-ins, files and blocks, any program, any number of clicks, any sizes. They rest on the named assumptions of the
modules and on what a theorem assumes itself. The assumptions say that words,
payloads, reports and NIL differ, that what the window posts is among them (the start
line `1` a number), that `tonumber` gives a natural number or NIL, that a task is
none of the reserved names, that no plug-in asks for anything before the sender runs
(`OpeningsAssumption`: the start runs the sender first), that NIL is no table sent to a
plug-in (`NoTableAssumption`) and no parsed line (`NilAssumption`), and that `TAlloc`
gives memory nobody else has (`PlacesAssumption`). TLC evaluates each of them on the runs.

**Sender.** `TypeCorrect`: `TypeOK` is inductive once it says that a task in its
greeting has something to post and that a line under way through filters is one;
one step of the proof per action. `PlaceKept`: `ProgramPlace` is inductive given
`TypeOK`. It is the argument of the whole module: `req_inc_cmd` means the line
`icmd` is out and unanswered (or a single command went out before the first
line); otherwise the program is at its start; and inside the filters `icmd` is one
ahead of the line written last. No property about lines is inductive without it,
because `icmd` moves when the *previous* line was answered. From it follow
`ProgramInOrder`, `PausedIsQuiet` (with `paused => state # "run"`), `EndIsTheEnd`
and `ErrorsBlameTheLastLine`. `WhoWritesLines` and `WhoReports` reduce each of the
action properties to the two or three actions that can cause the event.
`ChainIsDistinct`: a filter is taken out of the chain before it is put at its end
(`RemovedList`, `RemovedDistinct` of `ListProofs`).

**Console** (`WindowProofs`). `RunsAreShown`, `ShownRunsRun`, `StartsWhatWasSent` and
`SenderSurvives`, for any program and any number of clicks, from `ConsoleInv`. While
messages are not mixed, the mailbox and what the click handler has still to post are
one list, the `Trail`, and it consists of the rest of one request and then of whole
requests. `Spells` says so by a mark for each message: of which request it is, and
which of its messages. So the mark of the next message tells what it is (`MarksTell`),
and the sender's place fits it (`Placed`): the task waits for an argument exactly when
the argument is next, and that is why it never takes anything else for one; by
`InTime` the wait does not run out (`RestsOrTakes`). Program lines come only in the
middle of a Run, whether the fill goes on or a wait of 20 ms ended it and the next line
begins a new one. What `gthread` holds is then a function of the next message's place
in its Run (`Filled`, `Fill`): nothing behind NEW, all of it behind FIN. The two views
are compared by `Showing`, what the window will show when it has read its port: unless a
NEW, PAUSE or STOP is on its way, a sender that runs will be shown running
(`RunShown`); unless one of these or a RESUME is, a window that shows a run is right
(`ShownRuns`), if no single command is about (`NoSingle`). Every step either leaves the
run and the reports alone, ends it and says so, ends it with an error the window does
not know, or begins it and says so (`Keeps`, `Halts`, `Misses`, `Starts`), which is
where a lost or doubled report would show. After such an error `ShownRuns` promises
nothing until the sender's next report (`missed`). A Run that is
clicked when a connection has gone (`Gone`) starts anew from no marks (`CalmAgain`).
`SenderSurvives` assumes of the program that no line of it is the stop line
(`NoStopLine`): such a line, once written, does end the task.

**PluginLoad and FilterChain** (`ChainProofs`). `ServedAreListed`, from `LoadInv`: the
list grows by one with every task that is kept, so a task's number is its place in the
list; and what is in the window's mailbox before the task in hand has spoken was left
by plug-ins of a wrong type, empty. That is why a configuration that is read is the
last message and that task's own, whatever waits ran out before. The start is a state
machine of its own beside the chain (`StartIsApart`). `ChainIsShown`, from `Orderly`:
while `calm`, either lines go out and are filtered, with nothing but lines in the
mailboxes (`Working`), or exactly one plug-in has been clicked or is asking, every
other rests, and the sender has come as far in the request as the plug-in's place and
the two mailboxes say (`AttachBegun`, `AttachNamed`, `AttachParsed`, `DetachBegun`,
`DetachNamed`, `Served`). It needs that no payload is a word of a request (`Pure`). Once
served, the chain differs from the list shown by just what the plug-in's answer will
make of it. `SenderAmongPlugins` carries `ProgramPlace` and `FiltersDistinct` over:
every step of the composition is a step of `Sender` or leaves it alone.

`LinesAreFiltered`, from `LinePlace` beside `Orderly`. While `calm` and no request is
under way, a sender that has seen the first click is stopped, with nothing in its
mailbox but the rest of a Run, whose last message starts the program (`Stopped`,
`RunRest`); or between two lines with an empty mailbox (`Between`); or inside the
filters (`InFilter`). There the line is what the filters asked so far have made of it,
and exactly one of three holds (`WithFilter`): it lies in the mailbox of the filter
asked, or that filter's answer is the only message the sender has, or the filter failed
and nothing will come. So what the sender takes for the answer is the answer, and a wait
that ends without one was for a filter that failed. This is where a click into a run, a
second answer or a late one would break in, and why `calm` is needed. What a recursive
function over the chain computes is proved step by step (`PassedSteps`, from
`LoopStates`): the prover cannot use the library's induction theorems, but it can
prove induction up to a number from the least element of a set (`UpTo`).

**ProgramText** (`WindowProofs`). `RunFailsOnlyOffText`, `EditedRunSends` and
`CachedRunSends`, for texts and ranges of any length and any history, from `TextInv`.
Its parts: the range begins and ends inside the text unless lines were deleted since it
was chosen or an end was taken from a selection that was no line (`RangeInside`: an
insertion or an update may only lengthen the text, a load sets the range anew), which
is where `table.concat` finds every line (`InsideConcats`); and the cache holds the words of the text last parsed, at the index of each line, with
holes only where blanks were left out (`CacheFilled`). The second is about the parser.
`Parsed` relates its state after `i` lines to those lines: nothing with words is behind
its line count, what it posted is the words of the lines before, and so is what it
cached where it leaves no holes. `ParsedNext` is one line; it needs that the padding
goes up to the line's own number (`EolPlaces`) and that a last line without its end
of line, whose number is one too low, has a line with words before it (`Numbered`).
`ParseIsParsed` is the induction, `EndedParse` and `ParseFills` what Run and the
drawing get from it. Blanks at the end are never reported; `TrimmedSame` says that two
texts of one range that differ only there are the same to the properties. They rest on
`LinesAssumption` and on `NilAssumption`: an entry the cache does not have is no
parsed line.

**GrblLink and Link** (`GrblProofs`). `ParseCovers`: a read never counts more answers
than the lines it uses up hold. So `oks - Owed` never falls in the first session, which
is `CountCovers`; the answers in a sequence are counted through lemmas on
concatenation and cutting (`AnswersAdd`, `AnswersCut`). `StopAndWait`: when the
machine sends no RX field, access implies `oks < 1`, so nothing is owed; it is
stated under that assumption on `Reports`. `QueueIsBounded` needs no counting of
answers: a line is written only after a read that was paid an ok, which takes one
off the count, and a query only below `oks_max`. `LinkStopsAndWaits` is the refinement,
under `Reports \subseteq {"stat"}` and one session. Initial states map to initial
states; a write maps to `WriteLine` because `StopAndWait` says that nothing is owed, a
query to `Ask`, an answered line to `Answer` (`LinesAppend`, `LinesTail` count lines),
a read to `Count` because `ParseCovers` bounds it from above and the lines at the
machine from below; reports, chat and a turn without a line stutter.

**MarlinLink.** `MarlinOneAtATime`, from `Settled`: access comes from a count that has
run out, and until a status line was read apart from its ok (`cut`) the count is at
least what the machine owes. Marlin's `ParseCovers` is weaker than Grbl's: it says
nothing of a read that begins with a status line.

**ExecTask.** `NoWakeupIsLost`. `WakeInv`: a child whose look found the port empty,
asleep or on the way there, with a message in the port, has the signal or its
sender is between the put and the signal. It starts a step before the sleep, since
the message may come between; and it needs that no one but the sleeper clears the
signal. `MovesKeep`, `PutKeeps` and `SignalKeeps` say once what the forty
actions do to it: move a task, put a message, give a signal.

`TargetsAreLive`, `NamesMeanTasks` and `AtomsCountHolders` are three readings of one
invariant, `NameInv`. For each name, the places of all tasks tell who holds its atom
and how (`Claimers`, `Leavers`, `Senders`) and who waits for it in which mode. `Counted`
says that the atom agrees: its nest count is the number of holders, its mode theirs,
its waiters those tasks, once each, and nobody waits for a free atom. `Named`: the
atom's task is the child that bears the name, and it has none just while somebody
claims it. So a send that holds the name holds off the bearer's end, and the target
cannot be freed. `Life`, `Address` and `Parent` tie memory, operands and the
application's requests to the places. None of it is inductive alone: that the last
holder wakes the right waiters (`ReleaseOK`) needs the count, the count needs that a
task is in one queue once, and that a claimer finds no bearer needs the lock. The
atom's own operations are proved over sets (`GrantShared`, `WaitOK`, `CountDownOK`,
`DestroyOK`), then each action is one of them with a task that moves (`LockKeeps`,
`ReleaseKeeps`).

**ExecSync.** `LockHasOneOwner` and `NothingIsLeft`, from `SyncInv`: a task's
request is in one of the device's port, its list and the sync port, and only while
that task is inside its timed wait; a SINGLE is pending only for a task that
waits; the device answers only under `DevLock`, which an abortion needs as well;
whoever queued for the lock and has the SINGLE owns it, every other one in the
queue has none. The parts need each other: one stale SINGLE would make a queued
task an owner, and only the invariant about requests shows that there is none.

**ExecMemory.** `MemoryStaysTiled`, `PuddlesStayUsed` and `LargeOnesStayLast`, from
`MemInv`, in three layers. *One puddle*: the operators on a free list are splices and
droppings of nodes (`SplicedNodes`, `DroppedNodes`), so that `StaticAlloc` takes
exactly a block's units (`AllocTakes`), `StaticFree` gives them back (`FreeGives`),
which is where a neighbour that is not merged would show, and `StaticRealloc` moves a
block in place or elsewhere (`ReallocMoves`). *The set of puddles and blocks*: what no
block uses is free, and nothing else (`Tiles`); it is kept when a puddle is exchanged
for one with a block more or less (`Exchanged`), flushed (`Flushed`) or new (`Added`).
*The list*: no puddle stands in it twice and LARGE ones are last (`Lined`), under
replacing, moving up, removing, and adding at either end. `MemInv` is stronger than the
properties in three points, each needed. Places are apart: otherwise an address
would not tell a block's puddle (`HolderIs`). A LARGE puddle is one block: that is why
the search may stop there, and why freeing that block flushes it before it could stand
before others. A growing pool's threshold is not above its puddle size, also where
both adapt (`AdaptedOK`): otherwise a new puddle could be too small for the block it
was made for.

**Model-checked only.** Liveness (`RunEnds`, `SinglesEnd`, `AccessReturns`,
`CommandsSettle`, `StartupEnds`, `QuitEnds`, `WaitsEnd`, `DeviceEnds`), which is beyond
the prover. Every invariant, every action property and the refinement that the passing
runs check is a theorem.

## What the code does that a reader would not expect

Met while modelling; properties are stated so that they are true of the code, and
their comments name the exception.

*Sender and window*

- A single command sent before the first line leaves `req_inc_cmd` set: RESUME
  then starts with line 2 (`ProgramOrder`, exception `last' = 2`). Run from the
  panel is safe, as it posts NEW first.
- Single commands are a stack: of several waiting, the last goes out first. One
  that waits when NEW or STOP comes stays there, until a later SINGLE brings it out.
- SINGLE whose command is late leaves the state `single` with nothing to send:
  RESUME does nothing until STOP or NEW (`SinglesEnd` excludes it).
- A started program without lines stays in `run` (`RunEnds` excludes it).
- PAUSE or RESUME without a controller, ADDFILTER whose parameters are late, and a
  start line that is no number end the sender. Its failure sends ABORT to the
  application although the sender was run with `abort = false` (below), which then
  ends at its next wait for the window; a click that comes first calls `newcmd()`,
  which tries for ever.
- No client posts `SENDER_STOP`; but a program line of that text, once
  transmitted, ends the task.
- RESUME while a single command is on is dropped, and the window goes on showing
  RUN (`ShownIsRunning` is stated without single commands; with them TLC finds
  the counterexample in four clicks: run, pause, home, run).
- An error of a Marlin stops the sender, and the window goes on showing RUN: it
  looks for `^error:` (`gui/init.lua:148`), and a Marlin's errors begin with `Error:`
  or `echo:Unknown command:` (`marlin/init.lua:208-209`). `ShownIsRunning` is stated
  without the time from such an error to the sender's next report of a stop, a pause
  or a run; with it TLC finds the counterexample in one click on Run.
- Run during the opening of the port: the controller's own NEW and SINGLE fall
  into the program, or between SENDFROM and its number (`RunsWhatWasSent` and
  `ControlledSurvives` are stated for a Run with no connection under way).
- The connection dialog says STOP before the sender has looked at the request: one
  with a field left empty is ignored and the program goes on. A PAUSE or STOP clicked
  into a fill that a connection broke up becomes a line of the program. While messages
  of a connection may be mixed with others, `RunningIsShown` therefore promises
  nothing.

*Plug-ins*

- A plug-in that asked to be attached takes a click or a line to filter for the
  answer. The real answer, coming later, has no command part, and the task ends on
  a nil.
- A plug-in whose answer does not come within 200 ms ends. A filter that fails
  gives no answer, and the sender waits 500 ms for each line.
- At start-up a plug-in that needs more than a second to load is joined while it
  waits for messages until QUIT, which nobody sends
  (`plugin_system_engine.lua:272`): the start-up hangs. A slow one of a wrong type
  leaves its empty message behind, and the next good plug-in is joined for it
  (`StartupEnds` excludes starts in which a wait ran out too early). The list
  stays true even then (`ListIsServed`).
- A plug-in that fails while it loads ends the program although it was run with
  `abort = false`, unless the window has stopped waiting for it.

*Text*

- After Delete, SendTo may be past the end: Run is then a Lua error. It is one, too,
  when an end of the range was taken from a selection that is no line: "from sel" with
  nothing selected, "to sel" with the number of a line of a longer text
  (`FailsOnlyOffText` says that nothing else makes Run fail). New and Delete fail at
  such a selection themselves. After New the range leaves the last line out.
- Replace does not set `isEdited`, and a new transformation parses nothing: a Run
  that follows, unedited, sends the old lines or coordinates if the automatic
  redraw was off.
- A Run of an edited range writes its parsed lines to the cache from index 1, and
  leaves blank lines out of it; the same Run pressed again, unedited, reads the
  cache at the range's own indices (run `run_again`, a finding).
- The parser starts a range with all axes at 0, so the first line that relies on
  an axis given before the range is sent with 0 (`EditedRunSendsRange` exempts it).

*Controllers*

- Grbl: an error report behind leading oks of one read is lost, and `oks` then
  stays too large: with no RX field the link never gives access again
  (`AccessReturns` assumes a machine that answers ok). After a port was opened a
  second time, late answers make `oks` negative (`OksCoverOwed` is about the
  first session).
- Marlin: a status line read apart from its ok is counted, and counted again at
  every read while it heads `msg_buffer`; the count falls below zero, and lines are
  written with answers unpaid. What is read behind a status line is dropped; if
  answers were in it, the count may stay too high for ever (`CommandsSettle`
  excludes both kinds of loss). M105 is sent without regard to `oks_max`.

*Kernel*

- `abort = false` of `Exec.run` does nothing when the child fails: ABORT goes to
  the parent all the same (run `abort`, a finding).
- An ABORT that comes together with the answer of a join is cleared and forgotten
  (`exec_lua.c:964`), although the documentation calls the signal permanent
  (`exec_lua.c:225`).
- `hal_close` holds `DevLock` while it joins the device. A device that was woken
  for something else and now waits for `DevLock` never sees the ABORT
  (`DeviceEnds` excludes it).
- A block that shrinks with no free node behind it in its puddle is moved, and in
  a full fixed pool the shrinking fails.

## Not modelled, and why

- Of the controllers: the contents of a status report, the greeting's settings, the
  commands' texts; reads that end inside a line.
- Of the plug-ins: the generators, which make a program in one go, and the grouping
  of the list by kind. Of the start-up: the building of the window.
- Of the editor: the pattern of the search (what it may select is modelled), a click
  on the picture that selects a line, the parsing of a transformation's numbers; what
  becomes of a text with a gap, which Update leaves when the selection is more than one
  line behind the end. Of the g-code grammar: everything but its line ends; it is generated code
  without state between calls.
- The picture, the transformations (matrices of reals), the widgets, the writing of
  g-code words keep no state that two parts share.
- Of tasks: `terminate()` and `signal()` of Lua and the base atom `task.main`; the
  loading of modules; children of children (the program has none). Of waits: a
  wait for a date, which is a wait for a time. Of memory: memory managers, which
  put one hook around each operation, and the destruction of a pool.
- Other vendored libraries (the Lua interpreter, tekUI's widgets and displays, the
  serial port, file system, SVG and DXF readers) appear through their use.

`PROJECT.json` has the list part by part.

## Plan

1. `Sender`, `GrblLink`, `Console` with their runs; proofs of the first two. Done.
2. `ProgramText`, `MarlinLink`, `PluginLoad`, `FilterChain`; `Link` and its refinement. Done.
3. `ExecTask`, `ExecSync`, `ExecMemory`; proofs about the first two. Done.
4. Proofs about `FilterChain`, `PluginLoad`, `MarlinLink`, `Console`, the names of
   `ExecTask`, `ExecMemory`, `ProgramText`, and the lines through the filters. Done.
5. Open: `ExecTask` over `ExecSync`, the kernel's requests of the former as those of
   the latter (a refinement mapping of `reply` to `synced`).
