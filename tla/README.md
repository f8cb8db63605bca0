# Inkstand: specifications, checks and proofs

Inkstand is a C library that applications with a small screen are built on: a
scheduler that draws frames, a snackbar, a dialog, a control socket, files that
records are appended to, a handful of form helpers.  It sits on two libraries
that are not in this repository, *inkwell* (an event loop, timers, wakes, file
calls) and *inkcell* (panels and drawing).

This directory holds TLA+ modules for the parts whose correctness depends on
the order things happen in, the TLC configurations that check them on small
instances, and TLAPS proofs of what matters most for every value of the
constants.  `PROJECT.json` lists the components, the runs, the source lines
each definition models, the hazards and the theorems.

To check a module: `tlc -config MCToast_safety.cfg MCToast.tla`.  To check its
proofs: `tlapm NavProofs.tla`.


## 1. Inventory

Paths are relative to `src/` of the C repository (`src/nav/...`) and to its
public headers (`include/inkstand/...`).

### Frame scheduler: `src/nav/frame_scheduler.c` (modelled)

- **State.** `registered`, the backend, the snapshot last drained
  (`presented`), a one-shot timer and whether it is `armed`.
- **Operations.** `init`, `shutdown`, `request_frame`, `settled`; two callbacks
  on the loop, one for the store's wake and one for the timer.
- **Interacts with** the store (drained through the caller's hooks), the
  backend (`init`, `present`, `animating`, `shutdown`), the loop.
- **Hard.** The wake and the timer can be ready in one batch; the second
  callback then runs for a readiness the first one used up.  Arming can fail.
  `init` can fail after any of four things were set up.  `armed` is a cached
  belief about a timer that lives elsewhere.
- **Correct when** nothing stale is drawn, every update is drawn once as an
  update, whatever is armed fires, what moves keeps moving, a still screen
  costs nothing, and everything opened is closed.

### Toast: `src/nav/toast.c` (modelled)

- **State.** The text that shows and its deadline, a bounded queue.
- **Operations.** `set`, `raise`, `dismiss` (the answers to presses), `date`,
  `post` (something arrived), `tick`.
- **Hard.** A press can uncover a snackbar that others wait for; the queue
  drops when it is full; repeats are dropped by comparing with one notice.
- **Correct when** an arrival never takes down what shows, a notice stands its
  time, the newest news is never the one lost, and the queue drains.

### Control socket: `src/app/control.c` (modelled)

- **State.** The listener, one client, a line buffer, what the client waits
  for, a timer, a deadline, the inode of the socket file.
- **Operations.** `open`, `close`; callbacks for a connection, for input, for
  the timer; the commands `ping`, `key`, `screen`, `wait`, `shot`, `quit`.  The
  sending end is `inkstand_control_send`.
- **Interacts with** the host (`press`, `scheduler`, a capture), the loop, and
  through the file system with whoever else uses the path.
- **Hard.** Commands run until one parks; the rest wait in a buffer nothing
  refills; a peer hangs up at any moment, and a reply may drop the client under
  the loop that is running its lines; a timer of a client that has gone can
  still be in the batch.  The file is known by an inode read after the bind,
  and compared before an unlink.  The sender has a timeout of its own.
- **Correct when** each line gets one answer, in order and to its own sender;
  nobody is kept waiting for ever; the socket is always free again; the path
  says who listens and nobody takes what is not theirs; a sender's output is
  what was run, in time.

### Dialog: `src/nav/dialog.c` (modelled)

- **State.** Open or not, the cursor on one of two answers, the subject.
- **Operations.** `open`, `close`, `key`, `answer` (where a direction leads).
- **Interacts with** the focus map of whatever frame the scheduler last
  presented, and with the application, which publishes what a press changed.
- **Hard.** The map a press is resolved over is a frame behind: of the screen
  beneath, of the question before, or there is none.
- **Correct when** a cursor is never trapped, nothing is accepted but after its
  reader moved to *Accept*, and the answer is about the question that was up.

### Journal: `src/persist/journal.c` (files and ring modelled)

- **State.** One file per subject in a directory, a temporary beside it during
  a rewrite.  The ring holds the newest records of one pass over a file.
- **Operations.** `append`, `read`, `replace`, `filter`, `forget`,
  `forget_all`; `ring_init`, `push`, `held`, `at`, `finish`.
- **Hard.** Any library call fails; the program is killed between any two;
  a write is torn.  The ring's indices wrap and its `finish` rotates in place.
- **Correct when** a reader sees the old file or the whole new one, what was
  acknowledged stays, a wipe does not lie, and the ring is the newest records
  in order.

### Recent list: `src/persist/recent.c` (modelled)

- **State.** An array the caller owns, how much of it is in use.
- **Operations.** `note`, `forget`, `rank`, `write`, `parse`.
- **Interacts with** the caller, who saves a line when a call says that the
  list changed, and who decides when two entries are the same one.
- **Hard.** `note` may be handed a pointer into the array it is about to shift;
  `parse` tests an entry in the slot past those in use; two entries that are
  the same may still differ in their bytes.
- **Correct when** it is the different things noted last, newest first, with
  no trace of anything else in the array, and the saved line gives it back.

### Scene runner: `src/app/scene.c` (modelled but for its words)

- **State.** Configuration, whether it has started and finished, how many
  frames there are, the delay of the last, the scene's clock.
- **Operations.** `run_line` with ten verbs of its own and the application's,
  `emit`, `settle`, `press`, `finish`.
- **Interacts with** the host (store, seeds, verbs), inkcell's capture, and a
  sink that takes frames and, one frame behind, delays.
- **Hard.** The sink, the theme, a seed or a verb fails half way through a
  line; a `hold` changes a frame that is already out; something never rests.
- **Correct when** frames are numbered without a gap and have one delay each,
  the film keeps the scene's time, motion is filmed out, and a line ends.

### Forms and record files: `src/form/`, `src/persist/keys.c`, `fields.c` (modelled)

- **State.** None: tables the application owns, and functions over them.  The
  state is the application's: the values of a form's rows and the file they
  are kept in.
- **Operations.** `scale.c`: walk presets or choices, place a value on a track.
  `codec.c`: decimals, identifiers and bytes as text and back.  `field.c`: the
  rows of a form.  `keys.c`: name a record's key, write a line, read one back.
  `fields.c`: read the numbers of a line.
- **Hard.** The ends of every range; two spellings of bytes that can be taken
  for each other; a stream that failed earlier; a file edited by hand.
- **Correct when** what is printed reads back, what is typed is taken for what
  it says or refused, keys and track agree, and a load is what was saved.

### Not modelled

`control_unavailable.c` (every call refuses; no state); the *state* layer
(named in `docs/architecture.md`, no code); the drawing half of inkcell
(another repository); `check-layers.py` and the build; the tests.

### How the parts interact

Everything runs on one thread and one loop.  A **poll** gathers what is ready
into a **batch** and calls back for each descriptor; a callback runs to its
end.  The store is published to by whatever drives the application; its wake
brings the scheduler's callback.  The control socket calls the application's
`press` synchronously, which publishes; and it asks the scheduler's `settled`
from its own timer.  So the one thing that is shared between scheduler and
socket is the batch, and it is where they can be in each other's way.
A dialog lives in the state the store publishes: a press changes it, the
publish wakes the scheduler, the scheduler presents, and only then is the map of
its frame the one a press is resolved over.  `Screen` is that circle.
The journal and the recent list are called by the application and call back
only to read and write an entry; so are the form helpers, which
`Form` puts together the way an application would: typed into, saved, edited,
loaded.  A sender is another process: what it shares with the socket is the
path and one connection.  The scene runner stands in the scheduler's
place when pictures are made: it drains the same hooks into a capture.


## 2. The modules

| Module | What it is |
| --- | --- |
| `EventLoop` | inkwell's loop as the callbacks rely on it: watch, unwatch, collect, serve |
| `FrameScheduler` | the frame scheduler, its store, its backend and its timer |
| `FrameSchedulerProofs` | theorems about it |
| `Dialog` | a question with two answers, over a focus map it is handed |
| `Screen` | the dialog drawn by the frame scheduler and pressed over its frames |
| `Toast` | the snackbar and its queue |
| `NavProofs` | theorems about the screen and the snackbar |
| `JournalWindow` | what the ring promises: a sliding window, no slots |
| `JournalRing` | the ring: an array and two indices |
| `JournalFile` | the journal's files, call by call, with failures and kills |
| `JournalProofs` | theorems about the files, and the proof that the ring is the window |
| `Control`, `ControlProofs` | the listening end of the control socket, with its peers, and theorems about it |
| `Inkstand`, `InkstandProofs` | the scheduler and the socket composed on one loop, and the proof that each stays itself there |
| `SocketFile` | the socket's file, with other programs at the same path |
| `ControlSend`, `ControlSendProofs` | the sending end, against the program whose file is at the path, and theorems about it and the path |
| `RecentList` | what a recent list promises: no array, no shifting |
| `Recent` | the recent list in its array, with the line it is saved in |
| `Scene`, `SceneProofs` | the scene runner, function by function, and its sink, and theorems about it |
| `Scale`, `Codec`, `Records` | the functions of the form helpers and of record files |
| `Form` | a form and its record file, built on those three |
| `RecordProofs` | what an application keeps in its record file: the proof that the recent list is the list, and theorems about forms |
| `MC*` | instances for TLC |

A definition whose comment starts with *Slip* is a plausible mistake in the
definition after it.  Nothing uses one: `PROJECT.json` names for each property
a slip that breaks it, which is the evidence that the property says something.

### EventLoop (external)

`watched` are the registered descriptors, `batch` those found ready and not
served.  `Collect` polls, `Turn`/`Served` give a callback its turn, `Watch` and
`Unwatch` register and remove.  Three assumptions about inkwell, which is not
in the repository, are made here: nothing is polled before a batch is through;
a readiness in the batch stays there although an earlier callback used it up
(the callbacks are written for that, see the comment in `timer_callback`); and
a removed descriptor is not called any more.  No order within a batch is
assumed.

### FrameScheduler

| TLA+ | C |
| --- | --- |
| `registered`, `backend`, `presented`, `armed` | the fields of the scheduler |
| `timerOpen`, `timer` | `timer_fd >= 0`; what inkwell's timer holds |
| `config` | which hooks the caller gave; whether its timer may refuse to arm |
| `pending`, `changed` | the store holds a newer snapshot; the drained one says it changed |
| `moving`, `display` | the backend: what `animating` answers, and its own life |
| `drew`, `owed` | history: what the last step drew; a requested frame is outstanding |
| `ScheduleFrame`, `BackendMoving`, `Present`, `Drain` | the static functions |
| `WakeCallback`, `TimerCallback` | the callbacks |
| `Start`, `StartRefused`, `Shutdown`, `RequestFrame` | the calls |
| `Publish`, `ComesToRest`, `Expire`, `Poll` | store, backend, timer and loop |

A snapshot is reduced to two facts, since no property of the scheduler tells
two snapshots apart except by which is newer.

### Dialog and Screen

`open`, `cursor`, `subject` are the struct; `press` and `told` what a call of
`inkstand_dialog_key` returned; `moved` is history.  `Answer` is
`inkstand_dialog_answer`: what inkcell's finder says of a map with two boxes in
it is `WaysFrom`, the directions in which one lies from the other.  `behind`
are the directions in which a box behind the dialog is nearer, and is there for
the slip that searches the whole frame: the code does not.

`Screen` joins the two.  `drained` is the question in the snapshot the scheduler
holds, `panel` the map of the frame it last presented: nothing (a backend
without the hook), one with neither answer, or one with the two answers of the
question that was drawn.  Assumed of the application: it publishes every change
of its dialog, and draws an open question with both answers registered, in one
of `Layouts`: two boxes that do not overlap (`LayoutsAssumption`).

`dialog.h` says that with a map from before the dialog opened any direction
goes to the other answer.  That is so for a map of the screen; the map of an
earlier dialog with the same base of identifiers is taken for this one's,
which still traps nobody (`CursorIsNeverTrapped`).

### Toast

`until` is the time left to `until_ms` rather than a clock, so no bound on time
is needed; 0 means passed and `Undated` means `until_ms == 0`.  `Cut` is the
`snprintf` into the fixed buffer: two texts may be cut to the same notice, and
the comparisons are of the cut ones.  `Set`/`Clear`, `Raise`, `Dismiss`,
`Date`, `Post`, `Tick` are the calls; `Advance` is time.  `AwaitsDate` guards
`Tick` and `Advance`, as `toast.h` lays down: raising and dating happen within
one turn of the loop.  `by`, `said` and `stood` are history.

### JournalRing and JournalWindow

`Push` is `ring_push` with the caller's write into the slot; `Fold` a write
through `ring_at`; `Finish` is the rotation by three reversals and the caller's
reading.  `JournalWindow` has none of that: `Add`, `Amend`, `Read`.  The
refinement mapping is `Oldest`, the slots in order of age; `pushed` is history,
without which a push that keeps nothing would pass for a stutter.

### JournalFile

A file is a set: `{}` when it does not exist, `{<<...>>}` with its contents
otherwise.  A content is a sequence of *pieces*, each the bytes of one write,
with or without its newline.  `op` is the call under way with what it holds
in locals; each library call is a step of its own: `AppendOpen`, then
`AppendDone` or `AppendFails`; `Replace`/`Filter`, then `WriteTemp[Fails]`,
`Publish[Fails]`, `RemoveTemp`; `Forget`; `WipeOpen`, `WipeEntry`, `WipeDone`.
`Kill` can strike in any of them and leaves what stdio held whole, in part or
unwritten.  `Readable` is the rule of `inkwell_record_read`, which
`journal_next_line` follows: the piece has its newline and starts a line.

### Control

| TLA+ | C |
| --- | --- |
| `client`, `in`, `waiting`, `late` | `client_fd`, the line buffer, `waiting`, the deadline |
| `ctimer`, `stopping` | the timer behind `timer_fd`; the loop was asked to stop |
| `pc` | where inside a callback the program is |
| `conn`, `backlog`, `wire`, `said`, `ends` | the peers: external |
| `Deaf`, `Untaken` | peers that may stop reading; nobody takes an answer |
| `parked`, `answers`, `lost` | history; `lost` are the lines `DropClient` throws away, whoever is dropped and why |
| `OnAccept`, `OnClient`, `OnHangUp`, `OnTimer`, `AnswerParked` | the callbacks |
| `RunLine`, `RunTooLong`, `RunEnd` | `inkstand_control_run`, a line at a time |
| `Close` | `inkstand_control_close` |

The callbacks themselves are atomic to each other, but the peers are other
processes and act between any two lines a callback runs; that is why
`inkstand_control_run` is one step a line.  Lines are named by sender and
place, so an answer can be told from an equal answer to somebody else; a verb
stands for every command that is handled alike.  A send finds its peer gone, or a
full socket buffer where the peer is one of `Deaf`; `Reply` then lets go of it, as
`control.c:63-67` does with any send that is not whole.

### Inkstand

Both components with their own variables over one `watched` and one `batch`.
It adds the two places they meet: `RunLine` of a `key` publishes to the store,
and `settled` of `Control` is the scheduler's `~armed`.  `FramesView` and
`SocketView` are each component seen through its own descriptors, and
`EachIsItself` says that the composed program implements `FrameScheduler!Spec`
and `Control!Spec`: the results for each alone carry over.

### SocketFile and ControlSend

`pc` is the system call of `open` or `close` a program is before; another
program, somebody with a hand on the path, and kills come between any two.  A
file carries its inode, and an inode is free again once no path and no open
socket holds it, which is what makes the comparison in `close` worth a model.
`Over` is a program's end at any point, `Clear` and `Put` whoever else is at the
path.  `blind` and `robbed` are history: a program that never learnt which file
is its own, and one whose file somebody else took.

`TakesOnlyItsOwn` has two exceptions.  What was put at the path while the
program was within its close may go with it: the comment in `close` accepts
that window, and the inode number, free once the socket is closed, makes it a
little wider than the comment says.  And a program whose `stat`, after its
bind, saw a file that had replaced its own takes that one for its own; the third
part of `PathTellsWhoRuns` says that its own must have been taken first.

`ControlSend` is `inkstand_control_send`, a system call or a wait a step: `Connect`,
`SendNext`, `Read`, `SendEnd`.  The program at the other end is what `Control`
shows a listener to be, one connection at a time and one answer a command, and it
may close, be killed or never look (`prompt` is false).  `elapsed` counts ticks
since the sender began to wait.  A command is its spelling, as far as the sender
looks at it.

### Recent and RecentList

An entry is a name, which is what the caller's `same` looks at, and a spelling,
which it does not.  `Note`, `NoteOwn` (the same with a pointer into the array)
and `Forget` are whole calls; `parse` goes through a field at a time, because
what it leaves in the slot past those in use is what could go wrong:
`Parse` begins it, `ParseField`, `ParseEnd`.  `saved` is the caller's line, and
`Return` rewrites it exactly when the call says that something changed.  The
first line may be anybody's: repeats, refusals, too many.  `RecentList` is the
list as a sequence; the mapping is `Written`, the slots in use, which is also
what `write` writes.

### Scene

A call is the stack `todo` of the functions it has still to run, and a step is
one of them: a line puts there what its verb does, and a failure throws away
the rest of the line, which is what the early returns come to.

| TLA+ | C |
| --- | --- |
| `started`, `finished`, `frames`, `delay`, `pace` | the fields, `pending_delay_ms` and `config.delay_ms` among them |
| `moving` | `inkcell_capture_animating` |
| `since` | the scene's clock since the last frame was taken |
| `SetupLine` ... `BareVerbLine`, `Finish` | `run_line` by verb, and `finish` |
| `StartScene`, `ApplyTheme` | `scene_start`, `scene_apply_theme` |
| `Draw`, `FlushDelay`, `TakeFrame` | the three parts of `scene_emit_delay` |
| `SettleStep`, `Hold`, `AskHost` | one turn of `settle`; `scene_hold`; the host's callbacks |
| `timed`, `spent`, `failed`, `line` | history |

No line is run after `finish`, which is how the header describes its use.

### Scale, Codec, Records and Form

The first three are operators and have no state: a function of the code is an
operator, and one that may refuse gives the set of what it accepted.  A text is
a record of what its characters say, so that a parse works on digits and not on
characters: `Codec` has a sign, digits, a point, digits, and whether something is
in the text that belongs in no number.  `WholePart` multiplies in a digit before
it looks at the limit, and wraps where an `int64_t` would (`Wrapped`).  Bytes are
a name and a size, and a text of bytes says what it was printed from; read in
the other spelling they are garbled.  `Records` has the keys of a table and the
tokens of a line.

| TLA+ | C |
| --- | --- |
| `form.rows`, `Field`, `Walk`, `Track` | the table of fields, and `field.c` over it |
| `IsRow`, `MayHold`, `MayBeTyped`, `IsForm` | what the headers ask of a table of rows and of who fills it in |
| `values` | what the application keeps for each row |
| `Press`, `Type`, `Leave` | a key on a row, a text typed into it, its edit closed |
| `stream`, `SaveBegin`, `SaveLine`, `SaveEnd` | a save: `inkstand_key_write` a line, its stream's error asked for at the last, as `keys.h` says is enough |
| `HandEdit`, `Restart`, `Load` | the file edited, and read at the next start by `inkstand_key_lookup` and `inkstand_fields_read`, line by line (`Given`) |

The application's part of `Form` is external: that it renames a file into place
only when it was told that every line was written, and that it reads what the
file has line by line, is what the two headers ask of it.  A line of the file is of
rows that hold numbers (`codec` is `"none"`), the text of the others being
inkwell's to escape; and a row is on one line.  No key is pressed and
nothing is typed in the middle of a save, which is one call of the application's.


## 3. The runs

| Run | Module, configuration | What it shows |
| --- | --- | --- |
| `screen_questions` | `MCScreen` | The scheduler's safety and liveness over every set of hooks, either order in a batch, arming that may fail, each way `init` can end; and over it a dialog that is never a trap, never accepted but after a move to its *Accept*, and not on the panel after it was answered. |
| `toast_calls` | `MCToast_safety` | Every call in any order; the queue full; the snackbar goes quiet. |
| `journal_ring` | `MCJournalRing` | The ring implements the window. |
| `journal_calls` | `MCJournalFile_calls` | Failures, torn writes and kills at every step. |
| `journal_torn` | `MCJournalFile_torn` | **Violated.** An acknowledged append can be unreadable (5.1). |
| `control_peers` | `MCControl_peers` | Answers in order and to their sender, a parked command answered and never by an older timer, nobody's lines thrown away but as in 5.4, a peer that hung up let go of; with a timer that may refuse, and with one that does not. |
| `control_path` | `MCControlSend` | Two programs and somebody else at one path; a sender whose program closes, is killed or loses its path; two senders at one program. |
| `inkstand_together` | `MCInkstand_together` | Each component implements its module; a picture is of a still screen, and of the key before it except in the case of 5.5. |
| `scene_script` | `MCScene` | Scripts of every kind of line, with anything the runner calls failing: each frame and its delay once, the film's time the scene's, every line at its end. |
| `recent_list` | `MCRecent` | The array implements the list, nothing is left in unused slots, and a restart gives back the list the caller had. |
| `form_rows` | `MCForm` | Rows of every kind: printed and read back, typed, walked; a record file through a failing stream, an editor's hand and a restart. |
| `form_limit` | `MCForm_limit` | **Violated.** A number past the limit can be taken (5.2). |

`CHECK_DEADLOCK FALSE` stands only where the system ends: in the configurations
of `Control` and `Inkstand`, after `inkstand_control_close` or a `quit` with peers
that have nothing left to say; of `ControlSend`, when the senders have returned
and the programs are over; and of `form_limit`, whose form has one row to type into.

### Bounds, and why they are enough

- **FrameScheduler**, **Dialog** and **Screen** have none: their state is finite.
  Two questions, one of them about subject 0; two layouts, side by side with a
  row behind them and stacked.
- **Toast**: `QueueMax` 3, which is `INKSTAND_TOAST_QUEUE` itself; `Stand` 2, the
  first with a moment that is neither the start nor the end; four texts, two of which are
  cut to the same notice.
- **JournalRing**: 4 slots, so that the parts on either side of `next` can have
  more than one record each and be of different lengths; 2 records, which tell
  every pair of slots apart in some behaviour; `MaxDropped` 3 bounds the
  `uint32_t` count and lets the ring go almost all the way round again after it wrapped.
- **JournalFile**: two records, two subjects, files of at most three pieces and
  one piece.  Three is what a torn piece between two others takes, the second
  subject is there for a wipe that fails at one name and goes on.
- **Control**: two peers, since one is served and the other is in its way; one
  sends a `shot` and then a line in two pieces, and may stop reading; the other
  reads, and sends a `wait`, a line longer than the buffer and a line behind that.
  A buffer of two pieces, so that it fills behind a parked command and overflows with
  a whole line still on the wire.
- **Inkstand**: one peer with an empty line, a `key`, a `shot` and a `quit`,
  which is where the two components touch, and which may stop reading; everything of
  the scheduler.
- **SocketFile** and **ControlSend**: `Inodes` 2, the least with which an inode
  is used again while another is held.  `Plans` says who takes part: two programs
  and an outsider with two moves (clear, put); one program, a sender and an outsider
  with one; one program and two senders.  `AnswerMs` 2 ticks.  One script has a `wait`,
  a blank and a plain command, the other a `wait` spelled with a tab and a line
  that is too long.
- **Form**: integers of 8 bits (`IntMax` 127) and words of 4 (`Word` 16), over
  which every value of a row is tried; identifiers of two hex digits, which overlap
  with what two decimal ones can say; texts of up to three digits and two places,
  which pass every limit by one digit; a track of length 1000, longer than any span is wide (the length is inkcell's);
  a file of two lines with three rows, one line put in by hand, anywhere.
- **Scene**: `FrameMs` 2 with a delay below it and one above it; holds that stay
  below the ceiling of 6 and that pass it; a cap of two frames on settling; no
  line begins once three frames are taken (a line may take more).
- **Recent**: one name more than the three slots, so that the oldest falls off;
  two spellings, so that the newest of them has to win; lines of up to four
  fields, so that one may be left over.

### Fairness

Weak fairness, and only of what the program or the clock does.

- The loop polls, and each descriptor in a batch is served: inkwell's loop is a
  `while` over a `poll` and a `for` over what it found.
- A callback returns: none of them blocks (the sockets are non-blocking).
- Time passes: timers expire, the deadline of a `shot` comes.
- The toast: its driver dates what a press raised (`toast.h` requires it) and
  ticks its frames.  A dismissal need not be dated: `GoesQuiet` shows that ticks
  alone drain the queue.
- A sender takes its steps.  A program takes its own only where `prompt` is true, and
  `SendReturns` does not need it to: the sender's timeouts see to that.
- A scene's call runs on once it has begun; no script is promised a next line.

Nothing is assumed of publishes, of window events, of a screen coming to rest,
of presses, or of peers, who may never write, never read and never leave.


## 4. What is proved

All by TLAPS, for every value of the constants, under the `ASSUME`s named
(which TLC evaluates in the runs).

**FrameSchedulerProofs** (no assumption).  The invariant is built up in layers.
`Held`, which the run checks, is `TypeOK`, `ClosesWhatItOpened` and `ArmedFrameWillFire`: neither of
the last two is inductive without the other, because that an armed timer is on
the loop depends on the timer being open, and that it stays there depends on
who may close it.  `NeverStale` needs no more than that a drawing step drains
first.  `Timely` adds that while arming works a timer holds a deadline exactly
when `armed` says so, and that a moving backend has its frame: the second
needs the first.  `Askable` adds that a frame is owed only when there is a
snapshot to draw it from, without which a timer callback that finds none would
clear `armed` and draw nothing.

- `TypeCorrect`, `ResourcesAndArming`, `NeverStale`, `DrawnOnce`,
  `MotionIsFollowed`, `RequestsAreKept`

**NavProofs, the screen** (`SubjectAssumption`; `LayoutsAssumption`: in every layout each of the two
answers lies in some direction from the other, in none both ways, which is two boxes
that do not overlap).  A step of the screen is one of the scheduler or, for the application's, a
publish or a stutter (`StepIsScheduled`); so the theorems above hold on the screen.
`CursorIsNeverTrapped` is not inductive: what the panel shows comes out of the
scheduler's snapshot, so `PanelIsOfAQuestion` says of both that they are of some
question.  `PanelIsDrained` says that the panel is the drained snapshot and
that this is what is asked unless the store has newer; it needs `Held`, since a scheduler
that drains for a backend it has closed would part the two.

- `ScreenIsScheduled`, `ScreenKeepsTheScheduler`, `AnswersTold`, `NoTrap`,
  `PanelIsCurrent`

**NavProofs, the snackbar** (`ToastAssumption`: a queue of at least one, a standing time of
at least one, the empty text is not a notice).  `StaysOrderly` is about
`QueueIsOrderly`: no two neighbours of the queue are alike *and* what just arrived is
on its way, beside the types.  It needs the type invariant for the queue's bound; the step that
matters is a full queue giving up its head and taking a notice that differs
from its last.  `StandsTheWhole` rests on `Standing`: what has been stood and what
is left make up the whole time, once a notice is dated.

- `ToastTypeCorrect`, `StaysOrderly`, `StandsTheWhole`

**JournalProofs, the ring** (`RingAssumption`).  `RingImplementsWindow` is a
refinement proof: the initial state is the empty window, a push is an `Add`, a
fold is an `Amend` of the record at that age, and a finish is a `Read` that
does not move the window; every push counts, so none of them can be a stutter.  The lemmas carry the arithmetic: `NextSlot` (where
`% Capacity` goes), `WrapsOnce`, `PushAdds`, `FoldAmends`, and `ThreeReversalsRotate`, that the
two halves reversed and then the whole is a rotation, for every capacity and
every cut.

- `RingTypeCorrect`, `RingImplementsWindow`

**JournalProofs, the files** (`JournalFileAssumption`), for files of any length.  `JournalInv`
adds to the types what a call under way knows of its files (a temporary is
empty until it is written and whole until it is published, and what is about to be
published was read off the file as it still is), which temporaries somebody left, where an
acknowledged record is while the call that may remove it is under way, and that
a wipe has looked at every name it does not list any more.  What a pass over a file yields,
`Picked`, is a function on the lengths of the file, and a rewrite is exact only
because picking from what was picked is picking once; such facts are shown at the
least place where they could fail (`Least`, from the well-foundedness of `<`), since the
library's induction theorems cannot be instantiated.

- `NothingAckedIsLost`, `WipesTellTheTruth`, `ReadersLoseNothing`,
  `RewritesAreWhole`

**RecordProofs, the recent list** (`RecentAssumption`).  `RecentInv` adds that no two slots in use are of the same
name, and, while a line is being read, that the list is what was kept
of the fields read so far (`ReadSoFar`): only at its end is that the list of the line.
`ArrayIsTheList` is a refinement proof over the mapping `Written`.  A note is the
shift by one of the slots before the hole, which is the list without the noted
entry behind the entry; noting an entry of the array itself is a note of the
value it had before anything was moved, which is what `NoteOwn` says (its slip reads the
slot after the move, and TLC finds the list wrong).

- `SavingLosesNothing`, `ArrayIsTheList`

**RecordProofs, the forms** (`CodecAssumption`, `ScaleAssumption`, `RecordsAssumption`,
`FormAssumption`: integers of any width from 10 up, words and masks of any, presets that
increase, a decimal's limit that its width can hold scaled, which is
`codec.c`'s own check, a table that has no key twice, a form none of whose lines is
there twice), for texts, presets and files of any length.

A decimal is read digit by digit, so what is proved of one is about recursive functions.
The library's induction theorems take an operator and cannot be instantiated; the
proofs use that a set of numbers which holds 0 and the successor of
what it holds is all of them (`Induct`, from the well-foundedness of `<`), and that a recursive
definition is what its steps say (`StepByStep`).  On these rest `NumberOfTwo`, that digits behind
digits are a number times a power and a number, and `NumeralReads`, that a numeral reads as
what it is of.  The rest is division: there is one quotient
and remainder (`DivUnique`), dividing twice is dividing by the product (`DivDiv`).  `WholeIs`
is where the width comes in: until the limit is passed nothing wraps, and the
step that passes it does not wrap *if* ten times the limit and nine is held.
`TypedTextIsTaken` has that as its hypothesis, `LimitsFit`, and cannot do without it: finding 2
is a limit for which it fails.  With it `DecimalParseIs` and `IdParseIs` are equations
between what the code does and the set of values a text can mean.  `NoRowDrifts` does not need it,
since what is printed of a value within the limit does not pass it.

The walks are about the least and the greatest of sets: `StepIsTheNext` for the presets,
`PositionIs` for the track, where two divisions in a row must not take a value past the
next mark, `LapIs` for the choices, whose lap is a recursive function again and
is closed in `Lap`: twice the range has to fit a word.

`FormStays` is the invariant of the form, `FormInv`: every row holds what its type can be given, a
stream that has not failed has the lines of the values for as far as the save has got, and
the file is those of the last save that was told to have worked, all of them, with at most lines of a hand
between them.  `LoadedIsSaved` follows, as a row's own line gives it back its value
(`OwnGives`: the key is found, every token reads, none before it stops the walk), and any other
line that gives a row something names it and says that (`LineGives`).  That
the values are sound has to be in it because of a restart: what a foreign line gave is what the
next save writes.

- `FormStays`, `NoRowDrifts`, `SavedIsLoaded`, `WalksGoRight`, `TypedTextIsTaken`

**ControlProofs** (`ControlAssumption`, `DeafAssumption`), for any peers, whatever they have to say and any
size of the buffer.  Answers are compared with lines, so the invariant has to say where
every line is: the wire, and before it the buffer, hold the last lines said
(`StreamKept`), and each line run that is due an answer has had it, or is the
parked one, which is the last of them (`RunAnswered`).  That a parked command is not answered by an
earlier timer needs `TimerKnown`: a timer event may be in the batch with
nothing parked, but then no line can run before it is served, because the client's event is not
in that batch and no callback is running lines.

`ServedIsHeardOut` is about lines thrown away, and each of the ways to lose a line has its own
reason.  A peer about to be let go of at its end of file has been read to that end (`DropIsDue`), so
what is lost is in the buffer, and it is there only because a command is parked, before them in the
script and without its answer (`BufferedIsBehindParked`).  A line too long leaves the buffer full of its
pieces, and what is lost is on the wire behind them (`WireIsBehindTooLong`).  An answer that is not
taken needs no more than `Untaken`.  These reasons have to outlive the loss: a line is lost with its
connection (`LostIsOver`), nothing is answered on a connection that is over, and a peer
that is gone does not come back (`ExcuseStays`).

- `ControlInvHolds`, `OneAnswerACommand`, `BufferIsRunDry`, `PeersAreHeardOut`

**ControlSendProofs** (`SocketFileAssumption`, `ControlSendAssumption`), for any programs,
inodes, plans, senders and scripts.  The claims about the path need that the inode of a program not
through with its close is nobody else's, unless the file was made within that
close (`InodesAreHeld`), and that a program past its `stat` that is not blind knows its file
while it is there (`SeesItsOwn`).  `AnswersComeInTime` is about clocks: a sender that waits for a prompt program
has waited less than its patience for this command (`WaitsInTime`), which starts at zero for
each.  `SendersTellTheTruth` relates three sequences, the script, what was printed and what ran.
`ToldInv` says where they agree at each point of the sender's loop: every real command before the one
it is at has its line (`LinesAreKnown`); what ran is what it has an ok for and at most the command
it is at (`RunsAreKnown`); and what is still on the wire, also after the
sender has given up, is about that command (`WireIsKnown`), so that an answer that comes too late
cannot be taken for a later one's.

- `PathIsTrue`, `UnlinkTakesItsOwn`, `AnswersComeInTime`, `SendersTellTheTruth`

**SceneProofs** (`SceneAssumption`), for every interval, delay, hold, cap and ceiling.
A call of the runner is a stack of tasks, `todo`, so the invariant `SceneInv` is over what is left of it.
`InOrder` says that the stack is well formed: a frame is drawn, its predecessor's delay
handed over and then it is taken, with nothing between, and a finish ends its call; that is
kept because whatever is put on top of it is well formed by itself (`OnTop`, `OnTopOf`).  Then how many
delays the sink has had is a function of what is next (`DelaysSoFar`).  That the clock stays
within the film needs `IntervalLeft`: what moves was taken for one interval only, or held longer, so that
the next turn of a settle has an interval left to advance.  `EndsSettled` looks at the last task of a
line, which is why nothing put on top of it can take its settle away.

- `FilmAndClockAgree`, `MotionIsFilmed`

**InkstandProofs** (`InkstandAssumption`), for any peers, scripts and size of the buffer.
`StepOfEach` shows for every step of the loop what it is to either component: a
callback of the frames is a step of the scheduler and, to the socket, a turn of
`settled` between two of its callbacks or nothing; a press run off the socket is, to the
scheduler, a store that publishes, or nothing if it had; a poll is a poll to each
that has something ready.  It needs to know two things, the scheduler's types and
that a closed socket has nothing on the loop (`ClosedIsClosed`).  The theorems about each component are then
instantiated with what it sees of the loop (`WhatEachKnows`), and what is claimed of pictures
rests on them: `PicturesAreStill` on the scheduler's `TimerFollowsMotion`,
`PicturesShowTheKey` on `TimerKnown` of the socket and `Held` of the scheduler.  The
argument for the last is `KeyIsOnItsWay`: no line runs between the poll that finds
the control's timer and the answer, so the wake of a key that is not drawn yet was
found by that poll or was there before.

It assumes that arming works, and has to: a connection that is let go of
with its timer still running, because disarming failed, leaves a timer that may be in the batch in
which the next connection's `key` and `shot` are read, and then answers that shot before the
wake is polled.  TLC finds this with two peers when `ArmMayFail` is true and
the condition is dropped.

- `EachKeepsItsSpec`, `BothKeepTheirWord`, `PicturesAreStill`,
  `PicturesShowTheKey`

**Model-checked only.**  Liveness (`ArmedFrameIsDrawn`,
`ComesToSettle`, `GoesQuiet`, `EveryCommandIsAnswered`, `HungUpIsLetGo`,
`SendReturns`, `LineReturns`): fairness and `ENABLED` are out of the prover's
reach.  The two runs that end in a counterexample are, of course, not theorems.


## 5. Where the code and its documents part

Two are runs that end in a counterexample, with the sentence it contradicts
quoted in `PROJECT.json`.

1. *An append after a torn one is acknowledged and unreadable*, since it
   continues the torn line (`journal_torn`).  `FilesAreAccountedFor` says that the
   record is at least still in the file.
2. *A number past the limit can be taken* (`form_limit`).
   `inkstand_form_decimal_parse` multiplies a digit in before it looks at the
   limit.  With no places the limit may come within one of `INT64_MAX`, and then a
   number one digit longer overflows: `18446744073709551617` is 1 where arithmetic
   wraps.  `TypedIsTaken` says that where ten times the limit and nine fits, a text is
   taken for exactly the number it says.

Three are bounded by a property that holds, which says that what is described
here is the only way.

3. *A requested frame can be lost.*  `frame_scheduler.h:108-109` promises one
   more frame.  `request_frame` between the timer's and the wake's callback of one
   batch: the wake finds the store drained and arms with "is it moving", which is
   no.  `RequestedFrameIsKept`, proved, excepts only this.
4. *What a peer sent before hanging up does not all run*, as `control.c:241-242`
   has it.  There are three ways to lose lines, of a peer that only stopped writing
   too: a `wait` or `shot` still parked at the hang-up takes those behind it along
   (`control.c:243-254`); a line that fills the buffer takes those still on the socket
   along (`control.c:194-201`); and an answer that is not sent whole drops the peer,
   whether it is gone or has merely not read the answers before (`control.c:63-67`).
   `ServedIsHeardOut`, proved, says that there is no fourth, until the control is closed.
5. *A `shot` after a `key` can be the picture before it*, against
   `control.h:20-21`, when the control's timer is served before the wake of the same
   batch.  `ShotShowsServedKeys` claims it where the wake was served.

More was noticed than is claimed:

- A direction and a confirm pressed before a dialog's own frame is drawn accept it:
  the keys ask for a move, not for what is on the panel.  `AnswersAreMeant` claims the
  move, and which question is answered, and no more.
- A tick before `date` takes an undated notice down at once.  `toast.h` tells the
  driver not to (`must before the next tick`), so `AwaitsDate` keeps it from happening and
  nothing is claimed of it.
- `toast.h` says that a repeat of what shows is dropped.  It is queued when
  another notice already waits, since only the last of the queue is compared
  then.  `QueueIsOrderly` is what the code keeps to.
- An arrival between a dismissal and the `date` after it goes ahead of those
  that wait.
- Two notices dated in one millisecond have equal deadlines, by which a backend
  is told to tell notices apart.
- When the scene's sink refuses a frame, the delay of the frame before it has
  been handed over, and the next frame hands it over again.  `scene.h` does
  not say whether a script goes on after a failed line.
- A dialog's map test asks for the identifiers of its answers, so the map of an
  earlier dialog with the same base stands for its own (section 2).
- `wait` followed by a tab is a wait to the listener and not to the sender, which
  then gives up at its plain timeout; `HealthyIsInTime` excepts it.
- An answer may be longer than the sender's line: the listener's reply has room
  for 32 bytes more than `INKSTAND_CONTROL_LINE_MAX`.
- The listener closes a second connection right after `error busy`; a sender whose
  command comes later gets `EPIPE` and never reads why.
- Bytes of one size can have a base64 that is all hex digits and as long as the
  hex of another size two thirds of it.  `RowsReadBack` claims nothing where a row
  allows two such sizes.


## 6. What is left out of the models

- Bytes: text formatting, paths, the encoding of a record, the pixels of a
  frame.  `Cut` in the toast and pieces in the journal are what is left.
- The mode of the socket file (`umask`), a path too long, and the sender's partial writes:
  a command is shorter than any socket's buffer.
- An `accept` that fails: the connection stays in the backlog and the listener is
  ready again.  The sender's `socket` that fails and its `connect` in progress, which
  are one retry of `Connect`; and `-EPROTO`, its end at an answer longer than its line.
- Hooks of the frame scheduler's backend that are null where the code looks
  (`init`, `present`): the run's backends have both.
- A verb's own frames before the scene runner's: a verb is one step that may set things
  moving.  `Delays` are within the ceiling; `inkstand_scene_init` does not hold
  `config.delay_ms` to it.
- Preset lists that repeat a value: `scale.h` asks for increasing ones, and the code
  only keeps from dividing by the zero between two of them (`IsPresets`).
- In `fields.c`: the bound of a boolean and the refusal of a number past
  `UINT64_MAX`, since no row of the form reads a boolean or is that wide; NaN in a
  real, and the digits that `%f` does not print.
- In the forms: the shape of an escape, exponents and hexadecimal in a real (a
  token is a number, or not one), the space around a text, and steps of a choice row
  of more than 2^31 values, where `value + forward` wraps.
- `inkstand_form_section_has_fields`, `inkstand_form_bit`, the names of an enum and
  `text_max`, which look something up in a table.
- The words of a scene's lines, `run_file`'s 512 bytes a line, and the checks of
  the application's verb table in `inkstand_scene_init`.
- Signals and threads: the library has none of its own.
- The journal's `init`, the path builder, `exists` and the over-cap report: the
  first two format and refuse, the last two only read.
- A power loss, as against a kill: whether a rename is durable is inkwell's
  contract.


## 7. Plan

The components are modelled, and so are the places where they meet; every
safety property that a passing run checks is also a theorem.  What is left:

1. The liveness properties stay model-checked: the proof system reasons neither
   about fairness nor about `ENABLED`.
2. The lines with no state behind them, listed in section 6, are left out of the
   models on purpose.
