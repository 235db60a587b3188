# csync in TLA+

csync lets one person, at a *console*, reach other machines for a while
(*targets*: an invite, a reverse ssh tunnel, a teardown), and runs two services
on a Raspberry Pi: a *media* service (player, library, notes, reminders) and an
*assistant*. A phone app shows both; its reference implementation is a
JavaScript mock. This directory models the parts of it in which several actors meet
over shared state, checks them with TLC on small instances, and proves what
matters most for every instance with TLAPS.

Paths below are relative to the repository; line numbers are of the commit the
modules were written from.

## 1. Inventory

| Component | State it keeps | Operations | Meets |
|---|---|---|---|
| **Console session registry** `csync/{invite,relay,teardown,tunnel,state,cli}.py` | `hosts.json`; the relay's `authorized_keys`; `known_hosts`; the ssh config; `invites/<id>/`; one flock | `invite`, `teardown`, `forget`, `revoke --all`; `relay-hello`, the forced command sshd starts for each tunnel, with its goodbye handler | any number of terminals, one `relay-hello` per tunnel, sshd, signals |
| Console set-up and upkeep `csync/{doctor,funnel,ops,recipes,keys,emit,envcfg,paths,errors}.py` | the config file, keys, the relay daemon | `init`, `doctor`, `run`, `shot`, `logs`, ... | tailscale, launchctl, ssh |
| **Target** `bootstrap.sh`, `target/*.sh` | `~/.csync/` (state, ledger, `teardown.requested`, `root.done`), the root directory with the deadline, the sshd drop-in, the keeper | bootstrap; user and root half of the teardown; the 15 s timer; the keeper loop; the gate | the console's teardown, the timer, the friend at the machine |
| **Assist: chat** `assist/{chat,conversations,main,stream,claude,openai*,gemini}.go` | one JSON file per conversation (transcript and history); the run registry, in memory | `/chat`, `/chat/stop`, `/reset`, rewind, settings, `DELETE` | a goroutine per request, the providers, tools, restarts |
| Assist: tools, attachments, keys `assist/{tools*,media_tools,attach,phone,providers,config}.go` | a file each | called by chat, or by the phone | the media service |
| **Notes** `media/notes_store.py` | a git repository of one file per note; the commit count cache | create, update with `expected` revision, resolve, set_meta and arrange, pictures | a thread per request, the Mac's pushes and pulls |
| **Reminders** `media/reminders_store.py` | template, run, state, stop and device files under one lock | run_add, run_state, run_stop, device_set, cleanup | phone outbox, Mac through git |
| **Player on the Pi screen** `media/server.py` | the player's state with a revision and a generation; mpv | play, commands with `expectedRevision`, immediate stop, the tracking thread, wallpaper | requests, mpv, an upload being cast |
| **Player on the phone** `media/server.py` | session, generation (in SQLite), lease; the command queue | register, heartbeat, command, pending, ack | phone, other devices, restarts |
| **Library, uploads, cache** `media/library.py` | the drives' files; the upload lock | import with early play, save_file, clean_cache, rename, delete | uploads, the player |
| Camera, screen, displays, Instagram, system `media/*.py` | a process each | start, stop, set | ffmpeg, wlr-randr, yt-dlp |
| Agent `agent/*.go` | a marker cache, the config | send, whoami, peers | other machines |
| **Phone app** `assets/android-ui-mock/{app,model,screens,sheets,kit,data}.js` | one object: place, sheet, panel, full screen, notification; a session per output; what is shared, notes, pins, captures; conversations, draft, models; the browser's timers | a tap, a key, a typed address, a timer | the person; timers that finish what a tap began; the Pi and the network, which come and go |
| App: drawing, icons, review page `assets/android-ui-mock/{kit,icons,review,system,check}.js` | none of its own | markup; buttons that put the app in a state | whoever reviews the app |
| Examples, assets, tools | | | |

What is hard, and what each has to get right:

* **Console.** Commands are processes, so the only order between them is one
  flock; some reads come before it (the cap on invites, the record a teardown
  works on), five files are written one after the other inside it, and the
  goodbye of a tunnel is a signal handler that takes the lock as well. Right
  means: no line in `authorized_keys` that nobody can find again, no port given
  to two hosts, a record that follows the newest tunnel and not an older one's
  end, a revoke that leaves nothing open, and a goodbye that ends.
* **Target.** Two halves under two users signal by files, each may be started
  by the person, the console, the timer or the deadline. Right means: whatever
  order they run in, sshd and the keys end up as they were, and the session
  ends at the deadline even if the console is gone.
* **Chat.** Each save is atomic, but a reply is many saves; rewinds, deletions,
  stops and restarts fall between them, and a save may fail. Right means: one
  reply at a time, its entries together and in order, the model replayed what
  the person sees, the history bounded, and a conversation that is free again.
* **Notes.** Read, compare and write without a lock in a threaded server, with
  another machine pushing commits. Right means: no edit is lost without a clash
  block; the shared order is total and stable.
* **Reminders.** An outbox repeats and delays; two machines write different
  files of one run; a cleanup removes old ones. Right means: one run per id, a
  finished run stays finished, late ones are missed or ring once.
* **Players.** A revision guards every command; a tracking thread and a polling
  starter let the lock go between looks. Right means: no progress saved for, no
  screen cleared under a later item; a phone command applied at most once, and
  never by an older session.
* **Uploads.** A file may be played before it is whole, a failure removes it.
  Right means: a failed send leaves the folder as it was.
* **Phone app.** Everything happens in one thread, but a tap is often finished
  by a timer, and anything may be tapped in between; many surfaces show one
  session, and a sheet speaks of things by name or index that may be gone by
  then. Right means: what a page says is under way is finished by a timer, no
  surface and no sheet outlives what it is about, nothing is replaced, deleted
  or sent elsewhere without being asked, and what was not delivered is kept.

`PROJECT.json` lists the components with their status and every hazard at its
line, with the properties that cover it, or why none does.

## 2. Plan

| Order | Module | Composes with | Abstract specification | Status |
|---|---|---|---|---|
| 1 | `ConsoleSession` | - | what a revoke and a teardown promise, as properties | modelled, checked; invariants and action properties proved |
| 2 | `Dialogue`, `ChatRuns` | `ChatRuns` implements `Dialogue` | `Dialogue` | modelled, checked; its promise, the refinement and all the chat's invariants proved |
| 3 | `NotesText`, `NotesStore`, `NotesAtomic` | requests of `NotesStore` that nothing gets in the way of implement `NotesAtomic`; the Mac's pushes and the writers as environment | `NotesAtomic`; every save a version, as a property | modelled but for order, colours and pictures; checked; types, safety and the refinement proved |
| 4 | `PhoneRemote` | the network, restarts and the phone as environment | at most once, as properties | modelled, checked, types and safety proved |
| 5 | `AppPlaces`, `AppPlayer` | `AppPlaces` is the map all of the app stands on | - | modelled, checked, invariants and `ReplacedWhenAsked` proved |
| 6 | `AppItems`, `AppChat` | each on `AppPlaces` | - | modelled but for what section 9 names; checked, invariants and action properties proved |
| - | `RemindersRuns` | phone outbox and Mac as environment | a run's life: waiting, going, ended | not written |
| - | `PiPlayer` | mpv as environment | - | not written |
| - | `TargetTeardown` | keeper, timer, both halves | the machine as it was | not written |
| - | `NotesOrder`, `MediaUploads` | - | - | not written |

The app's three modules share the place and the sheet, but no session, note or
conversation: each leaves the other two's pages as places without content.

Runs: a passing instance per module (two for the console), bounded so that each
hazard listed for the module happens in it. Where the code and the repository's
own words disagree over an interleaving, a run shows it (four of them); the
other disagreements are told in section 8. Theorems: every
safety property of every passing run is stated by one; only the four liveness
properties are open to TLC alone (section 9). Modules that are
proved about have no `RECURSIVE` operator.

## 3. ConsoleSession

State: `hosts` is `hosts.json` (name to id, status, port, hello pid; the other
fields are only shown to a person); `relayLines` the `csync-invite` lines of the
relay's `authorized_keys`; `knownHosts` the pinned port entries; `sshConfig` the
generated `Host` blocks; `inviteKeys` the directories under `invites/`; `lock`
who is inside `state.locked()`. `cmd[c]` is the command running in terminal `c`
with the record it has in hand, `hello[p]` the `relay-hello` process `p`,
`bound` those whose connection still holds the reverse port, `signalled` those
with a signal pending. Four history variables (`minted`, `revived`, `torn`,
`strays`) only help to state properties.

Actions: each write to a file is a step, since a process can be killed between
two writes and `open_invites`, `host_get` and the verification read without the
lock. Steps that only read or write the process's own data are joined to the
next write. `InviteCheck` .. `InviteSave` are `invite.create`;
`TeardownAsk` .. `TeardownVerify` the teardown verb and `teardown.run`;
`ForgetLock` .. `ForgetSave` and `RevokeLock` .. `RevokeSave` the two branches
of `cli.main`; `HelloConnect` .. `ByeSave` sshd's admission, `hello_main` and its
handler `bye`. `TunnelDrop`, `HelloCrash` and `CommandCrash` are the
environment. Time is not modelled: whether an expiry or a deadline has passed is
a free choice wherever the code looks.

Signals follow Python: before the handlers are set a SIGTERM kills; after that
`bye` runs, and may run again inside itself. The second `bye` opens the lock file
anew, so it waits for the first one's flock, in the same process (`stuck`).

Checked:

| Run | Instance | Shows |
|---|---|---|
| `console_terminals` | 2 terminals, every verb, 2 names, 2 ids, 1 port, 1 tunnel, cap 1; 1,325,732 states up to symmetry | `TypeOK`, `PortsDistinct`, `ConfigFollowsHosts`, `LinesBelong`, `RevokeClosesEverything` |
| `console_reconnect` | 1 terminal, every verb but revoke, 2 overlapping tunnels, 2 ids, fair; 1,313,662 states | `OfflineOnlyByOwnBye`, `ForgetSparesLive`, `ByeFinishes` |
| `console_teardown` | 1 teardown, 2 tunnels | `TornDownStaysDown` fails: a waiting hello revives the host |
| `console_cap` | 2 terminals that invite, cap 1 | `AtMostMaxOpen` fails: both count before either takes the lock |

Bounds: one port makes every second invite collide with the first one's; two
ids let a name be forgotten and minted again while a teardown or a hello still
has the old one in hand; two terminals are the fewest that race, and every race
listed is between two processes. In `console_reconnect` a teardown's kill meets a
dropped tunnel, so a process may get a second signal while its goodbye holds
the lock; it then waits for itself (`stuck`, section 8), and with it whoever wants
the lock after it. `ByeFinishes` says that this is the only thing that keeps a
goodbye from its end. In `console_teardown` the first tunnel answers the teardown
and the second one's hello waits for the lock.

A teardown asks the target first (`TeardownTarget`). A target that has said hello
and whose tunnel is up may answer that nothing is left; one that is not reached
leaves residue, as what it names itself does, and so does what `TeardownVerify`
still finds on the console. With any residue the command ends in `residue` (the
code raises), and only without it in `clean`, which `TornDownStaysDown` is about.

Fairness (`FairSpec`): a process inside its critical section, and a hello with
work to do, is scheduled (weak fairness); a goodbye waiting for the flock gets
it some time although others may take it first (strong fairness, flock's
waiters are queued). No command or tunnel ever has to start, and a command at
the person's prompt need not go on.

Proved in `ConsoleSession_proof` for all sets of names, ids, ports, terminals
and processes, and every cap: `Typing`, `DistinctPorts`, `PidWhenOnline`,
`LinesHaveHosts`, `RevokeCloses`, `OpenInvitesBounded`, `ConfigIsCurrent`,
`OwnByeOnly` and `LiveHostsStay`. Assumed are the five
named assumptions on the constants, none on the code. The argument: `IInv` adds to the
types what each process knows from its program counter (the lock is held by the
one process that is inside; the port a minted invite holds is used by no other
record that is not gone, unless a hello revived one). `LInv` says, of each
section, which lines may lack a record while it is under way: an invite's own
between its line and its save, and those a teardown, forget or revoke is about
to close. Neither `PortsDistinct` nor `LinesBelong` is inductive alone, since
both are restored only at the last write of a section. `CapInv` bounds the lines
by the cap plus the terminals that have passed the check and not yet written; so
`OpenInvitesBounded` (`InviteBound`, in the proof's module) says by how much
`AtMostMaxOpen` can fail, for any number of terminals.
`RevokeCloses` needs only that nobody else writes lines while a revoke is
inside. For `ConfigIsCurrent`, `ConfigInv` says of each section that the
config is that of the records until it is rewritten, and from then on that of the
records the section is about to save. `OwnByeOnly` is read off the six actions that
write records: only `ByeSave` writes "offline", and it looks at the pid under the
lock. `LiveHostsStay` needs, beside what `forget` looked at when it took the lock,
that a process which is recorded has started and none starts twice: so none comes
to life between the look and the write. `OnlineHasPid` is a part of `IInv` that no
run needs to check again (`PidWhenOnline`).

## 4. Dialogue and ChatRuns

`Dialogue` is what the assistant promises: a conversation is claimed by one
reply at a time, a reply is the owner's message, steps and at most one text,
each shown or lost to the disk, and the owner may cut the log back. It has no
source lines. `RepliesInOrder` is its consequence, and `Dialogue_proof` proves
it (`Order`): the invariant says that nothing in the log is newer than the reply
under way, and that what the reply has not yet said is not in it.

`ChatRuns` is the code. `saved`, `transcript` and `history` are the conversation
files, `running` the registry, `cancelled` the contexts cancelled, `run[r]` the
goroutine of the r-th accepted message: its program counter, the step count,
what the provider's reply still asks for and the final text. `convStore.change`
is one step (lock, load, alter, write to a temporary file, rename), so `UserTurn`,
`Item`, `SaveText`, `Answered`, `Rewind`, `Settings` and `Remove` are each atomic
and may each fail to save (`Failed`). The four runners share one loop: `Ceiling`
or `SeeStop` or `Ask`, `Words` while the reply streams, `Reply` or `CallFails`,
`Item` for each thought and tool call, `EndOfReply`. Messages are numbers, texts
are `none`, `empty` or `words`; only `answered` tells an empty text from words.

| Run | Instance | Shows |
|---|---|---|
| `chat_runs` | 1 conversation, 3 messages, `maxTurns` 2, `maxToolSteps` 2, saves may fail; 325,039 states | `TypeOK`, `ClaimedWhileActive`, `ModelSeesTheNewest`, `HistoryBounded`, `AnswersInPlace`, `RepliesInOrder`; it implements `Dialogue` (`IsDialogue`); `EveryRunEnds` |
| `chat_delete` | the same, disks that work | `RemovedStaysRemoved` fails: the reply writes the file again |

Bounds: three messages are needed to trim a history of two and then rewind into
the trimmed part; two steps let a run call a tool and answer, or hit the
ceiling; conversations share nothing but the store's lock, so one is enough for
these runs (the theorems are for any number).

Fairness: goroutines run and a provider call ends, since every client has a
deadline; a tool need not return (`run_command` has no timeout), so
`EveryRunEnds` excepts a run that stays inside a tool for ever.

Proved in `ChatRuns_proof` for all sets of conversations and replies, any number
of messages and every ceiling: `Typing`, `Claimed`, `Refines` (the chat
implements `Dialogue`), `Order`, `Bounded`, `Answers` and `SeesTheNewest`. Assumed
are the three
named assumptions on the constants. Two invariants carry them. `IInv` is the
types, `ClaimedWhileActive`, and that a request under way is about some
conversation and numbered no later than the last one accepted (so a new claim is
a fresh one). Every action is shown at once to keep it and to be a step of
`Dialogue` or a stutter: `Moves` is what all steps of a reply have in common,
and `SilentMoves`, `TellingMoves` and `GivingUp` say which step of the dialogue
each is by the phase before and after. `Order` then is the theorem of
`Dialogue_proof` under the refinement mapping. `HInv` is about what the model is
replayed, by how far the reply under way is: before its message is saved
everything in the history is older than it; after, nothing is newer, its own
message alone is as new, and there is room for one answer more. Neither
`HistoryBounded` nor `AnswersInPlace` is inductive without that: `answered`
appends without a look at the length or at what stands last.
`ModelSeesTheNewest` counts the owner's messages from the end: each one in the
history has as many behind it as in the transcript. Trimming takes entries off
the front and changes no such count; a new message adds one to all; a rewind
takes the same number off both. It is an invariant together with `HInv`, by
lemmas on what appending and cutting do to `Behind`.

## 5. NotesStore

`file` is the working tree, `index` what the next `git commit` would hold, `log`
the versions of each note, `lock` git's `index.lock`, `req[w]` the request of writer
`w` with what its thread has in hand, `copy` what each writer was last told of each
note (the text and the revision it sends back as `expectedRevision`).

The server starts a thread per request and `NotesFolder` has no lock, so a
request is its reads and writes: `LookSave`, `Compare`, `Write`, `Fill`, `Add`,
`Commit`, `Answer`, `Count` for a save, then, when a pin was sent along, `LookMeta`,
`Write`, `Fill`, `Add`, `Commit` before the answer. `LookResolve` and `Check` begin a
resolve and a deletion. `Write` empties the file and `Fill` writes it, as `write_text`
does. `git add` and `git commit` do nothing when something else has the lock, since
their result is not looked at: another request in git (`OthersInGit`), the Mac's push
(`PushBegins` to `MacPush` or `PushFails`), or a lock left behind. `Dies` is a git call
that takes more than its 20 s and is killed, which may leave the lock for good, an
answer that is lost, or a restart; `Retry` sends the same again and `Reload` gives up.
The push needs a clean working tree (`Clean`, git's `updateInstead`). An edit is a
number, in a title or as a line of a body; the three marks of a clash block are
lines as well, and an edit may replace one, as people do by hand. `Settled` goes
through the lines as a recursive function; with what a note and a clash block are
it is in `NotesText`.

`crossed` is a history variable: the requests under way that something got in the
way of. Every write, `add`, `commit` and push of one crosses all others under way
(`Crosses`); a request is crossed from the start when a file is half written
(`Begins`), and by a lock that makes its own git command do nothing (`Git`). It
restricts nothing: every overlap stays in the model, and the properties say of which
requests they hold. What the others come to is `notes_race` and section 8.

`NotesAtomic` is the folder as its writers may think of it, and has no source
lines: text, versions and what each writer was told, with a step each to create a
note, save it, pin, settle or delete it, to take a version of all that changed, and
to tell a writer what there is. A save there either replaces the words (its writer
knows them) or puts both sides of a clash. In the mapping an emptied file is the text
that is about to be in it (`Shown`), and what a request asks is its record; the
index, the lock and what a request has in hand are left out.

| Run | Instance | Shows |
|---|---|---|
| `notes` | 2 writers, 1 note, every kind of request, 4 requests and pushes, 1 of them begun while another is under way, 1 death anywhere; 3,248,919 states up to symmetry | `TypeOK`, `SettleKeeps`, `SaveIsVersion`; requests that nothing crossed implement `NotesAtomic` (`UncrossedIsAtomic`) |
| `notes_race` | creates and saves, one overlap, no death | `NothingLost` fails: an overlapping save takes the other's words away |

Bounds: an edit each for the note, a save, a save that clashes with it and a
save that clashes with the block, which is the least that nests blocks; two
writers are the fewest with copies of different age and the fewest that overlap. One
overlap is one pair of requests in every order of their steps, or a push in any
place of one; one death leaves a half-written file, a text no version has, or a
lock, to up to three requests after it. With two overlaps (26,753,808 states) or two
deaths (4,807,142) the properties held as well; the proofs are for any number. The folder may
rest, so deadlock is not checked here.

Proved in `NotesStore_proof` for all sets of notes and writers and all bounds, with
no premise but the two named assumptions on the constants: `Typing`; `Settles`, with
`SettlesTexts` and `BothKeepsEveryLine` for a text of any length; `SavesAreVersions`
(`SaveIsVersion`) and `UncrossedAsSingleSteps` (`UncrossedIsAtomic`), whatever
overlaps, pushes and dies. `Inv` is the inductive invariant of all of them. `Texts`
and `Others` are the types; `Asking` says what a request asks for at each of its
steps; and of a request under way that is not crossed, `Alone` says that no other
one has emptied a file, and `Fresh` that what it has in hand is still about the file
and the log as they are: one that compares has the file's text, one about to write
has what NotesAtomic's step makes of it (`Makes`), its edit is in the file once
written and the file is the newest version once committed. `Step` and the lemmas
beside it say once for all what a step of one request does to this: either it
leaves the folder alone and crosses nobody, or it crosses all the others, of whom
nothing need be shown then. A save about to write holds its own line, the block of a
clash included (`WordsBlock`). A request that dies leaves its text to the next
one's `add`, and it is that one's commit that takes the version: so the text of
`NotesAtomic`, its versions and its tellings each change in steps of their own.

The first part of the module proves induction and recursion on the naturals in a
form that takes sets and functions in place of operators (`NatSetInduction`,
`UpToInduction`, `RecursionUpTo`): if 0 is in `S`, and `n + 1` with every `n`, the
numbers up to `n` that are not in `S` would map one to one into themselves without
`n` when moved down by one, against the pigeonhole theorem. `SettleFacts`,
`BothInOrder` and `BlockSettles` use it over the lines of a text: with both sides
the owner's lines keep their order, and of a whole block one side is that side.

## 6. PhoneRemote

The phone plays by itself and tells the service; whoever wants to steer it
leaves a command with the service, which the phone polls for and acknowledges.
`generation` and `progress` are in the database; `phone`, `revision`, `sequence`
and `leased` are `self.phone`; `status`, `owner` and `late` are `self.commands`.
`askedFor` and `askedAt` are what a sender had read when it asked, `open`, `seen`,
`done` and `reports` what the phone did. `settled` is a history variable.

Each handler that works under the service's lock is one step: `Register`,
`Heartbeat`, `Command`, `Poll` (`pending_phone`), `Result` (`ack_phone`).
`save_progress` takes the lock for its first look only and then reads and writes
the database, so it is `Save`, `Read` and `Write`. The network is not a set of
messages: a request that was ever sent may arrive at any later time, any number
of times, so a handler's guard asks only that the sender could have sent it (a
heartbeat carries a report that was made, an acknowledgement something the phone
did), and an answer that is lost is the branch in which the phone's state does
not change. `LeaseEnds` and `TimePasses` are the clock, `Restart` a restart of
the service, which keeps the database only.

| Run | Instance | Shows |
|---|---|---|
| `phone_remote` | 1 command, 2 sessions of 2 reports, 2 threads that save progress, fair; 472,433 states | `TypeOK`, `RevisionCounts`, `SettledForGood`, `CommandsEnd`, `ForwardUnlessOvertaken` |

Bounds: two sessions are needed for anything old to arrive late, two reports
for the second to overtake the first, two threads for two uploads of the place to
meet in the database. A command meets every session, heartbeat, restart and its
own copies; that one command changes the revision another was asked at needs a
second one, with which (and one thread) the properties about commands hold too,
in 1,176,685 states.

Fairness (`FairSpec`): time passes for a queued command, and a phone that plays
polls. `CommandsEnd` needs both, and excepts a phone that ended or plays in a
session the service has replaced; its commands then stay `queued` for good,
since only a poll lets them expire and only a poll of the newest session counts.

Proved in `PhoneRemote_proof` for every finite set of commands, any threads and
all bounds: `Typing`; `Asked`, that a command belongs to the session it was asked
for and to no other, with the generation it is delivered to; `Settled`; `Counts`;
and `Progress`. Assumed are the two named assumptions on the constants.
`RevisionCounts` is a count of a set, so each step of it is one more element or
none (`Result`), or the empty set (`Register`: no command belongs to a generation
that is not drawn yet, which is the strengthening). `ForwardUnlessOvertaken` is not
inductive: `saving[t].found` is what thread `t` found in the database, and what it
is about to write is newer than that (`StillNewer`); so the place goes back only
where what it found is there no more. With two threads that does happen, against
`docs/media-system-plan.md:109` (section 8); the property says that nothing else,
no late, repeated or replaced report, takes the place back.

## 7. The phone app

`AppPlaces` is the map of `model.js`: five places in the bottom bar, every other
one a page with one parent, and the functions the program computes from it
(`PathTo`, `BarOf`, `BackTarget`). `MapIsShallow` is what `check.js` checks of it.

A tap, a key and a timer are handled one after the other, so each is one action,
and the render after it is no step of its own. A sheet does not hide what it lies
over from the keyboard, so an action is offered whenever its control is drawn
somewhere. `S.place` is `place`, `S.sheet` is `sheet`, and so on; positions,
volumes, titles and words are left out, and what a title is (plays on both
outputs, is this phone's screen, or is only shown) is its set.

`AppPlayer` is playing: `title`, `source`, `flags` (live, busy, paused, error),
`value` and `pending` are the two sessions, `timers` the browser's. `PlayFrom` is
`play()`, which asks first when something else plays; `Begin` is `start()`;
`MovePlayback`, `Stop`, `Pause` and `Change` the controls; `Loaded`,
`PauseAnswered` and `Applied` what the timers do, which look at the session again
as the code does. `Mini`, `Panel`, `Page`, `Notification`, `FullScreen` and `Card`
say where a session is drawn, and with it which controls exist.

`AppItems` is Share (recipient, message, attachment, what was tried), notes and
pins, and the camera's captures; `AppChat` the conversations with the one draft,
attachment and choice of model they share, the fork and the sheet of models. A
message there is an object that a list refers to, as in JavaScript: `messages[t]`
are the objects of conversation `t` and `said` what each says. A reply made anew
is rewritten in place (`Regenerate`), so that a fork which did not copy its
messages would show it in both conversations; the code's `clone` copies them
(`Cloned`).

The one way to a note that asks nobody whether it exists is in `AppItems` as well:
'Open in Notes' under what the assistant found opens one note by its id
(`OpenFromResult`). `linked` remembers that the page was entered so.

| Run | Instance | Shows |
|---|---|---|
| `app_player` | 1 video, 1 cast, 1 still on both outputs, 1 setting of 2 values, fair; 152,932 states | `TypeOK`, `WaitsAreArmed`, `DrawnForSomething`, `ReplacedWhenAsked`, `WaitsEnd` |
| `app_items` | 1 device online, 1 not, 1 file that is the clipboard's image too, 1 note, pin and capture and room for one more; 2,176,512 states | `TypeOK`, `ShownExists`, `NoticeIsTheLastTry`, `AttachmentKept` |
| `app_chat` | 2 conversations (1 archived) and room for a third, 3 models, 3 messages in a conversation; 3,355,488 states | `TypeOK`, `PickedIsHere`, `OnlyTheOpenOneChanges` |

Bounds of `app_player`: three titles, one of each kind, so that two videos or a
video and a show meet on the Pi; `Sources` is the drive only, `Reach` the
conversation and the camera, whose pages show something on the Pi as well (other
places are reached by the taps that lead there), and settings
are changed on the Pi's session, since a second output's setting meets the first
one's nowhere. With `{"phone"}` for `Sources` all five properties held as well
(842,244 states), too slowly for a run that is repeated often; the proofs are for
any. Of `app_items`: the list of what was tried keeps one entry, which is the one
the notice is about; one new id is enough for something made and deleted beside
something that was there. Of `app_chat`: three messages let a sample
conversation be cut, forked and made anew, and a fork or a new one grow; the
second model has no "Off" and the third is not set up. Nothing is bounded in the code: `MaxSent`, `MaxItems`,
`MaxNew`, `MaxThreads` and `MaxMessages` are the model's.

Fairness (`FairSpec` of `AppPlayer`): a browser runs every timer that stays armed.
Nobody has to tap anything, and `WaitsEnd` asks for nothing that needs a tap.

Proved in `AppPlayer_proof` for all sets of titles, sources, reachable places and
settings: `Typing`, `Drawing`, `Waiting` and `Replacing`. Assumed are the three
named assumptions on the constants. `IInv` has four parts. `Surfaces` says of each
sheet what it may name (`Fits`: only a video is asked about for the phone, only
what can move is offered Move) and holds `DrawnForSomething`; `Playback` that what
is only shown on the Pi is marked live there (`ShowsAreLive`), without which Move
could bring it to the phone; `SettingTypes` and `Awaited` are the settings and the
timers. `Replacing` follows from `IInv`: the one way to a new title that asks
nothing, `play()` of the title that plays already, changes none.

Proved in `AppItems_proof` for all sets of devices, files, items and bounds:
`Typing`, `WhatIsDrawnExists`, `NoticeIsCurrent` and `AttachmentsStay`. Beside the
properties `IInv` says that a delivery in the list is of a thing that can be sent
again (`Sharing`), and what the argument of each sheet names (`Fits`), files
included, since what such a sheet sends becomes a delivery. `WhatIsDrawnExists` excepts
the page that the assistant's link opened: the code draws it without a look, and
for a note deleted since that fails (section 8). `NoticeIsCurrent` is about the title
in the notice only.
Each sheet about the shown note or pin lies over that page, so that deleting the
item, which leaves the page, leaves no sheet behind. What is put first in the list
of deliveries never makes it shorter (`PutFirst`), so an index into it stays one.

Proved in `AppChat_proof` for all sets of files and models and all bounds: `Typing`,
`PickedStaysHere` and `OthersStay`. A sheet outlives the tap that opened it, so
`Fits` says what an open one names: a fork's sheet a message of the conversation it
lies over, the sheet of models a scope. Places are left with the sheet and the
picked message (`Arrive`), and the open conversation gets no shorter, so both stay
messages of it. `OnlyTheOpenOneChanges` needs `Own`, that every message of a
conversation was made for it, so that no two lists share one and a rewritten reply is
in one place only, and `Unmade`, that a conversation not made yet has none.

## 8. What the checks found

Four disagreements between the code and what the repository says of it are
runs, in `PROJECT.json` under `findings`: a torn-down host listed again, more open
invites than the cap, a deleted conversation written back, and an edit of a note
lost to a save at the same time. The following were seen while modelling.

Console:

* The cap on invites is read before the lock, so two invites at once may exceed
  it (`csync/invite.py:103`; `docs/spec.md:306`: "at most 5 open invites"), by one
  for each other terminal at most (`InviteBound`, proved).
* A second signal during the goodbye runs the handler inside itself, which then
  waits for its own flock (`csync/relay.py:236`). `TeardownKill` and
  `TunnelDrop` of one process reach it, when a teardown meets a dropped tunnel.
* `--expires none` stores `expires = now`, though `parse_duration`'s 0 means no
  expiry (`csync/invite.py:116,137`).
* `forget` and `revoke` leave the port's `known_hosts` entry; a hello without a
  host key keeps the old one (`csync/tunnel.py:50`).
* `teardown-root.sh:60` passes `--from-root --ttl`, and `teardown.sh:13-19` keeps
  the last of the two.

Chat:

* A stop between two tool calls of one reply lets the second run
  (`docs/architecture.md:118`: "A tool that is already running finishes first",
  `assist/stream.go:42`).
* `/chat/stop` may answer `stopped: true` for a reply that was complete already
  (`assist/chat.go:209`).
* A rewind that cuts only the assistant's entries leaves its answer in the
  history (`assist/conversations.go:168`).
* A crash between `assistantTurn` and `answered` leaves an answer that is shown
  and never replayed (`assist/chat.go:138-141`).
* Attachments are named to the second (`assist/attach.go:43`).

Notes:

* A `git` that takes more than its 20 s is killed (`media/notes_store.py:180`) and
  may leave `.git/index.lock`. From then on `add` and `commit` fail, nobody looks at
  that (`media/notes_store.py:182-185`), and nothing removes the lock: saves are
  answered, with the revision of before, and are no version, against
  `media/notes_store.py:3-4` ("every save is a version"); since the revision does not
  move, the next save of another writer finds no clash and takes the words away.
* `write_text` empties the file and then writes it (`media/notes_store.py:319`). A
  request that reads in between gets a note with no title and no words, and a
  commit in between makes a version of it.
* A pin or a resolve writes back a body it read before somebody else's save
  (`media/notes_store.py:411,530`; lines 469-470: "no revision check, since none of
  them can lose anyone's writing"): that save is lost unless git has
  committed it.
* Only bodies are compared, so a save takes an unseen new title back without a
  clash (`media/notes_store.py:256,367`).
* A clash block inside another one is settled from the outer opening mark to the
  inner closing one, so marks stay in the text (`media/notes_store.py:384-397`);
  no line of the owner's is lost (`SettleKeeps` for both sides).
* A save that clashed, sent again after its answer was lost, adds its text a
  second time (`media/notes_store.py:362`).
* `read()` takes the text first and counts the commits after it, so a note may
  come with the revision of a save it does not show (`media/notes_store.py:298`). Its
  reader's next save then names that revision, does not clash, and takes the unseen
  words out of the file (`docs/android-ui-final-spec.md:21`: "A stale revision returns
  a conflict instead of overwriting silently"). They stay in a version.
* An empty title in a file hides behind the first line of the body
  (`parse`, `media/notes_store.py:103-106`); the routes refuse one.

Player on the phone:

* `save_progress` looks at the newest place and writes the new one in two steps
  of the database, with no lock. Two uploads at once may put the older record
  over the newer (`media/server.py:712`; `docs/media-system-plan.md:109`: "The
  service rejects older records for the same or a replaced session"): that is what
  `ForwardUnlessOvertaken` excepts.
* A heartbeat and an acknowledgement are taken after the lease has ended; a poll
  does not look at it either.
* A command the phone has carried out is reported `expired` when its
  acknowledgement comes late, or when a poll comes before it
  (`media/server.py:1606,1619`).
* A command sent again after its time, before any poll, is still answered
  `queued` (`media/server.py:1589`).
* Two commands that were both queued at one revision are both applied.
* A late acknowledgement may put its state over a newer heartbeat's
  (`media/server.py:1628`). Nothing is ever taken out of `commands`.

Phone app:

* Move marks a file from this phone live, since 'This phone' is the source of a
  cast as well (`app.js:33,165,230`): its position, Loop and Move are gone.
* Move takes the place of what the other output plays without a question
  (`app.js:230`; `docs/android-app-model.md:222`: "Starting on an output that is already
  playing asks first, in a sheet"), which `ReplacedWhenAsked` therefore excepts.
* 'Open in Notes' under what the assistant found opens the note `n2` without a look
  whether it is still there (`sheets.js:289`, `app.js:319`); after that note was
  deleted, drawing the page throws (`screens.js:322-325`). `ShownExists` excepts it.
* Stopping the Pi's session also ends the full screen of the phone's.
* While the Pi is away its page draws no session and no Stop; the mini row of
  another page does.
* A message that failed is cleared, though the notice says "It is still attached"
  (`screens.js:186`); only the attachment stays (`AttachmentKept`). The notice
  names the recipient picked since, not the one that was tried, says "still attached"
  of an item that a sheet sent and that never was, and "Send again"
  may send to a device that is offline. Using the clipboard leaves the notice.
* An attachment and a draft belong to no conversation, so they go to whichever is
  open at Send (`docs/android-app-model.md:200-201`: "Send to a conversation adds
  the item to the message being written").
* "Save and send" sends while the Pi is away, when the page says "Sending waits
  for the Pi" (`screens.js:255`, `app.js:311`).
* A fork keeps the message count of its original.
* Leaving the camera's page drops a recording without a word, and while the Pi is
  away it cannot be ended.
* Text typed in the Rich view of a note is lost when anything draws the page
  anew, and saving it flattens the Markdown.
* A typed address (`#note`, `#pin`, `#conversation`) opens the page of what was
  shown last, without the tap that chooses it. For a note or a pin that was
  deleted since, drawing the page throws. `Reach` therefore leaves these pages
  out, and `ShownExists` is about the pages a tap leads to.
* Parents of some places in `docs/android-app-model.md` §3 are not those of
  `model.js`; the modules follow `model.js`.
* The review page's switch for a session sets it without clearing its timers
  (`review.js:21`), so a timer of the earlier one may finish in the new one.

## 9. Only model-checked, and not modelled

Only liveness stays with TLC alone: `ByeFinishes`, `EveryRunEnds`, `CommandsEnd` and
`WaitsEnd`, whose fairness is out of the prover's reach. What is proved of the notes
is about requests that nothing got in the way of, because of the others it is false
(`notes_race`, section 8); which ones these are is part of the model (`crossed`) and
no assumption.

Not modelled, of the components that would be worth it:

* Reminders and timers: a protocol of its own between three machines, the largest
  one still open.
* The player on the Pi screen: `play()` gives the lock up between polls of mpv,
  and a thread saves its place; mpv's timing would be a large part of the model.
* The target's bootstrap and teardown: two users' halves, a keeper and a timer
  that signal each other by files, in shell.
* Uploads that play early, and the cache emptied meanwhile.
* Of the notes: the shared order, colours, tags, pictures and reminder keys. Of
  the app: search, folders and sources, covers and displays, favourites, titles,
  widgets, appearance and connection settings.

Not modelled because nothing in them is shared by two actors: set-up and upkeep of
the console, the gate, remote operations, tools and keys of the assistant, routes
and settings files, the wrappers of camera, screen and displays, the relay of
notifications, and the app's drawing and review page. Inside the modelled
components the texts, times, titles, wire formats, notifications and the journal,
the relay daemon's own start, and the verbs that only read.
