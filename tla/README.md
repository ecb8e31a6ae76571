# gpio_client_server in TLA+

TLA+ models of the GPIO server of this repository, the TLC configurations that
check them and the TLAPS proofs about them. Line numbers refer to the files
under `src/`.

## The system

A Raspberry Pi runs `server`. Programs on other machines connect to it by TCP,
log in to a mode and then send commands and receive events. Two keyboards on the
Pi, infrared remote controls, are read by the server and their keys passed on.

```
 monitor (mode 4) --.                        .-- gui        (mode 1, gpio client)
                     >--  server on the Pi --<--- service-c  (mode 1, agent)
 laptop  (mode 3) --'     |       |          '-- a pilot    (mode 2)
                       keyboards  gpioset, value files, MySQL
```

### Inventory

| Component | State | Operations | What makes it correct |
|---|---|---|---|
| **Accept loop** `server.c:141-165` | `cl`, the next slot, `n` | accept, fill the slot, start a thread | every connection has its thread and its entry |
| **Connection thread** `f_network.c`, `n_login.c` | `sock`, `tryb`, `id`, loop indices | start, logins, requests, the closing section | it ends when its client does, and takes its entry and roles with it |
| **Client table** `f_global.c:7-31`, `komunikacja.c:1-66` | `clients[]`, `tabs[]`, `shutdown_now[]`, `n`, `mutex` | append, look up, send to one or to a mode, close the gap | lists the connected clients, all of them and no others |
| **Roles** `n_login.c:17-43`, `f_network.c:72-87` | `gpio_adresat`, `pilot_adresat`, `pilot_full` | take, clear, hand over | held by clients that are there; a pilot in the table means an active pilot; two clients never both think they are it |
| **Laptop commands** `n_gpio_monitor.c:66-101`, `n_laptop.c` | `shutdown_now[]` | status, restart, shutdown, replies, confirmation | a shutdown is asked once, answered to the asker, confirmed when the laptop is gone |
| **Keyboard threads** `f_pilot.c` | `ev`, `pbufor`, `watek_dziala`, `mutex2` | read, append, start a sender | no key is lost, no wake-up is lost |
| **Key sender** `komunikacja.c:197-333` | its batch | take the buffer, route it, end | batches in order, to the one it is meant for |
| **GPIO lines** `n_gpio.c`, `n_gpio_monitor.c:103-133`, `komunikacja.c:68-195` | the lines, one value file each | set, read, status snapshot, AUTO_ON_OFF | last snapshot shown = state of the lines |
| **Calendar queries** `f_functions.c`, `n_gpio_monitor.c:10-64` | MySQL tables | day off, working day, list | the right kind of day |
| **Daemonizing, configuration** `f_daemon.c`, `server.c:80-106` | options, lock file | once at the start | - |
| **String library** `lazc.h` (twice) | - | split fields, numbers, conf values | n-th field, also at the edges |
| **Command line client** `client/client.c` | - | one request, one answer | - |
| **Agents** `service-c/`, `service/` | the connection | log in as gpio client, obey keys, reconnect | finds its way back after any loss |
| **Laptop program** `laptop/` | the connection, a pending shutdown | ask the user, shut down or refuse | answers the one who asked |
| **Monitor, GUI** `monitor/`, `gui/` | what they show | timers, buttons, received lines | show the state of the server |
| **Calendar program** `kalendarz/` | forms | edit the database | - |

How they interact: threads of the server share the table and the roles under
`mutex`, the key buffer under `mutex2`; the key sender takes `mutex` while it
holds `mutex2`. Several reads are made without any lock: the walks of
`laptop=restart`, `shutdown` and `status`, the roles in the key sender, and the
GPIO snapshots. Programs talk to the server by text lines over TCP, `laptop` and
`monitor` to each other through it, naming sockets of the server by number.

What is hard: one argument for all threads (`server.c:163`), entries that move
while others use their index, roles that change hands while a thread ends, two
keyboard threads that start at most one sender between them, a process that runs
for months and never closes a descriptor nor joins a thread; a value file that is
empty between two calls; one database handle for all threads; a byte stream read
as if it were messages. `PROJECT.json` lists these hazards, each with its line and
with the property that covers it or the reason why none does.

## Modules

| Module | Models | Stands on | Proofs |
|---|---|---|---|
| `ClientTable` | accept loop, threads, table, roles, laptop commands | - | `ClientTableProofs` |
| `KeyQueue`, `KeyBuffer` | keyboards, buffer, senders; `KeyBuffer` refines `KeyQueue` | - | `KeyBufferProofs` |
| `GpioLines` | setting a line, its value file, AUTO_ON_OFF, snapshots | - | `GpioLinesProofs` |
| `PilotRouting` | where a word of the remote control goes | extends `GpioLines` | `PilotRoutingProofs` |
| `Lazc`, `Texts` | the string library; options, commands, codes and numbers made with it | `Texts` extends `Lazc` | `LazcProofs`, `TextsProofs` |
| `Calendar` | questions about the day over one database handle | - | `CalendarProofs` |
| `Daemon` | starting servers and agents: fork, lock file, port | - | `AgentProofs` |
| `Agent` | the agent in C and its server, a byte stream between | uses `GetLineToStr` of `Lazc` | `AgentProofs` |
| `MCClientTable`, `MCPilotRouting`, `MCTexts`, `MCAgent` | instances for TLC | | |

`MCPilotRouting`, `MCTexts` and `MCAgent` put two scenes into one run, chosen in
the initial state; the other scene's variables never change, so a run with two
scenes checks the same as two runs.

What each abstracts from. `ClientTable` knows the table as an array with
its indices and mix-ups of sockets; `GpioLines` and `PilotRouting` know it as the set
of connections between accept and removal, which `OwnEntry` of `ClientTable`
justifies as long as no two threads share a socket. `KeyBuffer` says which batches
there are, `Texts` what word a batch becomes, `PilotRouting` where the word goes.

## Module A: ClientTable

`ClientTable.tla` models the accept loop and `recvmg`, the thread of a
connection, line by line in control and with sockets, modes and messages as
numbers and names. Connection `c` is the `c`-th socket that `accept` returns.

| Variable | Code |
|---|---|
| `slots[i].sock/.tab/.sd`, `n` | `clients[i-1]`, `tabs[i-1]`, `shutdown_now[i-1]`, `n` |
| `mutex` | holder of `mutex` between two steps |
| `cl`, `sock[c]` | `cl` of `main`, the thread's copy `cl.sockno` |
| `tryb[c]`, `id[c]` | locals of `recvmg`; `id` 0 stands for -1 |
| `job[c]` | `i`, `clients[i]` and text of a walk, or `adresat` and text of a reply |
| `gpio_adresat`, `pilot_adresat`, `pilot_full` | the same |
| `out` | the messages of the last step, as pairs of socket and text |
| `up`, `accepted` | the process runs; sockets returned so far |

Steps and atomicity. A critical section is one action where nothing in it can be
seen from outside. Sections are split where other threads look in without the
mutex: the end of a thread (`ExitLock`, `ExitClear`, `ExitHandover`,
`ExitRemove`) because the key sender reads the roles at any time, the walks
(`ScanStart`, `ScanTest`, `ScanRead`, `ScanSend`), the status query (`StatusRead`,
`StatusSend`), the reply of a laptop (`LaptopReply`, `Forward`), the login with
AUTO_ON_OFF (`LoginGpio`, `AutoOn`). The shift of the entries is one step.

Undefined behaviour. `shutdown_now[i]` in `n_laptop.c:44` uses an `i` nothing has
assigned: any entry, or outside. `tabs[-1]`, read when a socket is not found, is
any mode. A write to `tabs[-1]` or outside the table has no effect on the table in
the model; an end of the process because of it is `AcceptFails`, which may stop
the process at any time (so does SIGTERM, `f_daemon.c:10-14`).

Left out: `ips[]`, `ports[]`, `keys[]` (written, never read), `mutex_t` with
`pieczec` (never anything but NULL), the state of GPIO lines, the delays, the
waiting of a `send`. `pthread_create` in `main`, whose result `server.c:163` does not look at, is taken to
succeed: if it failed, the entry of that connection would stay and be served by
nobody, and `CountsThreads`, `OwnEntry` and `AcceptedServed` would not hold. The branches
`n_laptop.c:1-38` and `f_network.c:36-50` cannot be reached: the chain of `if`
reaches them after every mode has been taken; operator `Effective` says which
request has an effect in which mode, action `Ignored` is the rest.

### Runs

| Run | Instance | Result |
|---|---|---|
| `roles` | 3 connections, gpio clients and pilots, AUTO_ON_OFF | 736,758 states; `TypeOK`, `CountsThreads`, `RolesHeldByThreads`, `PilotAvailable`, `OwnEntry`, `PilotRoleKept` hold |
| `laptop` | 3 connections, laptops, monitors, gpio clients, shutdown | 975,708 states; `ModesAgree`, `LogoutAnnounced` hold |
| `pair` | 2 connections, all of monitor and laptop, fair | 104,247 states; `LeaverEnds`, `AcceptedServed`, `ScanEnds` hold |
| `thread` | 2 connections | `ConnectionHasItsThread` is violated |
| `shutdown_ok` | 3 connections, laptop and monitor | `ShutdownOkMeansLaptopLeft` is violated |
| `unlisted` | 3 connections that only come and go | `ExistingUserReachable` is violated |

Bounds. `MaxConn` counts connections over the life of the process, not at one
time. Three is the least number at which every case of the closing section
occurs: a leaving pilot, an heir, and a third client before, between or behind
them in the table, and at which a mix-up (two threads, one socket) leaves a third
client to be hurt. Nothing else is bounded. The set of requests is cut per run by
topic, because a request only adds steps of the same shape; together the runs
cover every action.

Fairness, in `pair` only: weak fairness of the steps a thread takes by itself.
The kernel schedules every runnable thread, and every holder of the mutex gives it
back after a bounded time. Weak fairness is enough for a thread that waits for the
mutex, because only closing sections keep it over more than one step and each
connection has one of them. No client has to send or to hang up, and
no connection has to come. What it assumes: `send` returns, i.e. no client lets
its receive buffer fill up; with one that does, nobody else is served. The
leads-to properties end with `\/ ~up`: a process that has exited owes nothing.

### What the counterexamples say

* `thread`: accept, accept, and only then the first thread copies `*sock`. Both
  threads read the second socket. The first client is never answered, and its
  entry stays until the second thread on the other socket ends.
* `unlisted`: of those two threads, the first to end removes the entry and the
  other finds none and still executes `n--`: the last entry is dropped, here of
  a third client, which is served but no longer reachable.
* `shutdown_ok`: every thread has its own socket. A laptop (first entry) has said
  `shutdowning` with the number of the second client, a monitor by the end of the trace;
  then a third client, which has not logged in, leaves, the loop that looks for its entry
  passes the laptop's, and the monitor gets `laptop=shutdown_ok` while the laptop is still
  connected. (What a laptop says, and when, is its own affair: here it may answer a
  question nobody has asked.)

### Proofs

`ClientTableProofs.tla` proves, for every number of connections, every set of
requests and both settings of AUTO_ON_OFF, from `ConstAssumption` alone, the six
safety properties of `roles`, `LogoutAnnounced` and `ModesAgree`.

None of them is inductive. That `n` counts the running threads (`CountsThreads`)
needs to know that the critical section is held by one thread (`MutexInv`) and
that threads exist for accepted sockets only (`AcceptedInv`); `TypeOK` needs
`CountsThreads`, because `n--` is unconditional and only the leaving thread
itself guarantees `n > 0`. These are `ThreadInv`. On top of it `TableInv` says
that entries hold different sockets (`EntryInv`), that an entry with a login
belongs to a thread that will remove it (`LoggedInv`), from which it follows that
an heir taken from the table is a running thread (`RolesHeldByThreads`), and that
during a handover the only pilot left in the table is the one who leaves
(`PilotInv`). `HandoverInv`, that the role is free in the middle of a handover, is
added for the action property `PilotRoleKept`; `ModesInv`, that a thread which has not
looked up its entry yet is in no mode, for `ModesAgree`. Lemmas `Stays`, `TableMoves`,
`TableStays` and others say what a step of a given shape cannot disturb, so that
most actions need one line; `GapClosed` says what closing the gap leaves.

All of this holds with mix-ups, except `OwnEntry`, `ModesAgree` and `LogoutAnnounced`, which
are stated for executions in which every thread took its own socket (`Mixup` is
false). What a mix-up breaks is shown by the violations.

## Module B: KeyQueue and KeyBuffer

`KeyQueue.tla` is what is promised: a queue of keys and a flush that passes on
everything in it. `KeyBuffer.tla` is how: `procedure_w0` and `procedure_w1` append to
`pbufor` under `mutex2` and start `sending_keys_pilot` if `watek_dziala` is 0; the
sender sleeps, takes the buffer, passes it on and clears the flag, all but the
sleep with `mutex2` held.

| Variable | Code |
|---|---|
| `rpc[k]`, `ev[k]` | place and `ev` of the thread of keyboard `k`; `ev` is uninitialized at first |
| `pbufor`, `watek_dziala`, `mutex2` | the same; `mutex2` is the sender that holds it |
| `spc[s]`, `batch[s]` | place and `s` of the `s`-th sender started |
| `spawned` | senders started; `MaxThreads` is where `pthread_create` begins to fail |
| `out` | the batch passed on last |

`pbufor` is a sequence of keys where the code has the string of their names. A
reader's section is one step, `AppendKey`; the test of the flag and the creation of
the thread are inside it. `dodatkowe_watki`, counted and never read, is left out, and
where a batch goes is `PilotRouting`. `Unplug` is the device; with it `read` fails, and
`ReadFails` keeps the old `ev`, as `f_pilot.c:17` and `:77` do not look at the result.

`queue` is the refinement mapping: the batch in a sender's hands as long as it is
not passed on, else `pbufor`.

| Run | Instance | Result |
|---|---|---|
| `keys` | 2 keyboards, 2 keys, 4 presses, 4 senders, fair | 16,761 states; `TypeOK`, `OneSender`, `KeysHaveSender`, `ImplementsQueue`, `BufferSent` hold |
| `keys_worn` | the same with 3 presses, 2 senders, unplugging, no fairness | 20,644 states; `ImplementsQueue` holds |
| `keys_stuck` | 1 sender, 2 presses, fair | `BufferSent` is violated |

Bounds: `MaxPresses` is the only one of the model; with 4 presses and 4 senders each
key can have a sender of its own or all share one, and a second batch overlaps the
end of the first. `MaxThreads` is the real limit in small: senders are neither
joined nor detached, so it is a number of senders over the life of the process.
Deadlock is not checked, because the model stops when nobody presses a key any
more. Fairness: the steps of a sender and the append of a reader, i.e. threads run
and `mutex2` is handed on; nobody has to press a key. Between presses the mutex is
free long enough for both, and the bound on presses keeps readers from taking it
for ever.

`keys_stuck` is the counterexample to the comment on `komunikacja.c:197`: after the
last thread that could be created, the flag is set by `f_pilot.c:48` or `:172` and
never cleared.

`KeyBufferProofs.tla` proves `TypeOK`, `OneSender`, `KeysHaveSender` and the
refinement `Spec => Queue!Spec`, for any keyboards, keys and numbers of threads, from
`KeyAssumption`. The inductive invariant adds `FlagInv` (the flag is set exactly while
a sender is on its way, or none could be started; `mutex2` is held by the sender that
has taken its batch) and `BatchInv` (a sleeping sender has something to take; once
taken, the buffer stays empty until it ends). The second half of `FlagInv` is what
keeps a wake-up from being lost; `BatchInv` makes the delivery a non-empty flush.

## Modules GpioLines and PilotRouting

A GPIO line cannot be read back on this hardware, so the server writes what it sets
to `/var/run/gpio.server.value.N` and reads that file (README.md:12 of the
repository). `GpioLines` is about this second copy: who sets what, under which lock,
and what others are told.

| Variable | Code |
|---|---|
| `auto` | `AUTO_ON_OFF_BY_LOGIN`; constant `Reverse` is `REVERSE` |
| `line[l]`, `file[l]` | the level `gpioset` has set; the content of the value file: absent, empty, 0 or 1 |
| `mode[c]` | `tryb` of connection `c`; mode 3 plays no part here |
| `mutex` | its holder between two steps |
| `pc[t]` | the place of thread `t`; `Key` is the key sender |
| `op[t]` | the set under way: line, value, and where the thread goes then |
| `snap[t]` | `a1`..`a8` of the two snapshot functions |
| `out` | the snapshots sent by the last step |

A set is `Gpioset` (the command, and `fopen` with "w", which empties the file) and
`WriteFile`; a broadcast is `ReadLines` and `Announce`. They are two steps each
because other threads can see between them: the AUTO_ON_OFF set at a login
(`n_login.c:21`), the toggle by the remote control (`komunikacja.c:226-233`) and the
snapshot for `status` do not hold `mutex`. Reading a file takes no step of its own,
and all lines are read at once: a locked line cannot change in between, and of the
others nothing is claimed. `get_VALUE` of an empty file leaves its local variable
uninitialized: 0, 1 or any other int (`Junk`). The closing section is one critical
section of several steps, as in `ClientTable`.

`PilotRouting` adds the roles and the key sender. The sender tests
`pilot_adresat`, then `gpio_adresat` or `pilot_full`, then reads the role again for
the address, and only then takes `mutex`: `TestPilot`, `TestGpio`, `TestFull`,
`Address`, `Deliver`, with logins, departures and handovers between any two. `Act` is
what the server does itself when there is no gpio client. `to`, `word` and `sent`
are the address read, `s`, and the receiver of the last step. One sender stands for
all, because `OneSender` of `KeyBuffer` says they never overlap.

| Run | Instance | Result |
|---|---|---|
| `lines`, scene lines | 2 connections, 2 lines, REVERSE, both settings of AUTO_ON_OFF, gpio clients and monitors, sets, questions, toggles | with the next: 1,270,035 states; `FilesTrue`, `SetAnnounced`, `LastGpioLeavesDark` hold |
| `lines`, both scenes | | `TypeOK`, `MutexHeldInSections` hold |
| `lines`, scene routing | 3 connections, gpio clients and pilots, 4 words | `KeysReachHolder` holds |

Bounds. Line 1 is the one AUTO_ON_OFF sets, line 2 the one the remote control
toggles; lines 3 to 8 are set like line 2 by clients and by nobody else, and like
line 1 without AUTO_ON_OFF they are locked. So two lines show every kind, and the proof
is for any number. Two connections set, watch and leave around each other; three
are needed for a role that goes from one pilot to another while a gpio client is
there. A connection logs in once in the run, as the second login of a
connection adds nothing but states. The words are one command of the server, one it
always takes itself, `key2_down`, and the empty word. Deadlock is not checked,
because the model ends when all connections have come and gone.

What holds. Between critical sections the file of every locked line is what the
line is (`FilesTrue`); broadcasts under the mutex are current (`SetAnnounced`); with
AUTO_ON_OFF the line is off and its file says so when the last gpio client has gone
(`LastGpioLeavesDark`), although the logins of others set it without the mutex,
because such a login belongs to a client that is still in the table. A key reaches
the holder of the role or nobody (`KeysReachHolder`): the address may be stale, but a
connection loses a role only when it leaves the table in the same critical section,
and `sendtouser` looks it up there. Nobody keeps `mutex` while it waits for a client
or a key, or after its end, and no departure clears roles or takes its entry out
without it (`MutexHeldInSections`): each `pthread_mutex_lock` of `n_gpio.c`, of the
closing section and of the key sender, which holds `mutex2` meanwhile, meets its unlock.

What does not hold, and is therefore not claimed: line 2, and with AUTO_ON_OFF line
1, may end with a level that differs from its file, when a set without the mutex
runs into another one; the snapshot after a toggle may be older than one already
sent; a pilot's key is lost when the pilot leaves between test and send.

Proofs. `GpioLinesProofs` proves the three properties and the types for any number
of connections and lines, from `LinesAssumption`. Its invariant `LinesInv`: the
closing section is the holder's, and all it sets is line 1, off (`HeldInv`); who sets
nothing has nothing noted, and the key sender sets line 2 (`OpInv`); without the mutex
only the key sender and an AUTO_ON_OFF login set a line (`SetInv`), so the files of the
others are true except between the holder's two steps (`FileInv`); the snapshot in
the holder's hands is current (`SnapInv`); a gpio client in its closing section that
is the last one has switched line 1 off (`DarkInv`).
Where the holder of the mutex is (`MutexIsHeldInSections`) follows from `HeldInv` too.
`PilotRoutingProofs` notes that each step of `PilotRouting` is a step of `GpioLines`
or leaves it alone (lemma `RoutingImplementsLines`, by the way the one is built from
the other), so that all of the above holds in the composition (`RoutingKeepsLines`,
`RoutingGivesMutexBack`), and with the roles added to the invariant
(`RoleInv`: a role's holder is in the table; `AddressInv`: an address is a connection
that held the role and has kept it or left) the theorem `KeysGoToHolder`.

## Modules Lazc and Texts

`Lazc` has the functions of `lazc.h` the programs rely on, as operators on sequences
of tokens: single characters where the function looks at them, whole words where it
copies. Their oddities are kept. `pos` accepts a substring with gaps; a line
is trimmed only if it has a comment; a field ends at
a quote as well as at a separator; `GetConfValue` stops at the first empty field;
`ConfToBufor` drops a last line without a newline; `strtobool` puts its text into
small letters, where it stands. `server` and `service-c`
have a copy each, and the copies are identical; in the map some helpers
name the agent's copy, which reads its options with them.

`Texts` is one step from a task to its result. `ServerOptions` is `server.c:80-101`,
`RunCommand` is `client.c:55-136` with the server's answer `ServerDoes`
(`n_gpio.c`), which splits the request together with `rest`, what its buffer holds
behind it (`Received`), because neither side writes a NUL. `DefaultWritten` is the
client that dies in `strtobool`. `TakeKeys` is the replacements of `komunikacja.c:212-216`, `ConvertNumber`
the conversions. The value of the client's `AUTO_ON_OFF` is written in characters, since
`downcase` looks at them; other values are words. Each property compares with a definition of its own: the
`l`-th field as what lies between two unquoted separators (`FieldOf`), an option as
the value of the first line that names it (`InFile`), a batch as the meanings of its
buttons one by one (`Meaning`).

| Run | Instance | Result |
|---|---|---|
| `texts`, scene texts | all texts of up to 7 characters over `a`, `=`, quote, fields 1 to 4; files of up to 2 lines out of 15; 7 commands on 8 lines, 4 leftovers; up to 3 buttons out of 7; 311 numbers in 1 to 3 bytes | with the calendar: 1,882,092 states; `FieldFound`, `OptionsAsWritten`, `AutoAsWritten`, `CommandUnderstood`, `ButtonsKeepMeaning`, `NumbersComeBack` hold |

Seven characters hold three fields, each quoted with one character, or four that
are not; with two lines one can shadow the other, and each can be a comment. The leftovers
are none, the end of a longer request, one that begins with a separator, and one with a
quote. `CommandBound` keeps the number of cases small: files of two lines are combined with the commands
of line 1 and an empty buffer, all others with everything. `CommandUnderstood` says that a
command is never taken for another act or another line, and that it can only be lost,
and only when something is behind it. `AutoAsWritten` allows the client to die only if no
line names `AUTO_ON_OFF`. `FieldFound`
is claimed when the asked field is without quotes or quoted as a whole; the other
fields of the line may have quotes anywhere, and an odd number of them only moves
where a field ends, for code and definition alike. `Presses` has every
sequence of up to three buttons, so that one has neighbours on both sides; the theorem
below has no such bound. `ButtonsKeepMeaning` takes whole
buttons; what a sleep of 50 ms cuts in two, or joins to a word with no command, is
lost in the code as in the model. `Rounds` are the loops that read a number. `m` and
`r` are `int` there: up to three bytes, or the digits of an `int`, `m` can overflow in
the last round only, after which nobody reads it, so the model has no width.

Proofs. A task has one step, so the invariants `CommandTaken`, `FieldTaken`, `KeysTaken`,
`ServerTaken`, `SentTaken` and `NumberTaken` of `TextsProofs` say only which result a task has, if it has one; the
proofs are about the operators.

* `CommandsAreUnderstood`, for any configuration file and any leftovers, from
  `LeftoversAssumption`: the first field is the word of the line, whatever comes behind,
  because its separator is in the request itself (`SplitHead`), and these words are
  different; the second begins with the verb (`FieldHead`), so it is that verb, or nothing
  the server knows. With nothing behind the request it is the verb (`FirstTwoFields` of
  `LazcProofs`).
* `FieldsAreFound`, for any texts, from `FieldTextsAssumption`. The definition takes
  the ends of fields by their rank, the code counts separators up to a position. An end of each
  rank exists and is the only one (`EndExists`, `RankGrows`), the next rank is the next
  unquoted separator (`NextEnd`), and that is where `FieldStart` begins
  (`FieldBegins`). From there on the two loops count quotes from different places;
  `QuotedSince` says that they agree, because none is open where a field begins, and
  `PlainField` and `QuotedField` follow the second loop through each kind of field.
* `OptionsAreAsWritten` and `AutoIsAsWritten`, for any files whose quotes, if any, are in
  comments (`FilesAssumption`): the files of the repository have none, and a value with
  a quote ends at it. That the words `downcase` makes `on`, `yes` and `1` of are those of
  `YesWords` is `YesIs`. `pos` finds a `#` where it first is, so `ConfToBufor` makes
  of each line nothing (`Silent`) or one row that tells the same name and value as
  the line (`Tells`, `LineTold`). That only a line with a comment is trimmed as a whole
  makes no difference, since name and value are trimmed again, and `GetLineToStr` finds
  them in the row as they were written (`RowReads`). The buffer of a file is the
  join of what it makes of the lines (`LinesRead`), its rows are the fields between ends of line
  (`RowFound`), none of them empty before the last, so that `GetConfValue` stops at the
  end and not sooner (`RowsAre`). What it finds is then built up as the file is, line
  by line: a further row counts only if none before it has the name (`FoundMore`), as a
  further line does (`InFileMore`). A last line that is not ended is dropped
  (`FileIsKept`).
* `ButtonsMeanTheSame`, for any number of buttons in any order, from `PressesAssumption`. `Buttons`
  and what is left of them after each of the five calls are six tables of codes, and
  `OneReplaced` takes one to the next. Each code has a place where its tokens
  tell it from all other codes of its table, whichever codes stand before and behind it
  (`Anchored`): so it is found where its button is and nowhere else, and replacing it there
  leaves a joined text of one button fewer to be replaced. `4263` loses its anchor if
  `63` goes first, which is the mutant. The rounds of `StringReplace` end because
  each leaves fewer such buttons; the function that counts the rounds exists by the
  lemma used for `Rounds`.
* `NumbersAreReadBack`, for any numbers, from `NumbersAssumption`: one more digit behind
  gives `base` times the value plus the digit (`ValueOfAppend`), zeros in front give
  nothing (`StrBaseKeeps`), so a number is the value of its digits (`DigitsTold`), and the
  number of its bytes is what `Limit` says (`BytesBound`).

Where an argument is by induction it takes the least number without the property
(`LeastNat`): it follows from the theorem of the library on minimal elements, which
does without an operator as a parameter. This also gives that the recursive functions
`Rounds`, `IntToSys` and the loops of `StringReplace`, `pos` and `ConfToBufor` exist (`RoundsExist`,
`SysExist` and others), without which nothing could be said of their values. `FlattenSeq`,
which joins texts, is a function of this kind too (`FlatIs`, `FlatAppend`).

## Module Calendar

A monitor asks `getworkday`, `statusday` or `getcalendar`; its thread connects to
MySQL, queries, disconnects, answers, without any mutex and with one global `db`.

| Variable | Code |
|---|---|
| `db`, `handles` | the global; every handle of `mysql_init`, whether connected, and the query whose result it holds |
| `cpc[t]`, `ask[t]`, `left[t]`, `got[t]` | the place of thread `t`, its question, queries to make, values got (`Failed` for a query that fails) |
| `overlap` | two questions have been worked on at a time |
| `undefined` | what undefined behaviour has happened, or `"no"`; the model stops there |
| `day`, `answered` | what the database would say; the answer of the last step |

Each call of the library is a step. Three things are undefined. A query on a handle that
is not connected, or storing a result that is not there, is misuse of `db`
(`MisuseOfDb`). `mysql_store_result` may return NULL, which goes to `mysql_fetch_row`, and a
column may be NULL, which goes to `atoi` or `strcpy`: nobody looks (`NullIsUsed`,
`f_functions.c:32-34`, `:52-54`, `:72-75`, `:154-157`). The text of an error may be too
long for `t1[6]` and `t2[6]` (`TimesOverflow`, in `split_times`, before the third query);
where it fits, the arrays stay uninitialized or hold a piece of it, and day or night is either.

Run `texts`, scene calendar: two monitors, six handles (`MaxHandles`, so three
questions: one of each thread and one after). `OneMonitorSafe`: without overlap
`db` is never misused and every connection is closed, however connects and queries fail;
with overlap both fail in the model. It does not say that nothing undefined happens: the other two
kinds happen with one monitor. `DayToldTruly`: without
overlap a failure is never told as a kind of day. `CalendarProofs` proves
`OneMonitorSafe` for any monitors and handles; its invariant says that the one thread
at work is alone, that no handle but `db` is open, and that the state of `db` fits its
place (`AloneInv`, `AtWorkInv`), from which `MisuseInv` follows. On top of it `DayIsToldTruly` proves `DayToldTruly`, which looks at the
answer only and is far from inductive: `GotInv` says for each place of a thread that what it
has got and what it has still to ask are its queries in their order (`InOrder`), that
without overlap each value got is a failure or what the database says (`True`), and
that the result held by `db` is that of the next query. The last part needs `AtWorkInv`,
since the result is stored from whatever handle `db` is by then.

## Modules Daemon and Agent

`Daemon` is `daemonize()` of `server` and of `service-c`, whose lock file is the same
(`f_defines.c:1` of both), and `bind` and `listen` of `server.c:108-131`. A process
is a number written as decimal digits, because the lock file is written over and
never truncated. Started by hand a process forks, opens, locks, writes; started by
init it does none of this. Every process may die at any step (`Killed`), the kernel
drops its lock and its port, and its number may be used again. `prog`, `ppc`,
`byInit`, `lock`, `pidfile` and `listener` are the program, its place, who started it,
the holder of the lock, the bytes of the file, and who listens.

`Agent` is `service-c/client.c` with the server as it sees it. `stream` is what has
been sent and not received, in tokens that cut a key name in two; `Recv` takes any
prefix of it. `fds` counts sockets: one is lost at each refused `connect`
(`client.c:56-61`). The server may stop and start at any time, which ends a connection
in order or with a reset; the login may arrive in two parts, which the server takes
for an unknown request.

| Run | Instance | Result |
|---|---|---|
| `agent`, scene daemon | processes 7, 12 and 345, servers and agents, by hand and by init | with the next: 407,162 states; `OneByHand`, `LockFileNamesHolder`, `OneServer` hold |
| `agent`, scene agent | 2 keys pressed, single or joined, 2 descriptors, fair | `KeysObeyedInOrder`, `FindsServer` hold |

Bounds. Numbers of one, two and three digits overwrite each other in both
directions; three processes are a holder, one that is refused and one in between.
Two keys can be lost, joined, or swapped; with two descriptors one refused connect
leaves one for the next and two leave none.

Fairness, scene agent only. The agent is one thread in a loop that never waits for
anything but `recv` and a sleep of one second: weak fairness of its steps, stated on the
variables of its connection (`LinkSteps`). The server has a thread for the connection and reads a login
that has arrived: strong fairness of `TakeLogin`, because one that arrives in two
parts disables it, and not every login does. The server need not stop, start or send.

What holds. However the stream is cut, the agent obeys a subsequence of the keys
pressed (`KeysObeyedInOrder`). It is connected again whenever a server stays
(`FindsServer`), unless a reset has ended it (`client.c:67-70`, `exit(1)`) or its
descriptors are used up: both are in the property because both happen.

`AgentProofs` proves the three properties of `Daemon` for any set of process
numbers, from `PidsAssumption`. The invariant says who may be past `lockf` (`LockInv`),
that from `WritePid` on the file starts with the holder's number and a newline
(`FileNamed`), and that a server in its loop is the listener (`ListenInv`).

It also proves `KeysObeyedInOrder` for whatever the remote control sends in batches
that are not empty (`PressedAssumption`) and without a bound on keys or descriptors.
The property compares what was obeyed with what was pressed and says nothing of the bytes
in between. `OrderInv` does: every token on its way belongs to a key pressed, tokens of
a later message to later keys than all that is before them, and all of them to later
keys than any obeyed. Receiving takes a prefix and obeys one key of its first message
at most (`MessageFacts`, `ObeyFacts`): the buffer up to the written zero is that
prefix, so nothing left over from an earlier `recv` is obeyed again (`BufferFacts`,
`TextFacts`), which is what the mutant without `msg[len]=0` breaks.

## Where documents and code differ

Met while modelling, and not claimed as properties:

* README.md:12 says a value file is what was set. For line 2, and for line 1
  with AUTO_ON_OFF, it can differ (above).
* `komunikacja.c:164` says snapshots go to mode 4; the code sends them to modes 1
  and 4, which the gui relies on.
* `gpio.server:26-28` says keys go to all active sockets; they go to one.
* `gpio.client:7` names 2122 as the default port; `client.c:57` has 2021.
* `AUTO-ON` is tested before `upcase`, so `auto-on` goes out in spite of
  `AUTO_ON_OFF = no`.
* `gpio.server:6-7` sets `GPIO_NUMBER_A` and `_B`; the server reads `GPIO_NUMBER_1`
  to `_8`. `TIMER` does nothing.
* `f_daemon.c:38`, "first instance continues", holds across programs: with one
  lock file an agent keeps a server on its machine from starting, when both are
  started by hand.
* `client.c:122` sends a request without a NUL and `f_network.c:16-21` takes what it
  received for a text: behind the request comes what `msg` held before. A command sent
  after a longer one of another client may so be unknown to the server and be lost.
* `gpio.client:10-14` says that `yes` is the default of `AUTO_ON_OFF`. Without such a
  line `strtobool` gets the literal `"yes"` of `client.c:58` and writes into it, which is
  undefined and with usual builds kills the client before it sends anything.
* `f_functions.c` uses results and columns of the database without looking whether they
  are NULL, and copies an error text of any length into six characters (above).
* `pilot=active` (`f_network.c:36-50`) and `n_laptop.c:1-38` cannot be reached.

## What is not proved

Liveness (`LeaverEnds`, `AcceptedServed`, `ScanEnds`, `BufferSent`, `FindsServer`) is
checked by TLC only: fairness is beyond the prover.

Every other property of a passing run is proved, for every value of the constants.
What the assumptions on the constants leave out is not proved either: `FilesAssumption` takes
files with quotes in comments only; `PressesAssumption` takes whole buttons, of
the seven in `Buttons`, and not codes in any order.

## Not modelled

* The Pascal programs (`service`, `laptop`, `monitor`, `gui`, `kalendarz`): forms around
  `TNetSocket`, a component that is not in this repository and whose events and
  reconnects could only be guessed. What they send is the environment of `ClientTable`,
  `GpioLines` and `Calendar`. So the whole conversation of monitor, server and laptop
  is there on the server's side only.
* A client that does not read while the server sends to it (`komunikacja.c:25`), and the
  hundred-and-first connection (`server.c:156`): the first stops the server by
  definition, the second writes outside the arrays. All results are up to there.
* The server reads a request with one `recv` and without a terminating zero
  (`f_network.c:16-21`). What this does to a request of the command line client is in
  `Texts`. `ClientTable` takes requests as they were sent; what a cut
  does to a login is in `Agent`, what it does to other requests is that they are
  ignored or, for a client without login, the end of the connection.
* The errors of socket, connect, send and recv in the command line client, each of
  which ends it. The functions of `lazc.h` that nothing calls for its state: memory,
  files, dates, random numbers, encodings. `wake_on_lan`, which nothing calls.
