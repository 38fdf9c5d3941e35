# A verification project for MyLinuxServer

The repository holds the exercises of a reader of 《Linux高性能服务器编程》:
thirty-odd programs, each a file of its own. Six of them are servers with state
of their own and with something that can go wrong in the order of events, and
seven are smaller programs of which the same is true; they are modelled here.
The rest are straight-line uses of one system call.

## 1. Inventory

| part | state | operations | what is hard |
|---|---|---|---|
| chat room, `ch9/9-6_communication_server.cpp` | `fds` (dense table of pollfd), `users` (by descriptor), `user_count` | the branches of the poll loop | entries move in the middle of a scan; `write_buf` borrows another user's `buf`; peers act between poll() and use |
| timer list, `ch11/11-2_LIST_TIMER.h` | doubly linked list, `head`, `tail` | add, adjust, delete, tick | pointers left to deleted nodes, the order of stores, equal times |
| idle connections, `ch11/11-3_close_nonactive_connection.cpp` | connections, one timer each, signal pipe, alarm | accept, read, leave, signals, tick | edge triggering, input racing expiry, signals as bytes |
| HTTP parser, `ch8/8-3_finite_stage_machine.cpp` | buffer and three indices, state of the machine | recv, parse_line, parse_content | a line cut anywhere by recv(), the end of the buffer |
| shared-memory chat, `ch13/13-4_shm_communication.cpp` | parent: `users`, `sub_process`; children: `idx`, `stop_child`; pipes; segments | fork, reap, forward, terminate; read, send, exit | processes, SIGCHLD that melt together, SIGTERM at a bad moment, numbers that are used again |
| EPOLLONESHOT, `ch9/9-4_EPOLLONESHOT.cpp` | epoll's armed set, threads, one argument variable | accept, spawn; read, close, rearm | threads, descriptors used again, the argument |
| chat client, `ch9/9-6_communication_client.cpp` | the pipe between two splice() calls | poll, recv, splice, splice | partial splices, the end of the input, an end together with data |
| time wheel, `ch11/11-5_time_wheel.h` | `slots`, `cur_slot`, a list per slot | add, delete, tick | rotations against slots, unlinking in the middle of a tick |
| LT/ET, `ch9/9-3_LT_ET.cpp` | epoll's edges | lt(), et() | data between recv() and the next edge |
| signals as events, `ch10/10-1_signal.cpp` | socket pair, `errno`, `stop_server` | handler, the epoll loop | a handler between any two calls, signals that share an edge, a full pipe |
| urgent data, `ch10/10-3_SIGURG.cpp` and `ch9/9-1_test_select.cpp` | the socket's urgent mark | recv, recv(MSG_OOB), handler, select | the urgent byte is lost when recv() passes it |
| semaphore, `ch13/13-3_IPC_PRIVATE.cpp` | the semaphore and its undo values | P, V, exit, remove | a process killed between P and V |
| ch5, ch6, ch12, the rest of ch9 and ch11, `test.cpp` | none | one system call each | pure I/O |

The programs do not call each other, with one exception: 11-3 and the test
program 11-2 use the timer list. Within a program the parts interact through
the kernel: readiness (poll, epoll), pipes, signals, and shared memory.

What makes each part correct:

* chat room: the table names every open descriptor once; a scan handles each
  once; results of poll() still describe the descriptor they sit with; a
  borrowed buffer repeats and reorders no texts (but for copied ones, section 5);
  everyone is answered and every leaver's socket is closed.
* timer list: sorted, doubly linked, no store through a freed or NULL pointer.
* idle connections: one timer for each open connection and none besides; only
  idle connections are closed; the alarm never stops.
* HTTP parser: the verdict depends on the bytes, not on how they arrive.
* shared-memory chat: the parent's tables are its children; no exit is
  forgotten; a text goes to the others.
* EPOLLONESHOT: one reader for each descriptor, and always one when there is
  something to read; a thread serves the descriptor it was started for.
* chat client: what is typed goes out in order; the end of the server ends it.
* time wheel: a timer fires in the tick it was set for; the lists are lists.
* LT/ET: everything is read, and nothing is closed that is not at its end.
* signals: a stop signal stops the loop, and nothing else does.
* urgent data: the stream is read whole, and the urgent byte not lost.
* semaphore: it is a lock, whoever is killed.
* both chat rooms: who has come is served in order, admitted or turned away
  once, and no more than the limit are in.

## 2. Modules

Each module's header says what one step is. An action is one branch of the
program's loop with every assignment it makes, in that order; the guard is the
branch's condition and those above it that failed.

| module | models | extends or uses |
|---|---|---|
| `ChatServer` | chat room | |
| `ChatProofs` | theorems about its table, its connections and texts | `ChatServer` |
| `TimerList` | the list as functions from heap to heap, one pointer store at a time | |
| `ListProofs` | lemmas: what each operation does to a list of any length | `TimerList`, `NumberProofs` |
| `NumberProofs` | lemmas: induction over numbers, least and greatest elements | |
| `TimerServer` | 11-3 | `TimerList`, timers named by descriptors |
| `TimerProofs` | theorems about its loop and its connections | `TimerServer`, `ListProofs` |
| `TimerTest` | the test program of the list | `TimerList` |
| `HttpParser` | 8-3 | |
| `HttpProofs` | theorems about it | `HttpParser`, `NumberProofs` |
| `ShmChat` | 13-4 | |
| `ShmProofs` | theorems about its parent | `ShmChat` |
| `OneShot` | 9-4 | |
| `OneShotProofs` | theorems about it | `OneShot` |
| `Roster` | abstract: membership of a chat room | implemented by `ChatServer` and `ShmChat` |
| `ChatClient` | 9-6 client | |
| `TimeWheel` | 11-5 | |
| `Reader` | abstract: what a server that reads owes its connections | implemented by `EpollModes` |
| `EpollModes` | 9-3, lt() and et() | instance of `Reader` |
| `Signals` | 10-1 | |
| `Urgent` | 10-3 and 9-1 | |
| `Lock` | abstract: mutual exclusion with processes that may vanish | implemented by `Semaphore` |
| `Semaphore` | 13-3 | instance of `Lock` |
| `MCPrograms` | the small programs in one run | `TimerTest`, `TimeWheel`, `ChatClient`, `EpollModes`, `Signals`, `Urgent`, `Semaphore` |
| `ProgramProofs` | theorems about the small programs | `MCPrograms`, `ListProofs` |
| `MCChat`, `MCTimer`, `MCHttp`, `MCShm`, `MCOneShot` | bounds for TLC | |

**ChatServer.** `fds`, `users`, `user_count`, `i` are the variables of `main`.
recv() may fail or find nothing although poll() reported input, as its
manual allows (`ReadError`, `ReadNothing`), and so may accept(). `sock` is the
process's descriptor table, `conn`, `peer`, `inq`, `backlog` the
kernel's view of each connection, `got` what each member was sent. `Poll` is
poll(); the other server actions are the branches of lines 85-185: `Accept`,
`Refuse`, `AcceptFail`, `TakeError`, `Leave`, `ReadError`, `ReadNothing`,
`ReadText`, `WriteNothing`, `WriteText`, `WriteAbort`, `Pass`. The peers
connect, send, close and reset between any two of them. A text is a record of
its sender and its number; `events |= ~POLLIN` sets every bit but POLLIN and
clears none, and is modelled so. `Wild` is the indeterminate `write_buf` of
line 62. `seen` and `copied` are history: the descriptors handled in this scan,
and those whose `buf` a leaver's line 127 or 147 has filled with another's.
`Script` bounds what each connection sends. `Discard` is close().

**TimerList, TimerServer, TimerTest.** A list is a record with `head`, `tail`,
`next`, `prev`, the allocated nodes, and `fault`, which says whether a store
went through NULL or a freed pointer; nothing is executed after that. Links of
the `TimerServer` state: `left` is `expire` minus the current time, `ready` the
edges epoll has not reported, `batch` the events the loop has not handled,
`pipe` the signal bytes. Time passes by `Elapse`; `alarm` counts down to
SIGALRM. A crash (a fault, or `wild`, the store to `users[-1]`) stops the model.

**HttpParser.** Symbols stand for words: the parser only compares words with
GET and HTTP/1.1, looks at the beginning of the URL, and looks for blanks, CR
and LF. `Recv` delivers any number of the symbols that fit. The actions after
it are one turn of the loop of `parse_content` each.

**ShmChat.** A child is named by its connection. `users`, `user_count`,
`sub_process`, `terminate`, `stop_server` are the parent's; `cpc`, `idx`,
`stop_child` the children's. A child's `cpc` tells apart the moments at which
SIGTERM does different things: before `sig_pipefd` is closed the inherited
handler sends the byte back to the parent; before `addsig` the signal is lost;
between the test of `stop_child` and epoll_wait() it sets the flag and wakes
nobody; asleep, epoll_wait() returns EINTR. `pready`, `cready` are edges, of
which several melt into one; one recv() follows each. Reaping is one action per
turn of the waitpid() loop, so that other children exit in between. A segment
holds the name of the client whose text is in it. The kernel delivers a signal
at once, and one recv() into a segment is one step: a text torn between two
writers is not modelled. The source never calls listen() (lines 202-215), so
that as it stands no client ever gets in; the constant `Listening` says so, and
the runs give it TRUE, the program with the missing call supplied.

**Roster.** `KeepsRoster` says that `ChatServer` and `ShmChat` implement it.
In `ChatServer` `waiting` is the backlog, `members` are those the table lists;
in `ShmChat` they are those in `users`, from fork() to waitpid(). `ShmChat` may turn
away with room left, when fork() fails (`MayFail`).

**ChatClient.** `stdin`, `pipefd` and `net` are the pieces typed that are
before, in, and behind the pipe; `incoming` and `printed` those of the server.
The client's actions are the branches of lines 59-82. Standard input may end as
a file or terminal does (POLLIN, then 0 bytes) or as a pipe does (POLLHUP).

**TimeWheel.** `slots` and `cur_slot`, and the fields of each timer as
functions. `tick` is one step per node, so that its two ways of unlinking are
actions (`TickHead`, `TickOther`). Line 143 compares with `slots[ts]` where no
`ts` exists; the model reads `cur_slot`, without which the file does not
compile. `astray` is set where a store goes through a deleted node: `tick` drops
what follows an expired head (line 150), and `del_timer` of a timer that was
dropped follows its `prev` to a deleted one. `left` and `fired` are history.

**EpollModes, Reader.** `mode` says whether main() calls lt() or et() (it calls
lt(), et() is in a comment). `Reader` is what both are for: it lets the peers
write, finish and abort, receives piece after piece, closes at the end and only
there, and is fair; `BothRead` is the refinement, liveness included. Who waits
in the backlog is promised nothing: accept() is called once for each edge.

**Signals.** `Handler` runs between any two steps of the main loop; `errno` is
kept because line 105 decides by it.

**Urgent.** One socket, two receivers. The socket is external: what Linux does
with an urgent byte in recv(), recv(MSG_OOB), select() and SIGURG. `normal` and
`oob` are what the program got.

**Semaphore, Lock.** `semadj` is the kernel's undo value of each process;
`ProcessEnds` applies it. Who is in semop() asks, who is between P and V owns.

**MCPrograms.** The programs share nothing; `program` is chosen in the initial
state and the others stand still. Each has the fairness of its own
specification.

**OneShot.** `armed` and `ready` are epoll's; `slot` is
`fds_for_new_worker.sockfd`, one variable for all threads; a thread's `sockfd`
is read from it in a step of its own. `asked` is history: what the thread was
started for; so is `misled`, the descriptors that a late thread, one whose
argument was overwritten before it read it, was started for or took instead. The
race is in every run: `oneshot_race` refutes the comment of line 150 with it, and
`oneshot` checks the arming protocol for the descriptors outside `misled`, while
misled threads read, close and rearm the others.

## 3. Runs

Twelve runs; times are those of two workers on a small machine.

| run | configuration | shows |
|---|---|---|
| `chat_safety` | 3 connections, one sends 2 texts, one 1, the third listens; limit 3 | `TableConsistent`, `ScannedOnce`, `EventsFresh`, `ArmedPointer`, `OnlyCopiesRepeat`; 3.3 million states, 1 min |
| `chat_live` | 3 connections, 1 of them talking, limit 2 | `TypeOK`, `ClosedReaped`, `EveryConnectionAnswered`, `KeepsRoster`: the limit is reached, one is refused; 0.5 min |
| `chat_echo` | 3 connections, 2 of them send 1 text, limit 3 | violates `NoEcho` |
| `timer` | 3 descriptors, 1 talker, every peer may leave, backlog 2, SIGTERM | `ListMatchesClients`, `NoUseAfterFree`, `OnlyIdleClosed`, `AcceptNeverEmpty`, `TickOnItsWay`; 4.2 million states, 1.5 min |
| `timer_crash` | 3 descriptors, 2 talkers | violates `HeadCanBeDeleted` |
| `timer_idle` | 3 descriptors, fairness | violates `IdleIsClosed` |
| `programs` | timer test: every sequence of up to 4 inputs out of 4 times; wheel: 3 slots, 3 timers of 0, 3 or 4; client: 3 pieces typed, 2 texts; LT/ET: 2 connections of 2 pieces; signals: a pipe of 2, a backlog of 2; urgent: 2 bytes before and 2 behind; semaphore: as it is | `PrintsAscending`, `EqualsKeepOrder`; `FiresOnSchedule`, `SlotsLinked`; `TypedInOrder`, `ServerEndSeen`; `BothRead`; `StopIsHeard`, `OnlyStopEnds`; `StreamRead`; `TakesTurns`; 0.2 million states, 1 min |
| `http` | three requests and a wide line, and what one replaced, omitted or inserted symbol makes of two of them; every way to cut them | `SameVerdict`, `IndicesOrdered`, `Answered`; 1 min |
| `shm` | 3 clients, 1 talker, limit 2, SIGTERM any time | `ParentTable`, `NoZombieForgotten`, `StopLeavesAtMostOne`, `KeepsRoster`; 2.7 million states, 2.5 min |
| `shm_segment` | 3 clients, 2 talkers | violates `ShmNoEcho` |
| `oneshot` | 3 descriptors, 2 threads, the peers of two descriptors may close | `TypeOK`, `OneWorkerPerFd`, `NobodyForgotten`, `InputRead`; 0.4 million states, 1.5 min |
| `oneshot_race` | the same | violates `WorkerServesItsFd` |

Why the bounds are enough. A table with a hole in the middle, a moved entry and
one more needs three members; a list whose head, middle and tail differ needs
three timers; two children that own one segment need three clients and two
places. Two texts of one sender can overtake each other or be overwritten, one of
another is enough for a second buffer that is left behind, used again or copied;
two connections in the backlog are enough for an edge that stands for two. Two
threads are enough for one to overwrite the argument of the other, and the third
descriptor is then one that the race has not touched; `InputRead` excuses an event
that waits while both threads are in use, since the code has no such bound.
`BufferSize` is 12, so that one of the requests just fills the buffer and one
does not fit. On a wheel of three slots the timeouts 0, 3 and 4 give a timer of
less than a tick, one that comes back to its own slot and one a rotation later
in another, and three timers share a slot. A full pipe of two has room for a
signal in front of the one that stops. `TimeSlot` is 1: a connection expires after three units, and ticks
fall at every phase of it. `MaxLate` = 0 makes `left` stop at 0: `tick` only
asks whether a timer has expired, and how `adjust_timer` compares two expired
timers is as for equal ones; larger values were tried and changed nothing.
`Script`, `Talkers`, `Leavers` and `Stops` say which peers send or close and whether
SIGTERM comes; a run with all of them would show the same interleavings more
often.

`CHECK_DEADLOCK FALSE` is in every configuration: each of these servers waits
for ever when its peers, which are bounded, are done, and most of the models
stop at a crash or an end.

## 4. Fairness

Nothing is assumed of peers or of who sends signals, except that time passes
(`WF(Environment /\ Elapse)` in `TimerServer`). Every server process or thread
is scheduled: weak fairness of its step, since each of its states that is not a
wait for the kernel has an enabled step. `ChatServer` also assumes that
accept() does not fail for ever while a connection waits and the entry is looked
at (`SF(Accept \/ Refuse)`): its failures are transient (no descriptors, an
aborted connection). `HttpParser` assumes that bytes which were sent arrive.
In `programs` the client, the LT/ET server, the signal loop, the receiver of
urgent data and the processes of the semaphore are scheduled; users, servers of
the client, signals, senders and kill(2) are free. Peers write a bounded number
of pieces: that an et() which is fed without a pause would never come back to
the other connections is outside these runs.

## 5. What the violations show

* `NoEcho` (line 159 of 9-6 server). When a member leaves, its entry in `users`
  receives a copy of the last member's. A `write_buf` of that last member that
  points into the leaver's `buf` now holds its own text, and is sent. A third
  member may wait for the leaver's text too: if the copied one was delivered to
  it before, it is sent a second time. That is the case `OnlyCopiesRepeat`
  excludes: without its `copied` TLC finds this after a recv() that fails (line
  147) at a member whose text the third one waits for.
* `HeadCanBeDeleted` (line 112 of 11-2). `head = head->next;
  head->next->prev = NULL` dereferences NULL when the list has two nodes.
* `IdleIsClosed` (lines 138, 148 of 11-2). `if (timer = head)` assigns. Whatever
  timer was renewed, the head is moved; the renewed one stays where it is, and
  hides those behind it from `tick` for as long as it is renewed. With a
  comparison instead the property holds.
* `ShmNoEcho` (line 393 of 13-4). After a child is reaped, the number of a live
  child can be given to a new one; both write to one segment.
* `WorkerServesItsFd` (line 150 of 9-4). The argument of a thread is a variable
  of the loop; the next event of the batch overwrites it before the thread has
  read it. Two threads then serve one descriptor, and the other stays disarmed
  with what it has sent.

Met while reading, without a run: the assertion of line 180 of the chat server
aborts when a peer resets between poll() and send() (`WriteAbort`); lines 166
and 183 do not clear the events they mean to clear, so that the server spins
once a text was sent; 13-4 and 9-3 never call listen(); 11-5 does not compile
(line 143) and its `tick` drops the rest of a slot's list (line 150), whose
timers never fire; 13-3 removes its semaphore by IPC_PRIVATE, which happens to
equal IPC_RMID, and leaves it behind when fork() fails or the parent is killed.
The chat client sleeps in its second splice() for ever when standard input, a
terminal or a file, ends (line 81), and spins when it is a pipe that ends; it
does not print what came together with the server's end (line 65), which is the
refusal when the room is full. 9-1 has the exception in an `else if` (line 70)
although line 69 says that it is read with MSG_OOB: when bytes behind the urgent
one have come before select() returns, recv() passes it and it is lost. 10-1
loses a signal when the socket pair is full, and calls accept() once for each
edge, as 9-3 and 11-3 do, so that connections that come together wait for
another. `setnonblocking` of 9-5 passes F_GETFL where it means F_SETFL (line
21), so that its connect() blocks and the time limit below it never applies, and
line 56 adds to a `writefds` that was not cleared. 6-2 deletes a `file_buf` that
was never set when the file cannot be read (line 113).

## 6. Proofs

Every invariant and action property that a passing run checks is also proved,
for every value of the constants that satisfies the module's assumption: any
number of connections, descriptors, threads, timers or children, any buffer,
any stream, any wheel. Each component has one inductive invariant, whose parts
are named for what they say, one lemma per action, and theorems that read the
properties off the invariant.

| module | theorem | states |
|---|---|---|
| `ChatProofs` | `TypeCorrect`, `TableCorrect`, `ScanCorrect`, `ArmedCorrect`, `EventsFreshCorrect`, `OnlyCopiesRepeatCorrect`, `RosterKept` | `TypeOK`, `TableConsistent`, `ScannedOnce`, `ArmedPointer`, `EventsFresh`, `OnlyCopiesRepeat`, `KeepsRoster` |
| `TimerProofs` | `TypeCorrect`, `ListCorrect`, `MemorySafe`, `IdleCorrect`, `TickCorrect`, `AcceptCorrect` | `TypeOK`, `ListMatchesClients`, `NoUseAfterFree`, `OnlyIdleClosed`, `TickOnItsWay`, `AcceptNeverEmpty` |
| `HttpProofs` | `HttpTypes`, `IndicesCorrect`, `VerdictCorrect` | `TypeOK`, `IndicesOrdered`, `SameVerdict` |
| `ShmProofs` | `TypeCorrect`, `TableCorrect`, `NoZombieCorrect`, `StopCorrect`, `RosterKept` | `TypeOK`, `ParentTable`, `NoZombieForgotten`, `StopLeavesAtMostOne`, `KeepsRoster` |
| `OneShotProofs` | `TypeCorrect`, `OneWorkerCorrect`, `NobodyForgottenCorrect` | `TypeOK`, `OneWorkerPerFd`, `NobodyForgotten` |
| `ProgramProofs` | `PrintsCorrect`, `OrderKept`; `WheelLinked`, `WheelOnSchedule`; `TypedInOrderCorrect`; `OnlyStopEndsCorrect`; `ProgramTypesCorrect` | `PrintsAscending`, `EqualsKeepOrder`; `SlotsLinked`, `FiresOnSchedule`; `TypedInOrder`; `OnlyStopEnds`; `ProgramTypesOK` |
| `ProgramProofs` | `BothReadSafely`, `UrgentKept`, `SemaphoreIsALock` | the safety halves of `BothRead`, `StreamRead`, `TakesTurns` |

**ChatProofs**, the table. The properties rest on one inductive invariant,
`IInv == TypeOK /\ Table` (theorem `Inductive`). `Table` is `TableConsistent`
with one quantifier per direction (`EntriesDistinct`, `EntriesOpen`,
`OpenListed`) and one fact more: entry 0, the listener, has at most POLLIN in
its `revents` (`ListenerEvents`). Without it a step could take the listener for
a member and remove it; with it, every branch that drops a member is at an index
between 1 and `user_count`. `TypeOK` is not inductive alone for the same reason:
`users` is indexed by the descriptor of the entry the scan is at. `ScannedOnce`
and `ArmedPointer` are proved relative to `IInv`: the first needs that `seen` is
empty while the scan is at entry 0, where accept() happens (`ScanInv`), so that
a new descriptor counts as not handled; the second needs that POLLOUT is
registered only together with an assignment of `write_buf`, also through the
copy a leaver's entry receives.

Then the connections: where each is (`Placed`, theorem `PlacedCorrect`): not yet
made, in the backlog once, behind one descriptor, or closed. `TableConsistent`
says nothing of connections, and without `Placed` a step for one entry could
change what another entry's event or text means. From it follow `KeepsRoster`,
which maps each branch to a step of `Roster` or a stutter, and `EventsFresh`.
For `OnlyCopiesRepeat`, texts are numbered, and what is in a buffer or was got is
older than all the sender's texts that are still unread (`InOrder`,
`BufferedPast`, `GotPast`): so a recv() puts only newer texts behind a borrowed
`write_buf`. A buffer whose user has left keeps its text, and whoever gets its
descriptor next clears it before reading into it; neither lets anything old
come back. A copy does: it brings the text of the last entry, which some who
wait for the leaver's text have got already. So the property holds of the
buffers outside `copied`, and of these without another condition.

**ListProofs.** A list is a number `n` and a sequence `s` of distinct nodes:
`Chain(l, n, s)` says that `next` leads from each to its successor and the last
one to NULL, that `tail` is the last, and that the `prev` of every node but the
first is its predecessor *or NULL*; `Listed` adds that these are all the
allocated nodes and that `head` is the first. The weak `prev` is what the code
leaves: del_timer of a head sets the `prev` of the third node to NULL (line 112),
and a later del_timer of that node stores through NULL. One lemma per operation
(`AddLists`, `AdjustLists`, `DelLists`, `TickLists`) says that a `Listed` list
stays so, with a new node where the code puts it; `DelLists` allows the fault of
a store through NULL instead. None allows one through a freed pointer. None of them needs the
list to be in order: `adjust_timer` (line 138) does not keep it. `AfterIs`
unfolds the walk along `next`, and `ListedChained` says that `Listed` is
`Chained`.

**TimerProofs.** The loop: the alarm, a byte with an edge, or the flag is always
there, because the loop sleeps only with no event left to handle (`Handled`),
and an edge of the listener is covered by the backlog, one edge by one
connection (`EdgesCovered`). The connections (`Served`, theorem `AlwaysServed`):
the list is `Listed` and its nodes are the open connections (`ListKept`), events
are of open connections only (`EventsOfOpen`), so that no branch deletes a timer
twice, and `left` tells how long a connection has been idle (`IdleTold`), so
that what `tick` takes off the front is idle, in order or not.

**HttpProofs.** `SameVerdict` compares the parser, which keeps its place from
one recv() to the next, with `Verdict`, which looks at the whole text. The
invariant `HttpInv` says what the three indices mean: the buffer holds the
stream from `start_line` on (`Kept`), no CR or LF was passed over since
(`NonePassed`), a line starts behind a CR LF (`Started`), recv() is called with
everything checked but for a CR at the end (`Resting`), and nothing that was
checked decides (`StillOpen`). `PrefixDecides` says that a prefix has the line
ends and the stray CRs and LFs of the stream that lie in it, so that the verdict
on what was read is settled by the first place where a line is ill-formed or
empty. The
scan over the words of the request line (`ScanIs`, `FormIs`) is done for lines
of any length.

**ShmProofs.** `ParentTable` needs two directions (`EntriesAreChildren`,
`ChildrenListed`) and that nobody comes back from the backlog, so that the
parent never forks for a connection that has a child (`Arrival`). `ChldInv`
follows a SIGCHLD from the pending set to the byte, the edge and the loop of
waitpid(); `StopInv` says where in a batch the parent may be once `stop_server`
is set.

**OneShotProofs.** A connection outside `misled` is armed, in the batch, or with
one thread (`NotBoth`, `BusyAlone`, `BusyApart`, `Somewhere`). Nothing is assumed
of the threads. A thread that reads a wrong argument adds its own descriptor and
the one it takes to `misled`; from then on it reads, closes and rearms only a
descriptor in it (`Argument`), so that the protocol of the others is undisturbed.
`TypeOK`, and that accept() finds a connection (`Basic`), hold of all.

**ProgramProofs**, program by program.

* Client: each splice() takes a prefix of one sequence to the end of the next,
  and the three together change only when the user types.
* Signals: `errno` is epoll_wait()'s when line 105 tests it (`ErrnoIsOfWait`);
  what was reported is still there when it is handled (`ReportedCorrect`).
* Semaphore: the value and what SEM_UNDO would give back make one (`Conserved`),
  so that a process past P finds the other outside, whoever was killed.
* Timer test: the list is `Listed`, `Backed` (here `prev` is always right: the
  program only adds) and in order; what is added goes behind its equals.
* Time wheel. `WheelInv` says that there is a set `L`, the timers on the wheel,
  and a rank of each, which `next` goes down from the slot's head on, missing
  nobody (`Ranked`, `NextIsBelow`, `PrevIsAbove`, `HeadIsTop`). `L` is not
  `heap`: tick() drops the rest of a list behind an expired head (line 150), and
  those timers stay allocated; that they point at nothing on the wheel and
  nothing there at them is `Apart`. The ticks a timer has left are its
  rotations times `N`, the slots ahead, and `N` more once the `tick` in progress
  has passed it (`Scheduled`). That the walk of `SlotsLinked` visits exactly
  `L` and ends is an induction over the number of timers above (`Place`).
* LT/ET: a connection with an event is open until the server closes it, and one
  in the backlog is there once (`Watched`, `WaitOnce`). With that each step of
  lt() or et() is one of `Reader` or a stutter.
* Urgent data: a recv() never goes across the mark with a byte in hand, and the
  urgent byte is passed only when no SIGURG is pending (`MarkKept`).
* All together: `EachAsAlone` says that in the model of `MCPrograms` each program
  has its own behaviours, so that what is proved of one holds there.

The assumptions are those named `...Assumption` in the modules, which TLC
evaluates on every run: ranges of the bounds, distinct model values, and finite
sets where something is counted (descriptors, timers), which addresses and
descriptors are.

Two things the proofs changed in the model: `Store` had two overlapping
guards in a CASE when a fault was already there, so that it said nothing of the
result; it is an IF now. And the walks of `SlotsLinked` and `Chained` are bounded
by the number of timers, so that the timers of the wheel are assumed to be
finitely many.

Only model-checked are the properties that say that something happens:
`ClosedReaped`, `EveryConnectionAnswered`, `InputRead`, `Answered`,
`ServerEndSeen`, `StopIsHeard`, and the fairness in `BothRead`, `StreamRead` and
`TakesTurns`. Liveness under fairness and ENABLED are out of the prover's
reach. The library's induction theorems take an operator as parameter, which
the provers cannot instantiate; over numbers, `NatSet` of `NumberProofs`
states induction for a set instead, and that is what the walks and scans use.

## 7. Mutants

For every checked property a module has a plausibly wrong form of one of its
definitions (`RoomOffByOne`, `TailStays`, `AfterReapNoLoop`, `TakenOne`, ...),
just before the right one. In its place it makes TLC find the property violated.

## 8. What is abstracted

Texts are records or names, never bytes, and are sent whole; descriptors are
small numbers; addresses, messages on the console and the "too many users" text
are left out. send() to a member blocks never (the sockets are non-blocking and
the texts short). epoll reports the events of a batch in any order. Errors of
system calls that set the servers up, all of which end the program at once, are
not modelled.

Not modelled: the sockets' set-up calls, and the programs that are one call
after another: 9-5 and 11-1 (one connect(); what goes wrong there is in the
arguments, see section 5), 5-3 to 5-12, ch6, 9-2, 9-8, 12-1. 5-6 is the sender
of `Urgent`. The destructors of the timer list and of the wheel run at exit only.

## 9. Plan

1. (done) Chat room with its proofs; timer list, its server and its test;
   HTTP parser; shared-memory chat; EPOLLONESHOT.
2. (done) Chat client, time wheel, LT/ET, signals, urgent data, semaphore; the
   abstract `Roster`, `Reader` and `Lock` and what implements them.
3. (done) Proofs of every invariant and action property of the runs, and of the
   refinements of `Roster`, `Reader` and `Lock` without their fairness.
4. To do: the order of the list between two renewals (what `IdleIsClosed` would
   need of an `adjust_timer` that compares); an abstract "one reader per
   connection" that `OneShot` implements, checked and proved; which timers of the
   wheel a `tick` drops; the invariants of the proofs as invariants of small
   runs, where they can be enumerated.
5. Still open for TLC: the termination of `ShmChat` after SIGTERM with the
   signals that are lost.
