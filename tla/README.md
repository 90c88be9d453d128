# TLA+ models of the network programs

The repository is a collection of small network programs: TCP and UDP servers
and clients in C, a pair of servers in Python and Lua, clients for a wireless
board (`ameba/`). Each is a process (or a few) around a system-call loop. This
directory models the programs whose loops have state worth checking, together
with the part of the kernel and the peers they depend on, checks the models
with TLC and proves the central results with TLAPS.

## Inventory

| component | state it keeps | operations | interacts with | what is hard | what makes it correct |
|---|---|---|---|---|---|
| `C/nonblock_stream_client.c` `str_cli` | buffers `to`, `fr`, four pointers, `stdineof`, `rset`, `wset` | read stdin, read socket, write stdout, write socket, shutdown | user, stdout reader, echo server | partial reads and writes, full buffers, end of input in the middle of a buffer | nothing lost, doubled or reordered; FIN after the last byte; terminates |
| same file, `fork_str_cli` (the one `main` runs) | two processes sharing the socket | line copy loop, read loop, `kill(getppid())`, `shutdown`, `pause` | user, echo server | who ends whom; a parent that is dead or paused | both processes end, and only when they should |
| `C/basic_tcp_server.c` | children, one connection each | accept, fork, `str_echo` | any TCP client | short reads, peer gone | echoes what it read, closes at end of file |
| `C/select_server.c` | `cli_socks`, `cur_conn_cnt`, `active_fds`, `max_sd`, `rfds` | select, accept, refuse, recv, echo, close | clients through the kernel | snapshot of readiness, reused slots and descriptors, the limit, a client that does not read | tables agree, never waits for a message or a connection, every client served |
| `C/select_srv_better.c`, `ameba/tcp_select_server.c` | the same with `maxi`, `nready` | the same without a reply | clients | countdown of ready descriptors, failing accept | count exact, every client served |
| `C/epoll_server.c` | epoll set, batch of events | accept all, read all, close | clients | edge triggering, descriptor reuse inside a batch, failing accept | no event is lost |
| `C/heartbeat_cli.c`, `C/heartbeat_srv.c` | `got_reply`, `already_reset`, `expire_cnt` | connect, recv, handlers of SIGURG, SIGALRM, SIGCHLD | each other, by urgent data | handlers that interrupt the main loop and each other, coalesced signals, one-byte urgent mark | an alive peer is never declared lost; a dead one is |
| `C/heartbeat_router.c`, `C/heartbeat_android.c` | the same per process, expiry count in a file | fork per connection, file read and write | each other, child processes, the file | parent and child writing the file, stale child pid | the same, and one reboot per loss |
| `multi_conn_server`, `select_tcp_udp_server`, `unix_stream_server`, `unix_stream_credential_server` | children | accept, fork, SIGCHLD handler | clients | interrupted accept, coalesced SIGCHLD, zombies | the parent goes on serving; children are reaped |
| `Python/select_server.py`, `select_client.py` | `inputs`, `outputs`, `msg_queue` | accept, recv, send, remove | clients | a socket closed in one list and still in another | lists and queues agree |
| `Lua/server.lua`, `client.lua` | table of clients, `conn_count` | accept, receive, send, remove | clients | removal while traversing | every client polled |
| daytime programs | list of addresses, daemon descriptors | address loop, fork, `setsid`, reply | clients, inetd | failing socket() in the loop, leaked descriptors | the loop ends; one reply per connection |
| `mycat`, `openfile` | passed descriptor, exit status | socketpair, fork, exec, waitpid, recvmsg | each other | order of wait and read, missing descriptor | prints the file or reports the error |
| `http_client`, `advio`, `getservbyname` | buffers, an alarm | connect, send, receive | servers | partial sends, alarm racing connect | whole request, whole response |
| basic, select, UDP and Unix-domain clients and servers | one request in flight | request, response | each other | lost or late answers | answer matches request |
| `endian`, `dns`, `gethostbyname`, `unixbind`, `simple_interface_info` | none | print what a call returned | none | none over time | not modelled |

## Plan

In this order; rows marked done are described below.

| module | models | abstract specification | composed with |
|---|---|---|---|
| `StrCli` (done) | `str_cli` with `str_echo` as its peer | `BytePipe` | user, stdout reader, kernel queues |
| `StrCliProofs` (done) | theorems about `StrCli` | `BytePipe` | |
| `SockEnv` (done) | listen queue, descriptors, peers | | extended by the servers |
| `ReplyQueues` (done) | what servers sent and clients have not taken | | extends `SockEnv`; extended by two servers |
| `SelectServer` (done) | `select_server.c` | | `ReplyQueues` |
| `SelectSrvBetter` (done) | `select_srv_better.c` | | `SockEnv` |
| `EpollServer` (done) | `epoll_server.c` | | `SockEnv` with edges |
| `AddrLoop` (done) | the six loops over `getaddrinfo()` | | |
| `EpollMain` (done) | `main` of `epoll_server.c`: `create_and_bind`, then the event loop | | `AddrLoop`, `EpollServer` |
| `UrgentNet`, `HeartbeatCli`, `HeartbeatSrv`, `HeartbeatPair` (done) | `heartbeat_cli.c` and `heartbeat_srv.c` | | each other, clock, network, kills |
| `HeartbeatRouter` (done) | `heartbeat_router.c`: parent, children and the counter file | | peers, clock |
| `ForkServers` (done) | the five servers that fork a child per connection | | extended by `ForkEcho` |
| `ForkEcho` (done) | `fork_str_cli`, and any other clients | | `ForkServers` |
| `PySelectServer` (done) | `Python/select_server.py` | | `ReplyQueues` |
| `ForkEchoProofs`, `HeartbeatRouterProofs`, `HeartbeatPairProofs` (done) | theorems about `ForkEcho`, `HeartbeatRouter` and `HeartbeatPair` | | |
| `SockEnvProofs` (done) | lemmas about the kernel, the clients and filtered lists of `SockEnv` | | extended by the next three |
| `SelectServerProofs` (done) | theorems about `SelectServer` and `PySelectServer` | | |
| `SelectSrvBetterProofs` (done) | theorems about `SelectSrvBetter` | | |
| `EpollServerProofs` (done) | theorems about `EpollServer` and `AddrLoop` | | |
| `LuaServer`, `PassFd`, `Datagram` (open) | the Lua programs, `mycat` and `openfile`, the datagram programs | | |

Every safety invariant and action property that a run checks is proved, but for
those of the four runs that show a violation.

## Models and code

**`StrCli`** is the loop of `str_cli`. `pc` is the `if` statement the loop has
reached: `select`, then `stdin`, `sockr`, `stdout`, `sockw`. Each branch of each
`if` is an action: the condition does not hold (`PassBy`), the call would block
(`WouldBlock`), it fails (`Fail`), it returns 0 (`StdinEof`, `SockEof`), or it
moves any number of bytes it may move (`ReadStdin`, `ReadSock`, `WriteStdout`,
`WriteSock`). Pointers are offsets into `to` and `fr`; the k-th byte typed is the
number k, so that loss, duplication and reordering are visible. A read of length
0 returns 0, as the kernel does. The peer is `str_echo`, which reads a chunk and
writes it back through a bounded queue. The user may stop typing at any point,
the reader of standard output may be slow, the server may be killed, and bytes it
did not read are answered by a reset. `pc` ends as `returned` (the branch called
normal termination), `exited` (the message about the server) or `failed`.

**`BytePipe`** is what one direction promises: bytes come out in the order they
were taken, at most `Cap` are held, and the sink is closed only after the source
has ended and everything is out. `UpPipe` in `StrCli` is its instance under the
mapping `taken <- consumed`, `ended <- stdineof`, `out <- wire`,
`closed <- finSent`.

**`SockEnv`** is the kernel as the single-process servers see it: a listen queue,
the descriptor table (accept takes the lowest free number, so numbers are
reused), messages not read yet, and peers that connect, send, leave or reset.
Connections are numbered in the order in which they are made. **`ReplyQueues`** adds
the other direction for the two servers that answer: a queue per connection with
room for `ReplyRoom` messages, from which the client reads when it likes, or never.

**`SelectServer`**, **`SelectSrvBetter`** follow the loops of the two select
servers; `ameba/tcp_select_server.c` is the second loop once more, but for what
it prints. The steps are the calls whose outcome depends on the peers; the passage
over slots that are free or not ready is folded into the set `Pending` of slots
the loop will still serve, which is evaluated again after every step with the
bound of the loop (`cur_conn_cnt`, which the body lowers, or `maxi`).
`SelectServer` keeps the reply sent after the closing cases, to a descriptor that
is closed, and the end of the process by SIGPIPE. Its sockets block, so each of its
three `send()` calls (`SendTo`) waits while the queue of the client is full, and
with it the process: `NeverBlocks` is about `accept()` and `recv()` only, and
`EveryMessageRead` has the exception `[]SendWaits`, a client that never reads again.

`SelectSrvBetter` keeps the failing `accept()` whose -1 is stored and counted.
`FD_SET(-1, &active_fds)` is undefined; `AcceptFails` follows three outcomes: no bit
is set, the last bit of the first word is (`StrayFd`: 63, or 31 with words of 32
bits, and in either case above any descriptor that 10 clients can have), or the
check of a fortified build ends the server. Nobody clears a stray bit. `select()`
looks at `Watched`, the part of `active_fds` up to `max_sd`, and fails for ever if it
holds a number that is not open; `TablesAgree` says that it never does, since
`max_sd` stays below the stray bit.

**`EpollServer`** adds the ready list of an edge-triggered epoll instance:
`Notify` puts a descriptor on it at a change, `epoll_wait()` takes at most
`MAXEVENTS` off it, `close()` takes the descriptor out. `Kept` (in `SockEnv`) is the filter on
lists that both use, written as a recursive function so that it can be proved
about. The accept loop and the
read loop of a batch are steps of their own, so that clients act in between.
`starved` is a history variable: an `accept()` failed, for want of descriptors or
because the connection was lost, and nobody has connected since.

**`AddrLoop`** is one machine with the four things in which the six loops over
the list of `getaddrinfo()` differ (what a failing `socket()` does, which call
must succeed, whether `setsockopt()` may exit, what happens at the end of the
list). Every subset of the list may be unsupported and every subset may refuse. Its
names do not occur in `EpollServer`, so that one module can prove about both.

**`EpollMain`** puts the two together as `main` of `epoll_server.c` does: nobody can
connect before `create_and_bind` has returned a socket, and a -1 aborts. The other
programs run up to their socket.

**`HeartbeatCli`**, **`HeartbeatSrv`** are the two sides: a main loop, and a
stack of handlers that interrupt the main loop or each other between any two
statements. A signal is blocked while its own handler runs and stays pending
once. `UrgentNet` is the connection: marks in flight each way, one place for a
mark at each end, `F_SETOWN` at the server's end. `HeartbeatPair` composes them
with the network, a clock that advances only when nobody has a statement to run,
and a server that may be killed and started again. The client is either
`heartbeat_cli` or `heartbeat_android`, which differ in one statement: the second
closes the connection in its main loop too (`CloseAfterRecv`). Which free
connection a `socket()` gets is fixed, since connections have no identity.

**`HeartbeatRouter`** is the parent of `heartbeat_router.c` with its handlers of
SIGALRM and SIGCHLD (a stack, as above), and a child per connection with its
handler of SIGURG. The counter file is one variable: `open(O_TRUNC)` makes it
`Empty`, `write()` gives it a number, and the two are separate steps of whoever
does them, so that parent and children interleave between them. A read of the
empty file returns whatever the stack held; the file may be left from an earlier
run. `system()` is a step that leaves a SIGCHLD pending although it has collected
its shell; `wait(0)` collects a child, returns if there is none, and otherwise
waits. `cli_open` says whether the parent's descriptor is open when `fork()`
copies it, since the alarm may close it just before. `silent` and `tainted` are
history variables: alarms counted since a reset that no alarm was in the middle
of, and whether a count has since come from a file that was empty or old.

**`ForkServers`** is one machine for the five forking servers. `Program` collects
what they do differently: the sockets `main` opens, the handler of SIGCHLD
(none; one that collects children; one that collects them and exits, as in
`multi_conn_server.c`), what a child does with a read of 0 bytes and after an
answer, and what a failing `fork()` leads to. `prog` is chosen in `Init` and
`limit`, the number of processes the system allows, with it. The parent is at a
call (`pc`), its handler runs or not (`hdl`), and `holds` is the descriptor table
of every process: `fork()` copies the parent's, and the connection ends for the
client when nobody holds it. `select_tcp_udp_server` has `select()` in front of
`accept()` and `recvfrom()`; a handler that interrupts `select()` makes it fail,
while `accept()` is restarted. SIGINT is sent by the terminal to every process of
`multi_conn_server`.

**`ForkEcho`** adds the clients: for `basic_tcp_server` the first one is
`fork_str_cli`, a writer (`wr`) and its child, a reader (`rd`), on one socket;
all others connect, send, shut down their sending side or end as they like. A
`fork()` that fails in `fork_str_cli` is not noticed: the writer then runs without a
reader. The children of the two Unix servers do not tell the end of file from data
(`unix_stream_server.c:35`, `unix_stream_credential_server.c:85`): one whose client
only shut down its sending side answers for ever, and `ServedToTheEnd` asks of those
servers that the connection is closed once the client is gone, of the others that it
is closed after a half-close too.

**`PySelectServer`** walks the three lists `select.select()` returned (`todo`),
one element a step, in the order of the code. `inputs` and `outputs` are
sequences, `msg_queue` a function on the connections that have a queue. What the
code does not catch (a missing key, a closed or reset socket) ends the server:
`crashed`. A `send()` takes any part of the message; the connection is then in
`short`. `select()` reports in `writable` only the connections of `outputs` whose
queue has room (`Writable`); one that is left out is not answered until the client
reads, and when nothing else happens the time-out ends the server with the answer
unsent. `EveryMessageAnswered` has the exception `[]Full(c)` for that one client: the
others are not held up by it. What its actions have in common with `SelectServer` is named with the
prefix `Py`.

## Runs

| run | specification and bounds | shows |
|---|---|---|
| `StrCli` | fair, with faults; buffers of 2, 4 bytes of input, queues of 1 | both streams intact (`InOrder`), the FIN after the last byte, no false alarm, refinement of `BytePipe`, every byte echoed or the client ended, termination after the end of input, no deadlock |
| `StrCli_normal` | the same with 3 bytes, without faults | **violation**: the return called "normal termination" drops bytes received that are still in `fr` |
| `SelectServer` | fair; 3 connections, limit 2, 3 descriptors, 1 message each, room for 1 answer | tables agree, `accept()` and `recv()` never block, refusal only at the limit, every message read while no lower slot is free and no client leaves the server waiting in `send()` for ever |
| `SelectSrvBetter` | fair; 3 connections, limit 2, 3 descriptors, 1 message each, failing `accept()`, stray bit 3 | `nready` exact, tables agree, `accept()` and `read()` never block, every client served unless a checked `FD_SET` ended the server |
| `EpollMain` | fair, with faults; lists of 3 addresses, then, on the list where all works, 3 connections, 2 descriptors, 1 message each, batches of 2 | first good address, no socket left open, a good address is found; events never stale, no edge lost, closed only after the last byte, every client served |
| `AddrLoop_next` | fair; lists of 3 addresses | **violation**: four loops never leave an address whose `socket()` fails |
| `HeartbeatPair` | fair; either client, 2 connections, intervals of 3 and 1 seconds, one kill, late network | one mark per connection, one connection, detection within two intervals, the client follows the server |
| `HeartbeatPair_lost` | prompt network, no kill | **violation**: the client gives up a server that answered |
| `HeartbeatRouter` | fair; 2 connections, `PEER_EXPIRE_CNT` 2 | a reboot only after the full count of silent alarms, or a spoilt count; `wait(0)` blocks only after a reboot; silence is detected |
| `ForkEcho` | fair; 5 programs, 2 connections, 2 messages each, 1 or 2 processes, 1 datagram | no zombie forgotten, a connection is its child's alone, `accept()` and `recvfrom()` behind `select()` do not block, a writer of `fork_str_cli` left in `pause()` has had no answer, everybody served to the end |
| `ForkEcho_kill` | the same, without fairness | **violation**: the reader ends the writer while the server is alive |
| `PySelectServer` | fair; 2 connections, 2 messages each, 2 descriptors, room for 1 answer | lists, queues and sockets agree, an exception only after a departure or urgent data, every message answered unless a `send()` was short or the client's queue stays full |

The bounds are small but reach every case of the code. In `StrCli` a buffer of 2
is left half written, rewound, and filled while the reader is slow, and 4 bytes
are what is needed to fill `fr` with one byte on the screen and one in the queue.
In the servers 3 connections compete for 2 places, so that a connection is
refused or starved, a slot or a descriptor is freed and used again, and more is
ready than a round or a batch takes. `EpollMain` follows the event loop for one list of addresses only, since it
is the same on every socket (`AllWork`). In `HeartbeatPair` the client's interval and
its sleep are those of the source; the server's alarm, which drives nothing but
its counter, rings every second instead of every other one, so that it falls
together with every heartbeat; the expiry counts are 1 instead of 3, which only moves a message;
two connections are enough for one that is being closed and its successor.
In `ForkEcho` two children are enough for ends that coincide while a handler
runs, and a limit of 1 process for a `fork()` that fails because of a zombie; two
messages let the reader kill the writer between them. In `HeartbeatRouter` two
connections give a child that is killed while another lives, and a limit of 2
separates a count that was reset, one on its way, the limit and what is beyond it
(30 in the source; every larger count behaves alike, since it is compared for
equality). In `PySelectServer` two clients are what it takes for one to leave
between the element of `readable` and the element of `writable` of the other.
`ReplyRoom` is 1, so that in both servers the second answer meets a full queue while
the first is not read. `StrayFd` is 3, the least number above the limit of 2, which
is the nearest the stray bit may come to the descriptors in use.
`MaxMsgs`, `ReplyRoom`, `MaxDgrams`, `MaxProcs`, `MaxFds`, `NConns`, `StdinLen`, `MaxKills` are the bounds on what the
environment does; the counts of the programs are not bounded except by
`PEER_EXPIRE_CNT`, beyond which a count is not followed.

`CHECK_DEADLOCK FALSE` is set for the servers, which wait in `select()`,
`accept()` or `epoll_wait()` for ever once every connection has come and gone, or
stop when they exit, and for the router, which may stop in `wait(0)`. `StrCli` and `HeartbeatPair` are checked for deadlock.

### Fairness

Processes are scheduled: weak fairness of the server's, or of the client's,
next step. Clients of the servers and the user of `str_cli` owe nothing. In
`StrCli` whatever reads standard output goes on reading (weak fairness of
`Show`), and a read that `select()` announced does not fail with EWOULDBLOCK for
ever (strong fairness of the two reads); without the first a client rightly
waits for ever. In `ForkEcho` the parent, each child and the processes of the client are
scheduled, while the user need not type; in `HeartbeatRouter` the parent and each
child are, and an alarm that is set rings. In `HeartbeatPair` time passes and marks arrive in the end, both
weakly fair; `FollowsServer` says what follows if only finitely many seconds pass
with something under way.

## Proofs

`StrCliProofs` proves, for every buffer size, input length, queue capacity and
with or without faults (`SizesAssumption`: sizes positive, the input finite):

- `TypeCorrect`: `Spec => []TypeOK`; the pointers stay inside the buffers;
- `StreamsIntact`: `Spec => []InOrder`;
- `EndOfInputCorrect`: `Spec => []FinAfterLastByte`;
- `AlarmsCorrect`: `Spec => []NoFalseAlarm`;
- `UpPipeRefinement`: `Spec => UpPipeSpec`.

All rest on the inductive invariant `IInv`. `InOrder` alone is not inductive:
what arrives in `fr` is in order only if what `str_echo` holds and has written is
(`EchoStream`), a write takes the right bytes only if the out pointer does not
pass the in pointer (`Pointers`), and the end of input is real only because a
descriptor `select()` reported was of interest, hence the buffer had room, and
nothing between the `select()` and the read takes that room away (`Interest`).
`EndOfInput` orders the end of the input, the FIN and the ends of the two
processes. The actions that move bytes have a lemma each (`ReadStdinIInv`,
`ReadSockIInv`, `WriteStdoutIInv`, `WriteSockIInv`, `SrvReadIInv`,
`SrvWriteIInv`); the others leave the data alone (`ControlData`) and are treated
together (`ControlIInv`). The refinement adds `WireExtends`: a write to the
socket appends exactly the next numbers.

`ForkEchoProofs` proves about the five forking servers, for any number of
connections, messages, processes and datagrams (`ForkAssumption`):

- `NothingForgotten`: `Spec => []NoZombieForgotten`. The invariant is inductive
  as it stands, given the type of `child` (`ZInv`): the end of a child raises the
  signal, and the handler returns only when no zombie is left;
- `ConnectionsSeparate`: `Spec => []HeldByChildOnly`. The strengthening `HInv` is
  needed for `fork()`, which copies the parent's table: it says that this table
  has no connection but the one being handed over (`HandedOver`), and that a
  child has its own from its start and no other (`OwnOnly`);
- `TypesKept`: `Spec => []TypeOK`. `TInv` adds to `HInv` what bounds the counters:
  no more is unread than was sent, of messages and of datagrams;
- `SelectorNeverBlocks`: `Spec => []NeverBlocks`. `NInv` adds that a datagram
  `select()` reported is still there while the parent is busy with `accept()`,
  `fork()` and `close()` of the same round;
- `ReleasedByAnswer`: `Spec => []WriterReleased`, and `WriterEndsRightly`:
  `Spec => []EndsByAnswerOrClose`, the writer is gone only after an answer was taken
  or once the server has closed, which is what holds of the comment that
  `KillsOnlyAfterServer` refutes. `WInv` adds that the reader kills only after
  it took an answer, and that the writer is gone once it has (`KillFollows`),
  that the two run only on a connection that was made (`OnceConnected`), and
  that the parent holds the listening socket until it exits (`Listens`).

`SockEnvProofs` has what the proofs about the single-process servers share, under
`EnvAssumption` alone: `EnvInv` (a connection is in one place, once in the backlog
or behind one descriptor, and was made before it is anywhere), that every system
call and every client step preserves it, and that what a client did stays visible
until the server takes it (`StaysReadable`, `OthersReadable`). `LowestLeast` says
that a set of numbers that is not empty has a least element: it is what makes
`accept()` and the searches for a free slot total, and it carries every induction
below, by the least number for which a claim fails. `KeptProperties` says what a
filtered list holds, by the least prefix that fails.

`SelectServerProofs`, for any `MAX_CLIENTS_NUM` and any numbers of connections,
descriptors and messages:

- `TypesKept`, `TablesAlwaysAgree` (`[]TablesAgree`), `ServerNeverBlocks`
  (`[]NeverBlocks`);
- `LimitExact`: `Spec => RefusedOnlyWhenFull`, an action property. It needs that
  `cur_conn_cnt` is the number of open descriptors, shown by the bijection between
  used slots and descriptors that `TablesAgree` gives.

`IInv` adds to `TablesAgree` that nothing `select()` reported has been closed when
`accept()` is called, so that the new descriptor is none of those (`Untouched`),
and that what is still to be served in this round is readable (`Reported`). The
second speaks of the whole table and not of the first `cur_conn_cnt` slots, because
an `accept()` of the same round raises that bound. A free slot exists below the
limit by counting (`RoomLeft`).

The same module proves about the Python server, under `EnvAssumption` and
`ReplyAssumption` alone:

- `PyListsAgree`: `PySpec => []ListsAgree`;
- `PyCrashJustified`: `PySpec => []CrashOnlyByDeparture`.

`PyInv` adds to them what is known of the three lists while they are gone
through: a list being gone through has an element left (`MoreToDo`); the listener
is in it once, and only while a connection waits (`MasterOnce`), so that a failing
`accept()` means a connection that was reset or a full table, which is then more
clients than descriptors by counting (`MoreThanDescriptors`); and a client whose
queue has gone since `select()` returned it has departed (`NoneForgotten`), which
is what makes the KeyError of a later loop its fault. `RoomLasts` is why `send()`
finds room: each connection is once in `writable`, and only the server's own `send()`
for it fills its queue (`FillsOnly`). `RemoveFirstElems` says what
`list.remove()` leaves of a list that holds each element once.

`SelectSrvBetterProofs`, for any `MAX_CONNECTIONS`: `TypesKept`,
`TablesAlwaysAgree` (`[]TablesAgree`), `CountAlwaysExact` (`[]NreadyExact`),
`ReceiverNeverBlocks` (`[]NeverBlocks`). `NreadyExact` is about a cardinality; that
exactly one element leaves the set at each step that lowers `nready` rests on
`Untouched` again: a descriptor accepted in this round is none of those counted.
`TablesAgree` needs `StrayUnwatched`: `active_fds` holds nothing but open descriptors
and the stray bit, and `max_sd` never exceeds `MAX_CONNECTIONS`, because while a slot
is free fewer descriptors than that are open and the lowest free one is taken
(`RoomLeft`, by counting).

`EpollServerProofs`, for any `MAXEVENTS` and any number of descriptors:

- `TypesKept` (`[]TypeOK`), `EventsAlwaysCurrent` (`[]EventsCurrent`),
  `NoEdgeEverLost` (`[]NoEdgeLost`);
- `AlwaysDrained`: `Spec => ClosedOnlyDrained`, an action property.

`IInv` adds what the handler at work knows of its event (`Handling`: the accept
loop works on the listener, the read loop on a connection), that an error was
reported of a connection that was reset (`Errors`; a reset is final, so the report
stays true), and that a descriptor stands on the ready list once (`ReadyOnce`),
without which a batch could name one twice and the second event would speak of a
closed descriptor. `NoEdgeLost` is argued in terms of sets (`EdgeIs`).
An event is left in two ways, each with a lemma: its descriptor has nothing more to
give (`LeaveEvent`), or is closed (`CloseEvent`).

The same module proves `FirstGoodReturned`, `AddrSpec => []ReturnsFirstGood`, for
lists of any length (`AddressesAssumption`). `AInv` adds what holds inside the
loop: no address passed so far works, and the socket of the address being tried is
the only one open.
These theorems are about `Spec` and `AddrSpec`; a step of `EpollMain` is a step
of one of these with the variables of the other unchanged, so the invariants are its
own as well.

`HeartbeatRouterProofs`, for any `PEER_EXPIRE_CNT` and any number of connections
(`RouterAssumption`):

- `TypesKept` (`[]TypeOK`), `WaitsOnlyAfterReboot` (`[]WaitsForTheDead`);
- `RebootAlwaysJustified`: `Spec => RebootJustified`, an action property.

The parts of `IInv`: at most one handler of each signal is on the stack
(`StackOK`); a connection has no child before its `fork()` (`Fresh`); until a
reboot, each SIGCHLD pending or being handled has a zombie that nobody else will
collect (`Owed`), which is what `wait(0)` finds; the count of an alarm on its way
and the one in the file are at most the number of silent alarms, unless the count
is tainted (`CountHonest`); and only a reboot closes the connection that is being
handed over (`HandedOver`).

`HeartbeatPairProofs`, for either client, any number of connections and kills, any
interval of the server, any expiry counts and a network that is late or not
(`NetAssumption`, `CliAssumption`, `SrvAssumption`, `PairAssumption`), and an
interval of the client of at most 3 seconds, the length of its `sleep()`
(`SleepAssumption`; both are 3 in the source):

- `TypeCorrect`: `Spec => []TypeOK`;
- `OneMarkAtATime`: `Spec => []OneMark`;
- `OneConnectionAtATime`: `Spec => []OneConnection`;
- `DetectedInTime`: `Spec => []DetectsInTime`.

None of the three is inductive, and they need each other. `IInv` has a part for the
connections (`NetInv`), one for the server (`SrvInv`) and one for the client
(`CliInv`):

- a connection carries one mark at most (`LinkInv`), and a SIGURG that is pending or
  about to be handled finds its mark (`SrvUrgent`, `CliUrgent`);
- the next heartbeat is sent only when the last one was answered: whenever
  `got_reply` is set, or the handler stands at the `send()` or before it sets
  `got_reply`, the connection is empty and the server owes nothing (`Answered`, with
  `Still`);
- the connection is the one `conn_fd` stands for (`Owning`); it is open outside
  `recv()` only when the peer has closed it and no mark is under way, and then either
  the alarm strikes before the `sleep()` is over or its handler is already running
  (`Retiring`). This is the timing argument: `heartbeat_cli` leaves the `close()` to
  the alarm, and with an interval of 4 TLC finds `OneConnection` violated;
- the timer is off until the first second of a connection and on until it is closed
  (`Unarmed`, `Armed`), and the time since the last answer and the time to the next
  alarm are bounded together (`Timing`);
- a stack holds at most one handler of each signal (`CliStack`, `SrvStack`), so that
  the set of the points at which handlers stand tells all about it (`StackFacts`,
  `Pushed`, `Popped`, `Moved`): the invariant speaks of these sets.

`CliFrame` and `SrvFrame` state what each program relies on while the other, the
network or the clock acts; every action has a lemma of its own.

Only model-checked:

- the liveness properties (`EveryByteEchoed`, `Terminates`, `EveryMessageRead`,
  `EveryClientServed`, `FindsAddress`, `FollowsServer`, `ServedToTheEnd`,
  `DetectsSilence`, `EveryMessageAnswered`), which are beyond the prover;
- the four properties of the runs that expect a violation (`NormalTermination`,
  `TriesNextOne`, `LossIsReal`, `KillsOnlyAfterServer`), which do not hold, and `PyTypeOK` and
  `AddrTypeOK`, of which the proofs need and prove only a part: that what the
  Python server answered stays below what was sent is a sum over a queue.

## Findings

- `src/C/nonblock_stream_client.c:152`: "normal termination" returns with bytes
  received and not yet written to standard output.
- `src/C/daytime_tcp_server.c:34` and three copies: "error, try next one" tries
  the same address again, for ever if its family is not supported.
- `src/C/heartbeat_cli.c:67`: `got_reply = 0` after `send()` may overwrite the
  answer to that very heartbeat; the client then gives up a server that answered.
- `src/C/nonblock_stream_client.c:62`: the comment above `kill()` says that it is for
  a server that ended abnormally; the code reaches it after every successful `read()`,
  with the server alive, and not when the server has closed. What is typed after the
  first answer is not sent.

`select_server.c` serves only the first `cur_conn_cnt` slots, so a client behind
a freed slot is not read until the slot is taken again. No text of the repository
claims otherwise; `EveryMessageRead` is stated with that exception (`Hole`).

Other behaviour the models show and no text of the repository speaks of:

- `heartbeat_router.c:78`: after a reboot the SIGCHLD of the shell makes the
  parent wait for a living child, and accept nobody, until one ends.
- `heartbeat_router.c:57`: a child clears its own copy of `already_reset`, so
  that the alarm of the parent reboots the peer at most once.
- `heartbeat_router.c:63`: a count read from an empty file may be above the
  limit, and is then never equal to it until a heartbeat sets it back.
- `select_server.py:65`: a client that leaves right after its message was
  answered is dropped from `readable` while it is still in `writable`; the
  lookup of its queue raises KeyError and ends the server.
- `select_server.c:178` (and 107, 136): one client that does not read its answers
  stops the server for all in `send()`.
- `select_srv_better.c:104`: `FD_SET(-1)` after a failing `accept()` leaves a stray
  bit, harmless only because `max_sd` stays below it, or ends a fortified build.
- `select_server.py:33`: the time-out ends the server although an answer waits for a
  client whose queue is full.
- `unix_stream_server.c:35`, `unix_stream_credential_server.c:85`: after a half-close
  the child answers for ever, and the connection is never closed by the server.
- `unix_stream_credential_server.c:27`: the parameter of `read_cred` is spelled
  differently from its uses, so the file does not compile as it is.

## Not modelled

Printing, error texts and the contents of messages. In the models above:
transient failures of `socket()` and the value of the never-set `n` in
`tcp_connect` beyond its two outcomes (`AddrLoop`); a failing `accept()` and the
SIGPIPE of a late `send()` in `heartbeat_srv.c`; connects that hang for minutes;
process numbers that are used again (`ForkServers`, `HeartbeatRouter`); bits of
descriptors that were never opened in a set that was not cleared, and datagrams
that `select()` announces and the kernel then drops (`ForkServers`); the process
that adopts the reader of `fork_str_cli` and gets its signals; answers that fill
the queue of a client that does not read, in the forking servers (`StrCli` has
that case for `str_echo`); messages that do not decode in the Python server.

Programs without a model: the Lua server and client; `mycat` and `openfile`;
the datagram programs; `http_client`, `advio`, `getservbyname`; the replies and
the daemonisation of the daytime programs; the clients that send one request and
wait for one response, whose behaviour is among that of the clients in `SockEnv`
and `ForkServers`; and the programs that print what a single call returned, in
which nothing changes over time. `PROJECT.json` gives the reason for each.
