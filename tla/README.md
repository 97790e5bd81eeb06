# Verification of Xpipe

TLA+ models of the Xpipe server (C, `src/`), model-checked with TLC on small
instances; the safety properties of the server, the protocol parser, the memory
pool, start-up, the file layer and the logger are proved with TLAPS for every
value of the constants.

Xpipe is meant to become a queue server; what exists is the network framework,
the parser of the application protocol, and what a daemon needs around them.
One thread runs everything.

## The system and its parts

| Part | Source | Modules | State |
|---|---|---|---|
| Event loop (epoll) | `net/net_event.c`, `net/net_epoll.c` | `TcpServer`, `ConnTable` | modelled, proved |
| Connections, requests, responses | `net/tcp_server.c` | `TcpServer`, `Session` | modelled, proved |
| Network module | `net/network.c` | `TcpServer`, `ConfFile`, `Startup` | modelled |
| Protocol parser | `net/protocol.c` | `Protocol`, `Session` | modelled, proved |
| Memory pool | `mem_pool.c` | `MemPool` | modelled, proved |
| Configuration parser and commands | `conf_file.c`, `xpipe.c`, `net/network.c` | `ConfFile` | modelled |
| Start-up, daemon, signals, main loop, modules | `xpipe.c`, `mod_manager.c` | `Startup` | modelled, proved |
| Dynamic array | `dynamic_array.c` | `DynamicArray` | what the parser uses |
| File layer | `xfile.c` | `XFile` | modelled, proved |
| Logger | `logger.c` | `Logger` | modelled, but for the terminal; proved |
| String helpers | `xstring.c` | `ConfFile`, `Protocol` | modelled |
| Time cache | `times.c` | | see "Not modelled" |

How they interact: `main` parses the configuration (whose commands fill in the
modules' `mod_conf` and loggers), prepares and initialises the modules, becomes
a daemon and then calls `process_network_mod` until SIGTERM.
That is one turn of `process_events`: wait for events, link the reported
connections into a list, and for each one call its read handler
(`tcp_server_accept` or `tcp_server_recv`), its write handler
(`tcp_server_send`), remove dead events, close it or register new events.
`tcp_server_recv` hands the bytes it read to `protocol_parse`; a finished or
wrong request is answered and destroyed with its memory pool.

`PROJECT.json` maps each definition to the lines it models, and lists the
hazards found in the survey with the properties that cover them.

## Modules

### TcpServer

State: the slots of the connection array (`conn`, `next`), what their
`request` points to (`req`), the two list heads, the cursor of
`process_events` (`pc`, `active_conn`), and the kernel's side: the epoll
registrations, the client sockets, the accept queue. `pools` counts memory
pools, `leaked` those nothing points to.

One turn of the loop is split into `epoll_polling`, the read handler, the write
handler, and the end of the body (`CloseActive`, `KeepActive`), because clients
and the kernel act in between. A handler is one action: its system calls see
one state of the socket. Handlers are operators on a context (connection,
request, socket) so that `tcp_request_process` calls `tcp_request_finish`,
which calls `tcp_server_send`, as in the code.

Abstractions:
- Bytes are counted, not looked at. `protocol_parse` returns any result and may
  learn any type; `Protocol` models what it does, and `Session` puts it in.
- A wait that times out or is interrupted changes nothing (stuttering).
- `accept` never finds the queue empty, as only the server takes from it.
- `EPOLL_CTL_MOD` on a registered descriptor does not fail; `EPOLL_CTL_ADD`,
  `accept`, `O_NONBLOCK` and allocations may (at most `MAX_FAIL` times).
- The kernel refuses to write once the peer has reset the connection.
- `mem_pool_destroy` succeeds. `MemPool` shows this needs pools without large
  blocks, that is, request buffers of at most 4096 bytes with their header.
- `is_listen`, `done` and the address of the client serve messages only.
- A call through a NULL handler ends the process (`pc = "crashed"`).
- The unsent response is bounded by the clients (`MAX_PEND`); the code does not
  compare it with the end of its buffer.

### ConnTable, TcpServerTable

`ConnTable` is what the loop and the connection pool promise together: a table
of slots, each free or with a descriptor of its own, and a set of connections
that were reported and are each handled once. It has no lists, cursors,
handlers, requests or buffers. `TcpServerTable` maps `TcpServer` to it: the table is
`conn[c].conn_fd`, the pending set is what the walk has yet to meet. That
`TcpServer` implements it is checked (`event_batches`) and proved.

### Protocol

`protocol_parse` is a fold of one turn of its loop (`Turn`) over the bytes
read. What it keeps in locals and saves only when it returns `PROTOCOL_OK`
(`state`, `data_len`) is kept apart from what it writes in place (`type`,
`start`, `end`). Pointers are positions; buffers end at known positions, so the
model knows when a token lies in two buffers. Then the difference of the
pointers is no name's length, and `atoi` reads on behind the buffer (constant
`Behind`, any of the given digits). A read brings a piece of any content that
fits into the last buffer. After an answer the next read begins a new request;
answers that block, and the requests left over from them, are in `TcpServer`
and `Session`.

`IsRequest` is the reference: a grammar, written without a parser.

### Session

`TcpServer` and `Protocol` together. The bytes of a request are in `text`, the
parser's state in `pro`, both per connection; `SessionRecvBytes` computes the
result of `protocol_parse` from them and takes TcpServer's step with that result
(`RecvParsed`). All other steps are TcpServer's. Clients send requests byte by
byte, and ask again when the answer has left the server.

A response that blocks leaves its request behind: `tcp_server_send`, called as
write handler, sends the rest but destroys nothing. The next request of that
client is then parsed on from the old one's end, and gets a wrong answer or
none, and may even complete while the client is sending, so that the write
handler is NULL when it is called. The properties say that nothing else goes
wrong: `stale` marks the requests that met such remains, and for all others the
answers are the right ones. Without that exclusion `AnsweredAsAsked` fails.

### MemPool

A pool is its list of chunks (`last`, `end`, `fail`), the list of the `data`
fields of large blocks, and, as history, the regions `pmalloc` handed out and
the large blocks that are allocated. Addresses are offsets in their chunk; the
room of a chunk is computed unsigned, as the comparison with a `size_t` does.
`pcalloc` is `pmalloc` with zeroes. A failing `malloc` changes nothing, except
that `alloc_large_mem` has a block to give back. `free` of a pointer that is
not `malloc`'s may end the process or go unnoticed.

The code's 4 and 3 (failures before a chunk is passed over, headers looked at)
are the constants `FAILS` and `SCAN`.

### ConfFile, DynamicArray

`conf_file_parser` is a fold of `Turn`, one turn of its loop, over the
characters of a `file_read`. The fall-through cases are calls of the operator for
the next case (`ModNameEnd`, `CommandEnd`). The state that `}` leads to falls
through to `sw_out` in the same turn, so it is not a state between two turns;
nor is `sw_comment_end`. The words of a command are in a `DynamicArray`, whose
growth copies the elements. The commands check and convert their words as in
the code: numbers are digits without a leading zero and wrap at `UINT`, file
names that do not begin with `/` get the installation's directory.

The reference is `Meaning`, a recursive grammar of blocks, words and comments.
It applies the same commands (`set`) to the words of each command; what is
compared is the parsing, not the commands.

### Startup

Each process is a record with its place in `main` (`pc`), its configuration,
loggers, `stop` flag and whether `sig_term_handler` is installed. Processes
share the pid file, the port and whether the default log file exists. `fork`
appends a process; the parent's `exit` is a step of its own, so that both run
side by side. A start picks any member of `Confs`: the file may have been
edited. SIGTERM and SIGKILL may come at any step; SIGTERM ends a process whose
handler is not (or no longer) installed, as the handler is reset by its first run.

The default logger is created and not stored (`create_default_logger`), as in
the code; `LoggedAsConfigured` says what follows.

### XFile, Logger

A `file_t` with its cached `offset`, the fd's real position, the file's bytes,
and the call in progress of the program and of the signal handler. `write`
writes any number of the bytes left, or fails. A line of the logger is a
sequence of pieces (time, level, error, message, LF), marked with the line's
number; its length is computed separately, with the code's numbers. A log file
is opened for appending; files that are not are read and written at any of
`Offsets`. No caller in `src/` passes an offset today: those calls (`UseAtOffset`)
stand for users of the interface.

## Runs

| Run | Checks | Result |
|---|---|---|
| `one_client` | types; epoll mirrors the connections; descriptors owned; pools accounted for; a pending response is watched; exactly when a client is cut off, loses a response, or a NULL handler is called; gone clients are released; the accept queue drains | holds, 87,794 states |
| `event_batches` | free list and active list stay sound; `ConnTable` is implemented; the accept queue drains, with descriptors running out | holds, 94,058 states |
| `session` | the answers are right, and come; the NULL handler is called only after left-overs; `TcpServer` is implemented | holds, 186,857 states |
| `pool` | memory in bounds, disjoint; chunks passed over; large blocks neither lost nor freed twice | holds, 145,429 states |
| `protocol` | accepted iff a request; refused only if it cannot become one; pieces do not matter | holds, 78,404 states |
| `conf` | accepted iff a configuration, with its meaning; comments do not matter | holds, 576,838 states |
| `startup` | the pid file begins with the serving daemon's pid; loggers; crashes; SIGTERM stops | holds, 133,916 states |
| `logger` | lines once, in order, whole; reads and writes at their offset | holds, 129,206 states |
| `closed_by_client` | "Client ... has closed." is true | violated: a zero-length read |
| `pool_full_request` | memory in bounds, for a request of the pool's size | violated |
| `pool_large_released` | "release large memory at first" | violated: blocks are leaked |
| `protocol_type_not_found` | "Type not found." only for unknown types | violated: a name in two buffers |

The findings in `PROJECT.json` quote the lines the violated properties state.

Further results that the properties state, and that a reader of the code may not expect:
- The listening socket takes one of the `connections` slots, so the server
  serves one client less than it logs ("max connections: %d").
- Without a `log` command in `main`, modules without one of their own log nothing, although
  the default log file must exist (`LoggedAsConfigured`).
- Without a `main` or a `net` block the program crashes (`CrashOnlyIfBlockMissing`).
- The pid file is not truncated: behind the daemon's pid there may be the
  end of a longer one (`ServerPidInFile` is about how the file begins).
- A message may pass the end of `info_str` by the length of the time and of the
  error's text, as `max_len` does not subtract them. No property is stated about
  it, since nothing in the code makes a line fit; the model lets such a line end in
  anything (`fate`).
- A write event reported together with a read event calls a NULL handler when
  the read handler has just finished the request: `active_events` is not read
  again. It is the only path to such a call (`NullHandlerOnlyAfterRead`).
- When the process has run out of descriptors before slots, `accept` fails and
  the listening socket is reported again at once, in every turn of the loop, until
  a client leaves (`BacklogDrains` excepts that time).
- A read or write at an offset may go elsewhere before the first `lseek`, as
  `offset` is not initialised (`AtOffset` begins with the first `lseek`).

### Bounds

- `one_client`: one slot for clients beside the listening socket and two
  descriptors, so that both an empty pool and a free slot occur; a send buffer
  of 1, responses of 1 and 2 and up to 2 unread bytes make responses block with
  further requests behind them; request buffers of 3, then 1, fill up exactly.
- `event_batches`: `size` is half the connections, so batches of two need four
  slots; with two clients and the listening socket more may be ready than are
  reported. There are three slots for clients and two descriptors, so `accept` also
  fails for lack of one. No type is known (`RequestTypes` is empty): requests are
  refused or incomplete, which is all that taking, keeping and closing slots depend on.
- `session`: one client at a time. A PUT of ten bytes that does not fit into the
  first buffer of nine, one without data that fits, and a GET without answer;
  a send buffer of 1, so that "error" (2) blocks. A client with `MAX_TEXT` bytes
  of remains asks no more. The safety properties also hold with
  `MAX_TEXT` = 21 (517,241 states).
- `pool`: three chunks are enough for `current` to move (`FAILS` = 0), three
  large blocks for one header beyond those looked at (`SCAN` = 0). Sizes 3, 6
  and 7 make a request that fits twice, one that fits once, and a large one.
- `protocol`: ten bytes hold a `PUT` with one byte of data and one byte
  behind it, or a two-digit length; the first buffer ends after 8 bytes, so
  names, lengths and data are met at its end. Larger lengths only repeat `sw_data`.
- `conf`: five tokens make two blocks with commands and a comment, and every
  kind of incomplete file. Two letters spell all words, so that look-up meets
  names that are prefixes of others and the same name in both modules. An
  array for one word at first grows with the second and the third; reads of six bytes end inside
  words; `UINT` = 10 wraps the number 10.
- `startup`: four pids and two live processes at once: a daemon, its
  parent and another start, or two daemons one after the other, the
  second with a shorter pid.
- `logger`: two lines of the program and one of the handler; messages just
  below and at the lengths where a line is cut.

### Fairness

`one_client` and `event_batches`: `WF(Loop)`: the main loop calls `process_events` for ever and
`epoll_wait` returns when a descriptor is ready. `SF(PollReports(fd))`: a
level-triggered entry that was reported goes to the end of the kernel's ready
list, so a ready descriptor is not passed over for ever although only `size`
are reported. `session` adds that a client sends the request it has begun and
reads what it is sent. A crash through the NULL handler ends all obligations.

`startup`: every process that is not stopped gets the processor, and
`epoll_wait` returns after its second. SIGTERM itself, starts and failures are
not fair.

## Proofs

| Modules | Proved |
|---|---|
| `TcpServerHandlerProofs`, `TcpServerStepProofs`, `TcpServerProofs` | all safety and action properties of `TcpServer`; `ConnTable` is implemented |
| `ProtocolLemmas`, `ProtocolProofs` | all properties of `Protocol` |
| `MemPoolProofs` | all properties of `MemPool` |
| `StartupProofs` | all safety and action properties of `Startup` |
| `LoggerProofs` | all properties of `Logger` and `XFile` |

### The server

`TcpServerProofs` proves, for all numbers of connections and descriptors, sizes
and bounds (`SizesAssumption`): `TypeOK`, `FreeListSound`, `ActiveListSound`,
`EpollMirrorsConns`, `DescriptorsOwned`. None of the last
four is inductive. `IInv` adds

- `CursorInv`: where the cursor is, depending on `pc`, and that nothing is
  active while the loop waits;
- `SlotsInv`: a slot in use has a descriptor registered under it, with
  `conn->events`, and an open socket, and only events it waits for are reported;
- `EpollInv`: a registered descriptor points to a slot that has it;
- `BacklogInv`: a reported listening socket still has a client in its queue.

The proof is in three modules, each extending the one before:
`TcpServerHandlerProofs` (what the handlers leave alone, pushing and popping,
`IInv`, the steps of a turn of the loop), `TcpServerStepProofs` (waiting for
events, start-up, clients, and the steps seen from `ConnTable`) and
`TcpServerProofs` (requests and pools, and the theorems). The first two use a few
facts on the size of finite sets as a hypothesis, `CountLaws`; the last proves
them from the library (`CountLawsHold`), so no theorem depends on it.
A slot that a step leaves alone is one lemma (`SameSlot`), and so is a step that
changes no connection, list or registration (`SameServerIInv`).

A list is described by a numbering of its elements from the end (`IsList`), so
that pushing and popping (`ListPush`, `ListPop`) and leaving a list alone
(`SameList`) are lemmas without induction. That the two lists share `next` is
harmless because free and active slots are disjoint, which follows from
`ActiveListSound`'s "all of them in use". What handlers may do to a connection
is summarised once (`Handled`) and used for all of them.

`Refinement` is `Spec => TableImplemented`. Initial
states map to the empty table; `init_network_mod` is `Start`, a non-empty wait
is `Report`, a successful accept is `Accept`, the end of a turn is `Handled`
(the cursor's connection leaves the pending set, and its slot is freed if it is closed),
and all else, handlers included, leaves table and pending set alone. `IInv` of both states is
used: that the walk meets each pending slot once is what makes
`pending' = pending \ {c}`.

Requests and responses need a second invariant, `RInv`: `IInv`,
`PoolsAccounted`, and `ReqInv`, which says of every client's connection, at any
point of `process_events`, what will be registered when the loop waits again
(`Watched`: the events without the dead ones, with the added ones). Unsent bytes
are then watched; the write handler is set exactly while writing is registered and
not about to be removed; and a request whose buffer is full has its response out
or watched. `ReqOK` is shown for the context of a handler, call by call,
before it is shown of the state. `PendingResponseIsWatched`,
`CutOffOnlyAfterBackpressure` and the action property `LostOnlyIfLeftOver` follow.
`PoolsAccounted` counts the slots in use and the live requests; each step adds or
removes one element of either set.

`NullHandlerOnlyAfterRead` rests on a third, `NullInv`, relative to `RInv`: before
the read handler runs, a reported write event has its handler (`ReadHooked`, from
`ReqInv`); after it, the handler is NULL only if the request was finished
(`Unhooked`, shown for each path of `tcp_request_finish` in `TcpServerHandlerProofs`).

By `ServerImplemented` (checked) these results carry over to the server with
its parser.

### The protocol parser

`ProtocolProofs` proves all five properties of `Protocol`, for inputs and reads of every
length, all sizes of the buffers, and every set of names
(`ProtocolAssumption`: names are capital letters and none has type `UNKNOW`). The
alphabet is that of the model: three digits, three capitals and four of the
characters that only headers may have.

`Loop` is a recursive function, and the provers do not find inductions over data.
The induction is made once, over a set: `IntervalInduction` takes the set of those
numbers of an interval that have a property, not the property, and follows from
the least element of its complement. With it `LoopTrace` and `TraceLoop` show that the
states of the loop are a sequence in which each is `Turn` of the one before, and
`Along` that what each `Turn` keeps holds to the end of an interval. All other
arguments are about one `Turn`.

- `PInv` (`ParserInvariance`) is `TypeOK` and `Parsed`: what is saved is what one
  loop over all bytes read so far computes. `TypeCorrect` and `PiecesTogether`
  (`PiecesDoNotMatter`) follow.
- `IsRequest` cuts the input into pieces; `RequestPlaces` restates it by positions in
  the whole input (`Blanks`, `NameAt`, `HeadersAt`, `DigitsAt`, ...), without
  `SubSeq`.
- `DoneOnlyForRequests`: `Reads` says for each state of the parser which
  positions the bytes read so far have. Each `Turn` keeps it, by one lemma per
  state, and at the end it is the grammar, read backwards.
- `RequestsAnswered` and `RefusedForGood`: the other direction follows the input.
  On the blanks the parser stays in `start`, on the name in `type`, and so on
  to the end (`ReadBlanks`, `ReadName`, ..., `ReadData`). For the beginning of a
  request it ends where the input does, without an error.
- The exception, a name or length in two buffers (`Split`): once such a name is
  refused, or such a length read, the parser delimits no other token, so it
  remains exempt (`Off`, `OffStays`).

### The memory pool

`MemPoolProofs` proves `InBounds` and `Disjoint` under `RequestsFit`: a small
request leaves room for a chunk's header in a chunk of the pool's size. `IInv`
says that everything handed out of a chunk lies below its `last`, and `last`
not above `end`. `pool_full_request` shows that the condition is needed; the
code does not check it.

`TypeOK`, `SkippedHadFailed`, `LargeListSound` and the action property
`NothingLost` hold without it. Their invariant, `ListInv`, adds (`FailInv`) that the
chunks from `current` on have failed at most `FAILS` + 1 times and the newest one
never, so the failure that makes `add_mem_chunk` move `current` is the next one; and
that a pool which is not there has no list of large blocks.

### Start-up

`StartupProofs` proves `TypeOK`, `ServerPidInFile`, `LoggedAsConfigured` and
the action property `CrashOnlyIfBlockMissing` for every set of configurations,
all pids and any number of starts (`StartupAssumption`: a module without a block
has no log command, a pid has a digit). `IInv` says of each process what holds
at its place in `main` (`Sound`: which loggers it has, that it listens exactly
from the end of `init_network_mod` on, that `stop` excludes `handler`), and of
all of them

- `PortInv`: two processes hold the same port only if one is a parent about to
  `exit`. This is what makes the pid file right: whoever writes it holds a
  port, and so does every daemon that serves, so the later writer has another port;
- `FileInv`: each digit in the pid file is one of some pid, at its place.

There is one lemma for each step of `main`; most are instances of `OneProcess`
(one process changes and the pid file does not).

### The file layer and the logger

`LoggerProofs` proves `AtOffset` for all offsets and buffers and any sequence of
calls. `IInv` says that after the first `lseek` `f->offset` is the position, and
how far a call in progress has come: the position is `at + written`, and the bytes
written so far are in place. `OverwrittenFacts` (what a write leaves alone) and
`SubSeqFacts` carry the argument for short writes. `TypeOK` follows too
(`LoggerAssumption`: the time is not empty).

`LogInOrder` needs a second invariant, `LogInv`, on top of `IInv`: the pieces of a
line differ (`Distinct`), every byte of a log file is one of some line
(`OfLine`), what is in the file of a line is its beginning (`FromStart`), in
order, and a call in progress writes the last line of its caller, of which exactly
`written` pieces are in the file (`Logging`). Writes append because of `O_APPEND`;
the handler's line is in one piece because nothing interrupts the handler (`AtEnd`). `AppendInv` is the one lemma about
appending some more bytes of one line.

### Only model-checked

- Liveness (`GoneClientsReleased`, `BacklogDrains`, `StopsOnTerm` and, in `Session`,
  `RequestsAnswered`): the prover does not reason about fairness or `ENABLED`.
- The configuration parser (`ConfFile`): its reference, `Meaning`, and the loop that drops
  blanks and comments are `RECURSIVE` operators, which put a module out of the prover's reach.
- The composition in `Session` (`AnsweredAsAsked`, `NullHandlerOnlyIfStale`,
  `ServerImplemented`): what is left over of a request is parsed on by the next, so an
  invariant would have to describe the parser on all such concatenations.

## Not modelled

- Time cache and the wording of log lines: output only.
- Output to the terminal (`log_printf`, `log_stderr`).
- `USE_BACKTRACE`, a build variant that replaces the SIGTERM handler by one
  that prints a backtrace.
- `dynamic_array_push_ix` (the array it fills is read by nobody),
  `dynamic_array_destroy`, `dynamic_array_clear`, `finish_network_mod`,
  `sys_modules_finish`: empty or never called.
- Words longer than `key[256]` and responses longer than their buffer: the code has no
  guard for either.
- Lengths beyond `INT_MAX` (`atoi`), ports beyond 65535: outside the bounds.
- leveldb (headers and a library in the repository): nothing calls it yet.
- `XTest`: read as a statement of what the pool promises.
