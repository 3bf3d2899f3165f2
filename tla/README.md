# Models of the network programs of CMPE 156

This directory holds TLA+ models of the programs under `src/`, TLC
configurations that check them on small instances, and proofs that TLAPS checks
for every instance. The programs are the course work of a networking class: six
small C programs, of which five are concurrent enough to be hard to test.

- `HW4`: a file downloader over UDP. The client cuts a file into parts and lets
  a pool of threads fetch them from several servers.
- `pro`: a chat. A TCP server keeps the names in use and the users that wait;
  two clients then talk to each other directly.
- `hw5`: an HTTP proxy with a thread per connection of a browser.
- `HW3`: the downloader over TCP. A thread per connection, and servers that
  talk to one connection at a time.
- `hw2`: a remote shell. One server, one client at a time, packages over a stream.
- `hw1`: an HTTP downloader, one sequential request. It is not modelled.

## The system

### HW4

| Part | State | Operations |
| --- | --- | --- |
| main thread of the client (`client.c`) | list of servers, one UDP socket | read `server-info.txt`, handshake with each server, ask the first for the file, cut the file, start and join the workers, combine their files |
| worker threads (`thread_download`) | a server, a job, a socket each; shared: `server_info_list`, `chunk_jobs`, `done_jobs`, three locks, one condition variable | take a server or wait for one, pop a job, download it, record it or put it back, give the server back |
| transfer (`udp_download_file`, `upload` in `server.c`) | the file `temp.<job_id>`; start and end in each upload thread | request, packets until one is marked as the end, 5 s timeout |
| server main loop | none between requests | answer `HSK` and `CHK`, start an upload thread for `DWN` |

The parts meet in shared lists (workers), in join (main and workers) and in
datagrams (client and servers). Hard here: a worker decides to leave from what
it sees on one list while another holds a job; a server that fails must not
take its job along; datagrams carry neither job nor position, so order, loss,
copies and delay show up as wrong files; and sizes that fall badly against the packet size.
It is correct if every byte of the file belongs to one part, every part is
worked on by one worker and one server at a time, nothing is lost or doubled on
the lists, no worker sleeps beside an idle server, what is recorded as done is
the part that was asked for, and main gets to its end.

### pro

| Part | State | Operations |
| --- | --- | --- |
| server (`server.c`, `dynamicarray.c`) | `client_names`, `clients` (name, address, port), a lock for each | accept; per connection: add, quit, connect, wait, list, leave-wait |
| client main thread (`client.c`) | `my_state`, sockets | read a command, check it against the mode, send it, read the answer |
| client listen and receive threads, `^C` handler | the same globals, without locks | accept a caller, print what it says, leave a mode |

The parts meet in the two lists and in TCP streams. Hard here: a name that is
looked up without the lock; several handlers and one waiting user; `w`, `r`,
`q` of a user against the `c` of another; `^C` between any two statements; TCP
that keeps no boundaries between commands. It is correct if names are unique and
given back, a user is listed exactly while it waits, an entry of the list is given
to one caller, and every request for an answer gets one.

### hw5

| Part | State | Operations |
| --- | --- | --- |
| main thread (`proxy.c`) | the forbidden sites, read once | accept, a thread per connection |
| connection (`thread_proxy`) | socket of the browser, socket of one host, flags for the response in hand, the last code | read a request, refuse or forward it, copy the response, log both |

A connection meets the others only in `access.log` and in the process: what ends
the process ends them all. Hard here: a response has no end but silence, so a
late one is taken for the next; the host's socket outlives the host; either side
may leave between any two writes. It is correct if each request is logged once
and with its own code, the browser gets the response to what it asked, and a
side that leaves costs one connection and nothing else.

### HW3

| Part | State | Operations |
| --- | --- | --- |
| main of a client (`client.c`) | `sockets`, `target_file`, the number of parts | connect to the listed servers one after the other, ask the first for the file, start and join the threads, combine their files into `result.txt` |
| thread of a client | its range, its file, an uninitialised `name` | ask for its part, write packages until one is marked as the end, `BYE` |
| server (`server.c`, `mysocket.c`) | the connection it talks to | accept, answer `CHK`, upload for `DWN`, until `BYE` or the end of the connection |

The parts meet in the queue of a listening socket and in TCP. Hard here: a
connection holds a server while another of the same client, or of another client,
waits behind it; all threads write their file name to wherever an uninitialised
pointer points; a read may return part of a package; a client may be killed while
a server writes to it. It is correct if every thread writes its own range,
`result.txt` is the file whenever the servers live, no client that ends by itself
takes a server down, and every client ends. One that is killed in the middle of a
part does take its server down (SIGPIPE).

### hw2

| Part | State | Operations |
| --- | --- | --- |
| client (`client.c`) | its socket | read a line, send it, show packages until the end; `exit` and `^C` send "exit" and leave |
| server (`server.c`, `executer.c`) | the client it serves | accept, read a command, run it, send its output line by line and an end |

The parts meet in two TCP streams. Hard here: neither packages nor commands have
boundaries in the stream; a client may leave while its command runs; everybody
waits for the client being served. It is correct if what is shown is what the
command printed, the server runs what was typed, nobody costs the others the
server, and who asks gets an answer.

## Modules

| Module | What it models | Checked by | Proofs |
| --- | --- | --- | --- |
| `PartDownload` | what the downloader of HW4 promises about parts and servers | through `JobPool` | |
| `JobPool` | the worker pool of HW4 | `pool`, `pool_incomplete` | `JobPoolProofs` |
| `Chunking` | how a file is cut into parts | through `Transfer` | `TransferProofs` |
| `Transfer` | the cut, a worker's socket, a server's uploads and the datagrams | `transfer` | `TransferProofs` |
| `Discovery` | handshakes and the question for the file | `discovery` | `DiscoveryProofs` |
| `ChatRoom` | the chat server and the protocol of its clients | `room`, `room_names` | `ChatProofs` |
| `ChatPeer` | the threads and the signal handler of one chat client | `peer` | `ChatProofs` |
| `AcceptLoop` | accept and the hand-over to threads, in chat server and proxy | `accept` | `ProxyProofs` |
| `ProxyConnection` | one connection through the proxy | `proxy`, `proxy_pipe` | `ProxyProofs` |
| `TcpDownload` | clients and servers of HW3 | `parts` | `TcpDownloadProofs` |
| `RemoteShell` | clients and server of hw2 | `shell` | `RemoteShellProofs` |

The modules `MC...` give the constants their small values. `Transfer` extends
`Chunking`: the parts that are transferred are those the client made.
`ChatRoom` and `ChatPeer` are two views of the chat client, as the server sees it
and as its threads do; `AcceptLoop` is how the handlers of `ChatRoom` and
`ProxyConnection` come to their connections.

### JobPool

One action per step of `thread_download`. A critical section is one step,
because its lock is held throughout; the test of the loop is a step of its own,
because it reads `done_jobs` without a lock, and so is the broadcast, because it
comes after the unlock. `pc[w]` names the next step of worker `w`:

| `pc` | code | actions |
| --- | --- | --- |
| acquire, waiting | lines 234-240 | `Acquire`, `Wait`, `SpuriousWake` |
| socket | 242-254 | `Socket`, `FailHandler` |
| test | 257 | `EnterLoop`, `LeaveLoop`, `DropIdle` |
| pop | 259-271 | `FindNoJob`, `Pop` |
| open, recv | 335-366 | `Open`, `Succeed`, `Fail` |
| record | 276-280 | `Record` |
| requeue | 281-294 | `Requeue` |
| release, broadcast | 293-299 | `Release`, `Broadcast` |

`main` follows the main thread: `Join`, `JoinPastEnd` and `Combine`. The lists
are sequences, used from the end as the code does. `held` and `job` are the
local pointers `addr` and `job`, `temp` the files on disk, which may be left
over from an earlier run. A transfer is only its result here: `Succeed`, or
`Fail` for a server in `Mortal`.

`ret` is not initialised, and a worker that finds everything done before its
first job reads it. `StackGarbage` is the set of values it may hold: with
`{0, 1}` such a worker may drop its server (`DropIdle`). Built as the makefile
does (no optimisation) the value seen is 0; the run takes both.

`PartDownload` is the specification `JobPool` implements: a part is on lease to
at most one server and a server has at most one part; a finished part is not
leased again; a server whose transfer failed is never used again; the download
is concluded with nothing on lease. The mapping is at the end of `JobPool`: the
part in a worker's hand is on lease to the server in the same hand.

### Chunking

`createJobsList`, a job per step, with its integer division. `FileStart` and
`FileEnd` are the two formulas. `Transfer` extends the module and starts where it
returns, so that one run sees every cut together with what becomes of it.

### Transfer

A file is the sequence of the positions of its bytes, so that a byte in the
wrong place can be seen. The worker takes job after job over one socket
(`Begin`, `Receive`, `Timeout`, `Leave`); the server starts an upload per request
(`StartUpload`) which sends packets (`SendPacket`) while `start < end`
(`EndUpload`). `net` holds the packets on their way. `faults` is chosen at the
start out of "lose", "duplicate", "reorder", "late" and "die"; without "late" a
receive times out only if nothing can arrive any more (`Silent`).

The network may duplicate a packet (`DuplicatePacket`), which the client writes
twice, or a request (`DuplicateRequest`), which starts another upload of the part
once the first is over; `copies` counts both, up to `MaxCopies`. The code has
nothing to tell a copy by (`client.c:352-358`), so what is said of the bytes in the
files leaves "duplicate" out.

`upload` copies a full packet with `strcpy` from an array without a terminating
NUL. The model takes the byte behind it to be NUL, as it is in the makefile's
build, where an array that is never written follows on a fresh stack.

### Discovery

The two loops of the main thread over one socket, with the request, the response
and the timeout as steps, and the server's main loop (`Answer`). A response
remembers its sender although the code does not look at it: `answered` and
`from` are there for the properties only. Datagrams are not duplicated here: to
main the copy of an answer is an answer that comes late.

### ChatRoom

Each branch of `command_response` is an action of the handler of a user. `add`
is two, `CheckName` without the lock and `AddName` under it; `quit` is two, one
for each lock. `Read` takes a command from the stream; with "coalesce" it may
take several and lose all but the first, as `strtok` and `bzero` do. The lists
are those of `dynamicarray.c`: `findItem` returns the first entry of a name,
`removeNameItem` removes the last.

The client is modelled as far as the server sees it: its mode, the commands it
may send in each mode, the answers it waits for, the port it listens on. `^C`
while waiting is one step, and with "early break" it may also come between
`wait_pre_process` and the command. What the threads of a client do to one
another and the 180 s timeout of a read are in `ChatPeer`.

### ChatPeer

`main` is where `process_input` is, `int` where `INThandler`, which interrupts it;
`listener` and `receiver` are the threads ever started, each with the socket it
is blocked on. Nothing here has a lock, so a step reads or writes the globals at
most once where another thread can come between: `ListenTest`, `ListenSelect`
and `ListenAccept` each look at `l_fd` anew, `ReceiveLoad` at `talk_fd`. `fds` is
the table of descriptors, of which the lowest free one is taken, and `sock` the
sockets, so that a descriptor that is closed and reused is seen as such. After
`^C` the listening socket is "shut" and accept returns -1; the code takes that
for a caller, sets TALKING and starts a receive thread, which sets NORMAL again.

`troubles`: "hasty", a user who types while threads are still at work on the last
input; "crossing", a call that comes while `^C` is handled; "late", an answer
after the 180 s.

### AcceptLoop

Both programs accept into one variable, give threads its address and accept
again. `CallAccept` takes the lowest free descriptor before it waits, as Linux
does, so a full table fails at once: the chat server ends, the proxy tries again
and sets `server_fd` to -1 meanwhile. `Accept` sets `server_fd` and creates the
thread, `Load` is the thread's read of it. A thread is named after the connection
it was created for, so that serving another can be seen. `overtaken` are the
clients whose thread had not read the variable when it was set again; all that
goes wrong between threads starts there. A request is handled in one step here,
but for the proxy's socket to its host, which takes a descriptor (`OpenHost`).

### TcpDownload

A scenario is the server lists, the number of parts, the length of the file, the
servers that may die, the clients that may be killed (`leaving`), and what else may
go wrong. `Connect` walks the list and ends the loop when it has as
many sockets as it was told; `Accept`, `CheckResponse`, `StartUpload`,
`SendPackage` and `HangUp` are the server's loop. The listening socket keeps
`Pending` connections, and what comes on top is refused after a timeout.

`Kill` ends a client and its threads at any step before it is finished, and its
connections with them. What it had not read, or is sent to it then, draws a reset,
and the write after that is a SIGPIPE, which nobody handles: `BrokenPipe` is a
server that still has packages of a part to write (`mysocket.c:101`, `:109`) to a
client that has ended with packages unread.

`download_single_part` calls `sprintf` on a pointer that it never sets
(`client.c:177`). In the makefile's build it holds what the stack had there, which
is the buffer of the target's name ("aliased" in a scenario): all threads of a
client then write their names into one buffer and ask for, and open, what it
holds when they get there. Without "aliased" each has a buffer of its own.

`server_upload_file` sends the rest of a part as its last package once at most
`BUFFER_SIZE` bytes are left, where the packages before it have one less
(`mysocket.c:94`, `:104`). A last package that fills the array has no room for its
NUL (`:105`), and the client prints on into what is behind, `Garbage` in the model.

With "short", a read may return the head of a package, and the next begin inside
it (`ReceiveHead`, `ReceiveTail`).

`OpenPart` removes the file of a part and opens it anew in one step.

`combine_file` is three actions: `OpenResult` removes and opens `result.txt`,
`CombinePart` appends the file of the next part, or fails for want of it, and
`CombineEnd` closes. `combined` is the loop's `i`, `result` what is in the file.

### RemoteShell

A package is two pieces, the head with the flag and the beginning of the text,
and the rest; a short read takes one of them, and the next starts at the other.
In a tail, where the flag is looked for there is text. The last package of a
command is the buffer of the line before with its first character cleared, so its
tail may still have text (`WriteEnd`). A command is what a read returns: lines
sent one after the other are run as one (`ReadCommand`). A client that leaves
while its command runs makes the second write after that a SIGPIPE. Lines of
1024 bytes and more are left out: the client takes them (`client.c:51`), and they
overrun `cmd_buf` in the server (`server.c:37`) and the command line in
`executer.c:13`. So is a `popen` that fails. What a command prints is
chosen as it runs, up to `MaxLines`.

### ProxyConnection

`pc` follows the thread: `Start` (the address of the browser is looked up),
`Refuse` or `Take` a request, `Connect` once, `Forward`, `Copy` read by read,
`EndResponse`, `EndConnection`. A request is only what the checks make of it; a
host is one host, since the code never opens a second. The state of a socket
says what a read or write on it does: a write to a side that has closed
("ended") succeeds and draws a reset, after which a write raises SIGPIPE
("dead"), while a reset out of the blue ("reset") makes the next call fail and
only the one after it a signal. `pc` is also how the process ended: "killed" by
SIGPIPE, "exited" in `failHandler` (`getpeername` or `connect` failed),
"crashed" in `strlen(NULL)`, where the first read of a response has neither a
length nor the end of the header.

`log_responsecode` is `Garbage` until a response is read. The browser puts one
request at a time into the stream: what shares a read with another is removed,
as `src/hw5/readme.md:48` admits.

## Runs

| Run | Instance | Shows |
| --- | --- | --- |
| `pool` | 3 workers, 4 parts, 2 servers that may both fail, `ret` 0 or 1 | `TypeOK`, `JobsConserved`, `ServersConserved`, `NoLostWakeup`, `LossBounded`, `DoneIsFinal`, `Refines`, `Terminates` |
| `pool_incomplete` | 2 parts, 2 workers, one server may fail | `CombineComplete` does not hold |
| `transfer` | up to 12 bytes in up to 3 parts, packets of 3, one copy, all sets of faults | `SplitCovers`, `Intact`, `TimeoutsExplained`, `NoForeignBytes`, `BytesOnce`, `Settles` |
| `discovery` | 3 servers, all sets of faults | `AnswersOwn`, `OnlyDeadDropped`, `Ends` |
| `room` | 2 users with two commands or 3 with one, own or shared names, crashes, early `^C` and coalesced commands | `WaitersListed`, `HandedOnce`, `NamesFreed`, `AsksAnswered` |
| `room_names` | 2 users want one name | `NamesUnique` does not hold |
| `peer` | 4 inputs of the user, 2 calls or messages of peers, each fault | `ModeAgrees`, `AnswersOwn`, `Survives`, `Settles` |
| `accept` | 3 clients, one of which asks; both programs with 4 descriptors, the chat server also with 3 | `OwnConnection`, `LeaksExplained`, `Heard` |
| `proxy` | 3 requests, all sets of faults | `LoggedOnce`, `InStep`, `DownExplained`, `Ends` |
| `proxy_pipe` | 1 request, the browser may close | `WriteFailureCloses` does not hold |
| `parts` | 2 clients that may be killed, 2 servers, lists of up to 3, files of up to 9 bytes, packages of 3 | `OwnBytes`, `Intact`, `DownExplained`, `Finishes` |
| `shell` | 2 clients with 2 and 1 lines, up to 2 lines of output, all sets of faults | `InStep`, `RunsTyped`, `ServerDownExplained`, `Prompted` |

The `TypeOK` of a module whose run does not list it says what its variables hold.

Why the bounds are enough. In the pool everything that goes wrong goes wrong
between one worker that leaves, one that fails and one that waits, with a server
for each; with two servers for three workers one always waits, and with more parts
than workers they come back for more and the join runs past the array. With
packets of 3 bytes and up to 12 bytes in up to 3 parts a part can be empty,
shorter than a packet, a packet, a packet and one or two bytes, and four packets;
one copy is enough to write a byte twice or to end a part before its time.
Three servers let a late answer be taken for that of another server twice. In the
chat, two users that ask for a third make every conflict over one entry, and two
commands let a user wait, break off and wait again. For the threads of a chat
client, four inputs are wait, `^C`, wait and `^C`, so that what is left of the
first wait meets the second, or a talk; two calls are one that is taken and one
that is left in the queue. `MaxCmds` and `MaxInputs` bound what a user types,
`MaxComing` what peers send, and nothing else in the two chats is bounded. Three
clients for four descriptors, of which accept reserves one and the proxy takes
one more per request, are a table with room for two clients and the host of one,
which the hosts of more than one fill up; the chat server fills its own if it has
three, and ends. A thread can be overtaken twice. A host that closed is noticed with
the third request, hence three of them for the proxy; a response of two reads has a first and a last, and a write after a
write. In HW3 a file of up to 9 bytes in one or two parts has ends of every length
against a package; one client that is killed is enough to take a server down, and a
second to wait for it; two clients with two servers, in the same order, in opposite
order, or with a server listed twice, wait for each other or for themselves. In
the shell a second line meets what is left of the first, and two lines of output
are one that is not the last and one that is; the second client is there to wait
for the first.

Fairness. `Terminates`: the scheduler runs every thread that can run, and a
receive ends with data or with its timeout (`SO_RCVTIMEO`); spurious wake-ups and
failing sockets are not forced. It asks nothing once every server was dropped:
then the workers wait for ever, which `src/HW4/readme.md:65` admits. `Settles` of
`Transfer` and `Ends` of `Discovery`: both processes are scheduled and receives
time out. `AsksAnswered`: handler threads and clients run; nothing makes a user
type. `Settles` of `ChatPeer`: the threads run and the server answers; nothing is
asked of user and peers. `Heard`: main and the threads run, and accept takes
every connection in its queue. It excuses a process that a full table has ended
and clients whose thread was overtaken, not one that waits for a descriptor while
others hold them. The proxy's `Ends`: its thread runs, both sockets
have `SO_RCVTIMEO`, and a host that is not late answers. There is no send
timeout: a browser that stops reading could hold the thread for ever, and in the
model a write always finds room. `Finishes`: the processes of HW3 and their
threads run, and a connect to a full queue times out; reads have no timeout.
`Prompted`: the server of hw2 runs, a command that it runs ends, and a client
that reads gets what is there; nothing makes a user type or leave.

### What does not hold

- `pool_incomplete`: a worker leaves when it finds the stack empty, although
  another still holds a job (`client.c:260`). If that one's server then fails its
  job is put back for nobody, and main combines an incomplete file.
  `LossBounded` says what is kept: at most one part is missing per server dropped.
- `room_names`: the name is checked without the lock (`pro/src/server.c:44`).
- `proxy_pipe`: a browser that closes while its response is copied kills the
  proxy with the second write (`proxy.c:267`). `DownExplained` lists the other
  ways: a host that closed, with the third request; a reset before the browser's
  address is looked up; a host that cannot be reached; a response whose first
  read is no whole header.

Other departures have no run of their own; the properties that hold say where
they end.

- `TimeoutsExplained`: a part that is empty, or whose last packet would hold one
  byte, never gets a packet marked as the end (`HW4/server.c:55`), and no others.
- `Truthy` (`Discovery`): -1 for a missing file is taken for true
  (`HW4/client.c:82`).
- `Intact`, `NoForeignBytes`, `BytesOnce` (`Transfer`): the client writes every
  packet it receives (`HW4/client.c:352`), so that a datagram the network duplicates
  is in the file twice, and a copy of a last packet ends the next part.
- `HandedOnce` is about entries, a user with the port it listens on, and not about
  users: one that typed `/wait`, hit `^C` before its command was written
  (`pro/src/client.c:197`), and typed `/wait` again is listed twice, and its two
  entries may go to two callers; so it is if its `r` is lost behind another command.
  `WaitersListed` says that without such faults a user has an entry only while it
  waits.
- `WaitersListed`: a `w` and an `r` in one read leave the user listed
  (`pro/src/server.c:40`), and so does a `^C` before the command of `/wait` is
  written (`pro/src/client.c:197`), which is why it excludes these faults.
- `ModeAgrees`: `^C` while WAITING makes the listen thread set TALKING before the
  mode is NORMAL again (`pro/src/client.c:74`), where `src/pro/doc/readme.md:44`
  has WAITING become NORMAL. It passes if the user waits for it; a user who does
  not can end up in a mode that nobody serves. `AnswersOwn` and `Survives` exclude
  answers that are late, which are taken for those to the next request.
- `OwnConnection`: a thread that reads `server_fd` after the next accept serves
  the wrong client (`pro/src/server.c:169`, `hw5/proxy.c:385`). The
  properties of `AcceptLoop` about who is served say what holds until then, and
  `LeaksExplained` that a chat client that leaves without `/quit` costs the
  server a descriptor.
- A request for a forbidden site ends the connection (`hw5/proxy.c:186`), where
  `src/hw5/readme.md:21` says it goes back to reading.
- `Intact` and `DownExplained` (`TcpDownload`): with the name of all threads in
  one buffer parts get lost and servers are asked for `output.0`, which ends
  them; `src/HW3/readme.md:23` says that "there are no shared resources". A part whose last package fills the array is not intact, and no
  other.
- `DownExplained` (`TcpDownload`): a client that is killed while a server sends it a
  part takes that server down (`HW3/mysocket.c:101`, `:109`). One that ends in any
  other way does not: it has read its parts to the end, or the server is down.
- `Finishes`: a client whose list names a server twice, not one after the other,
  waits for itself; two clients that share two servers may wait for each other,
  even if they list them in the same order, since connections are used in another
  order than they are made.
- `InStep`, `RunsTyped`, `ServerDownExplained`, `Prompted`: a read that ends inside
  a package, a client that leaves before its answer is complete, and an empty
  line, after which the client waits though it wrote nothing (`hw2/client.c:65`).
  `src/hw2/readme.md:46` lists a "timeout to run", which the code does not have.

## Proofs

The modules `...Proofs` extend the module, or the two, they are about. `ListLemmas` has what all
of them need about sequences: taking the last element or the first ones, appending,
removing, joining, and when no element is twice in one. Every proof has the same
shape: an invariant that implies the properties, that holds initially, and that
each action keeps, with one step per action. The properties are not inductive
alone; what follows is what the invariant adds to them and why.

| Module | Properties proved | For every |
| --- | --- | --- |
| `JobPoolProofs` | `TypeOK`, `JobsConserved`, `ServersConserved`, `NoLostWakeup`, `ListsFit`, `LossBounded`, `DoneIsFinal`, `Refines` | number of parts, workers and servers |
| `TransferProofs` | `SplitCovers`, `BytesOnce`, `NoForeignBytes`, `Intact`, `TimeoutsExplained` | length of the file, number of parts, size of a packet |
| `DiscoveryProofs` | `TypeOK`, `AnswersOwn`, `OnlyDeadDropped` | list of servers, whichever have the file |
| `ChatProofs` | of `ChatRoom`: `TypeOK`, `HandedOnce`, `NamesFreed`, `WaitersListed` | finite set of users, their names, number of commands |
| | of `ChatPeer`: `PeerTypes`, `AnswersOwn`, `Survives`, `ModeAgrees` | number of inputs, and of calls and messages of peers |
| `ProxyProofs` | of `ProxyConnection`: `TypeOK`, `LoggedOnce`, `InStep`, `DownExplained` | number of requests |
| | of `AcceptLoop`: `LoopTypes`, `OwnConnection`, `LeaksExplained` | number of clients and descriptors, both programs |
| `RemoteShellProofs` | `TypeOK`, `InStep`, `RunsTyped`, `ServerDownExplained` | number of clients, commands and lines |
| `TcpDownloadProofs` | `TypeOK`, `OwnBytes`, `Intact`, `DownExplained` | number of clients, servers and parts, length of the file, size of a package |

All of them hold for every set of faults, where there are faults; a property that
a fault breaks names it in its formula.

**The worker pool.** `IInv` adds to the properties which `pc` goes with a job or a
server in hand (`Points`): a worker holds a job exactly from `Pop` to `Record` or
`Requeue`, and a server from `Acquire` to `Release`, `Requeue` or `DropIdle`. Then
a pop or a release moves an element between two places that are known to be
disjoint. `NoLostWakeup` is kept because a worker can only put a server on the
list on its way to `Broadcast`. `ListsFit` follows from `JobsConserved`: a
sequence without repetition of jobs has at most `JobNum` elements (`FewJobs`).
`LossBounded` counts (`Accounted`): from the first time a worker finds the stack
empty there is a dropped server for every job that is on it, and before that
nobody left but with a dropped server. `PoolRefines` shows the refinement step by
step under the same invariant: `Pop` is `Claim`, `Record` is `Finish`, `Requeue` is
`Abandon`, `DropIdle` is `Discard`, `Join` is `Conclude`, the calls of `failHandler`
are `Fail`, and every other step leaves lease, finished parts and live servers
alone.

**The transfer.** `SplitCovers`: each position lies in part `b \div single_length`, or
in the last. For `BytesOnce` a byte on the net or in a file was sent (`Sent`: the
thread of its part is past it) and, while nothing is duplicated (`Single`), is in
one place (`Once`); a thread that sends makes the bytes it sends sent, so that they
cannot have been anywhere before. For
`NoForeignBytes` the worker's socket has only packets of the part in hand
(`OnlyCurrent`), in order between what is written and what is to be sent (`Queued`);
this needs datagrams in order, and each of them once, which is why it excludes
packets that are overtaken or duplicated. For `Intact` nothing is missing between them (`Gapless`). For
`TimeoutsExplained` a thread is a whole number of packets from the beginning of its
part (`InStride`), which tells how many bytes its last packet has.

**Finding the servers.** Unless answers come late there is one request under way,
or one answer, to or from the server main waits for, and nothing else
(`NothingStray`, `OneAnswer`). So the answer it reads is of that server
(`PassedAnswered`), and while nothing is lost it waits in vain only for a server
that is dead (`StillAsked`).

**The chat room.** `HandedOnce` follows an entry of the list of waiting users, known
by its owner and port, from the command of `/wait` over the list and the answer
to a caller to the call (`Tokens`): while it is at one of these stages it is at no
other, because it is found and taken out of the list in one critical section, and
a `/wait` has a port of its own. `NamesFreed`
needs where each handler is in the life of its connection (`Life`); a name is in
the list as often as users hold it (`Held`), at most, and a user that adds one is
not gone before it has removed it. For `WaitersListed`, the places where a user asked
to be listed - commands of `/wait` in its stream, and the list itself - alternate
with commands that end it (`Alternate`), and a user that waits is found in one
that is not ended, in an answer, or in the backlog of its socket (`Found`). `Moves`
is the lemma for all steps that shift the stream: every place after the step was
one before it, and in the same order.

**The threads of a client.** `PeerInv` has four parts, each under the troubles that
its property allows. `OneAsked`: unless main gives up on an answer or is torn from a
read, it has asked for one thing and there is the question or the answer under way,
which is `AnswersOwn`. `Survives` needs `Writable`: while main is about to write, its
socket is neither shut nor one that reset a write before. That holds because a text
is typed only when all is settled, and whoever talks then has a thread blocked in a
read of that very socket (`Tended`): every step that sets `talk_fd` leaves a thread
that is about to start one (`Stirring`), and the close of `l_fd` takes away no socket
but its own, as no two descriptors stand for one (`Distinct`). `ModeAgrees` rests on
`Orderly`, which says where everything is while nobody is hasty and no call crosses
`^C`: at most one thread of each kind has work to do (`Alone`), a receive thread only
when the listen thread is past the talk (`AtListen`), a listen thread before the talk
waits at a socket that is open and where nobody called since `^C`, or that `^C` has
shut (`Lurking`, `Broken`), and a socket is open for calls only where such a thread, or
main on its way to create one, will see them (`Callable`). `RestAgrees` reads
`ModeAgrees` off that. A call that crosses `^C` breaks `Lurking`, which is why the
property excludes it.

**The accept loop.** `IInv` says where the socket of a client can be: in no descriptor
before it is accepted (`Fresh`), in one at most (`Once`), and, unless its thread was
overtaken, in `server_fd`, in the thread's `fd`, or nowhere but with a chat client
that left (`OwnThread`); a socket to a host is that of a thread (`Hosts`); who reads
from a connection has its descriptor (`ReadsFrom`), and once `/quit` is read somebody
is about to close it (`Closing`). While nobody was overtaken every thread has its own
(`Undisturbed`, `AnswersOwn`). It is needed because a descriptor is reused as soon as
it is closed: that `Leave` closes its own, and not one that accept has given to
somebody else meanwhile, takes all of them.

**The proxy.** `Counted` and `Blamed` give the request in hand and the fault each
state of the two sockets goes back to; `Paired` says that, unless hosts answer
late, what is under way between proxy and host belongs to the request in hand and
is over before the next is read. `Logged` is the set of requests with a line in the
log, and `Logging` relates it to `checkflag` and `has_contentlength_flag`, from which
`thread_proxy` tells whether the line of a response is written. `OneLine` and `OwnCode`
are `LoggedOnce` without counting.

**The remote shell.** `Peers`: who knows that the other has closed, and that the other
has. `Turns`: a client that is in step and the server take turns, so that at most
one line is under way, and none while one runs; that is why two lines run as one,
or a dead socket at a write, need a client that is out of step. `Flows`: what is
on its way to a client in step is `n` whole packages, and there is a function `f`
that cuts the text the command printed at their borders, from the end of what the
client shows to the end of it (`Packages`). The last package of an answer is the last
there is, which is what lets a client trust it. A read of half a package ends
this (`Split`), and only the fault "short" makes one.

**The parallel download.** Four invariants, one on top of the other. `IInv` says
what main has when (`Started`, `Results`, `Renamed`, `Opening`), what has been asked
of whom and what is served to whom (`Asked`, `Served`, `Filed`), and, for each
connection, which of thread and server has the next step and what lies between
them (`Exchanges`). `OneUploads` adds that of the request for a part, its upload
and its end under way there is at most one, and for a thread that is done none. So a
server that is still sending sends to a thread that has not read its end, and if the
client of that thread has ended, it was killed; a server that ends otherwise does so
for a file it lacks, and who asked for another file than the one wanted is a thread
whose name went into the target's buffer. This is `DownExplained`. `Stages` is about the packages of a part, while reads
are whole: they are full ones, consecutive, from the beginning of the part, and
then the last; what the thread has written, what is on its way and what the server
has still to send are one after the other the part. `LastFull` is the arithmetic
under it: the last package fills the array exactly if the length of the part is a
multiple of `BUFFER_SIZE - 1` plus one (`Overruns`), and only then the file of the
part has a byte too many. `OwnBytes` follows, and `Combining` goes on from there: what
`combine_file` has put together after `i` parts are the positions up to the end of
part `i` (`JoinedOneMore`, `PositionsJoin`), or more than those if one overran. It is
needed because `Intact` says "if and only if", so that bytes too many in one part
must not be made up for by another.

The proofs rest on the named assumptions on the constants, and on nothing else: at
least one job, worker and descriptor and a list of distinct servers that is not
empty (`JobPool`, `Chunking`, `AcceptLoop`); a list of servers, whether or not one
is there twice (`Discovery`); a buffer of more than one byte (`Transfer`,
`TcpDownload`); room for a socket and a pending connection, and an empty
descriptor that is no file (`TcpDownload`); a finite set of users (`ChatRoom`);
bounds that are numbers (`MaxCopies` among them), faults among those that are declared, and placeholders
that are no job, server or client.

Proved and in no run: `ListsFit`, which follows from `JobsConserved`, and the types of
the modules other than `JobPool`.

Only model-checked: liveness (`Terminates`, `Settles`, `Ends`, `AsksAnswered`,
`Heard`, `Finishes`, `Prompted`), which these provers do not cover. Every other
property of the runs that pass is proved.

## Not modelled

- Text: formatting and parsing of commands, of the list response, of
  `server-info.txt`; messages on the screen; util and the scripts.
- Memory: what is freed or leaked, and growing arrays. `deallocJobList` and
  `free(threads)` after the download concern a process about to end.
- `chunk_num` 0, which divides by zero in `createJobsList`.
- A missing file at a server that is asked for a part of it: `failHandler` ends
  that server, which for a client is the death of a server ("die").
- In `Transfer`, two uploads of one part at a time, which a request that is
  duplicated at once starts: a copy of a request comes when the first upload is over.
  In `Discovery`, datagrams that are duplicated.
- Half a command or half an answer in one TCP read.
- `pthread_create` that fails, in `AcceptLoop`.
- In HW3: reading `server-info.txt`; files with NUL bytes; output of earlier runs.
- In hw2: lines of 1024 bytes and more, a `popen` that fails, commands that never
  end, and sockets that a command started by `popen` inherits, which keep a
  connection open until the command has ended too.
- hw1: one sequential request and the split of a URL, which is text; there is no
  state beyond one call and nobody to interleave with.
- In `hw5`: requests that share a read, reads that end one response and start the
  next, texts too long for their buffers, the length in a line of the log.

## Plan

Done: `JobPool` with `PartDownload`, `Chunking` and `AcceptLoop` with their proofs,
`Transfer`, `Discovery`, `ChatRoom`, `ChatPeer`, `ProxyConnection`, `TcpDownload` and
`RemoteShell` with theirs.

Left to model: `Downloader`, which puts `Discovery`, `JobPool` and `Transfer`
together, with servers that differ in the file they have.
