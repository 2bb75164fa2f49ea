# Specifications of employee_database

`employee_database` is a small client/server database in C: a server that keeps
an array of employees in memory and in one file, a client that talks to it over
TCP, and a command line tool that works on the file directly. The repository
has no prose documentation; what the code promises is taken from its comments,
error messages and tests.

These modules model the server's event loop, its connection map, the
conversation between client and server, requests and their encoding, and the
database file, as the source stands. TLC checks them on small instances; TLAPS
proves the safety properties and refinements that hold, for all values of their
parameters.

## The system

| Component | State | Operations |
|---|---|---|
| server poll loop (`executable_src/server/server.c` main, `add_fd`, `remove_fd`, `accept_new_client`, `handle_client_disconnect`) | `pfds[]`, `fd_count`, `fd_size`, the scan index, descriptors | poll, accept, drop |
| connection state machine (`server.c` `receive_from_client`, `handle_*`; `src/models.c`) | per client `state`, `header_cursor`, `buf`, `buf_cursor`, `buf_size`, `conn_idx` | receive a piece, handshake, start a request, finish it, answer |
| connection map (`src/models.c`) | buckets of nodes, `capacity`, `entry_count` | insert, contains, get, remove, resize |
| client (`executable_src/client/client.c`) | one socket | handshake, one request, read the answer, exit |
| request options (`src/proto.c`, `src/parse.c`) | the employees in memory, the request and response buffers | add, update, delete, list |
| database file (`src/serialize.c`) | header (size, count) and employees, in one file | create, open and check, read, rewrite |
| command line tool (`executable_src/cli/cli.c`) | the employees in memory | the same options, then one save |

**Interaction.** Clients and server exchange messages over TCP. A message is a
header of fixed size and a body whose length the header gives; TCP delivers it
in any pieces. The server is one thread with blocking sockets: `poll()` says
which sockets are readable, a scan over the array serves them, and each handler
edits the very array the scan is walking. Array and connection map refer to
each other: the map gives a descriptor's connection, `conn_idx` in it gives the
slot. A complete request changes the employees in memory and, option by option,
rewrites the file in place before the next option is looked at. The command
line tool opens the same file on its own and saves once, at its end.

**What is hard.** Slots move under the scan and keep stale `revents`; messages
are cut anywhere; clients end, or die with data unread, between any two steps of
the server; the server or the tool may end between any two `write()`s of a save;
a client must tell an answer from the end of the connection; descriptors, the
array, the backlog and the widths of lengths are all finite. `PROJECT.json`
lists each hazard at its line, with the properties that cover it.

**What correctness means**, per component:

- *poll loop*: array and map describe the same clients; nobody is dropped but
  the client that was read from, because it ended (or because its handshake had
  been refused, see `full` below); what arrives is eventually read;
- *state machine*: however fragmented, messages are taken apart where they were
  put together; a request is executed only after a matching handshake and once;
- *client*: success means the request was carried out; a registered run ends;
- *file*: after a save it reads back as the memory; after an interrupted save
  it is the old contents, the new ones, or refused; after a finished one it opens;
- *connection map*: it behaves as a map, and every call returns, at least in the
  buckets that nobody has left;
- *options*: encoding and decoding agree, at the limits of their fields too, and
  no buffer is overrun;
- *requests*: each is carried out once, option by option, durably, and the
  server's memory is the file whenever no save is due.

## Modules

`PollLoop.tla` is the loop of `server.c`. One action is one turn of the scan
(`Skip`, `accept_new_client`, `handle_client_disconnect`, `HandleMessage`, ...)
plus `Poll`, which overwrites the `revents` of the slots in use and of those
only, and the clients' actions. `pfds`, `fd_count`, `fd_size` and `i` are the
C variables. `client_connections` maps a descriptor to its `conn_idx`. `full`
is the set of connections whose handshake was refused: their `header_cursor`
stays at the end of the header (`server.c:589` has no reset), so the next `recv`
asks for 0 bytes and its 0 is taken for a disconnect. `sock` is the kernel's
side of a socket: unread chunks, and how the peer ended. `next_fd` only grows,
because nothing in the server closes a client's descriptor. `pc = "body"` is the
second, blocking `recv` of `handle_initialized_client`. An uninitialised
`revents` (fresh from `malloc` or `realloc`) is any member of `Garbage`.

`ConnectionMap.tla` is the hash map of `models.c` in the memory it lives in:
`table` (the buckets), `node` (what is in each chunk of memory), `owner` (who has
the chunk: nobody, the map, or the rest of the server). A call begins with the
bucket's head, walks one node per step (`Follow`), and ends in `Found`,
`Inserted` or `Removed`. `Removed` frees a node and unlinks nothing, as both
branches of the code do (`models.c:153`, `:158`); the chunk may be the next
insertion's, or serve as something else (`TakenByOthers`, `GivenBack`), which
may overwrite its `next`. What `free` itself overwrites is `Freed`. `Left` is the
set of buckets that somebody has left; from then on they may lead anywhere.
`AbstractMap.tla` is the map that the server takes it for: a call in a bucket
nobody has left answers as a map does, a call in another may also find nothing
(`Miss`). `Implements` is the refinement (`map` is the set of entries in the
chunks the map owns, `left` is `Left`). `MCConnectionMap.tla` gives it hashes.

`Session.tla` is the conversation. `Programs` are runs of `client.c`; `Others`
are peers that speak the wire format but send any type, version and length,
again after a refusal if they like. Two history variables record what a client
has earned: `offered`, that it sent the server's version, and `asked`, how many
requests with a body it has sent since. A unit of a message is a field; `send_all`
puts a message through in any pieces (`Transmit`), and the server's `recv` takes
any part of what has arrived. `header` is what `header_cursor` has passed,
`buf_read`/`buf_size` are `buf_cursor - buf` and `buf_size`. A handler, with
every reset it makes, is one action with the `recv` that completes its header;
`SendReply` is `send_all` of the answer and the resets after it.
`accept_new_client` registers a client, or loses it for good when `getnameinfo` or
`add_fd` fails (`server.c:520`, `:534`): its state is then `"lost"`, nobody listens
to it and nobody closes it. An `accept` that fails changes nothing. `Stalls` is
what `PollLoop` and `ConnectionMap` show of the loop: a `recv` on a socket that
`poll` did not report, or a call that runs in a circle; `Resumes` is the end of
the first. `closed` tells
an orderly end from a reset, and from an orderly end the server has already
sent to: the next send there raises `SIGPIPE`. A client that ends with bytes
unread resets the connection. If the server is gone, `client.c` fails, or
decodes a buffer nobody wrote (`Garbled`): compiled as the Makefile does,
it reads as an empty success after an add and as an unknown request error after
a short request.

`Options.tla` has no state: it is the encoding of `proto.c` and the operations on
the array of employees. A buffer is a sequence of cells (a letter, a length, a
character, the hours) with its capacity; `resize_buffer` and the hand-counted
`data_len` are there, and so are the widths: lengths are taken modulo `LenLimit`
(2^16) and hours modulo `HoursLimit` (2^32). Options hold strings without
terminator (`Str`), rows and the file with it (`FieldStr`): a string of 65535
characters has length 0 in the second, a longer one, from the tool, a length
that is too short for it. Read back, what was written goes on with what fresh
memory held, a member of `Uninit`, until the next terminator (`InMemory`). A listing is decoded into an array of `InitRows` (32) that is replaced,
not grown.

`Requests.tla` takes a request from the client's command line to the file and
back: `Send` encodes it, the server `Take`s it, carries out one option
per step and saves it in another (`write_db`), and answers. `answer` is what the
server answered: a client that waits when the server ends (`Crash`) is
`"unanswered"`, and what `client.c` then reports, success perhaps, is in `Session`
(`ServerGone`, `SuccessIsGenuine`). `shown` is what a client displays of a listing
it was sent. The server may end
and start again between any two steps; the tool loads (`ToolLoads`) and saves
(`ToolSaves`), and may abort on a `free` of its own arguments (`FreesArgument`).
`trusted` is a history variable: it turns FALSE when tool and server have
the file open together, or when a string that does not fit its field is added.
`Store.tla` is what the program promises, a durable bag of employees and requests done
one after the other, with the server's answers; `Implements` maps the contents of the file to the bag and the
unsaved part of each request to what is `left` of it. `MCRequests.tla` has
the requests: names are made of the very characters that options begin with.

`DbFile.tla` is the file. A header of two cells, and per employee the cells of
one length-prefixed field and his hours. A field is a string with its null, as
much of it as a length of 16 bits (`LenLimit`) says (`Field`, `AsWritten`);
`CString` is the string in memory once a field was read into it, and `Uninit` what
memory holds behind a field that has no null. The processes that may open it are
the server (saves after each option) and the tool (saves once, `pending` are the
options not yet saved). `write_db` is its first `lseek`, then one `WriteCell`
at a time, then `WriteHeader`; `End` may come at any point. `Load` reads as the
code does, including a file with no header, which `read_dbhdr` does not notice.
`promised` and `plain` are history variables: the contents last saved and,
during a save, those being saved; and whether every save was of one add or one
update and every field that was read had kept its string.
`MCDbFile.tla` gives it names of different lengths, one too long for its field.

`PollLoopProofs`, `ConnectionMapProofs`, `SessionProofs`, `OptionsProofs`,
`RequestsProofs` and `DbFileProofs` have the theorems of the modules they are
named for, and `StoreProofs` that `Requests` refines `Store`; `Recursion.tla` has what they need to reason about functions that are
defined by recursion.

The modules describe one server from several sides. `PollLoop` keeps the array
and abstracts a message to a chunk whose handler ends in one of the ways the
code allows, and the map to a partial function, which `ConnectionMap` implements
in the buckets nobody has left.
`Session` keeps the messages and serves any readable client. `Requests` is what
`Session`'s `Execute` does with a request, built on `Options`, and `DbFile` is
what its `write_db` does to the disk.

## What is checked

| Run | Result | What it shows |
|---|---|---|
| `PollLoop.cfg` | holds | `TypeOK`, `Registered`, `DropsOnlyTheEnded`, `ReadableIsServed`. The index stays in the array; array and map agree slot by slot; a client is dropped only when its own `recv` gave 0, because it ended or because its handshake was refused before; a ready slot moved behind the index is skipped in that round, and yet is served |
| `PollLoop_ready.cfg` | violated | `ReadyOnly`. A client accepted during the scan, into the slot of one that just left, inherits its `POLLIN` and is read from at once: `recv` blocks the server |
| `PollLoop_leak.cfg` | violated | `PendingIsAccepted`. Descriptors of departed clients are never closed; in the end nobody is accepted and the loop spins |
| `ConnectionMap.cfg` | holds | `TypeOK`, `Implements`, `CallsEnd`. Every client may leave, and freed nodes stay linked: where nobody has left, buckets and nodes in reused memory are a map and every call returns; elsewhere a call finds nothing or what a map would give, and no node of another client is touched |
| `ConnectionMap_shared.cfg` | violated | `EveryCallEnds`. When a client has left a shared bucket the freed node stays linked; once it is a node again a list closes on itself and the server hangs |
| `Session.cfg` | holds | `TypeOK`, `WholeMessages`, `OnlyGreetedOnce`, `AnswerIsGenuine`, `ProgramsFinish`. Framing; whatever is executed was asked for after the right version was offered, and is executed once; an answer stands for its execution; and the run of a client that is registered, or whose server has ended, ends unless the server is stuck for good |
| `Session_survive.cfg` | violated | `SurvivesClients`. A killed client ends the server: `recv` gives -1, or a send raises `SIGPIPE` |
| `Session_silent.cfg` | violated | `SuccessIsGenuine`. The server ends without carrying out an add, and the client exits 0 |
| `Requests.cfg` | holds | `TypeOK`, `BuffersHold`, `MemoryIsDisk`, `Implements`. Encoding, options, saves, crashes and the tool together keep what `Store` promises, requests that fail after a saved option among them; no buffer is overrun; memory is the file between options |
| `Requests_list.cfg` | violated | `ListingIsWhole`. A listing longer than the first array loses its first rows |
| `DbFile.cfg` | holds | `TypeOK`, `IdleFileHoldsMemory`, `PlainSaveIsAllOrNothing`, `GrownFileOpens`. For every option, both programs, names that do not fit their field, and processes that end anywhere: a finished save reads back as the memory as far as the field has room, an interrupted save of one add or update leaves the old or the new employees or a file that is refused, and a finished one opens if the file was not longer before |
| `DbFile_shrink.cfg` | violated | `FinishedFileOpens`. The file is never truncated: after a delete its size is not the header's and nobody can open it again |

The violated properties are what a comment or an error message says; each is a
finding in `PROJECT.json`. Some hazards are modelled without a property that
denies them: a delete, or several options of the tool at once, interrupted before
the header is written may leave a file that opens with a mixture (hence `plain`);
a client that stops inside a message stops the server at its second `recv`
(hence the clients' fairness in `PollLoop`); a client that is never accepted, or
accepted and lost, waits for ever (hence `Connected` in `ProgramsFinish`); and tool
and server with the file open together undo each other's saves (hence `trusted`).

Deadlock is checked in `DbFile`. It is not in the others: in `PollLoop` and
`Session` the server may have ended and a blocking `recv` is a place where the
whole system really stops; `ConnectionMap` ends when every client has come and
gone, or a call has followed a pointer that is none; in `Requests` every client
may be done and the file may refuse to be opened.

### Bounds

- `PollLoop.cfg`: two client descriptors (`FdLimit = 4`), an array that starts
  with one slot and doubles for each open socket; the first and the last client slot are
  vacated with the other still there, and taken again. Two waiting clients and two
  chunks. `PollLoop_ready` has three clients. The proofs cover all sizes.
- `ConnectionMap.cfg`: three descriptors, two of them in one bucket, which all
  may leave, four chunks, so that a freed chunk is reused by the
  other bucket or by its own, and two connections to be told apart. The violation
  needs two pairs and five chunks.
- `Session.cfg`: one program and one other peer, bodies of up to two units
  (so a body can be cut), three messages of the other peer (a refused handshake,
  an accepted one, a request), two versions. Interference between clients is only
  through the server's single thread, for which two are enough.
- `Requests.cfg`: two clients with every combination of the four options, one
  run of the tool, at first no employee or three of whom two have the same name.
  Two requests save a first option and then find nobody of the second's name.
  `LenLimit = 4` and `HoursLimit = 4` put the limits within reach: a name of
  three characters fills its field, one of four is refused by the client and cut
  when the tool saves it, hours -2 are cut.
  `InitRows = 2` makes a listing of three too long.
- `DbFile.cfg`: names of lengths 1, 2 and 3 and two hours, of which one is a
  possible length: records of different sizes, duplicates, and cells that can be
  read out of step. With `LenLimit = 4` the longest name is written with length 0
  and read back as what memory holds, which looks like another name. Two employees.

### Fairness

`PollLoop`: the server process runs whenever it is not blocked (one thread, the
kernel schedules it; `PollFails` may happen but is owed by nobody), and a connected client does not stay silent for ever. The
second is what `client.c` does, which sends as soon as it is connected and whose
end is a close; without it the blocking `recv`s above would stop the server for
good. `ConnectionMap`: a call that has begun goes on, as nothing in it waits.
`Session`: the server serves the clients it has registered and each program runs,
unless blocked, and TCP
delivers what `send_all` has begun; other peers may fall silent between
messages, or be killed, but do not stop within one. No fairness is put on
`accept_new_client`, nor on the end of a stall: `ProgramsFinish` says so itself, with
`Connected` and `NeverStuck`. The server may die at any
moment, and `ProgramsFinish` holds even so. No fairness is put on deaths,
kills or connections. `Requests` and `DbFile` are checked for safety only.

## What is proved

**`PollLoopProofs`**, for every listener, descriptor limit, array size, backlog
and content of uninitialised memory allowed by `PollLoopAssumption`:

- `TypeCorrect`: `Spec => []TypeOK`; in particular `fd_count` stays within the array;
- `ArrayMatchesMap`: `Spec => []Registered`;
- `DropsCorrect`: `Spec => DropsOnlyTheEnded`;
- `Invariance`: `Spec => []IInv`, from which they follow.

`IInv` is `TypeOK /\ Registered /\ NeverReused`. `Registered` is not inductive
without `NeverReused` (every descriptor in the map is below `next_fd`): if
`accept` could return a descriptor that is still in the map, the insertion would
leave two slots for one connection. It is the descriptor leak that makes this so; a
repaired server would need that a closed descriptor has left the map first.
`Registered` in turn gives the disconnect step what it needs: `pfds[conn_idx].fd`
is the descriptor that was read, and the slot that moves has a connection, so
`remove_fd` cannot fail.

**`ConnectionMapProofs`**, for every set of descriptors, hash, memory and way of
reusing it, whoever leaves:

- `TypeCorrect`, `Invariance`: `Spec => []IInv`;
- `MapImplements`: `Spec => Implements`.

`ListsWhole` says that a bucket nobody has left is a finite list that ends in
the null pointer and holds every node with a key of that bucket; `SearchAhead`
that a call looking for a registered key in such a bucket has its node at or ahead
of the cursor. The second is what the refinement needs when a call returns, the first
is what makes the second true when a call begins. A bucket that has been left
may lead anywhere, into the other lists too, and calls go on in it: what is
needed of them is that they change nothing elsewhere. A node is pushed before
its own bucket's others only, and what a remove frees has the very key it looks
for, so it is a node of that bucket wherever it was found (`MatchIsNode`).

**`SessionProofs`**, for every set of programs and other peers, versions and
lengths of bodies allowed by `SessionAssumption`:

- `TypeCorrect`, `Framing`, `Authorised`, `AnswersGenuine`: `Spec` implies
  `[]TypeOK`, `[]WholeMessages`, `[]OnlyGreetedOnce` and `[]AnswerIsGenuine`;
- `Invariance`: `Spec => []IInv`, from which they follow.

`IInv` says of each client on its own what the server's state, the cursors and
the bytes in flight have to do with one another; nothing in it relates two
clients, which is why the server's single thread is enough to keep them apart.
`Reading` ties the two cursors to the connection's state: what a handler resets is
what the next `recv` starts from. `Framed` is `WholeMessages` said in every
state: what `header_cursor` has passed, what `recv` has read and what is still on
its way are, in that order, the last message. `Formed` says that the
message is one the state expects: without it the length in a header could be
anything and `buf_size` would not be the body's. `ClientSide` and `Told` are the
client's half: a program waits while its message is answered, and the answer it
reads is the one its last message was given. `Counted` relates the requests
executed to those `asked`: one that is on its way, in the server's buffers or
about to be executed is still to come, and there is none of them unless its client
has `offered` the server's version, which is what "at most once" rests on.

**`OptionsProofs`**, for every width and string: what is written into a buffer
stands behind what was there (`WrittenStands`), and where an option stands, the
decoder finds the strings and hours that were put in and ends just behind
it (`AddSurvives`, `UpdateSurvives`, `DeleteSurvives`), with hours as they were
cut to their width. `FieldSurvives`: a string is read from a row as it would be
from the file, whole if it fits, and as what memory held if its length comes out
as 0. They are stated with `Holds(cells, p, xs)`
(the cells `xs` stand from `p` on) so that they apply in the middle of
any request.

Whole requests and listings follow, of any number of options and rows. `BodyFits`
and `ListingFits`: what is written never exceeds the capacity, and the pieces
stand one behind the other (`Layout`). `ListingSurvives`: the client's loop reads
a listing to its end, and shows it as the server had it if it has at most
`InitRows` rows and every string fits; when it is longer, what is shown are still
employees, from memory that nobody wrote.

**`RequestsProofs`**, for every set of clients, requests and files allowed by
`RequestsAssumption`:

- `TypeCorrect`: `Spec => []TypeOK`, with the cursor inside the request;
- `BuffersFit`: `Spec => []BuffersHold`;
- `MemoryMatchesFile`: `Spec => []MemoryIsDisk`;
- `Invariance`: `Spec => []IInv`.

`TypeOK` is not inductive: nothing in it says that the cell at the cursor is a
letter and not a character of a name, or that what is decoded there ends inside
the request. `Asked` and `Serves` say it: the buffer of a client that waits is
the body of what it typed, and the cursor stands behind as many of its options as
were carried out. The theorems of `OptionsProofs` turn that into what a step
reads. For `MemoryIsDisk`, `Trust` adds that no string in memory or file fills its
field (so that a reload gives back what was saved), and that a tool with the file
open means that the server is down (so that its save changes nothing behind the
server's back).

**`StoreProofs`**, under the same assumptions:

- `StoreImplemented`: `Spec => Implements`, in which an answer is what the server
  answered. That `client.c` may report success without one is `Session_silent`'s.

Every step is one of `Store` or changes nothing there: `write_db` is `Do`, the save
of the tool is `Tool`, the three answers are `Refuse`, `Answer` and `List`, a
server that ends is `Fail`, and the steps between a change of memory and its save
stutter. `IInv` says where the cursor is; `More` adds what is on its way to the
file. `Due`: memory that is not saved is the file with the next option of the
request carried out on it, as it was typed. `Loaded`: what the tool
is to save is the file with all it was asked to do. `AtStage`: no option has been
passed over, which is what `Finish` needs, since the decoder looks for the letters
in their order and answers when none matches. That order is the assumption
`InOrder`, as both command lines have it; without it a request would be
answered with some of its options not done.

The array is compared with the bag by counting places. `update_employee` puts one
employee in the place of another and `delete_employee` the last one in the place
of the first that matches, so each changes two counts, whatever the array
holds twice (`TimesPut`, `UpdatedOutcome`, `DeletedOutcome`). A listing is complete
if the store has at most `InitRows` employees, counted as copies (`CopiesAreMany`).
Once `trusted` is FALSE nothing is promised.

**`DbFileProofs`**, for every set of names and of hours, every width of lengths and
content of memory behind a field, arrays of every length, and processes that end
after any write:

- `TypeCorrect`: `Spec => []TypeOK`; no write leaves a gap in the file;
- `SavedIsMemory`: `Spec => []IdleFileHoldsMemory`;
- `AllOrNothing`: `Spec => []PlainSaveIsAllOrNothing`;
- `Grown`: `Spec => []GrownFileOpens`;
- `Invariance`: `Spec => []IInv`.

What is in the file are the employees `AsWritten`, with their fields cut; they are
related to those in memory where a file is written (`write_db`) and where it is read
(`StringIs`: the string in memory agrees with the field it came from).
`IInv` describes the file during a save: the cells before `pos` are the new
employees' as written and `todo` the rest of them (`Writing`). `PlainCells` adds that the
cells from `pos` on are still the old ones, and `Halves`
is the argument of `AllOrNothing`: a plain save either changes one cell, so that
every mixture is one of the two, or makes the array longer, so that the old
header's size is no longer the file's once a cell was appended, and the old cells are
untouched before. `Single` is what a reader finds after a finished save, with what
a longer earlier version left behind it; `Fresh` is the file before its first
header, and `Stages` keeps the options of the tool in their order, so that a
save of one of them is told from a save of two.

**`Recursion`**: the library's induction theorems take an operator as a parameter,
which the provers at hand cannot instantiate. They are stated here with sets
(`NatSet`, `UptoSet`: a set that has 0 and is closed under successor) and
functions (the lemmas `Recursive`, `OneFollows`: a value and a step define one
function on `0 .. n`), proved from the well-foundedness of the naturals, and used for
everything the models define by a recursive function.

Every invariant and action property of the passing runs, and both refinements, are
thus proved. Only model-checked: liveness (`ReadableIsServed`, `CallsEnd`,
`ProgramsFinish`), since liveness under fairness and `ENABLED` are out of the
provers' reach. The properties the code does not have are shown violated by
TLC on one instance each.

## Abstractions

- `connection_map` is a partial function in `PollLoop`. That is exact as long as
  nobody has left the bucket of a descriptor that is given out; none of 4..32 share
  one, so the server meets the difference at about its thirtieth client. From then
  on it may stall (`Stalls` in `Session`) or miss a client.
- `ConnectionMap` stops where a wild pointer is followed, and lets one chunk at a
  time be somebody else's. What others write where a node had its key is taken for
  no descriptor: it begins with a message type (0 to 4) or with letters.
- Descriptors are given in increasing order, as `accept` does when none is closed.
- Answers are delivered whole and `send` does not block on a full buffer.
- `malloc` and `realloc` succeed.
- `Session` has one row in a list answer, and leaves the meaning of a request's
  body to `Requests`.
- `Requests`: messages are whole, and an answer is with its client as soon as it is
  given; a save is one step, the load and the save of the
  tool are two. A client that gets no answer is done: how it ends is in `Session`. Of the bytes of the file it keeps the contents and their number.
  A request has each option at most once,
  as the command line has.
- `DbFile`: a process ends, the machine does not (no loss of the page cache);
  `write` of one cell is atomic; one string stands for name and address; one
  process has the file at a time, so that tool and server with the file open
  together are in `Requests` only. A hole where a header was never written reads
  as zeros, and uninitialised header memory as zeros or as a refusal.

## Not modelled

- `get_listener_socket`: sequential set-up before the loop.
- The syntax of arguments (`getopt`, `strtok` in `parse.c`) and the printing of
  rows: an error there ends the process before anything is sent or saved.
- `serialize_employee` and `deserialize_employee`: used by tests only.
- `connection_map_resize` and `free_connection_map`: never reached, the first
  because `entry_count` stays 0, the second because the loop has no exit.
- `Makefile`, `obj/`, `bin/`: build description and products.

## Plan

1. Server and tool on one file at the granularity of `write()`, in `DbFile`.
2. `Session` composed with `Requests`: the answer that arrives is the one of the
   request that was carried out.
