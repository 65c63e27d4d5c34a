# A verification of http-cpp

http-cpp is a small HTTP server in C++14: a main thread that reads TCP
connections through a ZMQ STREAM socket, four worker threads that turn the bytes
of a request into the bytes of a response, a library (libhttp-cpp) that parses
requests and serves files or REST services, and a library (librest) for writing
such services. It carries its own copies of the libraries it is built from:
spdlog with fmt (logging), boost.dll (loading of service libraries), cppzmq.
This directory holds TLA+ models of the program and of those libraries, the TLC
configurations that check them on small instances, and TLAPS proofs about all of
its concurrent parts, the process and the path of a request. Paths below are
relative to the repository.

- [The system](#the-system)
- [Modules](#modules)
- [Runs](#runs)
- [Divergences](#divergences)
- [Fairness](#fairness)
- [Proofs](#proofs)
- [Not modelled](#not-modelled)
- [Plan](#plan)

## The system

| Component | Code | State | Operations |
|---|---|---|---|
| Main thread | `src/http_server.cpp` | the STREAM socket and its peers, the DEALER socket, `poll_items`, the frames in hand | `connect`, `run`, `forward_as_req`, `forward_as_stream` |
| Worker threads | `src/http_worker.cpp` | SUB and DEALER sockets, the request in hand | `run`, `handle_status`, `handle_request` |
| Websites | `src/http_server.cpp`, `src/http_website.cpp`, `src/http_worker.cpp` | the set `websites_`, the bound ports | `connect`, `extract_host`, `find_website` |
| Handler cache | `libhttp-cpp/src/http_protocol_handler*` | one static `std::map` for all threads | `contains`, `get`, `insert`, `make_handle_impl`, `get_handler` |
| HTTP/1.1 parser | `libhttp-cpp/src/http_protocol_one_one.cpp` | the stream position, three header maps, the body | `parse_request`, `make_response` |
| HTTP/1.0 handler | `libhttp-cpp/src/http_protocol_one_zero.cpp` | none | `parse_request` reports success and parses nothing |
| Service execution | `libhttp-cpp/src/http_service.cpp` | the response being made, exceptions under way | `parse_request`, `execute` |
| Filesystem resources | `http_resource_factory.cpp`, `http_filesystem_resource.cpp`, `http_directory_listing.cpp` | the open stream, libmagic's handle (shared by all threads), the disk | `create_handle`, `execute`, `fetch_resource_header`, `fetch_resource_content` |
| External services | `http_resource_factory.cpp`, `librest/include/rest_*.h` | the loaded library | `create_handle`, `execute` |
| REST router | `librest/include/router.hpp` | the tree `router_dispatch_` | `add_route`, `get_dispatch` |
| Dates | `libhttp-cpp/src/http_constants.cpp` | localtime's `std::tm` and httptime's static buffer, both shared by all threads | `http_date`, `httptime` |
| Program | `src/main.cpp`, `src/http_server.cpp`, `src/runnable.h`, `src/logger.*` | the registry of loggers, the server's members, the threads, the references to libraries | static initialisation, `main`, `start`, `stop`, the destructors |
| Logging calls | `ext/spdlog`: `logger_impl.h`, `line_logger*.h`, `pattern_formatter_impl.h` | the line under way, the level | `log`, `operator<<`, the flags of a pattern |
| Formatting | `ext/spdlog`: `format.h` | the writer, the position in the format string | `BasicFormatter::format`, the writing of each type |
| Asynchronous logging | `ext/spdlog`: `async_log_helper.h`, `mpmc_bounded_q.h`, `file_sinks.h`, `file_helper.h` | the ring of cells, the worker, the open file and the files on disk | `push_msg`, `flush`, the worker's loop, rotation |
| Loading of libraries | `ext/dll`: `shared_library*.hpp`, `import.hpp`, `smart_library.hpp` | handles, the loader's counts | load, assign, move, swap, import, alias |
| Symbols of libraries | `ext/dll`: `elf_info.hpp`, `macho_info.hpp`, `pe_info.hpp`, `demangling/` | a file's tables, the demangled symbols | `sections`, `symbols`, `get_variable`, `get_function`, ... |
| cppzmq, libmagic, hashes, examples | | | see [Not modelled](#not-modelled) |

How they interact. `main` calls `http_server::connect` once per website, then
`run`, which starts the workers and publishes START. From then on the main
thread loops: it polls both sockets, forwards one message from a client to some
worker (`forward_as_req`), then one response from a worker to its client
(`forward_as_stream`), whichever the poll found. Both sends block when the pipe
is full. The only thing that ties a response to its client is the identity frame
that travels ahead of the data frame through both pipes and the worker. A worker
parses a request, finds the website by host, executes a resource of it and sends
the text of the response. Workers share, without a lock, the handler cache, the
libmagic handle and the static buffer of `httptime`; they share `websites_`
read-only.

What is hard:

- the two blocking sends over bounded pipes, whose deadlock freedom rests on the
  order of the two tests in `run`'s loop;
- clients that hang up, at any moment between their request and the two sends of
  `forward_as_stream`;
- one read of a TCP stream taken for one request;
- unlocked sharing between the workers;
- exceptions: which of them become a response, and which meet a `noexcept`
  function, leave a thread, or leave `main`;
- a file system that changes between the system calls of one request;
- two uninitialised variables that are read (`more`, `status_code`);
- the life of the process: who still runs, and with what, while the server is
  destroyed, and which reference keeps a service's library mapped;
- a lock-free queue at its bounds, a worker that fails, a rotation of which any
  call fails or is the last;
- parsers of other people's text: format strings, patterns, binary files, mangled
  names;
- header fields of which an assertion, a `substr` or the line ending decides.

The properties that make each component correct: a response goes to the client
that asked, at most once and with no request lost or doubled on the way; waiting
clients are answered; the threads never block each other; websites and ports
stay in step and a request reaches the site it names; a supported version has a
handler; the parsed header is the header section and the body what follows it;
a path reaches the route that matches it; a response's length is that of its
body and its content a version of the file that existed; a site's code runs only
for requests that name it; 200 is only said of a resource that was executed; and the
process survives what a request or a service throws; every enabled logging
call leaves one line, as its format string and pattern say, and files that hold
the end of the log without gaps; a library stays mapped exactly as long as
something refers to it, and a name is looked up as what it means.

## Modules

`PROJECT.json` maps each definition to the lines it models. Definitions keep the
names of the functions they model. Those whose comment begins with `Mutant:` are
plausible bugs of the definition behind them, which the properties must reject;
they take no part in the models.

**HttpServer** is the concurrent core. A connection is the identity STREAM gives
it; `rx[c]` are the messages the socket has for `run` to read, the empty
notification of a connect or a disconnect (`Notify`) and the chunks the client
wrote, numbered. `srv` is the place of the main thread in `run`, `wpc[w]` that of
a worker in `http_worker::run`. `forward_as_req` is two steps (receive; blocking
send), `handle_request` four (receive, swallow more frames, execute, blocking
send). `inq` and `outq` are the two directions of the DEALER pipe of each worker.
`MoreHigh` is what the upper half of the `int64_t more` may hold, since
`ZMQ_RCVMORE` is a four-byte option: 0 for a clean stack, 1 for anything else.
Sending to a peer that has hung up is a choice between the two things the
library may do: the frames vanish (the socket has not noticed) or the send fails
with `EHOSTUNREACH`, which `run` rethrows and nothing catches (`srv = "dead"`).
A pipe refuses messages at `HWM` and, as zmq's flow control works in batches,
may go on refusing until only `Low` are left. The safety model lets a pipe take a
message whenever it is below `HWM` *and* counts a pipe as possibly refusing above
`Low` where that is the dangerous side (`Gridlock`).

**RequestResponse** is the abstract service: a connection is answered at most
once, with the response to something written on it, and closed by the answer; the
server may go down at any moment. `HttpServer.ImplementsRequestResponse` maps the
threads and pipes to it: `asked` is what clients sent, `answer` what they got.

**HandlerCache** models `get_handler` down to `std::map`'s lookup and insertion,
for threads that overlap in them. The data race is a choice among what such a
race has been seen to do short of crashing: a lookup that overlaps an insertion
may miss, and an insertion at a stale position may drop or double a node.

**Websites** models `connect` (validation, the insertion before the bind and its
withdrawal, the `noexcept` constructor that ends the process) and the lookup of a
request's host, with ports as the 16-bit numbers that `istream >> uint16_t`
accepts.

**RequestParser** reads a request line of symbols (pieces of words, spaces,
carriage returns; the last two are `SP` and `CR`) twice, as the code does:
`extract_http_version` by single spaces, to choose the handler, and `split` by
all spaces, to get the words. The lines behind it are of the kinds the code tells
apart (a field of one of three lists, a field without a value, text without a
colon, only a colon, `""`, `"\r"`); of a field, `rest` is what stands behind the
colon, of which `substr(colon_position + 2)` cuts the first character, a space or
not. Assertions are off, as in a release build: the one the loop may reach drops
the field. `Adjacent` says whether the arrays of field names lie next to each
other in memory, on which the comparison of an iterator of one with the end of
another depends, and with it that assertion.

**Router** models both walks over the dispatch tree one segment per step, so
that an exception in the middle of `add_route` leaves what the steps before it
did. A node is the sequence of edges that lead to it. `routes` is a history of the
calls that returned.

**FilesystemResource** has one step per system or libmagic call, with another
process that renames, rewrites and removes files between any two of them. Both
passes over a stream, `ignore` and `std::copy`, read it block by block; a file is
its number of blocks, and a body the blocks it was copied from. `disk`
maps names to inodes, so that an open stream keeps the inode it was opened on.
`http_resource` has no virtual destructor, so no stream is ever closed:
`descriptors` counts those that are open, starts at any number up to `MaxOpen`, for
the requests before, and at `MaxOpen` nothing can be opened.
`seen` and `hit` are histories used by the properties only.

**HttpService** follows one request through parsing, `find_website`,
`extract_host`, the resource, the default status and the serialisation, with
every exception and the handler it meets. It abstracts what the four modules
above detail: a request is a record of what the code tells apart, among it
whether the `noexcept` parser throws, and whether the file system can tell about
the path, where `boost::filesystem::exists` throws in the `noexcept`
`create_handle`. `direct` is a
caller of `http_service::execute(const http_request&)`, as the tests are.

**HttpDate** models `http_date` for threads that overlap in it. `localtime` fills
one `std::tm` and `httptime` prints it into one static buffer, field by field; a
date is a function from fields to the times they came from. `direct` and `near`
are histories of the calls that overlapped.

**Responses** composes HandlerCache (an instance) and HttpDate (extended): a
worker asks the cache twice per request, dates a file and then the response.
`warm` is a history: every version had its handler when the request arrived.

**Program** extends Websites with the process around it: static initialisation
and the registry of loggers, `main`, the construction, insertion and withdrawal of
a website as separate steps that move references to its library, the threads'
sockets, and the members of `http_server` in the order of their destruction.
`Callers` says whether what `connect` and `run` throw is caught (not in `main`, but
in a program that uses the class).

**MpmcQueue** is the queue's ring of cells, with one step per atomic access;
**BoundedQueue** is what it promises, and `Logging.QueueIsFifo` maps the one to
the other. **RotatingFile** is the sink and its file, each call a step that may
fail. A failing `fwrite` is an exception and may cut its record and lose those in
front of it that stdio had buffered; a failing `fflush` or `fclose` loses buffered
records, the oldest of them perhaps in the middle, and nobody looks at its result.
`written` and `lost` are histories of it. **Logging**
composes them, for both modes of the registry: producers, the worker, `flush`,
the destructor, kills and the next life of the process on the same files.

**FmtWriter** writes one value, **FormatString** is the single pass of
`BasicFormatter::format` over a format string, and **FormatReference** gives the
meaning of a format string as a tree, which is rendered to text for the run (it is
no part of the program). **PatternFormatter** compiles a pattern and appends the
pieces of a line; **Loggers** composes them to a call from the level check to the
sinks.

**BinaryFiles** describes the parts of ELF, Mach-O and PE files that anything
reads, **LibraryInfo** the three readers, **MangledStorage** the lookup of C++
entities by text, with the demanglers external. The files in MCLibraries are as
different linkers write them: `.shstrtab` behind the symbols' strings or in front
of them, protected and sizeless symbols, local names in Mach-O files, PE files with
exports by number and with none. **SharedLibrary** is the life of
library objects and imported functions over an external loader that counts
references; each operation is an action. **SmartLibrary** puts the four together.

The **MC** modules define the values TLC's configurations need (symmetry sets,
kinds of lines, contents of files, calls, libraries). **MCRequests** also puts
RequestParser and HttpService one behind the other: what the parser made of its
lines decides which requests the service goes on with. The proofs are
in **HttpServerProofs**, **ResponsesProofs**, **ProgramProofs**,
**HttpServiceProofs** (with the parser's), **FilesystemResourceProofs**,
**RouterProofs**, **LoggingProofs** (the queue, the log files and the log calls)
and **SmartLibraryProofs**.

HttpServer, HttpService and the modules of the request path meet in values rather
than in shared variables: a worker's `handle_request_execute` in HttpServer is all
of HttpService; HttpService's `find_website` is Websites', its `parsed` is
RequestParser's result, its `lookup` is Router's or FilesystemResource's answer.
The state the workers share is modelled where threads overlap in it: HandlerCache,
HttpDate and Responses, and FilesystemResource.

## Runs

Each run is one configuration, `<run>.cfg`. Deadlock is not checked: the models
end when the bounded clients, threads or requests are done, and in HttpServer a
thread's wait for another is the subject of `NoGridlock` and `Answered`.

| Run | Properties | Instance |
|---|---|---|
| ServerSafety | `TypeOK` `RightClient` `OneReplyPerConnection` `NoLostRequest` `ImplementsRequestResponse` | 2 connections with 2 chunks each, 2 workers, pipes of 1, one client may hang up, all statuses, any `more` |
| ServerBackpressure | `NoGridlock` | 1 connection with 11 chunks, 2 workers, pipes of 3 that may refuse down to 1 |
| ServerPatient | `ServerSurvives` `Answered` | 3 connections with 1 chunk, 2 workers, pipes of 1 |
| Responses | `WarmRequestsAnswered` `FieldsOfNearCalls` | 2 threads with a request each, all 4 states of an idle cache, 2 times, dates of 2 fields |
| Program | `PortsMatchWebsites` `ServedByNamedWebsite` `LibraryReferences` `UsedIsThere` | 2 names, 3 ports, one of them taken by another process, ports in requests up to past 16 bits, 1 library, 2 workers, up to 2 websites |
| Requests | `RequestLineIsRead` `HeadersAreTheSection` `BodyDelivered` `ResourceRunsForItsHost` `SuccessMeansExecuted` `KnownTerminations` | request lines of up to 5 symbols with all headers and bodies of up to 4 lines over 10 lines, with LF and CRLF; then a directory and a library, all requests that may have been read so, outcomes and unassigned statuses |
| RouterRoutes | `TreeIsTheRoutes` `DispatchIsPreferredMatch` | up to 3 routes of up to 2 segments, 2 methods, 2 variable names, paths of up to 3 segments |
| FilesEdited | `LengthMatchesBody` `ServedVersionExisted` `LoadedOrError` | 2 threads, 2 edits of any kind, readable files of 1 and 2 blocks, up to 2 descriptors, with libmagic |
| LogFiles | `FileBound` `FilesAreTheLog` | 2 callers with 2 calls each, records of 1 and 2 bytes, files of 2 bytes and one backup, every fault, with and without `force_flush`, kills, 2 lives, both modes |
| AsyncLogging | `ShutdownDelivers` `QueueIsFifo` `CallsReturn` | 2 producers with 2 calls each, 2 cells, the same files, failing opens and writes, kills, 2 lives |
| Formatting | `StaysInside` `FormatsAsSpecified` `OneLinePerCall` `LinesExpand` | families of calls over all types, specifications and flags, integers of 6 bits, 2 sinks, one change of the level |
| Libraries | `LoaderReferences` `LoadedAsReported` `ImportKeepsLoaded` `SymbolsAreListed` `LookupMeant` | 2 objects at a time out of 2 shared and 2 smart libraries, 2 imported functions, 5 files of 3 platforms, one replacement |

What they show, and why the bounds are enough:

- *ServerSafety.* The hazards of the identity frame need two connections whose
  requests overtake each other in two workers, and two chunks of one connection
  in different workers. With pipes of one message every send can block, and with
  two workers and two clients every one of them does. Responses never change
  clients; a connection has at most one and is closed with it; a request is in
  exactly one place of the pipeline while its connection is open, unless a worker
  was misled by `more`.
- *ServerBackpressure.* A gridlock takes `2 * |Workers| * (Low + 1)` messages in
  the pipes and one in each worker's hand, and one more in the main thread's: 11
  here, which is what the client writes. It is never reached, because every round
  that forwards a request takes a reply too when one was waiting. The same holds
  for all sizes, by the proof below.
- *ServerPatient.* As long as clients send one chunk and wait, everyone is
  answered, in whatever order START, subscriptions and connections happen, and
  the main thread survives. Three clients are more than the workers, so that one
  has to wait for another's response.
- *Responses.* A request that arrives when every version has its handler is
  answered with a dated response exactly if it is HTTP/1.1, although nothing is
  locked and other threads may be inserting a handler twice; what goes wrong
  before that is CacheRace. A date may mix fields of several calls (DatesTorn),
  but never of calls that were not near: overlapping, or overlapping one that
  overlaps. One request of a thread asks the cache twice and dates twice, so a
  thread overlaps itself on either side of every other step; two fields are the
  least that can be mixed.
- *Program.* After failing calls (taken name and port, taken port, path that does
  not exist) as after others the set and the ports are in step, and the reference
  to the library that the constructed website held has been given back. A request is served by the
  website whose name and port it writes, with 80 standing for no port and for
  numbers that are not 16-bit; 73616 would be 8080 if cut. When a server is given
  up, threads that still run find the websites, the libraries and the context;
  nothing is destroyed before the join.
- *Requests.* A request line is accepted exactly if it is a method, a URI and a
  version between single spaces, and is then read as these by both readers. (The
  URI may be empty.) Five symbols allow an additional space or carriage return
  at any place of the shortest line. Whatever the line ends, the three maps hold the
  section's fields but the dropped one, once each, and the first of its values
  where "Name: " stands before it; the body is what follows the empty line of an LF
  request, and of a CRLF request it is lost. Four lines allow a repeated field
  with another field, a body, and text in the body that looks like a field. What
  is read so is one finite path through the service, and all of them are
  enumerated. Code of a site runs only for requests naming it, 200 is never left
  over from a refused request, and there are four ways to end the process: a
  field with nothing behind its colon, a path the file system cannot tell about, a
  URI without a leading '/' in a library of routes, and a status without a phrase.
  That list is of this code's own throws and those of what it calls here: memory or
  stack that is used up is outside of it, and so is what a site's code does besides
  returning or throwing.
- *RouterRoutes.* Two segments are enough for a static and a variable edge at one
  node with different continuations; three routes for a conflict among them.
  `add_route` is atomic in effect although it throws in mid-walk. For paths
  without empty segments, dispatch is the route that matches with explicit
  segments preferred at each position (there is no backtracking in the code, and
  the property says so: a preferred prefix hides other routes).
- *FilesEdited.* The hazard is an edit between the two passes over the stream,
  between two blocks of one pass, or between lookup, open and dating. Two edits
  allow a removal followed by a new file, which is one of the cases in which a file
  that could not be opened is answered with 200; the descriptors that are used up
  are another. The third, a file the server may not read, is left to the proof: with
  unreadable contents the instance is beyond TLC. Two blocks are the least a rewrite
  can come between, and two descriptors are one for each thread or fewer. Files that
  are replaced by rename are always sent as one version with that version's length;
  of a file that is rewritten, each block is one that was there.
- *LogFiles.* The whole records in the files are the end of what was logged, in
  order and without gaps but for what stdio had taken and lost, in a kill or a call
  whose failure nobody sees, whichever call of a rotation failed and in whichever
  life. Two bytes and one backup rotate on the second message, and a record of
  two bytes may be cut in the middle. A record counts as in the file when stdio has
  passed it to the system; what the system loses in a power failure, or reports
  at `close(2)` only, is outside of the model.
- *AsyncLogging.* A destructor that joins a worker has delivered everything to the
  sink; calls return while the worker lives. Two cells make the queue full and its
  positions wrap. It is a run of its own because liveness takes the time; the faults
  it has are the ones that end the worker, in a rotation and in a write.
- *Formatting.* Every call writes what its format string means, as one line per
  enabled call and sink, though another thread changes the level between the check
  and the end of the line; an error leaves what was written before it. Calls are
  families that are each rich in one respect (flags, widths, indexes, errors, the
  composite flags of patterns); with integers of 6 bits the limits of all widths
  and conversions are reached by two digits.
- *Libraries.* No sequence of failing loads, copies, moves, swaps and imports
  leaks or doubles a reference. Only `Live` objects exist at a time (a third adds
  no new relation between two), and shared and smart libraries of one kind are
  interchangeable, as are imported functions. Read from
  the symbols' own tables, a list has every export but protected and sizeless ones,
  and nothing else but local names of Mach-O files; a file whose tables are another's
  lists other names, which is one of the divergences. A name is found as what it
  means or not at all.

## Divergences

Where the code does not do what a comment, a document or a test of it says, the
property that says so is kept, and TLC finds it violated. These have a
configuration of their own (`tlc -config <name>.cfg <module>.tla`):

| Configuration | Module | Property | What happens |
|---|---|---|---|
| ServerHangUp | MCHttpServer | `Answered` | a client that hangs up before its response is sent: the send to the unknown identity throws through `run` and `main`, and all other clients lose the server |
| ServerSplit | MCHttpServer | `Answered` | a request that arrives in two reads is two requests; the second response finds the connection closed and ends the process |
| CacheRace | HandlerCache | `NullMeansUnknown` | two threads insert the same version; the second is told `nullptr`, which `http_protocol_handler.h:35` keeps for invalid versions |
| DatesTorn | MCResponses | `DatesAreWhole` | two threads in `http_date` mix the fields of their dates |
| AsyncStuck | MCLogging | `CallsReturnAlways` | a worker that failed leaves callers trying for ever to put into a full queue |

These need the change named in a run's configuration (or nothing but the
property):

| From | Change | Property that fails | What happens |
|---|---|---|---|
| ServerPatient | `MoreHigh = {1}` | `Answered` | stray bytes in `more` (`http_worker.cpp:107`) make the frame loop swallow requests |
| Program | | `FreshCombinationAccepted` | a second host name on a port in use is refused, though `http_server.cpp:60` asks only for a fresh *port and name combination* |
| Requests | `ParsingSpec`, `MaxLines = 1` | `AlwaysReports` | a field with nothing behind its colon throws in the `noexcept` parser |
| Requests | | `ValuesAreWhole` | a value without a space before it loses its first character |
| Requests | | `BodyFollowsBlank` | the blank line of a CRLF request is `"\r"` and does not end the header loop; the body is dropped |
| Requests | | `BodyIsNoHeader` | for the same reason, lines of that body become header fields |
| RouterRoutes | | `NoForwarding` | `/a/` and `/a//b` reach the route `/a`, against `router.h:42` |
| RouterRoutes | | `NoVariableBoundTwice` | `/:x/:x` is accepted and fails `get_dispatch`'s assertion |
| RouterRoutes | `Statics = {"a", ""}` | `AddedIsFound` | `/` and `/a/` are accepted and cannot be reached |
| FilesEdited | | `LengthIsReliable` | a file written in place between the two passes has another length than announced |
| FilesEdited | | `ServedWhole` | a file written in place while it is copied is sent as blocks of two versions |
| FilesEdited | | `PresentFileIsServed` | with the descriptors used up, which no request gives back, a file that is there is answered with 200 and an empty body |
| FilesEdited | | `HeadMatchesGet` | two threads in libmagic exchange their content types |
| FilesEdited | `Contents <- SomeUnreadable` | `PresentFileIsServed` | a file the server may not read is answered with 200 and an empty body |
| Requests | | `SuccessByDefault` | a route function that assigns no status gets an indeterminate one instead of 200 |
| Requests | | `GetWithoutHost` | a GET without a Host header, which the test `libhttp-cpp/test/http/method.cpp:22-27` executes and expects 200 of, is refused by `execute` |
| HttpService | `FairSpec`, the constants of Requests | `WorkerReplies` | each of the four terminations, among them any absolute URI for a library's site |
| Program | | `ServerHasLogger` | the server looks up a logger `"server"` that nobody has made, and uses the null pointer |
| Program | `ProgramFairSpec` | `DestructorReturns` | `stop` clears a flag no worker reads and joins a thread that polls for ever |
| Formatting | `Calls <- WrapCalls` | `FormatsAsSpecified` | a number in a specification that wraps past 2^32 is accepted as a small one |
| AsyncLogging | | `DestructorSurvives` | the exception that `push_msg` passes on meets `~line_logger`, which does not throw |
| Formatting | `Calls <- LookaheadCalls` | `FormatsAsSpecified` | the `=` behind `{:}` is taken for the field's alignment, which a char refuses |
| Formatting | `Calls <- DoubleCalls` | `FormatsAsSpecified` | a double that is aligned left is padded with blanks, whatever the fill |
| Libraries | | `SymbolsAreExports` | an ELF file whose last string table is not the symbols' one, as GNU ld writes it, lists other names; protected and sizeless symbols are missing from any; Mach-O files list local names, and a PE file with exports by number the wrong ones for a section |
| Libraries | | `EmptyMeansNeither` | `constructor::is_empty` is true when only one of the two forms is missing |

Met while modelling, without a property of their own:

- The date is local time labelled GMT; `%2d` pads the day with a space where
  RFC 1123 has two digits; the terminating zero of its 29 characters lies behind
  the buffer. A service that sets `Date` gets the header twice.
- fmt: a string argument given as `const char*` takes a precision where other types
  refuse one; nan and inf are left-aligned by default; `%Ld` with a char writes
  twice; a message whose writing throws is still logged in part.
- Patterns: midnight is hour 00 of the 12-hour clock (`pattern_formatter_impl.h:203`
  says 1 to 12), a negative zone offset prints its minutes with a sign, `%c` does
  not pad the day.
- boost.dll: local symbols of Mach-O files are listed, exports without names make
  the PE reader leave its tables, the size of a pointer decides what it reads of a
  PE file on LP64, Itanium lookups ignore the type of a variable and the result of
  a function, a smart library with decorations or system folders reads another
  file than it loads or none, a failed load drops the previous library,
  `import` of a moved library loses it when the symbol is missing, and a stripped
  ELF file lists nothing.

## Fairness

`ServerPatient`, `AsyncLogging` (`CallsReturn`) and the configurations about
`Answered`, `AlwaysReports`, `WorkerReplies`, `DestructorReturns` and
`CallsReturnAlways` depend on fairness. `FairSpec` of HttpServer asks weak fairness
of the main thread as a whole and of each worker as a whole: the operating system
schedules every thread that can run. Nothing is asked of clients, nor that a
particular disjunct is taken: which client's message `recv` hands out, which
worker's pipe takes a request and whose response is read next are left open. That
is enough for `Answered` because the chunks are finitely many. zmq's own
round-robin and fair queueing would be needed for a bound on the waiting time,
which is not claimed. In the liveness configurations a pipe refuses messages at
`HWM` only (`Low` is `HWM - 1`), that is, I/O threads are taken to pass on the
notice that a pipe has drained.

`FairLoggingSpec` asks weak fairness of each thread and of the worker; a caller that
yields and tries again is served because other callers' calls are bounded, not
because the queue is fair. `ProgramFairSpec` asks it of the workers and of the
destructors. RequestParser (`ParsingSpec` of
MCRequests) and HttpService ask weak fairness of their single thread.

## Proofs

Eight modules hold the proofs; each extends the components it is about. Where a
theorem states a property of a run, the run shows it on the small instance of the
table above and the theorem for every value of the constants.

| Module | Theorem | States |
|---|---|---|
| HttpServerProofs | `Invariance` | `Spec => []IInv` |
| | `TypeCorrect` | `Spec => []TypeOK` |
| | `ResponsesReachTheirClient` | `Spec => []RightClient` |
| | `AtMostOneResponse` | `Spec => []OneReplyPerConnection` |
| | `SendersNeverGridlocked` | `Spec => []NoGridlock` |
| | `Refinement` | `Spec => ImplementsRequestResponse` |
| | `RequestsAreNotLost` | `Spec => []NoLostRequest` |
| | `PatientClientsAreServed` | `ASSUME Patient PROVE Spec => []ServerSurvives` |
| ResponsesProofs | `DatesStayNear` | `DateSpec => []FieldsOfNearCalls` |
| | `RequestsUseDates` | `Spec => DateSpec` |
| | `ResponsesDatesStayNear` | `Spec => []FieldsOfNearCalls` |
| | `HandlerInvariance` | `Spec => []HandlerInv` |
| | `WarmCacheNeedsNoLock` | `Spec => []WarmRequestsAnswered` |
| ProgramProofs | `ProgramInvariance` | `ProgramSpec => []PInv` |
| | `PortsFollowWebsites` | `ProgramSpec => []PortsMatchWebsites` |
| | `RequestsFindTheirWebsite` | `ProgramSpec => []ServedByNamedWebsite` |
| | `ReferencesAreWebsites` | `ProgramSpec => []LibraryReferences` |
| | `ThreadsFindWhatTheyUse` | `ProgramSpec => []UsedIsThere` |
| HttpServiceProofs | `ServiceInvariance` | `Spec => []IInv` |
| | `ResourcesRunForTheirHost` | `Spec => []ResourceRunsForItsHost` |
| | `SuccessIsEarned` | `Spec => []SuccessMeansExecuted` |
| | `OnlyKnownTerminations` | `Spec => []KnownTerminations` |
| | `RequestLinesAreRead` | `ParserSpec => []RequestLineIsRead` |
| | `HeadersAreRead` | `ParserSpec => []HeadersAreTheSection` |
| | `BodiesAreRead` | `ParserSpec => []BodyDelivered` |
| FilesystemResourceProofs | `FilesInvariance` | `Spec => []IInv` |
| | `LengthIsOfTheBody` | `Spec => []LengthMatchesBody` |
| | `BodyWasThere` | `Spec => []ServedVersionExisted` |
| | `MissingFileIsAnError` | `Spec => []LoadedOrError` |
| RouterProofs | `RouterTree` | `Spec => []TreeIsTheRoutes` |
| | `RouterDispatch` | `Spec => []DispatchIsPreferredMatch` |
| LoggingProofs | `QueueInvariance` | `QueueSpec => []QueueInv` |
| | `QueueIsABoundedQueue` | `QueueSpec => ImplementsBoundedQueue` |
| | `LoggingInvariance` | `LoggingSpec => [](QueueInv /\ LogInv)` |
| | `LoggersQueueIsFifo` | `LoggingSpec => QueueIsFifo` |
| | `ShutdownDeliversAll` | `LoggingSpec => []ShutdownDelivers` |
| | `FilesInvariance` | `LoggingSpec => [](MsgInv /\ FileInv)` |
| | `FilesAreBounded` | `LoggingSpec => []FileBound` |
| | `FilesKeepTheLog` | `LoggingSpec => []FilesAreTheLog` |
| | `FormatStaysInside` | `Spec => []StaysInside` |
| | `OneLineForACall` | `Spec => []OneLinePerCall` |
| SmartLibraryProofs | `LibraryInvariance` | `Spec => []LibraryInv` |
| | `ReferencesAreHeld` | `Spec => []LoaderReferences` |
| | `ReportsAreTrue` | `Spec => []LoadedAsReported` |
| | `FunctionsKeepTheirLibrary` | `Spec => []ImportKeepsLoaded` |

### Assumptions

Each is an `ASSUME` of the module it is about, which TLC evaluates in every run of
that module, or a named hypothesis of the theorem.

- `ServerAssumption`: finite sets of connections and workers, a pipe of at least one
  message. `RoomAssumption`, which `SendersNeverGridlocked` alone uses, holds for
  the program: four workers and zmq's default high-water marks of 1000 on either
  end (`HWM = 2000`, `Low = 1000`): 8008 > 8001. It speaks of sizes and not of
  behaviour; with `poll_else_if`, the loop in which replies are only looked at when
  no request is waiting, the property fails.
- `Patient`, of `PatientClientsAreServed`: no client hangs up before its answer,
  requests come in one read, and statuses have a phrase. Each is needed:
  ServerHangUp and ServerSplit are the counterexamples without the first two,
  and a status without a phrase ends the process (`KnownTerminations`). Nothing
  is assumed of the stray bytes in `more`: they make a worker swallow a request,
  which goes unanswered, but take nobody down.
- `DateAssumption`: a date has a field and there is a time.
- `WebsitesAssumption`, `ProgramAssumption`: ports in a configuration have 16 bits
  (those in requests are any numbers), the workers are finitely many.
- `ServiceAssumption`: a host is served from one kind of place, and no site has the
  name the model uses for "none".
- `FilesAssumption`: files have a length and a type and may be unreadable, edits are
  of the three kinds, descriptors are finitely many.
- `QueueAssumption`: two cells or more, no thread both enqueues and dequeues. Sizes
  that are not powers of two, which the constructor refuses, are covered too.
- `LoggingAssumption`, `MessageAssumption`: who enqueues and who dequeues; a
  message is told from "no message", and its size is a number. `FormatAssumption`,
  `LoggersAssumption`: the terminating zero is no letter, and a format string is a
  sequence of characters.
- `ParserAssumption`, `RouterAssumption`: what the constants of these modules are.
  `HeadersAreRead`, `BodiesAreRead` and `RequestLinesAreRead` hold for lines that end
  in LF, in CRLF or in either by turns, and the symbols of a request line come in
  any order. What the body of a CRLF request should be is the divergence
  `BodyFollowsBlank`.
- `LibraryAssumption`, `SmartAssumption`: finitely many objects and functions, which
  are told from "none"; the three platforms. `DiskAssumption`: the program's file is
  where it was started from and is not replaced while it runs. That is about who
  installs software and not about the code, which finds the program by that path
  (`program_location`); any other file may be replaced at any time.

### The server

*The inductive invariant.* None of the state properties is inductive: that
a response is for its client depends on every message in transit. `IInv` is the
conjunction of `NetInv`, `GotInv`, `MainInv` and `WorkInv`, which strengthen the
types: every queue and hand holds only `Genuine` messages (identity and data
belong together); a client that has not been closed has no response yet; a
worker's hand is full exactly in `handle`, `reply` and `swallow`, and its queue is
not empty when it goes to read it; the main thread holds a message when it is
about to send. There is one lemma per group of actions (`ClientsIInv`,
`MainThreadIInv`, `WorkerIInv`), with a step for each action and the conjuncts it
disturbs.

*No gridlock.* `Load` counts the messages between the main thread's sockets, as
the cardinalities of the sets of occupied slots and of busy workers. `LoadBound`
says that it exceeds `Full`, what the pipes to the workers and their hands hold,
by at most one message at the poll and two in the middle of a round. The
argument: a round that takes no reply saw none waiting at the poll, and then
everything is in the pipes to the workers and their hands, so `Load <= Full`; a
round that saw one takes it, so it adds nothing. Worker steps move messages along
and never add one. A gridlock needs more than `Low` messages in both directions
of each worker's pipe and a full hand in each, which by `RoomAssumption` is more
than `LoadBound` allows.

*The refinement.* `IInv` does not say that a message in transit was ever written by
its client, which the abstract answer needs. `WrittenInv` adds it: the numbers in
every queue and hand are at most `sent`. Then each step maps to a step or a
stutter: only `client_*` and the second half of `forward_as_stream` are visible.

*No request is lost.* A request may be in its socket, in the main thread's hand and
in three places of each worker, and uniqueness speaks of every pair of these.
`Queues` therefore sees all places as one function from keys to queues, a hand
being a queue of at most one message, and every step of the server as one of
three things: a message moves from the head of one queue behind another, one is
dropped, or a new one is added. What that does to a message's being there
(`Present`) and being there once (`Unique`) is proved of any function of queues,
without a word about the server (`MovesAreUnique` and its neighbours); each action
then only has to show which of the three it is. A message that is added is new
because of `WrittenInv`. `LostInv` adds to `IInv` and `WrittenInv` what the property
leaves out: nothing is in transit for a connection that does not exist yet, and the
messages of closed connections are unique as well, since they are still under way.

*Patient clients.* The process goes down only when a response meets a connection
that is not open, or a status that has no phrase. `AliveInv` says that whatever
is under way has an open connection. That is inductive only together with
`UniqueInv`: the response that closes a connection was the last message of that
client's, because a second copy of its only request would have to be somewhere.

### The threads' shared state

*Near dates.* A thread that has converted, printed or copied a field knows a bound
on where it comes from, because whoever has overwritten it since was under way
with it: `Fresh` says so for each of the three places, with `direct` for the
`std::tm` and `near` for the buffer and the answer; `Overlapping` says that threads
under way know of each other, and `IdleAtFirst` that a call begins with the first
field. The step of each function disturbs one of the places and is one lemma.

*The warm cache.* `WarmInv` speaks of each thread whose request found the cache
warm: it is still warm, and every place between the two calls of the cache says
the right thing. No step removes an entry. Threads whose request came earlier
may still be inserting, and doubling a handler, but that changes no answer about
a version that has one; and what CacheRace shows to go wrong needs a thread that
found its version missing.

*Files.* The file is read block by block, once to count and once to send, and an
edit may fall between any two blocks. `LengthInv` relates the header of a thread,
the blocks counted and the blocks read so far to the open stream and not to the
name, which may stand for another file by then; it holds unless somebody wrote to
the stream in place. `SeenInv` puts the file that has the name, the one that is
open and the version of every block that was read among the versions seen. Both
need `PlaceInv`'s last conjunct, that the inode of a stream never gets a second
name, for edits write through names. `FoundInv`, for `LoadedOrError`, says why a
file that was found could not be opened: it is unreadable, no descriptor was free,
or it was removed in between, and may be back.

### One request, and the process

*The service.* `StatusInv` says what each of the two statuses may rest on at
each place between parsing and sending, and `SiteInv` that whatever is past
`find_website`, or has run, is a well-formed request on the site it names. An
exception can leave any of these places; it is one lemma, `RaiseIInv`. `KnownTerminations`
is itself a conjunct: each of the four ways in which the process goes down is
known by its request, its site and its status.

*The parser.* What the loop over the lines has stored is stated by the place it
has reached (`ParserInv`): the entries of the first field of each name up to
there, with the value that `substr(colon + 2)` leaves of each, no empty line among
those, and none with nothing behind its colon. The request line is harder, because the
code reads it twice: `split` yields the words between all spaces, empty ones
too, by a function that is recursive over the line. What it yields for every
prefix of the line is characterised first (`WordsShape`, by induction over the
length, stated as a set of numbers that holds 0 and every successor), then which
lines have three words, the first of them the method. For these the first two
single spaces, which `extract_http_version` looks for, are the ones between the
words (`AcceptedLine`), and a line of the promised form splits into its three
parts (`FittingLine`).

*The router.* `TreeInv` says what the tree is in the middle of a walk of
`add_route`: that of the routes and of the prefixes of the segments walked. That
a walk which throws has left nothing behind is then a fact about where it may
throw: only at a node with a variable of another name, or at the end with a
function there, so that a route passes through, and everything the walk would
have created was that route's. `WalkInv` says of a walk of `get_dispatch` that
its node is the prefix of exactly the routes that match the segments so far,
own segments preferred, and that it has bound their variables.

*The program.* `RefsInv` says that a library's references are the websites that
use it and the one under construction, as a sum over the set of websites:
`emplace` constructs before it looks whether the website is there, so that for
the time between the count is off by one. `SitesInv` adds to
`PortsMatchWebsites` that the registry does not change any more when requests
are looked up in it. `LifeInv` orders the end: members are destroyed in the
reverse order of their declaration, a worker is `none` or `ended` when the
workers are destroyed, and the open sockets are those of members that are left
and of workers that run.

### The queue, and logging

*The queue.* `QueueInv` is the usual reading of the sequence numbers: the cell
of position `p` waits for a producer when its number is `p`, is written when it
is `p + 1`, and is still being read in the round before when it is `p + 1 -
Size`. No two threads write, or read, at the same position, and `enqueue_pos`
and `dequeue_pos` are never more than a round apart. A stale claim is harmless:
a thread whose position is still the queue's knows the number of its cell, and
any other fails its compare-exchange. The abstract queue holds the positions
between the two, from the cell or, if that is not written yet, from its
producer's hand; the visible steps are the two compare-exchanges that claim a
position, and the return of `dequeue`.

*Logging.* LoggingProofs instantiates that invariant for the queue that loggers,
worker, kills and restarts use, and adds what shutting down depends on: a
message that was accepted, or that its caller has claimed a place for, is
`Settled`, that is, in front of the destructor's terminate message, with the
worker, or passed on to the sink (or the worker has failed). `ClosingInv` and
`LastInv` say that nobody else is in a call when the destructor puts its
message, and that nothing is put behind it.

*The files.* That the files are the end of the log needs a message to be passed
on once. Messages are numbered by their threads; `MsgInv` says that one which
waits in the queue, is in the worker's hand, is the sink's or is written is
older than its thread's next, and is only one of these. On this rests `FileInv`:
a record in a file is written and not lost (`KeptInv`); what stands further down
the files, or further on in one, was written later (`OrderInv`); and what was
written later than a kept record is kept as well, or lost (`TailInv`). A rotation
keeps the three only because it works from the oldest file to the newest and
removes each target before the renaming, so that a failure in between leaves a
gap among the files' names and none among the records; `DiskInv` says which name
is free. A flush, a close or a write that fails loses the end of what was buffered,
and may leave a part of one record behind (`Salvage`, `Parts`): the three invariants
speak of whole records, what is gone is in `lost`, and `Salvaged` says that what
stays is a prefix, so that the order is kept. `SizeInv` is what `FileBound` needs: the stream's `size` counts at least
what file 0 holds and will hold, also after a rotation that failed, where the
closed stream keeps a size above the limit until a rotation succeeds. The sum of
the sizes is recursive over the file's records; what it yields for a record more
is proved by induction over their number (`Totals`).

*Log calls.* Every step of the parser of a replacement field keeps its place
`Inside` the string (one lemma for each part of the grammar): a place moves on
only from a character that is not the zero, and a search ends at the zero at the
latest. `LinesInv` says what a line_logger has done at each phase of a call.

### Libraries

*References.* `LoaderReferences` is a sum over objects and keepers, and every
operation moves one handle, two, or a keeper. `Balance` states the sum for any
loader and any handles, so that it can be said of the moments inside of an
operation too; `Exchange` says that one reference is given back and one is taken.
`Outcome`, proved of `load` and `assign` once (`Loading`, `Assigning`), is all
that the steps need to know of them. A moved library belongs to nobody for a
moment (`ImportMovedKeeps`): the loader then counts one more than is held.

*Copies.* That a copy holds its original's library needs to know which names
libraries are mapped under, since `assign` asks for the name again and the loader
searches by name before it looks at the disk. `Named` says that these names are
absolute, so that neither the platform's search order nor the load mode changes
them (`AbsoluteStays`), and that no two mapped files have the same one. A
name is free when a file is mapped under it (`Opening`): otherwise the loader
would have found the other file. The program is the exception, which Linux and
macOS open by no name at all: `DiskAssumption` keeps its path from being taken.

*Functions.* `KeeperInv` says that a keeper holds a library exactly as long as one
of its functions is there, and that they name that library. With the references
it gives `ImportKeepsLoaded`.

### Only model-checked

- `FormatsAsSpecified` and `LinesExpand` of Loggers, and `SymbolsAreListed` and
  `LookupMeant` of SmartLibrary: they compare two computations, folds over texts,
  trees and tables, for every input. Where what a recursive function computes could
  be said of each prefix of a sequence, as in the parser and the log files, the
  induction over the prefix is proved above; here it would have to be said of
  formatted texts, tables of strings and demangled names.
- Liveness (`Answered`, `CallsReturn`) and `ENABLED`, which are outside of what
  the prover handles.

## Not modelled

- The copying of headers in `make_response`, and of the responses all text but what
  decides a property; `list_implemented_methods`, which nothing calls.
- The lines behind `run`'s loop and QUIT: the loop has no exit. `parse_response`,
  which only throws. Hashes and stream output of hosts and websites.
- Subdirectories of listings and the value of Last-Modified (that reading the date
  can fail, and what its text may mix, is modelled).
- Memory and stack that are used up, and what the code of a service that does not
  use librest may do to the process that loads it. What the disk does to records
  after `fclose` and `fflush` have reported success.
- The example services: their `setup` is a sequence of `add_route`, of which Router
  takes every one, and their functions are the outcomes of HttpService.
- spdlog: printf-style formatting, wide strings, the output of fmt to files and
  consoles, the daily, syslog and ostream sinks, `set_formatter` of a running
  worker, which is unlocked, as is a sink's `flush`. Positions of the queue do not
  wrap in the model (2^64 operations).
- boost.dll: the Windows implementation of the loader's calls and finding the
  path of a library from an address in it. The demanglers are external: the
  model says what they make of the names compilers produce.
- cppzmq's messages and error codes, apart from the sockets' lifetimes; zmq,
  libmagic and the C library appear as the external steps the code depends on.

## Plan

All modules of the plan are written. The proofs cover 33 of the runs' 39
properties; two of the other six are liveness. What is left is to divide the four comparisons
of texts into facts about single steps:

1. `LinesExpand`: that each composite flag's formatter appends what the flags of
   its comment append one after the other, then an induction over the pattern.
2. `FormatsAsSpecified`: the writers of integers against `Padded`, by kind of
   alignment, then fields, then the string.
3. `SymbolsAreListed`: for each reader, an induction over its table of symbols.
