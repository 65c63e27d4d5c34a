------------------------------ MODULE Program -------------------------------
(***************************************************************************)
(* The process around the server: the loggers created before and in        *)
(* main(), the http_server object with its zmq context and sockets, the    *)
(* calls of connect with the service libraries they load, run() with its   *)
(* worker threads, and the destruction of the server when a caller catches *)
(* what connect or run throws.                                             *)
(*                                                                         *)
(* Websites gives what connect and find_website do to the registry; here   *)
(* the construction of a website, its insertion and the destruction of one *)
(* that was refused are steps of their own, because each of them moves a   *)
(* reference to a library.  `websites' keeps its value when the member is  *)
(* destroyed: `destroyed' tells that it must not be used any more.         *)
(***************************************************************************)
EXTENDS Websites, Sequences

CONSTANTS
  Workers,        \* the worker threads
  StaticLoggers,  \* names of the loggers made by initialisers of statics
  MainLogger,     \* the name of the one main() makes
  LookedUp,       \* names http_server may look up: "server" in the code
  Callers         \* whether what connect and run throw is caught: FALSE in
                  \* main(), TRUE in a program that destroys the server then

ASSUME ProgramAssumption ==
  /\ IsFiniteSet(Workers)
  /\ Callers \subseteq BOOLEAN

VARIABLES
  phase,      \* where the main thread is
  registry,   \* names in spdlog's registry of loggers
  logger,     \* http_server::logger_ is not null
  built,      \* the website that emplace has constructed and not yet placed
  refs,       \* refs[l]: references dlopen has handed out for library l
  sockets,    \* the open zmq sockets: the owner and the kind
  thread,     \* thread[w]: "none", "starting", "polling", "serving", "ended"
  running,    \* running[w]: class_thread::running
  pending,    \* pending[w]: a request waits in w's pipe
  serving,    \* serving[w]: the website w executes a request on, if any
  destroyed   \* members of the server whose destructors have run

server  == <<websites, bound, outcome, request, found>>
threads == <<thread, running, pending, serving>>
pvars   == <<server, phase, registry, logger, built, refs, sockets, threads,
             destroyed>>

\* The members of http_server, in the order of their declaration.
Members == <<"context", "stream", "pub", "dealer", "websites", "workers", "logger">>

MainSockets == {"main"} \X {"stream", "pub", "dealer"}
WorkerSockets(w) == {w} \X {"sub", "dealer"}

ProgramTypeOK ==
  /\ TypeOK
  /\ phase \in {"statics", "main", "setup", "launch", "loop", "unwind", "gone"}
  /\ registry \subseteq StaticLoggers \cup {MainLogger}
  /\ logger \in BOOLEAN
  /\ built \in Seq(Site) /\ Len(built) <= 1
  /\ refs \in [Libraries -> 0..(MaxSites + 1)]
  /\ sockets \subseteq MainSockets \cup UNION {WorkerSockets(w) : w \in Workers}
  /\ thread \in [Workers -> {"none", "starting", "polling", "serving", "ended"}]
  /\ running \in [Workers -> BOOLEAN]
  /\ pending \in [Workers -> BOOLEAN]
  /\ serving \in [Workers -> SUBSET Site]
  /\ \A w \in Workers : Cardinality(serving[w]) <= 1
  /\ destroyed \subseteq {Members[i] : i \in DOMAIN Members}

ProgramInit ==
  /\ Init
  /\ phase = "statics"
  /\ registry = {}
  /\ logger = FALSE
  /\ built = <<>>
  /\ refs = [l \in Libraries |-> 0]
  /\ sockets = {}
  /\ thread  = [w \in Workers |-> "none"]
  /\ running = [w \in Workers |-> FALSE]
  /\ pending = [w \in Workers |-> FALSE]
  /\ serving = [w \in Workers |-> {}]
  /\ destroyed = {}

-----------------------------------------------------------------------------
(* Loggers: registry_t::create throws for a name that is taken, which ends *)
(* the process during the initialisation of statics as well as in main().  *)

create(name) ==
  IF name \in registry
    THEN outcome' = "terminated" /\ registry' = registry
    ELSE outcome' = outcome /\ registry' = registry \cup {name}

static_logger(name) ==
  /\ Alive
  /\ phase = "statics"
  /\ name \notin registry
  /\ create(name)
  /\ UNCHANGED <<websites, bound, request, found, phase, logger, built, refs,
                 sockets, threads, destroyed>>

main ==
  /\ Alive
  /\ phase = "statics"
  /\ StaticLoggers \subseteq registry
  /\ create(MainLogger)
  /\ phase' = "main"
  /\ UNCHANGED <<websites, bound, request, found, logger, built, refs, sockets,
                 threads, destroyed>>

\* The context, three sockets, two of them bound to inproc endpoints, and
\* spdlog::get, which answers null for a name that is not registered.
http_server ==
  /\ Alive
  /\ phase = "main"
  /\ sockets' = MainSockets
  /\ \E name \in LookedUp : logger' = (name \in registry)
  /\ phase' = "setup"
  /\ UNCHANGED <<server, registry, built, refs, threads, destroyed>>

-----------------------------------------------------------------------------
(* connect, with the life of a library website.                            *)

\* dlopen counts, and dlclose unmaps the library with the last reference.
load(l)   == [refs EXCEPT ![l] = @ + 1]
unload(l) == [refs EXCEPT ![l] = @ - 1]

\* http_external_resource_factory: loads the library, keeps the reference in
\* service_creator_, makes the service and sets it up.
construct_factory(s) == refs' = IF s.path \in Libraries THEN load(s.path) ELSE refs

\* Mutant: the reference is not given back.
destroy_factory_leak(s) == refs' = refs

\* Its destructor releases service_creator_, and the library with it.
destroy_factory(s) == refs' = IF s.path \in Libraries THEN unload(s.path) ELSE refs

\* The first line of connect logs: without a logger it is the last.
no_logger ==
  /\ Alive
  /\ phase = "setup" /\ built = <<>> /\ ~ logger
  /\ outcome' = "terminated"
  /\ UNCHANGED <<websites, bound, request, found, phase, registry, logger, built,
                 refs, sockets, threads, destroyed>>

\* A path that cannot be made a website: connect as a whole.
refuse(c) ==
  /\ phase = "setup" /\ built = <<>> /\ logger
  /\ ~ Constructible(c.path)
  /\ connect(c)
  /\ UNCHANGED <<phase, registry, logger, built, refs, sockets, threads, destroyed>>

\* websites_.emplace constructs the website in a node ...
construct(c) ==
  /\ Alive
  /\ phase = "setup" /\ built = <<>> /\ logger
  /\ Cardinality(websites) < MaxSites
  /\ Constructible(c.path)
  /\ built' = <<SiteOf(c)>>
  /\ construct_factory(SiteOf(c))
  /\ UNCHANGED <<server, phase, registry, logger, sockets, threads, destroyed>>

\* ... and places it, or destroys it again: at once when the host is taken,
\* by erase() when the port cannot be bound.
place ==
  /\ Alive
  /\ phase = "setup" /\ built # <<>>
  /\ emplace_and_bind(built[1])
  /\ IF outcome' = "ok" THEN refs' = refs ELSE destroy_factory(built[1])
  /\ built' = <<>>
  /\ UNCHANGED <<request, found, phase, registry, logger, sockets, threads, destroyed>>

\* A call of connect that threw leaves main().
uncaught ==
  /\ Alive
  /\ phase = "setup" /\ FALSE \in Callers
  /\ outcome \in {"invalid_argument", "zmq_error"}
  /\ outcome' = "terminated"
  /\ UNCHANGED <<websites, bound, request, found, phase, registry, logger, built,
                 refs, sockets, threads, destroyed>>

-----------------------------------------------------------------------------
(* run() and the worker threads.                                           *)

run ==
  /\ Alive
  /\ phase = "setup" /\ built = <<>> /\ logger
  /\ websites # {}
  /\ phase' = "launch"
  /\ UNCHANGED <<server, registry, logger, built, refs, sockets, threads, destroyed>>

\* workers_.emplace_front(...) and start().
start(w) ==
  /\ Alive
  /\ phase = "launch" /\ thread[w] = "none"
  /\ thread'  = [thread EXCEPT ![w] = "starting"]
  /\ running' = [running EXCEPT ![w] = TRUE]
  /\ phase' = IF \A v \in Workers \ {w} : thread[v] # "none" THEN "loop" ELSE phase
  /\ UNCHANGED <<server, registry, logger, built, refs, sockets, pending, serving,
                 destroyed>>

\* The test of the loop in http_worker::run; a thread that ends closes its
\* sockets, which live on its stack.
Continue(w) ==
  IF running[w]
    THEN thread' = [thread EXCEPT ![w] = "polling"] /\ sockets' = sockets
    ELSE /\ thread' = [thread EXCEPT ![w] = "ended"]
         /\ sockets' = sockets \ WorkerSockets(w)

\* Two sockets, connected to the inproc endpoints.
open_sockets(w) ==
  /\ Alive
  /\ thread[w] = "starting"
  /\ IF running[w]
       THEN /\ thread' = [thread EXCEPT ![w] = "polling"]
            /\ sockets' = sockets \cup WorkerSockets(w)
       ELSE \* the loop is not entered, the sockets are closed again
            thread' = [thread EXCEPT ![w] = "ended"] /\ sockets' = sockets
  /\ UNCHANGED <<server, phase, registry, logger, built, refs, running, pending,
                 serving, destroyed>>

\* The main thread's loop forwards a request.
forward(w) ==
  /\ Alive
  /\ phase = "loop" /\ thread[w] \in {"polling", "serving"}
  /\ ~ pending[w]
  /\ pending' = [pending EXCEPT ![w] = TRUE]
  /\ UNCHANGED <<server, phase, registry, logger, built, refs, sockets, thread,
                 running, serving, destroyed>>

\* A worker wakes up in poll and looks the website up.
handle_request(w) ==
  /\ thread[w] = "polling" /\ pending[w]
  /\ \E r \in Request : find_website(r)
  /\ pending' = [pending EXCEPT ![w] = FALSE]
  /\ serving' = [serving EXCEPT ![w] = found']
  /\ thread' = [thread EXCEPT ![w] = "serving"]
  /\ UNCHANGED <<phase, registry, logger, built, refs, sockets, running, destroyed>>

respond(w) ==
  /\ Alive
  /\ thread[w] = "serving"
  /\ serving' = [serving EXCEPT ![w] = {}]
  /\ request' = <<>> /\ found' = {}
  /\ Continue(w)
  /\ UNCHANGED <<websites, bound, outcome, phase, registry, logger, built, refs,
                 running, pending, destroyed>>

\* The loop of run() ends only by an exception.
run_throws ==
  /\ Alive
  /\ phase = "loop"
  /\ \/ TRUE \in Callers /\ phase' = "unwind" /\ outcome' = outcome
     \/ FALSE \in Callers /\ outcome' = "terminated" /\ phase' = phase
  /\ UNCHANGED <<websites, bound, request, found, registry, logger, built, refs,
                 sockets, threads, destroyed>>

-----------------------------------------------------------------------------
(* ~http_server: the members' destructors in the reverse order of their    *)
(* declaration.                                                            *)

\* A caller may also give the server up before it runs.
give_up ==
  /\ Alive
  /\ TRUE \in Callers
  /\ phase = "setup" /\ built = <<>>
  /\ outcome \in {"invalid_argument", "zmq_error"}
  /\ phase' = "unwind"
  /\ UNCHANGED <<server, registry, logger, built, refs, sockets, threads, destroyed>>

\* Mutant: the members in the order of their declaration.
Turn_forward(m) ==
  /\ Alive
  /\ phase = "unwind" /\ m \notin destroyed
  /\ \E i \in DOMAIN Members :
       /\ Members[i] = m
       /\ \A j \in 1..(i - 1) : Members[j] \in destroyed

Turn(m) ==
  /\ Alive
  /\ phase = "unwind" /\ m \notin destroyed
  /\ \E i \in DOMAIN Members :
       /\ Members[i] = m
       /\ \A j \in (i + 1)..Len(Members) : Members[j] \in destroyed

\* ~class_thread of one element of the list: stop() ...
stop(w) ==
  /\ Turn("workers")
  /\ \A v \in Workers : ~ running[v] => thread[v] \in {"none", "ended"}
  /\ running[w]
  /\ running' = [running EXCEPT ![w] = FALSE]
  /\ UNCHANGED <<server, phase, registry, logger, built, refs, sockets, thread,
                 pending, serving, destroyed>>

\* Mutant: the threads are not waited for.
join_none ==
  /\ Turn("workers")
  /\ \A v \in Workers : ~ running[v]
  /\ destroyed' = destroyed \cup {"workers"}
  /\ UNCHANGED <<server, phase, registry, logger, built, refs, sockets, threads>>

\* ... joins the thread before the next element's turn.
join ==
  /\ Turn("workers")
  /\ \A v \in Workers : ~ running[v] /\ thread[v] \in {"none", "ended"}
  /\ destroyed' = destroyed \cup {"workers"}
  /\ UNCHANGED <<server, phase, registry, logger, built, refs, sockets, threads>>

\* Every website gives its library back.
destroy_websites ==
  /\ Turn("websites")
  /\ destroyed' = destroyed \cup {"websites"}
  /\ refs' = [l \in Libraries |->
                refs[l] - Cardinality({s \in websites : s.path = l})]
  /\ UNCHANGED <<server, phase, registry, logger, built, sockets, threads>>

\* socket_t::close
close(kind) ==
  /\ Turn(kind)
  /\ destroyed' = destroyed \cup {kind}
  /\ sockets' = sockets \ {<<"main", kind>>}
  /\ UNCHANGED <<server, phase, registry, logger, built, refs, threads>>

destroy_logger ==
  /\ Turn("logger")
  /\ destroyed' = destroyed \cup {"logger"}
  /\ logger' = FALSE
  /\ UNCHANGED <<server, phase, registry, built, refs, sockets, threads>>

\* zmq_ctx_destroy waits until every socket is closed.
destroy_context ==
  /\ Turn("context")
  /\ sockets = {}
  /\ destroyed' = destroyed \cup {"context"}
  /\ phase' = "gone"
  /\ UNCHANGED <<server, registry, logger, built, refs, sockets, threads>>

-----------------------------------------------------------------------------

MainThread ==
  \/ \E n \in StaticLoggers : static_logger(n)
  \/ main \/ http_server \/ no_logger
  \/ \E c \in Call : refuse(c) \/ construct(c)
  \/ place \/ uncaught \/ run
  \/ \E w \in Workers : start(w) \/ forward(w) \/ stop(w)
  \/ run_throws \/ give_up
  \/ join \/ destroy_websites \/ destroy_logger
  \/ \E k \in {"stream", "pub", "dealer"} : close(k)
  \/ destroy_context

WorkerThread(w) == open_sockets(w) \/ handle_request(w) \/ respond(w)

ProgramNext == MainThread \/ \E w \in Workers : WorkerThread(w)

ProgramSpec == ProgramInit /\ [][ProgramNext]_pvars

ProgramFairness ==
  /\ \A w \in Workers : WF_pvars(WorkerThread(w)) /\ WF_pvars(stop(w))
  /\ WF_pvars(join) /\ WF_pvars(destroy_websites) /\ WF_pvars(destroy_logger)
  /\ \A k \in {"stream", "pub", "dealer"} : WF_pvars(close(k))
  /\ WF_pvars(destroy_context)

ProgramFairSpec == ProgramSpec /\ ProgramFairness

-----------------------------------------------------------------------------
(* Properties.                                                             *)

\* The library of every website is mapped as long as the website is there,
\* and every reference that a refused or failed call of connect took has been
\* given back: the references to a library are the websites that use it.
LibraryReferences ==
  Alive =>
    \A l \in Libraries :
      refs[l] = Cardinality({i \in DOMAIN built : built[i].path = l})
                + (IF "websites" \in destroyed THEN 0
                   ELSE Cardinality({s \in websites : s.path = l}))

\* A thread that runs finds what it refers to: the set of websites, the
\* library whose service it executes, and the context its sockets are from;
\* and when the context's turn comes, no socket is left that it would wait
\* for.  The join in the destructor of the list of workers and the order of
\* the server's members hold this up.
UsedIsThere ==
  /\ \A w \in Workers : thread[w] \in {"starting", "polling", "serving"} =>
       /\ {"websites", "context"} \cap destroyed = {}
       /\ \A s \in serving[w] : s.path \in Libraries => refs[s.path] > 0
  /\ Alive /\ Turn("context") => sockets = {}

\* A server that is given up is destroyed: its destructor returns.
DestructorReturns == phase = "unwind" ~> phase = "gone"

\* The process never ends because http_server has no logger.
ServerHasLogger == phase = "setup" => logger

=============================================================================
