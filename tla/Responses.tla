----------------------------- MODULE Responses ------------------------------
(***************************************************************************)
(* What the worker threads share while they answer requests: the cache of  *)
(* protocol handlers, which a request consults in http_service::parse_     *)
(* request and again in http_service::execute, and the storage of          *)
(* http_constants::http_date, which a file's Last-Modified and the Date of *)
(* make_response go through.  Composes HandlerCache and HttpDate.          *)
(***************************************************************************)
EXTENDS HttpDate

CONSTANT MaxRequests  \* bound: requests one thread answers

ASSUME ResponsesAssumption == MaxRequests \in Nat

VARIABLES
  cache, pc, ver, pos, result, calls,                         \* HandlerCache
  phase,    \* phase[t]: what thread t's request waits for
  request,  \* request[t]: its version, and whether it is for a file
  warm,     \* history: the cache was warm when t's request arrived
  status    \* status[t]: how t's last request ended

cvars == <<cache, pc, ver, pos, result, calls>>
rvars == <<phase, request, warm, status>>
vars  == <<cvars, dvars, rvars>>

Known   == {"HTTP/1.1", "HTTP/1.0"}
Unknown == {"HTTP/2.0"}

\* Only HTTP/1.1 requests get as far as a file.
Request == {r \in [version : Known \cup Unknown, file : BOOLEAN] :
              r.file => r.version = "HTTP/1.1"}

Cache == INSTANCE HandlerCache WITH MaxCalls <- 2 * MaxRequests

\* The server has answered requests of some versions before, one at a time.
Init ==
  /\ \E seen \in SUBSET Known : Cache!Holding(seen)
  /\ DateInit
  /\ phase = [t \in Threads |-> "idle"]
  /\ request = [t \in Threads |-> [version |-> "HTTP/1.1", file |-> FALSE]]
  /\ warm = [t \in Threads |-> FALSE]
  /\ status = [t \in Threads |-> "none"]

WaitFor(t, next) ==
  /\ phase' = [phase EXCEPT ![t] = next]
  /\ UNCHANGED <<request, warm, status>>

End(t, s) ==
  /\ phase' = [phase EXCEPT ![t] = "idle"]
  /\ status' = [status EXCEPT ![t] = s]
  /\ UNCHANGED <<request, warm>>

\* A request arrives and http_service::parse_request asks for its handler.
arrive(t, r) ==
  /\ phase[t] = "idle"
  /\ Cache!get_handler(t, r.version)
  /\ phase' = [phase EXCEPT ![t] = "parse"]
  /\ request' = [request EXCEPT ![t] = r]
  /\ warm' = [warm EXCEPT ![t] = Cache!Warm]
  /\ status' = [status EXCEPT ![t] = "none"]
  /\ UNCHANGED dvars

\* Without a handler the request is a bad one.  The HTTP/1.0 parser leaves the
\* request empty, and its host cannot be found.  HTTP/1.1 goes on to execute(),
\* which asks for the handler again.
parse_request(t) ==
  /\ phase[t] = "parse"
  /\ pc[t] = "idle"
  /\ \/ result[t] = Cache!Null /\ End(t, "bad_request") /\ UNCHANGED cvars
     \/ /\ result[t] # Cache!Null
        /\ request[t].version = "HTTP/1.0"
        /\ End(t, "server_error")
        /\ UNCHANGED cvars
     \/ /\ result[t] # Cache!Null
        /\ request[t].version = "HTTP/1.1"
        /\ Cache!get_handler(t, "HTTP/1.1")
        /\ WaitFor(t, "execute")
  /\ UNCHANGED dvars

\* execute(): no handler, no response but the status; a file is dated first.
execute(t) ==
  /\ phase[t] = "execute"
  /\ pc[t] = "idle"
  /\ \/ result[t] = Cache!Null /\ End(t, "bad_request") /\ UNCHANGED dvars
     \/ /\ result[t] # Cache!Null
        /\ request[t].file
        /\ \E written \in Times : http_date(t, written)
        /\ WaitFor(t, "last_modified")
     \/ /\ result[t] # Cache!Null
        /\ ~request[t].file
        /\ \E now \in Times : http_date(t, now)
        /\ WaitFor(t, "make_response")
  /\ UNCHANGED cvars

\* The resource is done, and make_response dates the response.
last_modified(t) ==
  /\ phase[t] = "last_modified"
  /\ at[t] = "idle"
  /\ \E now \in Times : http_date(t, now)
  /\ WaitFor(t, "make_response")
  /\ UNCHANGED cvars

make_response(t) ==
  /\ phase[t] = "make_response"
  /\ at[t] = "idle"
  /\ End(t, "dated")
  /\ UNCHANGED <<cvars, dvars>>

\* A thread goes on inside get_handler, or inside http_date.
Handler(t) ==
  /\ Cache!contains(t) \/ Cache!get(t) \/ Cache!emplace_find(t) \/ Cache!emplace_link(t)
  /\ UNCHANGED <<dvars, rvars>>

Dating(t) ==
  /\ Step(t)
  /\ UNCHANGED <<cvars, rvars>>

RequestStep(t) ==
  \/ \E r \in Request : arrive(t, r)
  \/ parse_request(t)
  \/ execute(t)
  \/ last_modified(t)
  \/ make_response(t)
  \/ Handler(t)
  \/ Dating(t)

\* A thread that dies takes the process with it.
Next == Cache!Alive /\ \E t \in Threads : RequestStep(t)

Spec == Init /\ [][Next]_vars

-----------------------------------------------------------------------------
(* Properties.                                                             *)

\* Once every version has its handler, no lock is needed for that: a request
\* that arrives then is answered with a dated response exactly if it is an
\* HTTP/1.1 request, and the process survives, whatever the other threads do.
WarmRequestsAnswered ==
  \A t \in Threads :
    /\ warm[t] => pc[t] # "dead"
    /\ warm[t] /\ status[t] # "none"
         => (status[t] = "dated" <=> request[t].version = "HTTP/1.1")

\* get_handler answers nullptr exactly for the versions without a handler.
NullMeansUnknown == Cache!NullMeansUnknown

=============================================================================
