---------------------------- MODULE HttpService -----------------------------
(***************************************************************************)
(* One request in the hands of http_worker::handle_request, or of a direct *)
(* caller of http_service::execute: parsing, the choice of the website,    *)
(* the resource, the status of the response, every exception on the way    *)
(* and what catches it.                                                    *)
(*                                                                         *)
(* A request is the record of what the code tells apart; how a text comes  *)
(* to be such a request is the subject of RequestParser and Websites, the  *)
(* handler of the version is HandlerCache's, routes are Router's and files *)
(* are FilesystemResource's.                                               *)
(***************************************************************************)
EXTENDS FiniteSets

CONSTANTS
  FilesystemHosts,  \* hosts whose website is a directory
  ExternalHosts,    \* hosts whose website is a library of REST routes
  Callers,          \* "worker": handle_request; "direct": who parses and calls
                    \* http_service::execute(const http_request&), as tests do
  Uris,             \* forms of Request-URI: "path", "absolute", "star", "other"
  Outcomes,         \* what the function of a route may do
  Garbage           \* values a status_code nobody has assigned may hold

\* named: a status other than 200 that reason_phrase has a phrase for;
\* invalid: one it throws for; unknown: http_unknown, the enumerator 0.
Uninitialised == {"unknown", "named", "invalid"}

Function ==
  {"sets",              \* assigns status_code and the body
   "leaves",            \* assigns the body only
   "invalid_request",   \* throws http_invalid_request
   "std_exception",     \* throws another std::exception, the body half done
   "other_exception"}   \* throws something else

Sites == FilesystemHosts \cup ExternalHosts
NoSite == "none"
Thrown == {"http_invalid_request", "std_exception", "other"}

ASSUME ServiceAssumption ==
  /\ FilesystemHosts \cap ExternalHosts = {}
  /\ Sites \cap (Thrown \cup {"unregistered", NoSite}) = {}
  /\ Callers \subseteq {"worker", "direct"}
  /\ Uris \subseteq {"path", "absolute", "star", "other"}
  /\ Outcomes \subseteq Function
  /\ Garbage \subseteq Uninitialised /\ Garbage # {}

VARIABLES
  pc,       \* the step reached; "dead" once std::terminate was called
  caller,   \* who executes the request
  req,      \* the request
  site,     \* the website found
  gstatus,  \* gresponse.status_code
  gbody,    \* gresponse.message_body and header: "empty", "whole", "partial"
  status,   \* response.status_code
  ran,      \* history: the sites whose resource was executed
  ended     \* history: how the resource ended; "left": without a status

vars == <<pc, caller, req, site, gstatus, gbody, status, ran, ended>>

Request ==
  [version : {"HTTP/1.1", "HTTP/1.0", "unsupported"},
   parsed : {"success", "failure", "throws"},  \* the parser of HTTP/1.1; it throws
                            \* for a field with nothing behind its colon
   uri : Uris,
   host : Sites \cup {"unregistered"},  \* named by the URI or the Host header
   field : {"present", "missing", "malformed"},   \* the Host header
   lookup : {"found", "nothing", "error"}]  \* a file, or a route, of that path;
                            \* "error": the system cannot tell (ENAMETOOLONG,
                            \* EACCES, ELOOP), and boost::filesystem throws

Status == {"unset", "ok", "bad_request", "not_found", "server_error"}
            \cup Uninitialised

TypeOK ==
  /\ pc      \in {"parse", "find_website", "extract_host", "create_handle",
                  "execute", "default_status", "make_response", "serialise",
                  "sent", "thrown", "dead"}
  /\ caller  \in Callers
  /\ req     \in Request
  /\ site    \in Sites \cup {NoSite}
  /\ gstatus \in Status
  /\ gbody   \in {"empty", "whole", "partial"}
  /\ status  \in Status
  /\ ran     \subseteq Sites
  /\ ended   \in {"not_run", "returned", "left", "threw"}

Init ==
  /\ pc      = "parse"
  /\ caller  \in Callers
  /\ req     \in Request
  /\ site    \in IF caller = "direct" THEN Sites ELSE {NoSite}
  /\ gstatus = "unset"
  /\ gbody   = "empty"
  /\ status  = "unset"
  /\ ran     = {}
  /\ ended   = "not_run"

-----------------------------------------------------------------------------
(* Exceptions that leave http_service::execute.  handle_request turns      *)
(* http_invalid_request into 400 and everything else into 500; a direct    *)
(* caller gets the exception.                                              *)

Unexecuted == UNCHANGED <<ran, ended>>

\* Mutant: handle_request catches std::exception in place of everything.
raise_std_only(e) ==
  /\ \/ caller = "direct" /\ pc' = "thrown" /\ UNCHANGED status
     \/ caller = "worker" /\ e = "other" /\ pc' = "dead" /\ UNCHANGED status
     \/ /\ caller = "worker" /\ e # "other"
        /\ pc' = "serialise"
        /\ status' = IF e = "http_invalid_request" THEN "bad_request"
                     ELSE "server_error"
  /\ UNCHANGED <<caller, req, site, gstatus, gbody>>

raise(e) ==
  /\ \/ caller = "direct" /\ pc' = "thrown" /\ UNCHANGED status
     \/ /\ caller = "worker"
        /\ pc' = "serialise"
        /\ status' = IF e = "http_invalid_request" THEN "bad_request"
                     ELSE "server_error"
  /\ UNCHANGED <<caller, req, site, gstatus, gbody>>

goto(label) ==
  /\ pc' = label
  /\ UNCHANGED <<caller, req, site, gstatus, gbody, status, ran, ended>>

\* http_service::parse_request.  The parsers are noexcept.  The one of HTTP/1.0
\* reports success and leaves the request as it was constructed, its version and
\* Request-URI empty.
parse_request ==
  /\ pc = "parse"
  /\ LET next == IF caller = "worker" THEN "find_website" ELSE "extract_host"
     IN  \/ /\ req.version = "unsupported"
            /\ raise("http_invalid_request") /\ Unexecuted
         \/ /\ req.version = "HTTP/1.1" /\ req.parsed = "failure"
            /\ raise("http_invalid_request") /\ Unexecuted
         \/ /\ req.version = "HTTP/1.1" /\ req.parsed = "throws"
            /\ goto("dead")
         \/ /\ req.version = "HTTP/1.1" /\ req.parsed = "success"
            /\ goto(next)
         \/ /\ req.version = "HTTP/1.0"
            /\ goto(next)

\* Neither an absolute URI, nor a path with a Host that can be read, nor "*".
NoFormat ==
  \/ req.version = "HTTP/1.0"
  \/ req.uri = "other"
  \/ req.uri = "path" /\ req.field = "malformed"

\* What extract_host returns or throws; "*" is a host no site has.
extract_host ==
  CASE NoFormat -> "std_exception"
    [] ~NoFormat /\ req.uri = "path" /\ req.field = "missing"
         -> "http_invalid_request"
    [] ~NoFormat /\ req.uri = "star" -> "unregistered"
    [] OTHER -> req.host

Found(s) ==
  /\ site' = s
  /\ pc'   = "extract_host"
  /\ UNCHANGED <<caller, req, gstatus, gbody, status, ran, ended>>

\* Mutant: the result of std::find is not compared with cend().
find_website_unchecked ==
  /\ pc = "find_website"
  /\ \/ extract_host \in Thrown /\ raise(extract_host) /\ Unexecuted
     \/ extract_host \notin Thrown /\ Found(extract_host)

\* Mutant: an unknown host gets some website.
find_website_default ==
  /\ pc = "find_website"
  /\ \/ extract_host \in Thrown /\ raise(extract_host) /\ Unexecuted
     \/ extract_host \notin Thrown \cup Sites /\ \E s \in Sites : Found(s)
     \/ extract_host \in Sites /\ Found(extract_host)

\* http_worker::find_website
find_website ==
  /\ pc = "find_website"
  /\ \/ extract_host \in Thrown /\ raise(extract_host) /\ Unexecuted
     \/ /\ extract_host \notin Thrown \cup Sites
        /\ raise("http_invalid_request") /\ Unexecuted
     \/ extract_host \in Sites /\ Found(extract_host)

\* http_service::execute, step 3: another host than its own is only logged.
identify_service ==
  /\ pc = "extract_host"
  /\ \/ /\ extract_host \in Thrown
        /\ raise(extract_host) /\ Unexecuted
     \/ /\ extract_host \notin Thrown
        /\ goto("create_handle")

-----------------------------------------------------------------------------
(* Step 5: the resource.                                                   *)

\* The end of the resource, for better or worse.
finish(how, s, b) ==
  /\ gstatus' = s
  /\ gbody'   = b
  /\ ended'   = how
  /\ pc'      = "default_status"
  /\ UNCHANGED <<caller, req, site, status>>

\* The path of a file has the site's directory in front, so only the path of
\* an existing file gives a resource.
FileFound == req.uri = "path" /\ req.lookup = "found"

\* exists() of any name, of index.html too, may throw.
LookupThrows == site \in FilesystemHosts /\ req.lookup = "error"

\* Mutant: no resource, no status.
create_handle_no_status ==
  /\ pc = "create_handle"
  /\ \/ /\ LookupThrows
        /\ goto("dead")
     \/ /\ site \in FilesystemHosts /\ ~FileFound /\ ~LookupThrows
        /\ finish("not_run", gstatus, gbody)
        /\ UNCHANGED ran
     \/ /\ site \in FilesystemHosts /\ FileFound
        /\ goto("execute")
     \/ /\ site \in ExternalHosts /\ req.uri = "path"
        /\ goto("execute")
     \/ /\ site \in ExternalHosts /\ req.uri # "path"
        /\ goto("dead")

\* create_handle is noexcept, and get_dispatch throws for a Request-URI that
\* does not start with '/'.
create_handle ==
  /\ pc = "create_handle"
  /\ \/ /\ LookupThrows
        /\ goto("dead")
     \/ /\ site \in FilesystemHosts /\ ~FileFound /\ ~LookupThrows
        /\ finish("not_run", "not_found", gbody)
        /\ UNCHANGED ran
     \/ /\ site \in FilesystemHosts /\ FileFound
        /\ goto("execute")
     \/ /\ site \in ExternalHosts /\ req.uri = "path"
        /\ goto("execute")
     \/ /\ site \in ExternalHosts /\ req.uri # "path"
        /\ goto("dead")

\* http_filesystem_resource::execute throws when the file is removed while it
\* is being served.
execute_file ==
  /\ pc = "execute" /\ site \in FilesystemHosts
  /\ ran' = ran \cup {site}
  /\ \/ finish("returned", "ok", "whole")
     \/ finish("threw", "server_error", gbody)

\* rest_resource::execute: 404 without a function, otherwise the function.
execute_route ==
  /\ pc = "execute" /\ site \in ExternalHosts
  /\ \/ /\ req.lookup # "found"
        /\ finish("not_run", "not_found", gbody)
        /\ UNCHANGED ran
     \/ /\ req.lookup = "found"
        /\ ran' = ran \cup {site}
        /\ \/ /\ "sets" \in Outcomes
              /\ finish("returned", "named", "whole")
           \/ /\ "leaves" \in Outcomes
              /\ finish("left", gstatus, "whole")
           \/ /\ "invalid_request" \in Outcomes
              /\ finish("threw", "bad_request", gbody)
           \/ /\ "std_exception" \in Outcomes
              /\ finish("threw", "server_error", "partial")

\* What is not a std::exception passes through http_service::execute.
execute_route_other ==
  /\ pc = "execute" /\ site \in ExternalHosts
  /\ req.lookup = "found"
  /\ "other_exception" \in Outcomes
  /\ ran'   = ran \cup {site}
  /\ ended' = "threw"
  /\ raise("other")

-----------------------------------------------------------------------------
(* The status and the response.                                            *)

\* "Assume successful result by default": a status nobody assigned has the
\* value its memory has.
default_status ==
  /\ pc = "default_status"
  /\ \E s \in IF gstatus = "unset" THEN Garbage ELSE {gstatus} :
       gstatus' = IF s = "unknown" THEN "ok" ELSE s
  /\ pc' = "make_response"
  /\ UNCHANGED <<caller, req, site, gbody, status, ran, ended>>

make_response ==
  /\ pc = "make_response"
  /\ status' = gstatus
  /\ pc' = IF caller = "worker" THEN "serialise" ELSE "sent"
  /\ UNCHANGED <<caller, req, site, gstatus, gbody, ran, ended>>

\* operator<< calls reason_phrase, outside of handle_request's try block.
serialise ==
  /\ pc = "serialise"
  /\ IF status = "invalid" THEN goto("dead") ELSE goto("sent")

-----------------------------------------------------------------------------

Step ==
  \/ parse_request \/ find_website \/ identify_service
  \/ create_handle \/ execute_file \/ execute_route \/ execute_route_other
  \/ default_status \/ make_response \/ serialise

Next == Step
Spec == Init /\ [][Next]_vars
FairSpec == Spec /\ WF_vars(Step)

-----------------------------------------------------------------------------
(* Properties                                                              *)

\* A worker runs a site's code only for a well-formed HTTP/1.1 request that
\* names the site, in its Request-URI or in its Host header (http_worker.cpp,
\* lines 120-127 and 161-174; http_service.cpp, lines 151-224).
ResourceRunsForItsHost ==
  caller = "worker" /\ ran # {} =>
    /\ ran = {req.host}
    /\ req.version = "HTTP/1.1" /\ req.parsed = "success"
    /\ req.uri = "absolute" \/ (req.uri = "path" /\ req.field = "present")

\* A response says 200 only if a resource was found and came to its end: the
\* default of http_service.cpp, line 135, never covers up a refusal or an error.
SuccessMeansExecuted ==
  pc = "sent" /\ status = "ok" => ended \in {"returned", "left"}

\* A request ends the process in four ways only: the noexcept parser meets a
\* field with nothing behind its colon (http_protocol_one_one.cpp, line 77), the
\* noexcept create_handle a path the file system cannot tell about
\* (http_resource_factory.cpp, lines 58-80) or, in a library of routes, a URI
\* without a leading '/', and operator<< a status without a reason phrase.  No
\* site ever runs in the first three.  Every other exception, of the
\* lookup of the website, the resource or the site's own code, becomes a response
\* (http_worker.cpp, lines 100-139).
KnownTerminations ==
  pc = "dead" =>
    \/ /\ ran = {}
       /\ \/ req.version = "HTTP/1.1" /\ req.parsed = "throws"
          \/ site \in FilesystemHosts /\ req.lookup = "error"
          \/ site \in ExternalHosts /\ req.uri # "path"
    \/ status = "invalid"

\* Whatever the request is and whatever the site's code does, the worker comes
\* to send a response (http_worker.cpp, lines 100-142).
WorkerReplies == caller = "worker" ~> pc = "sent"

\* A function that leaves the status alone has succeeded (http_service.cpp,
\* line 134: "Assume successful result by default.").
SuccessByDefault == pc = "sent" /\ ended = "left" => status = "ok"

\* GET of a file that exists succeeds without a Host header (method.cpp, lines
\* 22-27).
GetWithoutHost ==
  req.version = "HTTP/1.1" /\ req.parsed = "success" /\ req.uri = "path"
    /\ req.field = "missing" /\ req.lookup = "found"
    => pc # "thrown"

=============================================================================
