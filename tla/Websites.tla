------------------------------ MODULE Websites ------------------------------
(***************************************************************************)
(* The websites of a server: http_server::connect registers them, one call *)
(* after the other before run(); http_worker::find_website looks them up   *)
(* by the host that http_service::extract_host reads from a request.       *)
(*                                                                         *)
(* A Request-URI or a Host header is modelled by what the three regular    *)
(* expressions tell apart, a port by the number its digits denote, a path  *)
(* by what is there: nothing, a directory, a service library, or any other *)
(* file.                                                                   *)
(***************************************************************************)
EXTENDS Naturals, FiniteSets

CONSTANTS
  Names,      \* host names
  Libraries,  \* paths of files that are service libraries
  Ports,      \* ports websites are connected to, 16-bit numbers
  PortTexts,  \* the numbers requests write as a port, of any size
  Foreign,    \* ports another process is bound to
  MaxSites    \* bound: websites a server has

DefaultPort == 80

MaxPort == 65535

Port16 == 0..MaxPort

ASSUME WebsitesAssumption ==
  /\ Ports \subseteq Port16
  /\ PortTexts \subseteq Nat
  /\ Foreign \subseteq Ports
  /\ MaxSites \in Nat

VARIABLES
  websites,  \* http_server::websites_, a std::set ordered by host
  bound,     \* the ports http_socket_ is bound to
  outcome,   \* how the last call of connect ended
  request,   \* the last request looked up, none while the server is set up
  found      \* the websites find_website returned for it, none if it threw

vars == <<websites, bound, outcome, request, found>>

Host == [name : Names, port : Port16]
Site == [host : Host, path : {"directory"} \cup Libraries]
Call == [path : {"missing", "directory", "other"} \cup Libraries,
         name : Names, port : Ports]

\* "name" or "name:digits"
HostText == [name : Names, port : {<<>>} \cup {<<p>> : p \in PortTexts}]

\* absolute: "http://host[:port]...", path: "/...", star: "*", none of these.
URI == [form : {"absolute"}, host : HostText]
         \cup [form : {"path", "star", "invalid"}]

Header == [form : {"named"}, host : HostText]
            \cup [form : {"absent", "malformed"}]

Request == [uri : URI, header : Header]

TypeOK ==
  /\ websites \in SUBSET Site
  /\ bound \subseteq Ports
  /\ outcome \in {"none", "ok", "invalid_argument", "zmq_error", "terminated"}
  /\ request \in {<<>>} \cup {<<r>> : r \in Request}
  /\ found \in SUBSET Site /\ Cardinality(found) <= 1

Init ==
  /\ websites = {}
  /\ bound = {}
  /\ outcome = "none"
  /\ request = <<>>
  /\ found = {}

Alive == outcome # "terminated"

-----------------------------------------------------------------------------
(* http_server::connect.                                                   *)

\* Mutant: any path that exists is taken.
Constructible_existing(path) == path # "missing"

\* create_resource_factory throws for a path that is neither a directory nor a
\* regular file, and import_alias for a file that is no service library;
\* http_website's constructor is noexcept.
Constructible(path) == path \in {"directory"} \cup Libraries

SameHost(s, h) == s.host = h

\* http_socket_.bind("tcp://*:<port>")
Bindable(port) == port \notin bound \cup Foreign

\* Mutant: the failed bind leaves the website in the set.
emplace_and_bind_no_erase(s) ==
  IF \E x \in websites : SameHost(x, s.host)
    THEN outcome' = "invalid_argument" /\ UNCHANGED <<websites, bound>>
    ELSE /\ websites' = websites \cup {s}
         /\ IF Bindable(s.host.port)
              THEN outcome' = "ok" /\ bound' = bound \cup {s.host.port}
              ELSE outcome' = "zmq_error" /\ bound' = bound

emplace_and_bind(s) ==
  IF \E x \in websites : SameHost(x, s.host)
    THEN outcome' = "invalid_argument" /\ UNCHANGED <<websites, bound>>
    ELSE IF Bindable(s.host.port)
      THEN /\ outcome' = "ok"
           /\ websites' = websites \cup {s}
           /\ bound' = bound \cup {s.host.port}
      ELSE \* the website is erased again
           outcome' = "zmq_error" /\ UNCHANGED <<websites, bound>>

SiteOf(c) == [host |-> [name |-> c.name, port |-> c.port], path |-> c.path]

connect(c) ==
  /\ Alive
  /\ request = <<>>
  /\ Cardinality(websites) < MaxSites
  /\ \/ /\ c.path = "missing"
        /\ outcome' = "invalid_argument"
        /\ UNCHANGED <<websites, bound>>
     \/ /\ c.path # "missing" /\ ~ Constructible(c.path)
        /\ outcome' = "terminated"
        /\ UNCHANGED <<websites, bound>>
     \/ Constructible(c.path) /\ emplace_and_bind(SiteOf(c))
  /\ UNCHANGED <<request, found>>

-----------------------------------------------------------------------------
(* http_service::extract_host and http_worker::find_website.               *)

\* Mutant: the number is cut to 16 bits.
parse_port_wrap(p) == IF p = <<>> THEN DefaultPort ELSE p[1] % 65536

\* ss >> port fails on no digits and on a number past 65535.
parse_port(p) ==
  IF p = <<>> THEN DefaultPort ELSE IF p[1] > MaxPort THEN DefaultPort ELSE p[1]

\* The host of a request, as a set that is empty when extract_host throws:
\* http_invalid_request (400) without a Host header, std::invalid_argument
\* (500) for every other URI.
extract_host(r) ==
  LET host(t) == {[name |-> t.name, port |-> parse_port(t.port)]} IN
    CASE r.uri.form = "absolute" -> host(r.uri.host)
      [] r.uri.form = "path" /\ r.header.form = "named" -> host(r.header.host)
      [] r.uri.form = "star" -> {[name |-> "*", port |-> DefaultPort]}
      [] OTHER -> {}

\* http_website::operator==
Matches(s, h) == s.host = h

find_website(r) ==
  /\ Alive
  /\ websites # {}
  /\ request' = <<r>>
  /\ LET hits == {s \in websites : \E h \in extract_host(r) : Matches(s, h)} IN
       \/ hits # {} /\ \E s \in hits : found' = {s}   \* the first in the set
       \/ hits = {} /\ found' = {}
  /\ UNCHANGED <<websites, bound, outcome>>

Next == (\E c \in Call : connect(c)) \/ (\E r \in Request : find_website(r))

Spec == Init /\ [][Next]_vars

-----------------------------------------------------------------------------
(* Properties.                                                             *)

\* However the calls of connect end, the ports the server listens to and the
\* websites it serves stay in step: a website whose port could not be bound is
\* gone again, and every bound port has its website.
PortsMatchWebsites ==
  /\ bound = {s.host.port : s \in websites}
  /\ \A s, t \in websites : s.host.port = t.host.port => s = t

\* The host text a request is about: the URI's, which wins over the header's;
\* the asterisk is a name of its own.
Asked(r) ==
  IF r.uri.form = "absolute" THEN {r.uri.host}
  ELSE IF r.uri.form = "path" /\ r.header.form = "named" THEN {r.header.host}
  ELSE IF r.uri.form = "star" THEN {[name |-> "*", port |-> <<>>]}
  ELSE {}

\* What connect can have been told for a host text to name the website.
Names16(t, h) ==
  /\ t.name = h.name
  /\ \/ t.port = <<h.port>>
     \/ h.port = DefaultPort /\ (t.port = <<>> \/ t.port[1] > MaxPort)

\* A request is served by the website it names and by no other, and a website
\* that was connected is found by every request that names it: the same host
\* name, and the port it writes or the default; a number that is no 16-bit
\* port never reaches a website on another port than the default.
ServedByNamedWebsite ==
  \A i \in DOMAIN request :
    found = {s \in websites : \E t \in Asked(request[i]) : Names16(t, s.host)}

\* connect refuses a website only for a path that does not exist, a port and
\* name combination that is in use, or a port that another process holds.
FreshCombinationAccepted ==
  [][\A c \in Call :
       connect(c) /\ Constructible(c.path) /\ c.port \notin Foreign
         /\ (\A s \in websites : s.host # [name |-> c.name, port |-> c.port])
       => outcome' = "ok"]_vars

=============================================================================
