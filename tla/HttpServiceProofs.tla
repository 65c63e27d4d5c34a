------------------------- MODULE HttpServiceProofs --------------------------
(***************************************************************************)
(* Proofs about HttpService, for all sites, all callers, all requests, all *)
(* outcomes of a site's code and whatever an unassigned status may hold;   *)
(* and about RequestParser, whose result a request of HttpService is, for  *)
(* request lines, header sections and bodies of any length.                *)
(***************************************************************************)
EXTENDS HttpService, RequestParser, SequenceTheorems, WellFoundedInduction,
        NaturalsInduction, TLAPS

\* The steps of http_service::execute; a worker has found a website for them.
Executing == {"extract_host", "create_handle", "execute", "default_status", "make_response"}

\* The request is well-formed HTTP/1.1 and names the site it is executed on.
Named ==
  /\ site = req.host
  /\ req.version = "HTTP/1.1" /\ req.parsed = "success"
  /\ req.uri = "absolute" \/ (req.uri = "path" /\ req.field = "present")

\* A worker gets past find_website, and a resource is run, only on the site
\* the request names.
SiteInv ==
  /\ ran \subseteq {site}
  /\ pc \in {"parse", "find_website", "extract_host", "create_handle", "execute"} => ran = {}
  /\ pc = "find_website" => caller = "worker"
  /\ caller = "worker" =>
       /\ pc = "find_website" /\ req.version = "HTTP/1.1" => req.parsed = "success"
       /\ pc = "find_website" => req.version # "unsupported"
       /\ pc \in Executing \/ ran # {} => Named

\* How far the two statuses are, and what they tell about the resource.
StatusInv ==
  /\ pc \in {"parse", "find_website", "extract_host", "create_handle", "execute"}
       => gstatus = "unset"
  /\ pc = "default_status" =>
       /\ gstatus \in {"ok", "unset"} => ended \in {"returned", "left"}
       /\ gstatus # "unknown"
  /\ pc = "make_response" /\ gstatus = "ok" => ended \in {"returned", "left"}
  /\ pc \in {"serialise", "sent"} /\ status = "ok" => ended \in {"returned", "left"}

IInv == TypeOK /\ SiteInv /\ StatusInv /\ KnownTerminations

\* A request begins without a website, a status or a resource.
LEMMA InitIInv == Init => IInv
BY ServiceAssumption
   DEF Init, IInv, TypeOK, SiteInv, StatusInv, KnownTerminations, Status, Executing

-----------------------------------------------------------------------------
(* The steps.  In each, the conjuncts that the step's own assignments       *)
(* decide: the request and the caller never change.                         *)

\* An exception that leaves http_service::execute ends it with an error, or
\* passes on to the direct caller.
LEMMA RaiseIInv ==
  ASSUME IInv, NEW e, raise(e),
         ran' = ran \/ (site \in Sites /\ ran' = ran \cup {site} /\ pc = "execute"),
         ended' \in {"not_run", "returned", "left", "threw"}
  PROVE  IInv'
<1>1. TypeOK'
  BY DEF raise, IInv, TypeOK, Status
<1>2. SiteInv'
  BY DEF raise, IInv, SiteInv, Named, Executing
<1>3. StatusInv' /\ KnownTerminations'
  BY DEF raise, IInv, StatusInv, KnownTerminations
<1> QED
  BY <1>1, <1>2, <1>3 DEF IInv

\* A resource that has come to its end without leaving http_service::execute.
LEMMA FinishIInv ==
  ASSUME IInv, pc \in {"create_handle", "execute"},
         NEW how \in {"not_run", "returned", "left", "threw"},
         NEW s \in Status \ {"unknown"}, NEW b \in {"empty", "whole", "partial"},
         s \in {"ok", "unset"} => how \in {"returned", "left"},
         finish(how, s, b),
         ran' = ran \/ (site \in Sites /\ ran' = ran \cup {site})
  PROVE  IInv'
<1>1. TypeOK'
  BY DEF finish, IInv, TypeOK
<1>2. SiteInv'
  BY DEF finish, IInv, SiteInv, Named, Executing
<1>3. StatusInv' /\ KnownTerminations'
  BY DEF finish, IInv, StatusInv, KnownTerminations
<1> QED
  BY <1>1, <1>2, <1>3 DEF IInv

\* parse_request lets a worker pass with HTTP/1.0 or with a request that is
\* well formed.
LEMMA ParseIInv == ASSUME IInv, parse_request PROVE IInv'
<1>1. CASE \E e : raise(e) /\ Unexecuted
  BY <1>1, RaiseIInv DEF Unexecuted, IInv, TypeOK
<1>2. CASE /\ goto(IF caller = "worker" THEN "find_website" ELSE "extract_host")
           /\ req.version = "HTTP/1.0" \/ (req.version = "HTTP/1.1" /\ req.parsed = "success")
  BY <1>2 DEF parse_request, goto, IInv, TypeOK, SiteInv, Named, Executing, StatusInv,
              KnownTerminations
<1>3. CASE goto("dead") /\ req.version = "HTTP/1.1" /\ req.parsed = "throws"
  BY <1>3 DEF parse_request, goto, IInv, TypeOK, SiteInv, Named, Executing, StatusInv,
              KnownTerminations
<1> QED
  BY <1>1, <1>2, <1>3 DEF parse_request

\* find_website takes the site from a Request-URI or a Host header that could
\* be read.
LEMMA FindIInv == ASSUME IInv, find_website PROVE IInv'
<1>1. CASE (raise(extract_host) \/ raise("http_invalid_request")) /\ Unexecuted
  BY <1>1, RaiseIInv DEF Unexecuted, IInv, TypeOK
<1>2. CASE extract_host \in Sites /\ Found(extract_host)
  <2>1. req \in Request /\ pc = "find_website" /\ gstatus = "unset" /\ ran \subseteq {site}
    BY <1>2 DEF find_website, IInv, TypeOK, StatusInv, SiteInv
  <2>2. /\ ~NoFormat /\ req.uri # "star"
        /\ ~(req.uri = "path" /\ req.field = "missing")
        /\ extract_host = req.host
    <3>1. NoFormat => extract_host = "std_exception"
      BY DEF extract_host
    <3>2. ~NoFormat /\ req.uri = "path" /\ req.field = "missing"
            => extract_host = "http_invalid_request"
      BY DEF extract_host
    <3>3. ~NoFormat /\ req.uri = "star" => extract_host = "unregistered"
      BY DEF extract_host
    <3>4. \/ NoFormat
          \/ ~NoFormat /\ req.uri = "path" /\ req.field = "missing"
          \/ ~NoFormat /\ req.uri = "star"
          \/ extract_host = req.host
      BY DEF extract_host
    <3> QED
      BY <1>2, <3>1, <3>2, <3>3, <3>4, ServiceAssumption DEF Thrown
  <2>3. /\ req.uri = "absolute" \/ (req.uri = "path" /\ req.field = "present")
        /\ req.version # "HTTP/1.0"
    BY <2>1, <2>2, ServiceAssumption DEF NoFormat, Request
  <2>4. caller = "worker" => req.version = "HTTP/1.1" /\ req.parsed = "success"
    BY <2>1, <2>3 DEF IInv, SiteInv, Request
  <2>5. /\ site' = req.host /\ pc' = "extract_host" /\ req.host \in Sites
        /\ UNCHANGED <<caller, req, gstatus, gbody, status, ran, ended>>
    BY <1>2, <2>2 DEF Found
  <2>6. ran = {}
    BY <2>1, <2>5 DEF IInv, SiteInv, Named
  <2>7. TypeOK' /\ StatusInv' /\ KnownTerminations'
    BY <2>1, <2>5 DEF IInv, TypeOK, StatusInv, KnownTerminations
  <2>8. SiteInv'
    BY <2>3, <2>4, <2>5, <2>6 DEF SiteInv, Named, Executing
  <2> QED
    BY <2>7, <2>8 DEF IInv
<1> QED
  BY <1>1, <1>2 DEF find_website

\* http_service::execute looks at the host once more, and only logs.
LEMMA IdentifyIInv == ASSUME IInv, identify_service PROVE IInv'
<1>1. CASE raise(extract_host) /\ Unexecuted
  BY <1>1, RaiseIInv DEF Unexecuted, IInv, TypeOK
<1>2. CASE goto("create_handle")
  BY <1>2 DEF identify_service, goto, IInv, TypeOK, SiteInv, Named, Executing, StatusInv,
              KnownTerminations
<1> QED
  BY <1>1, <1>2 DEF identify_service

\* create_handle finds a resource, or answers 404, or ends the process before
\* any site has run.
LEMMA CreateIInv == ASSUME IInv, create_handle PROVE IInv'
<1>1. CASE finish("not_run", "not_found", gbody) /\ UNCHANGED ran
  BY <1>1, FinishIInv DEF create_handle, IInv, TypeOK, Status
<1>2. CASE goto("execute")
  BY <1>2 DEF create_handle, goto, IInv, TypeOK, SiteInv, Named, Executing, StatusInv,
              KnownTerminations
<1>3. CASE (LookupThrows \/ (site \in ExternalHosts /\ req.uri # "path")) /\ goto("dead")
  BY <1>3 DEF create_handle, LookupThrows, goto, IInv, TypeOK, SiteInv, Named, Executing,
              StatusInv, KnownTerminations
<1> QED
  BY <1>1, <1>2, <1>3 DEF create_handle

\* Both kinds of resource end with a status that tells how they ended.
LEMMA ExecuteIInv == ASSUME IInv, execute_file \/ execute_route PROVE IInv'
<1>1. pc = "execute" /\ site \in Sites /\ gstatus = "unset"
      /\ gbody \in {"empty", "whole", "partial"}
  BY DEF execute_file, execute_route, IInv, TypeOK, StatusInv, Sites
<1>2. CASE execute_file
  BY <1>1, <1>2, FinishIInv DEF execute_file, Status
<1>3. CASE execute_route /\ finish("left", gstatus, "whole")
  BY <1>1, <1>3, FinishIInv DEF execute_route, Status
<1>4. CASE execute_route /\ finish("returned", "named", "whole")
  BY <1>1, <1>4, FinishIInv DEF execute_route, Status, Uninitialised
<1>5. CASE execute_route /\ \E how \in {"not_run", "threw"} :
             \E s \in {"not_found", "bad_request", "server_error"} :
             \E b \in {gbody, "partial"} : finish(how, s, b)
  <2> PICK how \in {"not_run", "threw"},
           s \in {"not_found", "bad_request", "server_error"},
           b \in {gbody, "partial"} : finish(how, s, b)
    BY <1>5
  <2>1. ran' = ran \/ ran' = ran \cup {site}
    BY <1>5 DEF execute_route
  <2>2. s \in Status \ {"unknown", "ok", "unset"}
    BY DEF Status
  <2> QED
    BY <1>1, <2>1, <2>2, FinishIInv
<1> QED
  BY <1>2, <1>3, <1>4, <1>5 DEF execute_route

\* What is not a std::exception leaves http_service::execute as well.
LEMMA ExecuteOtherIInv == ASSUME IInv, execute_route_other PROVE IInv'
BY RaiseIInv DEF execute_route_other, IInv, TypeOK, Sites

\* The status that a function has left to its memory becomes 200 only if it
\* happens to be 0, and a status that was refused stays.
LEMMA StatusIInv ==
  ASSUME IInv, default_status \/ make_response \/ serialise PROVE IInv'
<1>1. CASE default_status
  <2> PICK s \in IF gstatus = "unset" THEN Garbage ELSE {gstatus} :
             gstatus' = IF s = "unknown" THEN "ok" ELSE s
    BY <1>1 DEF default_status
  <2>1. gstatus' \in Status /\ (gstatus' = "ok" => gstatus \in {"ok", "unset"})
    BY <1>1, ServiceAssumption
       DEF default_status, Status, Uninitialised, IInv, TypeOK, StatusInv
  <2> QED
    BY <1>1, <2>1 DEF default_status, IInv, TypeOK, SiteInv, Named, Executing, StatusInv,
                      KnownTerminations
<1>2. CASE make_response
  BY <1>2 DEF make_response, IInv, TypeOK, SiteInv, Named, Executing, StatusInv,
              KnownTerminations
<1>3. CASE serialise
  BY <1>3 DEF serialise, goto, IInv, TypeOK, SiteInv, Named, Executing, StatusInv,
              KnownTerminations
<1> QED
  BY <1>1, <1>2, <1>3

\* Every step of a request keeps the invariant.
LEMMA NextIInv == ASSUME IInv, [Next]_vars PROVE IInv'
<1>1. CASE Next
  BY <1>1, ParseIInv, FindIInv, IdentifyIInv, CreateIInv, ExecuteIInv, ExecuteOtherIInv,
     StatusIInv DEF Next, Step
<1>2. CASE UNCHANGED vars
  BY <1>2 DEF vars, IInv, TypeOK, SiteInv, Named, Executing, StatusInv, KnownTerminations
<1> QED
  BY <1>1, <1>2

\* The invariant holds on every path of every request.
THEOREM ServiceInvariance == Spec => []IInv
BY InitIInv, NextIInv, PTL DEF Spec

\* http_worker::handle_request runs a site's code only for a well-formed
\* HTTP/1.1 request that names this site in its Request-URI or its Host header.
THEOREM ResourcesRunForTheirHost == Spec => []ResourceRunsForItsHost
<1>1. IInv => ResourceRunsForItsHost
  BY DEF IInv, SiteInv, Named, ResourceRunsForItsHost
<1> QED
  BY <1>1, ServiceInvariance, PTL

\* http_service::execute says 200 only of a resource that was found and came to
\* its end, although 200 is also what an unassigned status becomes.
THEOREM SuccessIsEarned == Spec => []SuccessMeansExecuted
<1>1. IInv => SuccessMeansExecuted
  BY DEF IInv, StatusInv, SuccessMeansExecuted
<1> QED
  BY <1>1, ServiceInvariance, PTL

\* Whatever the lookup of the website, the resources and the sites' code throw,
\* the process ends only for a status without a phrase or, before any site has
\* run, in the noexcept parser and the two noexcept create_handle.
THEOREM OnlyKnownTerminations == Spec => []KnownTerminations
<1>1. IInv => KnownTerminations
  BY DEF IInv
<1> QED
  BY <1>1, ServiceInvariance, PTL

-----------------------------------------------------------------------------
(* RequestParser: the lines behind the request line.                       *)

\* What of a field is stored, and the fields among the first n lines that are
\* stored unless one of their name has been.
EntryOf(line) ==
  [map |-> MapOf(line.name), name |-> line.name, value |-> Tail(NoCR(line.rest))]
FieldLines(n) == {i \in 1..n : input[i].kind = "field" /\ ~ HitsAssert(input[i].name)}
FirstFields(n) == {i \in FieldLines(n) :
                     \A j \in FieldLines(i - 1) : input[j].name # input[i].name}

\* The loop has stored the fields of the lines it has read, and it has not
\* passed an empty line.
ParserInv ==
  /\ input \in Seq(Lines)
  /\ at \in 0..Len(input)
  /\ stage \in {"request_line", "headers", "done", "dead"}
  /\ stage = "request_line" => at = 0 /\ header = {}
  /\ stage \in {"request_line", "headers", "dead"} => result = "none"
  /\ stage = "headers" =>
       /\ header = {EntryOf(input[i]) : i \in FirstFields(at)}
       /\ \A i \in 1..at : input[i].kind # "empty"
       /\ \A i \in FieldLines(at) : \E e \in header :
            e.map = MapOf(input[i].name) /\ e.name = input[i].name
       /\ \A i \in FieldLines(at) : NoCR(input[i].rest) # <<>>

\* What the lines behind the request line of a parsed request become.
ParsedLines == HeadersAreTheSection /\ BodyDelivered

ParserIInv == ParserInv /\ ParsedLines

LEMMA ParserInitIInv == ParserInit => ParserIInv
<1> SUFFICES ASSUME ParserInit PROVE ParserIInv
  OBVIOUS
<1>1. input \in Seq(Lines) /\ 0 \in 0..Len(input)
  BY DEF ParserInit
<1> QED
  BY <1>1 DEF ParserInit, ParserIInv, ParserInv, ParsedLines, HeadersAreTheSection, BodyDelivered

\* The request line decides nothing about the other lines.
LEMMA RequestLineKeeps == ParserIInv /\ parse_request_line => ParserIInv'
<1> SUFFICES ASSUME ParserIInv, parse_request_line PROVE ParserIInv'
  OBVIOUS
<1>1. UNCHANGED <<input, at, header, body>> /\ stage = "request_line" /\ at = 0 /\ header = {}
  BY DEF parse_request_line, ParserIInv, ParserInv
<1>2. \/ stage' = "headers" /\ result' = "none"
      \/ stage' = "done" /\ result' = "invalid_request_line"
  BY DEF parse_request_line, ParserIInv, ParserInv
<1>3. FirstFields(at)' = {} /\ FieldLines(at)' = {} /\ (1..at)' = {}
  BY <1>1 DEF FirstFields, FieldLines
<1> QED
  BY <1>1, <1>2, <1>3
     DEF ParserIInv, ParserInv, ParsedLines, HeadersAreTheSection, BodyDelivered

\* A line that is no field is skipped; a field is stored unless one of its
\* name has been.
LEMMA HeaderKeeps == ParserIInv /\ parse_header => ParserIInv'
<1> SUFFICES ASSUME ParserIInv, parse_header PROVE ParserIInv'
  OBVIOUS
<1> DEFINE line == input[at + 1]
<1>1. /\ input \in Seq(Lines) /\ at \in Nat /\ at < Len(input) /\ Len(input) \in Nat
      /\ stage = "headers" /\ result = "none"
      /\ header = {EntryOf(input[i]) : i \in FirstFields(at)}
      /\ \A i \in 1..at : input[i].kind # "empty"
      /\ \A i \in FieldLines(at) : \E e \in header :
            e.map = MapOf(input[i].name) /\ e.name = input[i].name
      /\ \A i \in FieldLines(at) : NoCR(input[i].rest) # <<>>
  BY DEF parse_header, Reading, ParserIInv, ParserInv
<1>2. /\ input' = input /\ at' = at + 1 /\ result' = result /\ body' = body
      /\ stage' \in {"headers", "dead"}
      /\ line.kind # "empty"
  BY <1>1 DEF parse_header
<1>3. ParsedLines'
  BY <1>1, <1>2 DEF ParsedLines, HeadersAreTheSection, BodyDelivered
<1>4. CASE stage' = "dead"
  BY <1>1, <1>2, <1>3, <1>4 DEF ParserIInv, ParserInv
<1>5. CASE stage' = "headers"
  <2>0. CASE line.kind # "field" \/ HitsAssert(line.name)
    <3>1. FieldLines(at + 1) = FieldLines(at)
      BY <1>1, <2>0 DEF FieldLines
    <3>2. header' = header
      BY <1>2, <1>5, <2>0 DEF parse_header
    <3>3. FieldLines(at)' = FieldLines(at) /\ FirstFields(at)' = FirstFields(at)
      BY <1>2, <3>1 DEF FirstFields, FieldLines
    <3>4. \A i \in 1..(at + 1) : input[i].kind # "empty"
      BY <1>1, <1>2
    <3> QED
      BY <1>1, <1>2, <1>3, <1>5, <3>2, <3>3, <3>4 DEF ParserIInv, ParserInv
  <2>f. CASE line.kind = "field" /\ ~ HitsAssert(line.name)
    <3>0. /\ FieldLines(at + 1) = FieldLines(at) \cup {at + 1}
          /\ FieldLines((at + 1) - 1) = FieldLines(at)
      BY <1>1, <2>f DEF FieldLines
    <3>1. /\ header' = stored(MapOf(line.name), line.name, Tail(NoCR(line.rest)))
          /\ NoCR(line.rest) # <<>>
      BY <1>2, <1>5, <2>f DEF parse_header
    <3>2. header \subseteq header'
      BY <3>1 DEF stored
    <3>3. header' = {EntryOf(input[i]) : i \in FirstFields(at + 1)}
      <4>2. CASE \E j \in FieldLines(at) : input[j].name = line.name
        <5>1. FirstFields(at + 1) = FirstFields(at)
          BY <1>1, <3>0, <4>2 DEF FirstFields
        <5>2. header' = header
          BY <1>1, <3>1, <4>2 DEF stored
        <5> QED
          BY <1>1, <5>1, <5>2
      <4>3. CASE \A j \in FieldLines(at) : input[j].name # line.name
        <5>1. FirstFields(at + 1) = FirstFields(at) \cup {at + 1}
          BY <1>1, <3>0, <4>3 DEF FirstFields
        <5>2. \A e \in header : e.name # line.name
          BY <1>1, <4>3 DEF EntryOf, FirstFields
        <5>3. header' = header \cup {EntryOf(line)}
          BY <3>1, <5>2 DEF stored, EntryOf
        <5> QED
          BY <1>1, <5>1, <5>3
      <4> QED
        BY <4>2, <4>3
    <3>4. \A i \in 1..(at + 1) : input[i].kind # "empty"
      BY <1>1, <1>2
    <3>5. \A i \in FieldLines(at + 1) : \E e \in header' :
              e.map = MapOf(input[i].name) /\ e.name = input[i].name
      <4> TAKE i \in FieldLines(at + 1)
      <4>1. CASE i \in FieldLines(at)
        BY <1>1, <3>2, <4>1
      <4>2. CASE i = at + 1
        <5>1. CASE \E e \in header : e.map = MapOf(line.name) /\ e.name = line.name
          BY <3>2, <4>2, <5>1
        <5>2. CASE ~ \E e \in header : e.map = MapOf(line.name) /\ e.name = line.name
          <6>1. EntryOf(line) \in header'
            BY <3>1, <5>2 DEF stored, EntryOf
          <6> QED
            BY <4>2, <6>1 DEF EntryOf
        <5> QED
          BY <5>1, <5>2
      <4> QED
        BY <3>0, <4>1, <4>2
    <3>6. \A i \in FieldLines(at + 1) : NoCR(input[i].rest) # <<>>
      BY <1>1, <3>0, <3>1
    <3>7. (/\ header = {EntryOf(input[i]) : i \in FirstFields(at)}
           /\ \A i \in 1..at : input[i].kind # "empty"
           /\ \A i \in FieldLines(at) : \E e \in header :
                e.map = MapOf(input[i].name) /\ e.name = input[i].name
           /\ \A i \in FieldLines(at) : NoCR(input[i].rest) # <<>>)'
      BY <1>2, <3>3, <3>4, <3>5, <3>6 DEF FirstFields, FieldLines
    <3> QED
      BY <1>1, <1>2, <1>3, <1>5, <3>7 DEF ParserIInv, ParserInv
  <2> QED
    BY <2>0, <2>f
<1> QED
  BY <1>2, <1>4, <1>5

\* A field's value without the space it begins with.
LEMMA SpacedValue ==
  ASSUME NEW rest \in Seq(Text), NoCR(rest) # <<>>, NoCR(rest)[1] = "SP"
  PROVE  NoCR(rest) = <<"SP">> \o Tail(NoCR(rest))
<1> DEFINE v == NoCR(rest)
<1>1. v \in Seq(Text)
  <2>1. CASE rest = <<>>
    BY <2>1 DEF NoCR
  <2>2. CASE rest # <<>>
    <3>1. Front(rest) \in Seq(Text)
      BY <2>2 DEF Front
    <3> QED
      BY <3>1 DEF NoCR
  <2> QED
    BY <2>1, <2>2
<1> HIDE DEF v
<1>2. v # <<>> => v = <<v[1]>> \o Tail(v)
  BY <1>1
<1> QED
  BY <1>2 DEF v

\* The loop ends at the first empty line, or behind the last line.
LEMMA BodyKeeps == ParserIInv /\ parse_body => ParserIInv'
<1> SUFFICES ASSUME ParserIInv, parse_body PROVE ParserIInv'
  OBVIOUS
<1>1. /\ input \in Seq(Lines) /\ at \in Nat /\ at <= Len(input) /\ Len(input) \in Nat
      /\ header = {EntryOf(input[i]) : i \in FirstFields(at)}
      /\ \A i \in 1..at : input[i].kind # "empty"
      /\ \A i \in FieldLines(at) : NoCR(input[i].rest) # <<>>
  BY DEF parse_body, ParserIInv, ParserInv
<1>2. /\ UNCHANGED <<input, at, header>> /\ stage' = "done" /\ result' = "success"
      /\ \/ /\ at < Len(input) /\ input[at + 1].kind = "empty"
            /\ body' = SubSeq(input, at + 2, Len(input))
         \/ /\ at = Len(input)
            /\ body' = <<>>
  BY DEF parse_body, Reading
<1>3. at < Len(input) => at + 1 \in DOMAIN input /\ input[at + 1].kind = "empty"
  BY <1>1, <1>2
<1>4. BodyDelivered'
  <2>1. ASSUME NEW i \in DOMAIN input, FirstBlank(i), input[i].kind = "empty"
        PROVE  body' = SubSeq(input, i + 1, Len(input))
    <3>1. i \in Nat /\ 1 <= i /\ i <= Len(input) /\ at < i
      BY <1>1, <2>1
    <3>2. at < Len(input) /\ ~ (at + 1 < i)
      BY <1>1, <1>3, <2>1, <3>1 DEF FirstBlank, Blank
    <3>3. i = at + 1
      BY <1>1, <3>1, <3>2
    <3> QED
      BY <1>1, <1>2, <3>2, <3>3
  <2>2. (\A i \in DOMAIN input : input[i].kind # "empty") => body' = <<>>
    BY <1>1, <1>2, <1>3
  <2>3. \A i : FirstBlank(i)' <=> FirstBlank(i)
    BY <1>2 DEF FirstBlank, Blank
  <2> QED
    BY <1>2, <2>1, <2>2, <2>3 DEF BodyDelivered
<1>5. HeadersAreTheSection'
  <2>1. \A i \in DOMAIN input : InSection(i) => i \in 1..at
    <3> SUFFICES ASSUME NEW i \in DOMAIN input, InSection(i), ~ (i \in 1..at) PROVE FALSE
      OBVIOUS
    <3>1. i \in Nat /\ 1 <= i /\ i <= Len(input) /\ at < i
      BY <1>1
    <3>2. at + 1 \in 1..i /\ Blank(input[at + 1])
      BY <1>1, <1>3, <3>1 DEF Blank
    <3> QED
      BY <3>2 DEF InSection
  <2>2. ASSUME NEW i \in DOMAIN input, FirstOfName(i), ~ HitsAssert(input[i].name)
        PROVE  Kept(i) /\ (Spaced(i) => ValueKept(i))
    <3>1. i \in FieldLines(at) /\ input[i].kind = "field"
      BY <2>1, <2>2 DEF FirstOfName, FieldLines
    <3>2. i \in FirstFields(at)
      BY <1>1, <2>2, <3>1 DEF FirstOfName, FirstFields, FieldLines
    <3>3. EntryOf(input[i]) \in header
      BY <1>1, <3>2
    <3>4. MapOf(input[i].name) = ListOf(input[i].name)
      <4>1. input[i] \in Line
        BY <1>1, ParserAssumption
      <4>2. input[i].name \in Fields
        BY <3>1, <4>1 DEF Line
      <4> QED
        BY <4>2 DEF MapOf, ListOf, Fields, Maps
    <3>5. Kept(i)
      BY <3>3, <3>4 DEF Kept, EntryOf
    <3>6. ASSUME Spaced(i) PROVE ValueKept(i)
      <4>1. input[i] \in Line
        BY <1>1, ParserAssumption
      <4>2. input[i].rest \in Seq(Text)
        BY <3>1, <4>1 DEF Line
      <4>3. NoCR(input[i].rest) = <<"SP">> \o Tail(NoCR(input[i].rest))
        BY <3>6, <4>2, SpacedValue DEF Spaced
      <4> QED
        BY <3>3, <4>3 DEF ValueKept, EntryOf
    <3> QED
      BY <3>5, <3>6
  <2>3. ASSUME NEW e \in header, NEW f \in header, e.name = f.name PROVE e = f
    <3>1. PICK i \in FirstFields(at) : e = EntryOf(input[i])
      BY <1>1
    <3>2. PICK j \in FirstFields(at) : f = EntryOf(input[j])
      BY <1>1
    <3>3. input[i].name = input[j].name /\ i \in Nat /\ j \in Nat
      BY <1>1, <2>3, <3>1, <3>2 DEF EntryOf, FirstFields, FieldLines
    <3>4. ~ (i < j) /\ ~ (j < i)
      BY <1>1, <3>3 DEF FirstFields, FieldLines
    <3> QED
      BY <3>1, <3>2, <3>3, <3>4
  <2>4. ASSUME NEW e \in header
        PROVE  \E i \in DOMAIN input :
                 /\ input[i].kind = "field" /\ input[i].name = e.name
                 /\ \A j \in 1..i : input[j].kind # "empty"
    <3>1. PICK i \in FirstFields(at) : e = EntryOf(input[i])
      BY <1>1
    <3>2. i \in 1..at /\ input[i].kind = "field" /\ input[i].name = e.name
      BY <3>1 DEF FirstFields, FieldLines, EntryOf
    <3> QED
      BY <1>1, <3>2
  <2>5. /\ \A i : FirstOfName(i)' <=> FirstOfName(i)
        /\ \A i : Kept(i)' <=> Kept(i)
        /\ \A i : ValueKept(i)' <=> ValueKept(i)
        /\ \A i : Spaced(i)' <=> Spaced(i)
    BY <1>2 DEF FirstOfName, InSection, Blank, Kept, ValueKept, Spaced
  <2> QED
    BY <1>2, <2>2, <2>3, <2>4, <2>5 DEF HeadersAreTheSection
<1>6. ParserInv'
  BY <1>1, <1>2 DEF ParserInv
<1> QED
  BY <1>4, <1>5, <1>6 DEF ParserIInv, ParsedLines

LEMMA ParserNextIInv == ParserIInv /\ [ParserNext]_parser_vars => ParserIInv'
<1>1. ParserIInv /\ UNCHANGED parser_vars => ParserIInv'
  <2> SUFFICES ASSUME ParserIInv, UNCHANGED parser_vars PROVE ParserIInv'
    OBVIOUS
  <2>1. UNCHANGED <<input, at, stage, header, body, result>>
    BY DEF parser_vars
  <2>2. ParserInv'
    BY <2>1 DEF ParserIInv, ParserInv, FirstFields, FieldLines
  <2>3. \A i : FirstBlank(i)' <=> FirstBlank(i)
    BY <2>1 DEF FirstBlank, Blank
  <2>4. /\ \A i : FirstOfName(i)' <=> FirstOfName(i)
        /\ \A i : Kept(i)' <=> Kept(i)
        /\ \A i : ValueKept(i)' <=> ValueKept(i)
        /\ \A i : Spaced(i)' <=> Spaced(i)
    BY <2>1 DEF FirstOfName, InSection, Blank, Kept, ValueKept, Spaced
  <2>5. BodyDelivered'
    BY <2>1, <2>3 DEF ParserIInv, ParsedLines, BodyDelivered
  <2>6. HeadersAreTheSection'
    BY <2>1, <2>4 DEF ParserIInv, ParsedLines, HeadersAreTheSection
  <2> QED
    BY <2>2, <2>5, <2>6 DEF ParserIInv, ParsedLines
<1> QED
  BY <1>1, RequestLineKeeps, HeaderKeeps, BodyKeeps DEF ParserNext

\* Of a request of any length, with lines that end in LF, in CRLF or in either,
\* every field of the header section but a dropped one is in the map of its list
\* in http_request, with its first value if "Name: " stands before it; no name
\* is there twice, and nothing comes from behind an empty line.
THEOREM HeadersAreRead == ParserSpec => []HeadersAreTheSection
<1>1. ParserIInv => HeadersAreTheSection
  BY DEF ParserIInv, ParsedLines
<1> QED
  BY <1>1, ParserInitIInv, ParserNextIInv, PTL DEF ParserSpec

\* Of a request of any length, message_body is what follows an empty line that
\* ends the header section; if no line is empty, as in a CRLF request whose body
\* has no empty line, message_body is empty, whatever follows the "\r".
THEOREM BodiesAreRead == ParserSpec => []BodyDelivered
<1>1. ParserIInv => BodyDelivered
  BY DEF ParserIInv, ParsedLines
<1> QED
  BY <1>1, ParserInitIInv, ParserNextIInv, PTL DEF ParserSpec

-----------------------------------------------------------------------------
(* Induction over the natural numbers, with a set in place of a predicate. *)

LEMMA Induction ==
  ASSUME NEW S, 0 \in S, \A n \in Nat : n \in S => n + 1 \in S
  PROVE  Nat \subseteq S
<1> DEFINE T == Nat \ S
<1> SUFFICES ASSUME T # {} PROVE FALSE
  OBVIOUS
<1>1. \E n \in T : \A m \in T : ~ (<<m, n>> \in OpToRel(<, Nat))
  BY WFMin, NatLessThanWellFounded, T \subseteq Nat
<1>2. PICK n \in T : \A m \in T : ~ (m < n)
  BY <1>1 DEF OpToRel
<1>3. n # 0 /\ n - 1 \in Nat /\ n - 1 < n
  BY <1>2
<1>4. n - 1 \in S
  BY <1>2, <1>3
<1>5. (n - 1) + 1 \in S
  BY <1>3, <1>4
<1> QED
  BY <1>2, <1>5

-----------------------------------------------------------------------------
(* The words of a line.                                                    *)

Separator == {"SP", "CR"}

\* What the symbol at n makes of the words before it.
Word(line, n, ws) ==
  IF line[n] \in Separator THEN Append(ws, <<>>)
  ELSE [ws EXCEPT ![Len(ws)] = Append(ws[Len(ws)], line[n])]

LEMMA Pieces ==
  ASSUME NEW line \in Seq(Symbol)
  PROVE  /\ pieces(line)[0] = << <<>> >>
         /\ \A n \in 0..(Len(line) - 1) :
              pieces(line)[n + 1] = Word(line, n + 1, pieces(line)[n])
<1> DEFINE Body(f, n) == [k \in 0..n |-> IF k = 0 THEN << <<>> >> ELSE Word(line, k, f[k - 1])]
           S == {n \in Nat : \E f : f = Body(f, n)}
<1>1. 0 \in S
  <2> DEFINE f == [k \in 0..0 |-> << <<>> >>]
  <2>1. f = Body(f, 0)
    OBVIOUS
  <2> QED
    BY <2>1
<1>2. ASSUME NEW n \in Nat, n \in S PROVE n + 1 \in S
  <2>1. PICK f : f = Body(f, n)
    BY <1>2
  <2> DEFINE g == [k \in 0..(n + 1) |-> IF k = n + 1 THEN Word(line, n + 1, f[n]) ELSE f[k]]
  <2>2. ASSUME NEW k \in 0..(n + 1)
        PROVE  g[k] = IF k = 0 THEN << <<>> >> ELSE Word(line, k, g[k - 1])
    <3>1. CASE k = n + 1
      <4>1. g[k] = Word(line, n + 1, f[n]) /\ g[n] = f[n]
        BY <3>1
      <4> HIDE DEF g
      <4> QED
        BY <3>1, <4>1
    <3>2. CASE k # n + 1
      <4>1. k \in 0..n /\ g[k] = f[k] /\ (k # 0 => g[k - 1] = f[k - 1])
        BY <3>2
      <4>2. f[k] = IF k = 0 THEN << <<>> >> ELSE Word(line, k, f[k - 1])
        BY <2>1, <4>1
      <4> HIDE DEF g
      <4> QED
        BY <4>1, <4>2
    <3> QED
      BY <3>1, <3>2
  <2>3. g = [k \in 0..(n + 1) |-> g[k]]
    OBVIOUS
  <2> HIDE DEF g
  <2>4. g = Body(g, n + 1)
    BY <2>2, <2>3
  <2> QED
    BY <2>4
<1>3. Nat \subseteq S
  <2> HIDE DEF S
  <2> QED
    BY <1>1, <1>2, Induction
<1>4. Len(line) \in Nat
  OBVIOUS
<1>5. \E f : f = Body(f, Len(line))
  BY <1>3, <1>4
<1>6. pieces(line) = CHOOSE f : f = Body(f, Len(line))
  BY DEF pieces, Word, Separator
<1>7. pieces(line) = Body(pieces(line), Len(line))
  BY <1>5, <1>6
<1> HIDE DEF Body
<1>8. \A n \in 0..Len(line) :
        pieces(line)[n] = IF n = 0 THEN << <<>> >> ELSE Word(line, n, pieces(line)[n - 1])
  BY <1>7 DEF Body
<1> QED
  BY <1>4, <1>8

Separators(line, n) == {i \in 1..n : line[i] \in Separator}

\* The words of the first n symbols, by the separators among them.
OneWord(line, n, ws) ==
  /\ Separators(line, n) = {}
  /\ ws = <<SubSeq(line, 1, n)>>

TwoWords(line, n, ws, a) ==
  /\ Separators(line, n) = {a}
  /\ ws = <<SubSeq(line, 1, a - 1), SubSeq(line, a + 1, n)>>

ThreeWords(line, n, ws, a, b) ==
  /\ Separators(line, n) = {a, b} /\ a < b
  /\ ws = <<SubSeq(line, 1, a - 1), SubSeq(line, a + 1, b - 1), SubSeq(line, b + 1, n)>>

FourWords(line, n, ws, a, b, c) ==
  /\ Separators(line, n) = {a, b, c} /\ a < b /\ b < c
  /\ ws = <<SubSeq(line, 1, a - 1), SubSeq(line, a + 1, b - 1), SubSeq(line, b + 1, c - 1),
            SubSeq(line, c + 1, n)>>

MoreWords(line, n, ws, a, b, c, d) ==
  /\ {a, b, c, d} \subseteq Separators(line, n) /\ a < b /\ b < c /\ c < d
  /\ ws \in Seq(Seq(Symbol)) /\ Len(ws) > 4

Shape(line, n, ws) ==
  \/ OneWord(line, n, ws)
  \/ \E a \in 1..n : TwoWords(line, n, ws, a)
  \/ \E a, b \in 1..n : ThreeWords(line, n, ws, a, b)
  \/ \E a, b, c \in 1..n : FourWords(line, n, ws, a, b, c)
  \/ \E a, b, c, d \in 1..n : MoreWords(line, n, ws, a, b, c, d)

LEMMA LongerWord ==
  ASSUME NEW line \in Seq(Symbol), NEW n \in 0..(Len(line) - 1), NEW k \in 1..(n + 1)
  PROVE  SubSeq(line, k, n + 1) = Append(SubSeq(line, k, n), line[n + 1])
<1>1. n + 1 \in 1..Len(line) /\ k \in 1..Len(line) /\ n + 1 \in k..Len(line)
  OBVIOUS
<1>2. SubSeq(line, k, n + 1) = SubSeq(line, k, (n + 1) - 1) \o <<line[n + 1]>>
  BY <1>1, SubSeqRecursiveSecond
<1>3. SubSeq(line, k, n) \in Seq(Symbol)
  BY <1>1
<1> QED
  BY <1>1, <1>2, <1>3

\* What the two cases do to sequences of a few words.
LEMMA Appends ==
  ASSUME NEW w, NEW x, NEW y, NEW z
  PROVE  /\ Append(<<x>>, w) = <<x, w>>
         /\ Append(<<x, y>>, w) = <<x, y, w>>
         /\ Append(<<x, y, z>>, w) = <<x, y, z, w>>
<1> DEFINE S == {w, x, y, z}
<1>1. /\ <<x>> \in Seq(S) /\ <<x, y>> \in Seq(S) /\ <<x, y, z>> \in Seq(S) /\ w \in S
      /\ <<x, w>> \in Seq(S) /\ <<x, y, w>> \in Seq(S) /\ <<x, y, z, w>> \in Seq(S)
  OBVIOUS
<1> HIDE DEF S
<1>2. /\ Append(<<x>>, w) \in Seq(S) /\ Append(<<x, y>>, w) \in Seq(S)
      /\ Append(<<x, y, z>>, w) \in Seq(S)
  BY <1>1, AppendProperties
<1>3. Append(<<x>>, w) = <<x, w>>
  <2> DEFINE s == Append(<<x>>, w)
             t == <<x, w>>
  <2>1. s \in Seq(S) /\ Len(s) = 2 /\ s[1] = x /\ s[2] = w
    BY <1>1, <1>2, AppendProperties
  <2>2. t \in Seq(S) /\ Len(t) = 2 /\ t[1] = x /\ t[2] = w
    BY <1>1
  <2> HIDE DEF s, t
  <2>3. \A i \in 1..2 : s[i] = t[i]
    BY <2>1, <2>2
  <2>4. s = t
    BY <2>1, <2>2, <2>3, SeqEqual
  <2> QED
    BY <2>4 DEF s, t
<1>4. Append(<<x, y>>, w) = <<x, y, w>>
  <2> DEFINE s == Append(<<x, y>>, w)
             t == <<x, y, w>>
  <2>1. s \in Seq(S) /\ Len(s) = 3 /\ s[1] = x /\ s[2] = y /\ s[3] = w
    BY <1>1, <1>2, AppendProperties
  <2>2. t \in Seq(S) /\ Len(t) = 3 /\ t[1] = x /\ t[2] = y /\ t[3] = w
    BY <1>1
  <2> HIDE DEF s, t
  <2>3. \A i \in 1..3 : s[i] = t[i]
    BY <2>1, <2>2
  <2>4. s = t
    BY <2>1, <2>2, <2>3, SeqEqual
  <2> QED
    BY <2>4 DEF s, t
<1>5. Append(<<x, y, z>>, w) = <<x, y, z, w>>
  <2> DEFINE s == Append(<<x, y, z>>, w)
             t == <<x, y, z, w>>
  <2>1. s \in Seq(S) /\ Len(s) = 4 /\ s[1] = x /\ s[2] = y /\ s[3] = z /\ s[4] = w
    BY <1>1, <1>2, AppendProperties
  <2>2. t \in Seq(S) /\ Len(t) = 4 /\ t[1] = x /\ t[2] = y /\ t[3] = z /\ t[4] = w
    BY <1>1
  <2> HIDE DEF s, t
  <2>3. \A i \in 1..4 : s[i] = t[i]
    BY <2>1, <2>2
  <2>4. s = t
    BY <2>1, <2>2, <2>3, SeqEqual
  <2> QED
    BY <2>4 DEF s, t
<1> QED
  BY <1>3, <1>4, <1>5

LEMMA LastOfFour ==
  ASSUME NEW w, NEW x, NEW y, NEW z, NEW v, NEW s, s = <<x, y, z, w>>
  PROVE  [s EXCEPT ![4] = v] = <<x, y, z, v>>
OBVIOUS

\* A separator begins a word.
LEMMA SeparatorStep ==
  ASSUME NEW line \in Seq(Symbol), NEW n \in 0..(Len(line) - 1), NEW ws, Shape(line, n, ws),
         line[n + 1] \in Separator
  PROVE  Shape(line, n + 1, Append(ws, <<>>))
<1> DEFINE next == Append(ws, <<>>)
<1>1. n \in Nat /\ Len(line) \in Nat /\ n < Len(line) /\ n + 1 \in 1..(n + 1)
  OBVIOUS
<1>2. Separators(line, n + 1) = Separators(line, n) \cup {n + 1}
  BY <1>1 DEF Separators
<1>3. SubSeq(line, (n + 1) + 1, n + 1) = <<>> /\ (n + 1) - 1 = n
  BY <1>1
<1>4. \A k \in 1..n : k \in 1..(n + 1) /\ k < n + 1
  BY <1>1
<1>5. CASE OneWord(line, n, ws)
  <2>0. next = <<SubSeq(line, 1, n), <<>> >>
    BY <1>5, Appends DEF OneWord
  <2>1. TwoWords(line, n + 1, next, n + 1)
    BY <1>2, <1>3, <1>5, <2>0 DEF OneWord, TwoWords
  <2> QED
    BY <1>1, <2>1 DEF Shape
<1>6. ASSUME NEW a \in 1..n, TwoWords(line, n, ws, a) PROVE Shape(line, n + 1, next)
  <2>1. next = <<SubSeq(line, 1, a - 1), SubSeq(line, a + 1, n), <<>> >>
    BY <1>6, Appends DEF TwoWords
  <2>2. ThreeWords(line, n + 1, next, a, n + 1)
    BY <1>2, <1>3, <1>4, <1>6, <2>1 DEF TwoWords, ThreeWords
  <2> QED
    BY <1>1, <1>4, <2>2 DEF Shape
<1>7. ASSUME NEW a \in 1..n, NEW b \in 1..n, ThreeWords(line, n, ws, a, b)
      PROVE  Shape(line, n + 1, next)
  <2>1. next = <<SubSeq(line, 1, a - 1), SubSeq(line, a + 1, b - 1), SubSeq(line, b + 1, n), <<>> >>
    BY <1>7, Appends DEF ThreeWords
  <2>2. FourWords(line, n + 1, next, a, b, n + 1)
    BY <1>2, <1>3, <1>4, <1>7, <2>1 DEF ThreeWords, FourWords
  <2> QED
    BY <1>1, <1>4, <2>2 DEF Shape
<1>8. ASSUME NEW a \in 1..n, NEW b \in 1..n, NEW c \in 1..n, FourWords(line, n, ws, a, b, c)
      PROVE  Shape(line, n + 1, next)
  <2>1. \A k, m \in 0..Len(line) : SubSeq(line, k + 1, m) \in Seq(Symbol)
    OBVIOUS
  <2>2. /\ SubSeq(line, 0 + 1, a - 1) \in Seq(Symbol) /\ SubSeq(line, a + 1, b - 1) \in Seq(Symbol)
        /\ SubSeq(line, b + 1, c - 1) \in Seq(Symbol) /\ SubSeq(line, c + 1, n) \in Seq(Symbol)
    BY <1>1, <2>1
  <2>3. ws \in Seq(Seq(Symbol)) /\ Len(ws) = 4
    BY <1>8, <2>2 DEF FourWords
  <2>4. next \in Seq(Seq(Symbol)) /\ Len(next) > 4
    <3>1. <<>> \in Seq(Symbol)
      OBVIOUS
    <3>2. Append(ws, <<>>) \in Seq(Seq(Symbol)) /\ Len(Append(ws, <<>>)) = Len(ws) + 1
      BY <2>3, <3>1, AppendProperties, ZenonT(60)
    <3> QED
      BY <2>3, <3>2
  <2>5. MoreWords(line, n + 1, next, a, b, c, n + 1)
    BY <1>2, <1>4, <1>8, <2>4 DEF FourWords, MoreWords
  <2> QED
    BY <1>1, <1>4, <2>5 DEF Shape
<1>9. ASSUME NEW a \in 1..n, NEW b \in 1..n, NEW c \in 1..n, NEW d \in 1..n,
             MoreWords(line, n, ws, a, b, c, d)
      PROVE  Shape(line, n + 1, next)
  <2>1. next \in Seq(Seq(Symbol)) /\ Len(next) > 4
    BY <1>9 DEF MoreWords
  <2>2. MoreWords(line, n + 1, next, a, b, c, d)
    BY <1>2, <1>9, <2>1 DEF MoreWords
  <2> QED
    BY <1>4, <2>2 DEF Shape
<1> QED
  BY <1>5, <1>6, <1>7, <1>8, <1>9 DEF Shape

\* Any other symbol lengthens the last word.
LEMMA SymbolStep ==
  ASSUME NEW line \in Seq(Symbol), NEW n \in 0..(Len(line) - 1), NEW ws, Shape(line, n, ws),
         line[n + 1] \notin Separator
  PROVE  Shape(line, n + 1, [ws EXCEPT ![Len(ws)] = Append(ws[Len(ws)], line[n + 1])])
<1> DEFINE next == [ws EXCEPT ![Len(ws)] = Append(ws[Len(ws)], line[n + 1])]
<1>1. n \in Nat /\ Len(line) \in Nat /\ n < Len(line)
  OBVIOUS
<1>2. Separators(line, n + 1) = Separators(line, n)
  BY <1>1 DEF Separators
<1>3. /\ SubSeq(line, 1, n + 1) = Append(SubSeq(line, 1, n), line[n + 1])
      /\ \A k \in 1..n :
           k \in 1..(n + 1)
             /\ SubSeq(line, k + 1, n + 1) = Append(SubSeq(line, k + 1, n), line[n + 1])
  BY <1>1, LongerWord
<1>4. CASE OneWord(line, n, ws)
  <2>1. next = <<Append(SubSeq(line, 1, n), line[n + 1])>>
    BY <1>4 DEF OneWord
  <2>2. OneWord(line, n + 1, next)
    BY <1>2, <1>3, <1>4, <2>1 DEF OneWord
  <2> QED
    BY <2>2 DEF Shape
<1>5. ASSUME NEW a \in 1..n, TwoWords(line, n, ws, a) PROVE Shape(line, n + 1, next)
  <2>1. next = <<SubSeq(line, 1, a - 1), Append(SubSeq(line, a + 1, n), line[n + 1])>>
    BY <1>5 DEF TwoWords
  <2>2. TwoWords(line, n + 1, next, a)
    BY <1>2, <1>3, <1>5, <2>1 DEF TwoWords
  <2> QED
    BY <1>3, <2>2 DEF Shape
<1>6. ASSUME NEW a \in 1..n, NEW b \in 1..n, ThreeWords(line, n, ws, a, b)
      PROVE  Shape(line, n + 1, next)
  <2>1. next = <<SubSeq(line, 1, a - 1), SubSeq(line, a + 1, b - 1),
                 Append(SubSeq(line, b + 1, n), line[n + 1])>>
    BY <1>6 DEF ThreeWords
  <2>2. ThreeWords(line, n + 1, next, a, b)
    BY <1>2, <1>3, <1>6, <2>1 DEF ThreeWords
  <2> QED
    BY <1>3, <2>2 DEF Shape
<1>7. ASSUME NEW a \in 1..n, NEW b \in 1..n, NEW c \in 1..n, FourWords(line, n, ws, a, b, c)
      PROVE  Shape(line, n + 1, next)
  <2>0. ws = <<SubSeq(line, 1, a - 1), SubSeq(line, a + 1, b - 1), SubSeq(line, b + 1, c - 1),
               SubSeq(line, c + 1, n)>>
    BY <1>7 DEF FourWords
  <2>1. next = <<SubSeq(line, 1, a - 1), SubSeq(line, a + 1, b - 1), SubSeq(line, b + 1, c - 1),
                 Append(SubSeq(line, c + 1, n), line[n + 1])>>
    <3>1. Len(ws) = 4 /\ ws[4] = SubSeq(line, c + 1, n)
      BY <2>0
    <3>2. next = [ws EXCEPT ![4] = Append(SubSeq(line, c + 1, n), line[n + 1])]
      BY <3>1
    <3> DEFINE v == Append(SubSeq(line, c + 1, n), line[n + 1])
    <3>3. next = [ws EXCEPT ![4] = v]
      BY <3>2
    <3> HIDE DEF v, next
    <3>4. next = <<SubSeq(line, 1, a - 1), SubSeq(line, a + 1, b - 1), SubSeq(line, b + 1, c - 1), v>>
      BY <2>0, <3>3, LastOfFour
    <3> QED
      BY <3>4 DEF v
  <2>2. FourWords(line, n + 1, next, a, b, c)
    BY <1>2, <1>3, <1>7, <2>1 DEF FourWords
  <2> QED
    BY <1>3, <2>2 DEF Shape
<1>8. ASSUME NEW a \in 1..n, NEW b \in 1..n, NEW c \in 1..n, NEW d \in 1..n,
             MoreWords(line, n, ws, a, b, c, d)
      PROVE  Shape(line, n + 1, next)
  <2>1. ws[Len(ws)] \in Seq(Symbol) /\ line[n + 1] \in Symbol /\ Len(ws) \in 1..Len(ws)
    BY <1>1, <1>8 DEF MoreWords
  <2>2. Append(ws[Len(ws)], line[n + 1]) \in Seq(Symbol)
    BY <2>1
  <2>3. next \in Seq(Seq(Symbol)) /\ Len(next) = Len(ws)
    BY <1>8, <2>1, <2>2, ExceptSeq DEF MoreWords
  <2>4. MoreWords(line, n + 1, next, a, b, c, d)
    BY <1>2, <1>8, <2>3 DEF MoreWords
  <2> QED
    BY <1>3, <2>4 DEF Shape
<1> QED
  BY <1>4, <1>5, <1>6, <1>7, <1>8 DEF Shape

LEMMA WordsShape ==
  ASSUME NEW line \in Seq(Symbol)
  PROVE  Shape(line, Len(line), pieces(line)[Len(line)])
<1> DEFINE S == {n \in Nat : n <= Len(line) => Shape(line, n, pieces(line)[n])}
<1>1. 0 \in S
  <2>1. Separators(line, 0) = {} /\ SubSeq(line, 1, 0) = <<>>
    BY DEF Separators
  <2> QED
    BY <2>1, Pieces DEF Shape, OneWord
<1>2. ASSUME NEW n \in Nat, n \in S PROVE n + 1 \in S
  <2> SUFFICES ASSUME n + 1 <= Len(line) PROVE Shape(line, n + 1, pieces(line)[n + 1])
    OBVIOUS
  <2>1. n \in 0..(Len(line) - 1)
    OBVIOUS
  <2>2. Shape(line, n, pieces(line)[n])
    BY <1>2, <2>1
  <2>3. pieces(line)[n + 1] = Word(line, n + 1, pieces(line)[n])
    BY <2>1, Pieces
  <2>4. CASE line[n + 1] \in Separator
    <3>1. pieces(line)[n + 1] = Append(pieces(line)[n], <<>>)
      BY <2>3, <2>4 DEF Word
    <3> QED
      BY <2>1, <2>2, <2>4, <3>1, SeparatorStep
  <2>5. CASE line[n + 1] \notin Separator
    <3> DEFINE ws == pieces(line)[n]
    <3>1. pieces(line)[n + 1] = [ws EXCEPT ![Len(ws)] = Append(ws[Len(ws)], line[n + 1])]
      BY <2>3, <2>5 DEF Word
    <3>2. Shape(line, n, ws)
      BY <2>2
    <3> HIDE DEF ws
    <3>3. Shape(line, n + 1, [ws EXCEPT ![Len(ws)] = Append(ws[Len(ws)], line[n + 1])])
      BY <2>1, <2>5, <3>2, SymbolStep
    <3> QED
      BY <3>1, <3>3
  <2> QED
    BY <2>4, <2>5
<1> HIDE DEF S
<1>3. Nat \subseteq S
  BY <1>1, <1>2, Induction
<1>4. Len(line) \in S
  BY <1>3
<1> QED
  BY <1>4 DEF S

-----------------------------------------------------------------------------
(* The request line.                                                       *)

Joined(u) == Method \o <<"SP">> \o u \o <<"SP">> \o Version

\* The Request-URIs that make the line a Request-Line.
Fits(line) ==
  {u \in {SubSeq(line, 3, n) : n \in 2..Len(line)} :
     Joined(u) = NoCR(line) /\ \A i \in DOMAIN u : u[i] \notin {"SP", "CR"}}

\* What follows the second space.
Versions(text) ==
  LET Space  == {i \in DOMAIN text : text[i] = "SP"}
      second == {i \in Space : \E f \in Space :
                   f < i /\ \A j \in Space : j < i => j = f}
  IN {SubSeq(text, i + 1, Len(text)) : i \in second}

LEMMA JoinedParts ==
  ASSUME NEW u \in Seq(Symbol)
  PROVE  /\ Joined(u) \in Seq(Symbol) /\ Len(Joined(u)) = Len(u) + 4
         /\ Joined(u)[1] = "GET" /\ Joined(u)[2] = "SP"
         /\ \A i \in 1..Len(u) : Joined(u)[i + 2] = u[i]
         /\ Joined(u)[Len(u) + 3] = "SP" /\ Joined(u)[Len(u) + 4] = "HTTP/1.1"
<1> DEFINE q == Append(Method, "SP")
           r == q \o u
           t == Append(r, "SP")
<1>1. /\ Method \in Seq(Symbol) /\ Method[1] = "GET" /\ Len(Method) = 1
      /\ Version \in Seq(Symbol) /\ "SP" \in Symbol /\ "HTTP/1.1" \in Symbol
  BY DEF Symbol, Method, Version
<1>2. q \in Seq(Symbol) /\ Len(q) = 2 /\ q[1] = "GET" /\ q[2] = "SP"
  <2>1. /\ q \in Seq(Symbol) /\ Len(q) = Len(Method) + 1 /\ q[Len(Method) + 1] = "SP"
        /\ \A i \in 1..Len(Method) : q[i] = Method[i]
    <3>1. Method \in Seq(Symbol) /\ "SP" \in Symbol
      BY <1>1
    <3> QED
      BY <3>1, AppendProperties
  <2> HIDE DEF q
  <2> QED
    BY <1>1, <2>1
<1>3. Method \o <<"SP">> = q
  BY <1>1, AppendIsConcat
<1> HIDE DEF q
<1>4. /\ r \in Seq(Symbol) /\ Len(r) = 2 + Len(u)
      /\ \A i \in 1..Len(r) : r[i] = IF i <= 2 THEN q[i] ELSE u[i - 2]
  <2>1. /\ r \in Seq(Symbol) /\ Len(r) = Len(q) + Len(u)
        /\ \A i \in 1..(Len(q) + Len(u)) : r[i] = IF i <= Len(q) THEN q[i] ELSE u[i - Len(q)]
    BY <1>2, ConcatProperties
  <2> HIDE DEF r
  <2> QED
    BY <1>2, <2>1
<1> HIDE DEF r
<1>5. /\ t \in Seq(Symbol) /\ Len(t) = Len(r) + 1 /\ t[Len(r) + 1] = "SP"
      /\ \A i \in 1..Len(r) : t[i] = r[i]
  BY <1>1, <1>4, AppendProperties
<1>6. r \o <<"SP">> = t
  BY <1>1, <1>4, AppendIsConcat
<1> HIDE DEF t
<1> DEFINE j == Append(t, "HTTP/1.1")
<1>7. /\ j \in Seq(Symbol) /\ Len(j) = Len(t) + 1 /\ j[Len(t) + 1] = "HTTP/1.1"
      /\ \A i \in 1..Len(t) : j[i] = t[i]
  BY <1>1, <1>5, AppendProperties
<1>8. t \o <<"HTTP/1.1">> = j
  BY <1>1, <1>5, AppendIsConcat
<1>9. Joined(u) = j
  BY <1>3, <1>6, <1>8 DEF Joined, Version, r
<1> HIDE DEF j
<1>10. Len(u) \in Nat
  OBVIOUS
<1>11. j[1] = "GET" /\ j[2] = "SP"
  <2>1. 1 \in 1..Len(t) /\ 2 \in 1..Len(t) /\ 1 \in 1..Len(r) /\ 2 \in 1..Len(r)
    BY <1>4, <1>5, <1>10
  <2> QED
    BY <1>2, <1>4, <1>5, <1>7, <2>1
<1>12. \A i \in 1..Len(u) : j[i + 2] = u[i]
  <2> TAKE i \in 1..Len(u)
  <2>1. i + 2 \in 1..Len(r) /\ i + 2 \in 1..Len(t) /\ ~ (i + 2 <= 2) /\ (i + 2) - 2 = i
    BY <1>4, <1>5, <1>10
  <2> QED
    BY <1>4, <1>5, <1>7, <2>1
<1>13. j[Len(u) + 3] = "SP" /\ j[Len(u) + 4] = "HTTP/1.1" /\ Len(j) = Len(u) + 4
  <2>1. Len(r) + 1 = Len(u) + 3 /\ Len(t) + 1 = Len(u) + 4 /\ Len(u) + 3 \in 1..Len(t)
    BY <1>4, <1>5, <1>10
  <2> QED
    BY <1>5, <1>7, <2>1
<1> QED
  BY <1>7, <1>9, <1>11, <1>12, <1>13

LEMMA Trimmed ==
  ASSUME NEW line \in Seq(Symbol)
  PROVE  /\ NoCR(line) \in Seq(Symbol)
         /\ \/ NoCR(line) = line /\ (line # <<>> => line[Len(line)] # "CR")
            \/ /\ line # <<>> /\ line[Len(line)] = "CR"
               /\ Len(NoCR(line)) = Len(line) - 1
               /\ \A i \in 1..(Len(line) - 1) : NoCR(line)[i] = line[i]
<1>1. line # <<>> => Len(line) \in Nat /\ Len(line) > 0
  OBVIOUS
<1>2. Front(line) \in Seq(Symbol)
  BY <1>1 DEF Front
<1>3. ASSUME line # <<>>
      PROVE  /\ Len(Front(line)) = Len(line) - 1
             /\ \A i \in 1..(Len(line) - 1) : Front(line)[i] = line[i]
  <2> DEFINE n == Len(line) - 1
  <2>1. n \in Nat /\ Len(line) = n + 1
    BY <1>1, <1>3
  <2> HIDE DEF n
  <2>2. \A i \in 1..n : line[i] \in Symbol
    BY <2>1
  <2>3. Front(line) = SubSeq(line, 1, n)
    BY <2>1 DEF Front
  <2>4. Len(SubSeq(line, 1, n)) = n /\ \A i \in 1..n : SubSeq(line, 1, n)[i] = line[i]
    BY <2>1, <2>2
  <2> QED
    BY <2>3, <2>4 DEF n
<1> QED
  BY <1>1, <1>2, <1>3 DEF NoCR, Last

LEMMA Behind ==
  ASSUME NEW text \in Seq(Symbol), NEW b \in 1..Len(text)
  PROVE  Len(text) = b + Len(SubSeq(text, b + 1, Len(text)))
<1>1. Len(text) \in Nat /\ b \in Nat
  OBVIOUS
<1> QED
  BY <1>1

\* A line with two separators, behind the second of which find() sees a
\* version, is a Request-Line.
LEMMA TwoSpaces ==
  ASSUME NEW text \in Seq(Symbol), NEW a \in 1..Len(text), NEW b \in 1..Len(text), a < b,
         Separators(text, Len(text)) = {a, b},
         SubSeq(text, 1, a - 1) = Method, Versions(text) = {Version}
  PROVE  /\ a = 2 /\ b + 1 = Len(text) /\ text[b + 1] = "HTTP/1.1"
         /\ Joined(SubSeq(text, 3, b - 1)) = text
         /\ SubSeq(text, b + 1, Len(text)) = Version
         /\ \A i \in DOMAIN SubSeq(text, 3, b - 1) :
              SubSeq(text, 3, b - 1)[i] \notin {"SP", "CR"}
<1>1. Len(text) \in Nat /\ a \in Nat /\ b \in Nat
  OBVIOUS
<1>2. a = 2 /\ text[1] = "GET"
  <2>1. a = Len(SubSeq(text, 1, a - 1)) + 1 /\ Len(Method) = 1 /\ Method[1] = "GET"
    BY <1>1 DEF Method
  <2>2. a = 2
    <3>1. a = Len(Method) + 1
      BY <2>1
    <3> QED
      BY <2>1, <3>1
  <2>3. SubSeq(text, 1, 1)[1] = text[1]
    BY <1>1, <2>2
  <2> QED
    BY <2>1, <2>2, <2>3
<1> DEFINE Space == {i \in DOMAIN text : text[i] = "SP"}
<1>3. \A i \in Space : i \in {a, b}
  BY <1>1 DEF Separators, Separator
<1>4. PICK i \in Space : /\ \E f \in Space : f < i /\ \A j \in Space : j < i => j = f
                         /\ SubSeq(text, i + 1, Len(text)) = Version
  BY DEF Versions
<1>5. i = b /\ a \in Space
  <2> PICK f \in Space : f < i /\ \A j \in Space : j < i => j = f
    BY <1>4
  <2>1. i \in {a, b} /\ f \in {a, b} /\ f < i
    BY <1>3
  <2> QED
    BY <1>1, <2>1
<1>6. text[a] = "SP" /\ text[b] = "SP"
  BY <1>4, <1>5
<1>7. b + 1 = Len(text) /\ text[b + 1] = "HTTP/1.1"
  <2>1. /\ Len(text) = b + Len(SubSeq(text, b + 1, Len(text)))
        /\ Len(Version) = 1 /\ Version[1] = "HTTP/1.1"
    BY <1>1 DEF Version
  <2>2. b + 1 = Len(text)
    BY <1>1, <1>4, <1>5, <2>1
  <2>3. SubSeq(text, b + 1, Len(text))[1] = text[b + 1]
    BY <1>1, <2>2
  <2> QED
    BY <1>4, <1>5, <2>1, <2>2, <2>3
<1> DEFINE u == SubSeq(text, 3, b - 1)
<1>8. u \in Seq(Symbol) /\ Len(u) = b - 3 /\ \A k \in 1..(b - 3) : u[k] = text[k + 2]
  BY <1>1, <1>2, <1>7
<1>12. ASSUME NEW k \in DOMAIN u PROVE u[k] \notin {"SP", "CR"}
  <2>1. k \in 1..(b - 3)
    BY <1>8
  <2>2. k + 2 \in 1..Len(text) /\ k + 2 # a /\ k + 2 # b
    BY <1>1, <1>2, <1>7, <2>1
  <2>3. text[k + 2] \notin Separator
    BY <2>2 DEF Separators
  <2> QED
    BY <1>8, <2>1, <2>3 DEF Separator
<1> HIDE DEF u
<1>9. Len(Joined(u)) = Len(text) /\ Joined(u) \in Seq(Symbol)
  BY <1>1, <1>7, <1>8, JoinedParts
<1>10. ASSUME NEW k \in 1..Len(text) PROVE Joined(u)[k] = text[k]
  <2>1. k = 1 \/ k = 2 \/ k - 2 \in 1..(b - 3) \/ k = b \/ k = b + 1
    BY <1>1, <1>7
  <2>2. CASE k - 2 \in 1..(b - 3)
    <3> DEFINE m == k - 2
    <3>1. m \in 1..(b - 3) /\ m + 2 = k
      BY <2>2
    <3> HIDE DEF m
    <3>2. m \in 1..Len(u)
      BY <1>8, <3>1
    <3>3. Joined(u)[m + 2] = u[m] /\ u[m] = text[m + 2]
      BY <1>8, <3>1, <3>2, JoinedParts
    <3> QED
      BY <3>1, <3>3
  <2>3. Joined(u)[1] = text[1] /\ Joined(u)[2] = text[2]
    BY <1>2, <1>6, <1>8, JoinedParts
  <2>4. Joined(u)[b] = text[b] /\ Joined(u)[b + 1] = text[b + 1]
    <3>1. Len(u) + 3 = b /\ Len(u) + 4 = b + 1
      BY <1>1, <1>8
    <3>2. Joined(u)[Len(u) + 3] = "SP" /\ Joined(u)[Len(u) + 4] = "HTTP/1.1"
      BY <1>8, JoinedParts
    <3> QED
      BY <1>6, <1>7, <3>1, <3>2
  <2> QED
    BY <2>1, <2>2, <2>3, <2>4
<1>11. Joined(u) = text
  BY <1>9, <1>10, SeqEqual
<1> QED
  BY <1>2, <1>4, <1>5, <1>7, <1>11, <1>12 DEF u

LEMMA SameParts ==
  ASSUME NEW line \in Seq(Symbol), NEW text \in Seq(Symbol), NEW n \in Nat,
         n <= Len(line), n <= Len(text), \A i \in 1..n : text[i] = line[i],
         NEW k \in Nat, k >= 1, NEW m \in Int, m <= n
  PROVE  SubSeq(text, k, m) = SubSeq(line, k, m)
<1>1. Len(line) \in Nat /\ Len(text) \in Nat
  OBVIOUS
<1>2. \A i \in k..m : line[i] \in Symbol /\ text[i] \in Symbol /\ text[i] = line[i]
  BY <1>1
<1>3. /\ SubSeq(text, k, m) \in Seq(Symbol) /\ SubSeq(line, k, m) \in Seq(Symbol)
      /\ Len(SubSeq(text, k, m)) = IF k <= m THEN m - k + 1 ELSE 0
      /\ Len(SubSeq(line, k, m)) = IF k <= m THEN m - k + 1 ELSE 0
      /\ \A i \in 1..(m - k + 1) : SubSeq(text, k, m)[i] = text[k + i - 1]
      /\ \A i \in 1..(m - k + 1) : SubSeq(line, k, m)[i] = line[k + i - 1]
  BY <1>2, SubSeqProperties
<1>4. Len(SubSeq(text, k, m)) = Len(SubSeq(line, k, m))
  BY <1>3
<1>5. ASSUME NEW i \in 1..Len(SubSeq(text, k, m))
      PROVE  SubSeq(text, k, m)[i] = SubSeq(line, k, m)[i]
  <2>1. k <= m /\ i \in 1..(m - k + 1)
    BY <1>3
  <2>2. k + i - 1 \in k..m
    BY <2>1
  <2> QED
    BY <1>2, <1>3, <2>1, <2>2
<1> QED
  BY <1>3, <1>4, <1>5, SeqEqual

LEMMA FirstThree ==
  ASSUME NEW w, NEW x, NEW y, NEW z
  PROVE  /\ SubSeq(<<x, y, z>>, 1, 3) = <<x, y, z>>
         /\ SubSeq(<<x, y, z, w>>, 1, 3) = <<x, y, z>>
<1> DEFINE S == {w, x, y, z}
           s == <<x, y, z>>
           t == <<x, y, z, w>>
<1>1. s \in Seq(S) /\ Len(s) = 3 /\ t \in Seq(S) /\ Len(t) = 4
  OBVIOUS
<1>2. \A i \in 1..3 : t[i] = s[i]
  OBVIOUS
<1> HIDE DEF S, s, t
<1>3. SubSeq(s, 1, 3) = s
  BY <1>1, SubSeqFull
<1>4. SubSeq(t, 1, 3) \in Seq(S) /\ 3 = Len(SubSeq(t, 1, 3))
      /\ \A i \in 1..3 : SubSeq(t, 1, 3)[i] = t[i]
  BY <1>1
<1>5. SubSeq(t, 1, 3) = s
  BY <1>1, <1>2, <1>4, SeqEqual
<1> QED
  BY <1>3, <1>5 DEF s, t

\* The words of a line that is accepted are those of a Request-Line.
LEMMA AcceptedLine ==
  ASSUME NEW line \in Seq(Symbol), extract_http_version(line) = {Version}, Accepted(split(line))
  PROVE  \E u \in Fits(line) : SubSeq(split(line), 1, 3) = <<Method, u, Version>>
<1> DEFINE N    == Len(line)
           all  == pieces(line)[N]
           ws   == split(line)
           text == NoCR(line)
<1>1. N \in Nat /\ Shape(line, N, all)
  BY WordsShape
<1>2. ws = (IF Last(all) = <<>> THEN Front(all) ELSE all) /\ 3 = Len(ws) /\ ws[1] = Method
  BY DEF split, Accepted
<1>3. /\ Versions(text) = {Version} /\ text \in Seq(Symbol)
      /\ \/ text = line /\ (line # <<>> => line[N] # "CR")
         \/ /\ line # <<>> /\ line[N] = "CR" /\ Len(text) = N - 1
            /\ \A i \in 1..(N - 1) : text[i] = line[i]
  BY Trimmed DEF extract_http_version, Versions
<1>b. Len(ws) = 3
  BY DEF Accepted
<1> HIDE DEF all, ws, text
<1>a. \/ /\ Last(all) = <<>> /\ ws = Front(all)
         /\ Len(Front(all)) <= 3 /\ Len(Front(all)) >= 3
      \/ /\ Last(all) # <<>> /\ ws = all
         /\ Len(all) <= 3 /\ Len(all) >= 3
  <2>1. Len(ws) <= 3 /\ Len(ws) >= 3
    BY <1>b
  <2>2. CASE Last(all) = <<>>
    BY <1>2, <2>1, <2>2
  <2>3. CASE Last(all) # <<>>
    BY <1>2, <2>1, <2>3
  <2> QED
    BY <2>2, <2>3
\* Two separators with words around them, up to the end of the text.
<1>4. ASSUME NEW a \in 1..Len(text), NEW b \in 1..Len(text), a < b,
             Separators(text, Len(text)) = {a, b},
             Len(text) <= N, \A i \in 1..Len(text) : text[i] = line[i],
             ws = <<SubSeq(line, 1, a - 1), SubSeq(line, a + 1, b - 1),
                    SubSeq(line, b + 1, Len(text))>>
      PROVE  \E u \in Fits(line) : SubSeq(ws, 1, 3) = <<Method, u, Version>>
  <2>1. Len(text) \in Nat
    BY <1>3
  <2>2. /\ SubSeq(text, 1, a - 1) = SubSeq(line, 1, a - 1)
        /\ SubSeq(text, a + 1, b - 1) = SubSeq(line, a + 1, b - 1)
        /\ SubSeq(text, b + 1, Len(text)) = SubSeq(line, b + 1, Len(text))
    <3>1. /\ text \in Seq(Symbol) /\ line \in Seq(Symbol) /\ Len(text) \in Nat
          /\ Len(text) <= Len(line) /\ \A i \in 1..Len(text) : text[i] = line[i]
      BY <1>3, <1>4, <2>1
    <3>2. \A k \in Nat, m \in Int :
            k >= 1 /\ m <= Len(text) => SubSeq(text, k, m) = SubSeq(line, k, m)
      BY <3>1, SameParts
    <3>3. /\ 1 \in Nat /\ a + 1 \in Nat /\ a + 1 >= 1 /\ b + 1 \in Nat /\ b + 1 >= 1
          /\ a - 1 \in Int /\ a - 1 <= Len(text) /\ b - 1 \in Int /\ b - 1 <= Len(text)
      BY <2>1
    <3> QED
      BY <2>1, <3>2, <3>3
  <2>3. SubSeq(text, 1, a - 1) = Method
    BY <1>2, <1>4, <2>2
  <2>4. /\ a = 2 /\ b + 1 = Len(text)
        /\ Joined(SubSeq(text, 3, b - 1)) = text
        /\ SubSeq(text, b + 1, Len(text)) = Version
        /\ \A i \in DOMAIN SubSeq(text, 3, b - 1) :
              SubSeq(text, 3, b - 1)[i] \notin {"SP", "CR"}
    BY <1>3, <1>4, <2>3, TwoSpaces
  <2> DEFINE u == SubSeq(line, 3, b - 1)
  <2>5. u = SubSeq(text, 3, b - 1)
    BY <2>2, <2>4
  <2>6. b - 1 \in 2..N
    <3>1. b \in Nat /\ b > 2 /\ b <= Len(text) /\ Len(text) <= N
      BY <1>4, <2>1, <2>4
    <3> QED
      BY <1>1, <2>1, <3>1
  <2>7. u \in Fits(line)
    <3>1. Joined(u) = text /\ \A i \in DOMAIN u : u[i] \notin {"SP", "CR"}
      BY <2>4, <2>5
    <3> HIDE DEF u
    <3>2. u \in {SubSeq(line, 3, n) : n \in 2..N}
      BY <2>6 DEF u
    <3> QED
      BY <3>1, <3>2 DEF Fits, text
  <2>8. ws = <<Method, u, Version>>
    BY <1>4, <2>2, <2>3, <2>4, <2>5
  <2> HIDE DEF u
  <2>9. SubSeq(ws, 1, 3) = ws
    BY <2>8, FirstThree
  <2> QED
    BY <2>7, <2>8, <2>9
<1>5. ~ OneWord(line, N, all)
  <2> SUFFICES ASSUME OneWord(line, N, all) PROVE FALSE
    OBVIOUS
  <2>1. all = <<SubSeq(line, 1, N)>>
    BY DEF OneWord
  <2>2. Len(Front(all)) = 0 /\ Len(all) = 1
    BY <2>1 DEF Front
  <2> QED
    BY <1>a, <2>2
<1>6. ASSUME NEW a \in 1..N, TwoWords(line, N, all, a) PROVE FALSE
  <2>1. all = <<SubSeq(line, 1, a - 1), SubSeq(line, a + 1, N)>>
    BY <1>6 DEF TwoWords
  <2>2. Len(Front(all)) = 1 /\ Len(all) = 2
    BY <2>1 DEF Front
  <2> QED
    BY <1>a, <2>2
<1>7. ASSUME NEW a \in 1..N, NEW b \in 1..N, ThreeWords(line, N, all, a, b)
      PROVE  \E u \in Fits(line) : SubSeq(ws, 1, 3) = <<Method, u, Version>>
  <2>1. all = <<SubSeq(line, 1, a - 1), SubSeq(line, a + 1, b - 1), SubSeq(line, b + 1, N)>>
    BY <1>7 DEF ThreeWords
  <2>2. Len(all) = 3 /\ Len(Front(all)) = 2 /\ Last(all) = SubSeq(line, b + 1, N)
    BY <2>1 DEF Front, Last
  <2>3. Last(all) # <<>> /\ ws = all
    BY <1>a, <2>2
  <2>4. b < N
    BY <1>1, <2>2, <2>3
  <2>5. a < b /\ Separators(line, N) = {a, b}
    BY <1>7 DEF ThreeWords
  <2>6. line[N] # "CR"
    BY <1>1, <2>4, <2>5 DEF Separators, Separator
  <2>7. text = line
    BY <1>1, <1>3, <2>4, <2>6
  <2>8. /\ a \in 1..Len(text) /\ b \in 1..Len(text) /\ Separators(text, Len(text)) = {a, b}
        /\ Len(text) <= N /\ \A i \in 1..Len(text) : text[i] = line[i]
        /\ ws = <<SubSeq(line, 1, a - 1), SubSeq(line, a + 1, b - 1),
                  SubSeq(line, b + 1, Len(text))>>
    BY <1>1, <2>1, <2>3, <2>5, <2>7
  <2> QED
    BY <1>4, <2>5, <2>8
<1>8. ASSUME NEW a \in 1..N, NEW b \in 1..N, NEW c \in 1..N, FourWords(line, N, all, a, b, c)
      PROVE  \E u \in Fits(line) : SubSeq(ws, 1, 3) = <<Method, u, Version>>
  <2>1. all = <<SubSeq(line, 1, a - 1), SubSeq(line, a + 1, b - 1), SubSeq(line, b + 1, c - 1),
                SubSeq(line, c + 1, N)>>
    BY <1>8 DEF FourWords
  <2>2. Len(all) = 4 /\ Last(all) = SubSeq(line, c + 1, N)
    BY <2>1 DEF Last
  <2>3. Last(all) = <<>> /\ ws = Front(all)
    BY <1>a, <2>2
  <2>4. Front(all) = <<SubSeq(line, 1, a - 1), SubSeq(line, a + 1, b - 1), SubSeq(line, b + 1, c - 1)>>
    <3>1. Front(all) = SubSeq(all, 1, 3)
      BY <2>2 DEF Front
    <3> DEFINE x == SubSeq(line, 1, a - 1)
               y == SubSeq(line, a + 1, b - 1)
               z == SubSeq(line, b + 1, c - 1)
               w == SubSeq(line, c + 1, N)
    <3> HIDE DEF x, y, z, w
    <3>2. SubSeq(<<x, y, z, w>>, 1, 3) = <<x, y, z>>
      BY FirstThree, ZenonT(60)
    <3> QED
      BY <2>1, <3>1, <3>2 DEF x, y, z, w
  <2>5. c = N
    <3> SUFFICES ASSUME c < N PROVE FALSE
      BY <1>1
    <3>1. c + 1 \in 1..N
      BY <1>1
    <3>2. SubSeq(line, c + 1, N) = <<line[c + 1]>> \o SubSeq(line, (c + 1) + 1, N)
      BY <1>1, <3>1, SubSeqRecursiveFirst
    <3>3. SubSeq(line, (c + 1) + 1, N) \in Seq(Symbol) /\ line[c + 1] \in Symbol
      BY <1>1, <3>1
    <3> DEFINE r == SubSeq(line, (c + 1) + 1, N)
               f == line[c + 1]
    <3> HIDE DEF r, f
    <3>4. <<f>> \o r # <<>>
      BY <3>3, ConcatEqualIffEmpty DEF r, f
    <3>5. SubSeq(line, c + 1, N) # <<>>
      BY <3>2, <3>4 DEF r, f
    <3> QED
      BY <2>2, <2>3, <3>5
  <2>6. a < b /\ b < c /\ Separators(line, N) = {a, b, c}
    BY <1>8 DEF FourWords
  <2>7. line[N] \in Separator
    BY <1>1, <2>5, <2>6 DEF Separators
  <2>8. CASE line[N] = "CR"
    <3>1. Len(text) = N - 1 /\ \A i \in 1..(N - 1) : text[i] = line[i]
      BY <1>1, <1>3, <2>5, <2>8
    <3>2. Separators(text, N - 1) = {a, b}
      <4>1. \A i \in 1..(N - 1) : i \in Separators(text, N - 1) <=> i \in Separators(line, N)
        BY <1>1, <3>1 DEF Separators
      <4>2. Separators(text, N - 1) \subseteq 1..(N - 1) /\ N \notin 1..(N - 1)
        BY <1>1 DEF Separators
      <4>3. a \in 1..(N - 1) /\ b \in 1..(N - 1)
        BY <1>1, <2>5, <2>6
      <4> QED
        BY <2>5, <2>6, <4>1, <4>2, <4>3
    <3>3. a \in 1..(N - 1) /\ b \in 1..(N - 1) /\ N - 1 <= N
      BY <1>1, <2>5, <2>6
    <3>4. ws = <<SubSeq(line, 1, a - 1), SubSeq(line, a + 1, b - 1), SubSeq(line, b + 1, N - 1)>>
      BY <2>3, <2>4, <2>5
    <3> QED
      BY <1>4, <2>6, <3>1, <3>2, <3>3, <3>4
  <2>9. CASE line[N] # "CR"
    <3>1. text = line
      BY <1>1, <1>3, <2>9
    <3>2. PICK i \in DOMAIN line : line[i] = "SP" /\ SubSeq(line, i + 1, N) = Version
      BY <1>3, <3>1 DEF Versions
    <3>0. i \in 1..N
      BY <1>1
    <3>3. i + 1 = N
      <4>1. Len(line) = i + Len(SubSeq(line, i + 1, Len(line)))
        BY <3>0, Behind
      <4>2. N = i + Len(Version) /\ Len(Version) = 1
        BY <3>2, <4>1 DEF Version
      <4> QED
        BY <1>1, <3>0, <4>2
    <3>4. SubSeq(line, i + 1, N)[1] = line[i + 1] /\ Version[1] = "HTTP/1.1"
      <4>1. SubSeq(line, i + 1, N)[1] = line[i + 1]
        BY <1>1, <3>0, <3>3
      <4> QED
        BY <4>1 DEF Version
    <3> QED
      BY <2>7, <3>2, <3>3, <3>4 DEF Separator
  <2> QED
    BY <2>8, <2>9
<1>9. ASSUME NEW a \in 1..N, NEW b \in 1..N, NEW c \in 1..N, NEW d \in 1..N,
             MoreWords(line, N, all, a, b, c, d)
      PROVE  FALSE
  <2>1. all \in Seq(Seq(Symbol)) /\ Len(all) > 4
    BY <1>9 DEF MoreWords
  <2>2. Len(Front(all)) > 3
    BY <2>1 DEF Front
  <2> QED
    BY <1>a, <2>1, <2>2
<1>10. \E u \in Fits(line) : SubSeq(ws, 1, 3) = <<Method, u, Version>>
  BY <1>1, <1>5, <1>6, <1>7, <1>8, <1>9 DEF Shape
<1> QED
  BY <1>10 DEF ws


LEMMA OneSymbol ==
  ASSUME NEW line \in Seq(Symbol), NEW k \in 1..Len(line)
  PROVE  SubSeq(line, k, k) = <<line[k]>> /\ <<line[k]>> # <<>>
<1>1. SubSeq(line, k, k) = <<line[k]>> \o SubSeq(line, k + 1, k)
  BY SubSeqRecursiveFirst
<1>2. SubSeq(line, k + 1, k) = <<>> /\ line[k] \in Symbol
  OBVIOUS
<1> DEFINE f == line[k]
<1> HIDE DEF f
<1>3. <<f>> \in Seq(Symbol)
  BY <1>2 DEF f
<1>4. <<f>> \o <<>> = <<f>> /\ <<f>> # <<>>
  BY <1>3, ConcatEmptySeq
<1> QED
  BY <1>1, <1>2, <1>4 DEF f

\* A Request-Line is split into its three words.
LEMMA FittingLine ==
  ASSUME NEW line \in Seq(Symbol), NEW u \in Fits(line)
  PROVE  Accepted(split(line))
<1> DEFINE N    == Len(line)
           all  == pieces(line)[N]
           ws   == split(line)
           text == NoCR(line)
           b    == Len(u) + 3
<1>1. N \in Nat /\ Shape(line, N, all)
  BY WordsShape
<1>2. ws = IF Last(all) = <<>> THEN Front(all) ELSE all
  BY DEF split
<1>3. u \in Seq(Symbol) /\ Joined(u) = text /\ \A i \in DOMAIN u : u[i] \notin {"SP", "CR"}
  <2> PICK n \in 2..Len(line) : u = SubSeq(line, 3, n)
    BY DEF Fits
  <2>1. u \in Seq(Symbol)
    OBVIOUS
  <2> QED
    BY <2>1 DEF Fits
<1>4. Len(u) \in Nat /\ b \in Nat /\ b >= 3
  BY <1>3
<1>5. /\ text \in Seq(Symbol) /\ Len(text) = b + 1
      /\ text[1] = "GET" /\ text[2] = "SP" /\ text[b] = "SP" /\ text[b + 1] = "HTTP/1.1"
      /\ \A i \in 1..Len(u) : text[i + 2] = u[i]
  <2>1. Len(u) + 4 = b + 1
    BY <1>4
  <2> QED
    BY <1>3, <2>1, JoinedParts
<1>6. /\ \/ text = line
         \/ /\ line[N] = "CR" /\ N = b + 2
            /\ \A i \in 1..(b + 1) : text[i] = line[i]
  <2>1. CASE text = line
    BY <2>1
  <2>2. CASE text # line
    <3>1. line # <<>> /\ line[N] = "CR" /\ Len(text) = N - 1 /\ \A i \in 1..(N - 1) : text[i] = line[i]
      BY <2>2, Trimmed
    <3>2. N - 1 = b + 1
      BY <1>5, <3>1
    <3> QED
      BY <1>1, <1>4, <3>1, <3>2
  <2> QED
    BY <2>1, <2>2
<1> HIDE DEF all, ws, text, b
\* The separators of the text.
<1>7. \A i \in 1..(b + 1) : text[i] \in Separator <=> i = 2 \/ i = b
  <2> TAKE i \in 1..(b + 1)
  <2>1. i = 1 \/ i = 2 \/ i - 2 \in 1..Len(u) \/ i = b \/ i = b + 1
    BY <1>4 DEF b
  <2>2. ASSUME NEW k \in 1..Len(u), i = k + 2 PROVE text[i] \notin Separator /\ i # 2 /\ i # b
    <3>1. u[k] \notin {"SP", "CR"}
      BY <1>3
    <3> QED
      BY <1>4, <1>5, <2>2, <3>1 DEF Separator, b
  <2>3. CASE i - 2 \in 1..Len(u)
    <3> DEFINE k == i - 2
    <3>1. k \in 1..Len(u) /\ i = k + 2
      BY <1>4, <2>3
    <3> QED
      BY <2>2, <3>1
  <2> QED
    BY <1>4, <1>5, <2>1, <2>3 DEF Separator
\* Whatever follows the text, the words of its parts are accepted.
<1>8. ASSUME ws = <<SubSeq(line, 1, 2 - 1), SubSeq(line, 2 + 1, b - 1), SubSeq(line, b + 1, b + 1)>>
      PROVE  Accepted(ws)
  <2>1. line[1] = "GET" /\ 1 \in 1..N
    BY <1>1, <1>4, <1>5, <1>6
  <2>2. SubSeq(line, 1, 2 - 1) = Method
    <3>1. SubSeq(line, 1, 1) = <<line[1]>>
      BY <2>1, OneSymbol
    <3> QED
      BY <2>1, <3>1 DEF Method
  <2>3. Len(ws) = 3 /\ ws[1] = SubSeq(line, 1, 2 - 1)
    BY <1>8
  <2> QED
    BY <2>2, <2>3 DEF Accepted
<1>9. CASE text = line
  <2>1. N = b + 1
    BY <1>5, <1>9
  <2>2. \A i \in 1..N : i \in Separators(line, N) <=> i = 2 \/ i = b
    BY <1>7, <1>9, <2>1 DEF Separators
  <2>3. 2 \in 1..N /\ b \in 1..N /\ 2 < b
    BY <1>4, <1>5, <2>1
  <2>4. Separators(line, N) = {2, b}
    BY <2>2, <2>3 DEF Separators
  <2>5. PICK p \in 1..N, q \in 1..N : ThreeWords(line, N, all, p, q)
    <3>1. ~ OneWord(line, N, all)
      BY <2>4 DEF OneWord
    <3>2. ASSUME NEW p \in 1..N, TwoWords(line, N, all, p) PROVE FALSE
      <4>1. {p} = {2, b}
        BY <2>4, <3>2 DEF TwoWords
      <4> QED
        BY <2>3, <4>1
    <3>3. ASSUME NEW p \in 1..N, NEW q \in 1..N, NEW r \in 1..N, FourWords(line, N, all, p, q, r)
          PROVE  FALSE
      <4>1. {p, q, r} = {2, b} /\ p < q /\ q < r
        BY <2>4, <3>3 DEF FourWords
      <4>2. p \in {2, b} /\ q \in {2, b} /\ r \in {2, b}
        BY <4>1
      <4> QED
        BY <1>1, <4>1, <4>2
    <3>4. ASSUME NEW p \in 1..N, NEW q \in 1..N, NEW r \in 1..N, NEW v \in 1..N,
                 MoreWords(line, N, all, p, q, r, v)
          PROVE  FALSE
      <4>1. p \in {2, b} /\ q \in {2, b} /\ r \in {2, b} /\ p < q /\ q < r
        BY <2>4, <3>4 DEF MoreWords
      <4> QED
        BY <1>1, <4>1
    <3> QED
      BY <1>1, <3>1, <3>2, <3>3, <3>4 DEF Shape
  <2>6. p = 2 /\ q = b
    <3>1. {p, q} = {2, b} /\ p < q
      BY <2>4, <2>5 DEF ThreeWords
    <3>2. p \in {2, b} /\ q \in {2, b} /\ 2 \in {p, q} /\ b \in {p, q}
      BY <3>1
    <3> QED
      BY <1>1, <2>3, <3>1, <3>2
  <2>7. all = <<SubSeq(line, 1, 2 - 1), SubSeq(line, 2 + 1, b - 1), SubSeq(line, b + 1, b + 1)>>
    BY <2>1, <2>5, <2>6 DEF ThreeWords
  <2>8. Last(all) = SubSeq(line, b + 1, b + 1)
    BY <2>7 DEF Last
  <2>9. SubSeq(line, b + 1, b + 1) # <<>>
    <3>1. b + 1 \in 1..N
      BY <1>4, <2>1
    <3> QED
      BY <3>1, OneSymbol
  <2>10. ws = all
    BY <1>2, <2>8, <2>9
  <2> QED
    BY <1>8, <2>7, <2>10 DEF ws
<1>10. CASE line[N] = "CR" /\ N = b + 2 /\ \A i \in 1..(b + 1) : text[i] = line[i]
  <2>1. \A i \in 1..(b + 1) : line[i] \in Separator <=> i = 2 \/ i = b
    BY <1>7, <1>10
  <2>2. \A i \in 1..N : i \in Separators(line, N) <=> i = 2 \/ i = b \/ i = N
    <3> TAKE i \in 1..N
    <3>1. i \in 1..(b + 1) \/ i = N
      BY <1>4, <1>10
    <3>2. i \in 1..(b + 1) => i # N
      BY <1>4, <1>10
    <3>3. line[N] \in Separator
      BY <1>10 DEF Separator
    <3> QED
      BY <2>1, <3>1, <3>2, <3>3 DEF Separators
  <2>3. 2 \in 1..N /\ b \in 1..N /\ N \in 1..N /\ 2 < b /\ b < N
    BY <1>4, <1>10
  <2>4. Separators(line, N) = {2, b, N}
    BY <2>2, <2>3 DEF Separators
  <2>5. PICK p \in 1..N, q \in 1..N, r \in 1..N : FourWords(line, N, all, p, q, r)
    <3>1. ~ OneWord(line, N, all)
      BY <2>4 DEF OneWord
    <3>2. ASSUME NEW p \in 1..N, TwoWords(line, N, all, p) PROVE FALSE
      <4>1. {p} = {2, b, N}
        BY <2>4, <3>2 DEF TwoWords
      <4> QED
        BY <2>3, <4>1
    <3>3. ASSUME NEW p \in 1..N, NEW q \in 1..N, ThreeWords(line, N, all, p, q) PROVE FALSE
      <4>1. {p, q} = {2, b, N} /\ p < q
        BY <2>4, <3>3 DEF ThreeWords
      <4>2. 2 \in {p, q} /\ b \in {p, q} /\ N \in {p, q}
        BY <4>1
      <4> QED
        BY <1>1, <1>4, <2>3, <4>1, <4>2
    <3>4. ASSUME NEW p \in 1..N, NEW q \in 1..N, NEW r \in 1..N, NEW v \in 1..N,
                 MoreWords(line, N, all, p, q, r, v)
          PROVE  FALSE
      <4>1. /\ p \in {2, b, N} /\ q \in {2, b, N} /\ r \in {2, b, N} /\ v \in {2, b, N}
            /\ p < q /\ q < r /\ r < v
        BY <2>4, <3>4 DEF MoreWords
      <4> QED
        BY <1>1, <1>4, <2>3, <4>1
    <3> QED
      BY <1>1, <3>1, <3>2, <3>3, <3>4 DEF Shape
  <2>6. p = 2 /\ q = b /\ r = N
    <3>1. {p, q, r} = {2, b, N} /\ p < q /\ q < r
      BY <2>4, <2>5 DEF FourWords
    <3>2. p \in {2, b, N} /\ q \in {2, b, N} /\ r \in {2, b, N}
          /\ 2 \in {p, q, r} /\ b \in {p, q, r} /\ N \in {p, q, r}
      BY <3>1
    <3> QED
      BY <1>1, <1>4, <2>3, <3>1, <3>2
  <2>7. N - 1 = b + 1 /\ SubSeq(line, N + 1, N) = <<>>
    BY <1>1, <1>4, <1>10
  <2>8. all = <<SubSeq(line, 1, 2 - 1), SubSeq(line, 2 + 1, b - 1), SubSeq(line, b + 1, b + 1), <<>> >>
    BY <2>5, <2>6, <2>7 DEF FourWords
  <2>9. Last(all) = <<>> /\ Len(all) = 4
    BY <2>8 DEF Last
  <2>10. Front(all) = <<SubSeq(line, 1, 2 - 1), SubSeq(line, 2 + 1, b - 1), SubSeq(line, b + 1, b + 1)>>
    <3>1. Front(all) = SubSeq(all, 1, 3)
      BY <2>9 DEF Front
    <3> DEFINE x == SubSeq(line, 1, 2 - 1)
               y == SubSeq(line, 2 + 1, b - 1)
               z == SubSeq(line, b + 1, b + 1)
    <3> HIDE DEF x, y, z
    <3>2. SubSeq(<<x, y, z, <<>> >>, 1, 3) = <<x, y, z>>
      BY FirstThree, ZenonT(60)
    <3> QED
      BY <2>8, <3>1, <3>2 DEF x, y, z
  <2>11. ws = Front(all)
    BY <1>2, <2>9
  <2> QED
    BY <1>8, <2>10, <2>11 DEF ws
<1> QED
  BY <1>6, <1>9, <1>10

-----------------------------------------------------------------------------

\* The first line decides the words and the status, once.
LineInv ==
  /\ first \in Seq(Symbol) /\ extract_http_version(first) = {Version}
  /\ stage = "request_line" => result = "none"
  /\ stage = "headers" => result = "none"
  /\ stage = "headers" \/ result = "success" =>
       Accepted(split(first)) /\ words = SubSeq(split(first), 1, 3)
  /\ result \in {"none", "success", "invalid_request_line"}
  /\ result = "invalid_request_line" => ~ Accepted(split(first))

LEMMA LineInvRead == LineInv => RequestLineIsRead
<1> SUFFICES ASSUME LineInv, result # "none" PROVE RequestLineIsRead
  BY DEF RequestLineIsRead
<1>1. CASE result = "success"
  <2>1. \E u \in Fits(first) : words = <<Method, u, Version>>
    BY <1>1, AcceptedLine DEF LineInv
  <2> QED
    BY <1>1, <2>1 DEF RequestLineIsRead, Fits, Joined
<1>2. CASE result # "success"
  <2>1. ~ Accepted(split(first))
    BY <1>2 DEF LineInv
  <2>2. Fits(first) = {}
    BY <2>1, FittingLine DEF LineInv
  <2> QED
    BY <1>2, <2>2 DEF RequestLineIsRead, Fits, Joined
<1> QED
  BY <1>1, <1>2

\* For request lines of any length: whatever of "Method SP Request-URI SP
\* HTTP-Version" extract_http_version and parse_request see in a line, they
\* agree on a request that is parsed, and no other line is.
THEOREM RequestLinesAreRead == ParserSpec => []RequestLineIsRead
<1>1. ParserInit => LineInv
  <2> SUFFICES ASSUME ParserInit PROVE LineInv
    OBVIOUS
  <2>1. first \in Seq(Symbol)
    BY DEF ParserInit
  <2> QED
    BY <2>1 DEF ParserInit, LineInv
<1>2. LineInv /\ [ParserNext]_parser_vars => LineInv'
  <2> SUFFICES ASSUME LineInv, [ParserNext]_parser_vars PROVE LineInv'
    OBVIOUS
  <2>1. CASE parse_request_line
    BY <2>1 DEF parse_request_line, LineInv
  <2>2. CASE parse_header
    BY <2>2 DEF parse_header, Reading, LineInv
  <2>3. CASE parse_body
    BY <2>3 DEF parse_body, Reading, LineInv
  <2>4. CASE UNCHANGED parser_vars
    BY <2>4 DEF parser_vars, LineInv
  <2> QED
    BY <2>1, <2>2, <2>3, <2>4 DEF ParserNext
<1> QED
  BY <1>1, <1>2, LineInvRead, PTL DEF ParserSpec

=============================================================================
