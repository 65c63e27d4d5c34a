----------------------------- MODULE MCRequests -----------------------------
(***************************************************************************)
(* A request from its lines to its response: RequestParser reads it, and   *)
(* HttpService goes on with what the parser made of it.                    *)
(*                                                                         *)
(* What the parser has read decides whether it has failed or terminated,   *)
(* and whether there is a Host field, which is the one of REQUEST_HEADER's *)
(* in these lines.  Words and values decide the rest of the service's      *)
(* request; they may be anything.  Requests of other versions do not meet  *)
(* this parser.                                                            *)
(***************************************************************************)
EXTENDS RequestParser, HttpService

Field(name, rest) == [kind |-> "field", name |-> name, rest |-> rest]
Plain(kinds) == {[kind |-> k] : k \in kinds}

\* Requests whose lines end in LF, in CRLF or in both; fields with and without a
\* space or a value, given twice, or in no list.
AllLines ==
  {Field("request", <<"SP", "v">>), Field("request", <<"SP", "w", "CR">>),
   Field("general", <<"v", "w">>), Field("first_entity", <<"SP", "v">>),
   Field("other", <<"SP", "CR">>), Field("request", <<"CR">>)}
    \cup Plain({"text", "colon", "cr", "empty"})

\* What the service is about to parse, before the parser has read it.
SomeRequest == CHOOSE r \in Request : r.version = "HTTP/1.1"

Waiting ==
  /\ pc = "parse" /\ caller = "worker" /\ site = NoSite /\ req = SomeRequest
  /\ gstatus = "unset" /\ gbody = "empty" /\ status = "unset"
  /\ ran = {} /\ ended = "not_run"

RequestsInit ==
  \/ ParserInit /\ Waiting
  \/ /\ Init /\ req.version # "HTTP/1.1"
     /\ stage = "taken" /\ result = "none" /\ header = {} /\ at = 0
     /\ first = <<>> /\ input = <<>> /\ words = <<>> /\ body = <<>>

parsing == ParserNext /\ UNCHANGED vars

Parsed == CASE stage = "dead" -> "throws"
            [] stage = "done" /\ result = "success" -> "success"
            [] OTHER -> "failure"

HasHost == \E e \in header : e.name = "request"

\* The parser is done, and its text is forgotten.
hand_over ==
  /\ stage \in {"done", "dead"}
  /\ req' = [req EXCEPT !.parsed = Parsed, !.field = IF HasHost THEN "present" ELSE "missing"]
  /\ stage' = "read" /\ result' = "none" /\ header' = {} /\ at' = 0
  /\ first' = <<>> /\ input' = <<>> /\ words' = <<>> /\ body' = <<>>
  /\ UNCHANGED <<pc, caller, site, gstatus, gbody, status, ran, ended>>

\* The requests that are alike as far as the parser tells.
Alike(r) ==
  /\ r.version = req.version /\ r.parsed = req.parsed
  /\ r.field = "missing" <=> req.field = "missing"

take_over ==
  /\ stage = "read"
  /\ stage' = "taken"
  /\ req' \in {r \in Request : Alike(r)}
  /\ caller' \in Callers
  /\ site' \in IF caller' = "direct" THEN Sites ELSE {NoSite}
  /\ UNCHANGED <<first, input, at, words, header, body, result>>
  /\ UNCHANGED <<pc, gstatus, gbody, status, ran, ended>>

serving == stage = "taken" /\ Next /\ UNCHANGED parser_vars

RequestsNext == parsing \/ hand_over \/ take_over \/ serving

RequestsSpec == RequestsInit /\ [][RequestsNext]_<<parser_vars, vars>>

\* The parser alone, for AlwaysReports.
ParsingSpec ==
  /\ ParserInit /\ Waiting
  /\ [][parsing]_<<parser_vars, vars>> /\ WF_<<parser_vars, vars>>(parsing)

=============================================================================
