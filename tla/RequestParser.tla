--------------------------- MODULE RequestParser ----------------------------
(***************************************************************************)
(* http_protocol_one_one::parse_request: the request line, then the loop   *)
(* over the header lines, then the body.                                   *)
(*                                                                         *)
(* A request is its lines as std::getline returns them, without '\n'.  The *)
(* request line is a sequence of spaces, SP, carriage returns, CR, and     *)
(* pieces of words; neighbouring pieces make one word.  A line behind it   *)
(* is modelled by what the loop tells apart; its name is the header field  *)
(* it looks like, whether it is meant as one or is part of a body, and     *)
(* rest is what stands behind the colon.                                   *)
(*                                                                         *)
(* Assertions are not compiled in (NDEBUG).                                *)
(***************************************************************************)
EXTENDS Naturals, Sequences, SequencesExt

CONSTANTS
  Lines,     \* the lines a request may consist of, a subset of Line
  MaxLines,  \* bound: lines behind the request line
  MaxFirst,  \* bound: symbols of the request line
  Adjacent   \* whether the build puts ENTITY_HEADER's array right behind
             \* REQUEST_HEADER's

\* request: the request fields of REQUEST_HEADER; first_entity: "Allow", the
\* first of ENTITY_HEADER; other: in none of the lists.
Fields == {"general", "request", "first_entity", "entity", "other"}

Text == {"SP", "CR", "v", "w"}

Line ==
  [kind : {"field"}, name : Fields, rest : Seq(Text)]
    \cup [kind : {"text",     \* no colon
                  "colon",    \* ":" alone
                  "cr",       \* "\r", the empty line of a CRLF request
                  "empty"}]   \* "", the empty line of an LF request

Method  == <<"GET">>        \* one of METHODS
Version == <<"HTTP/1.1">>
Symbol  == {"GET", "/", "HTTP/1.1", "SP", "CR"}

ASSUME ParserAssumption ==
  Lines \subseteq Line /\ {MaxLines, MaxFirst} \subseteq Nat /\ Adjacent \in BOOLEAN

VARIABLES
  first,    \* the request line
  input,    \* the lines behind it
  at,       \* lines the loop has read
  stage,    \* "request_line", "headers", "done"; "dead" after terminate
  words,    \* method, request_uri and http_version, none before they are read
  header,   \* the maps general_header, request_header, entity_header
  body,     \* message_body, as lines
  result    \* the parsing_status

parser_vars == <<first, input, at, stage, words, header, body, result>>

Maps == {"general", "request", "entity"}
Entry == [map : Maps, name : Fields, value : Seq(Text)]

ParserTypeOK ==
  /\ first  \in Seq(Symbol) /\ Len(first) <= MaxFirst
  /\ input  \in Seq(Lines) /\ Len(input) <= MaxLines
  /\ at     \in 0..Len(input)
  /\ stage  \in {"request_line", "headers", "done", "dead"}
  /\ words  \in Seq(Seq(Symbol)) /\ Len(words) \in {0, 3}
  /\ \A e \in header : e \in Entry
  /\ body   \in Seq(Lines)
  /\ result \in {"none", "success", "invalid_request_line"}

NoCR(line) == IF line # <<>> /\ Last(line) = "CR" THEN Front(line) ELSE line

\* What follows the first space behind the first space.  In a line without one
\* the search starts behind the end, where libstdc++ finds nothing.
extract_http_version(line) ==
  LET text   == NoCR(line)
      Space  == {i \in DOMAIN text : text[i] = "SP"}
      second == {i \in Space : \E f \in Space :
                   f < i /\ \A j \in Space : j < i => j = f}
  IN {SubSeq(text, i + 1, Len(text)) : i \in second}

\* The words at every end of a prefix of the line.
pieces(line) ==
  LET words_of[n \in 0..Len(line)] ==
        IF n = 0 THEN << <<>> >>
        ELSE LET ws == words_of[n - 1] IN
             IF line[n] \in {"SP", "CR"} THEN Append(ws, <<>>)
             ELSE [ws EXCEPT ![Len(ws)] = Append(@, line[n])]
  IN words_of

\* boost::split at every space, which '\r' is one of, without the empty word
\* behind the last one.
split(line) ==
  LET all == pieces(line)[Len(line)]
  IN IF Last(all) = <<>> THEN Front(all) ELSE all

\* A request whose extracted version has this parser as its handler.
ParserInit ==
  /\ first \in UNION {[1..n -> Symbol] : n \in 0..MaxFirst}
  /\ extract_http_version(first) = {Version}
  /\ input \in UNION {[1..n -> Lines] : n \in 0..MaxLines}
  /\ at = 0
  /\ stage = "request_line"
  /\ words = <<>>
  /\ header = {}
  /\ body = <<>>
  /\ result = "none"

\* Mutant: only too few words are an error, and the third one is the version.
Accepted_more(ws) == Len(ws) >= 3 /\ ws[1] = Method

\* Three words, the first of them in METHODS.
Accepted(ws) == Len(ws) = 3 /\ ws[1] = Method

parse_request_line ==
  /\ stage = "request_line"
  /\ LET ws == split(first) IN
       IF Accepted(ws)
       THEN stage' = "headers" /\ words' = SubSeq(ws, 1, 3) /\ result' = result
       ELSE stage' = "done" /\ result' = "invalid_request_line" /\ words' = words
  /\ UNCHANGED <<first, input, at, header, body>>

\* Mutant: every field goes to the map of its list's name.
MapOf_name(name) == name

\* The map a field goes to.  The third test compares an iterator of
\* ENTITY_HEADER with the end of REQUEST_HEADER: unknown fields pass it as
\* well, and with adjacent arrays the first entity field fails it.
MapOf(name) ==
  CASE name \in Maps -> name
    [] name = "first_entity" -> "entity"
    [] name = "other" -> "entity"

\* assert(false): the field is dropped.
HitsAssert(name) == name = "first_entity" /\ Adjacent

\* Mutant: operator[] in place of emplace(), the last value wins.
stored_overwrite(m, name, value) ==
  {e \in header : e.map # m \/ e.name # name}
    \cup {[map |-> m, name |-> name, value |-> value]}

\* emplace() keeps the value that is there.
stored(m, name, value) ==
  IF \E e \in header : e.map = m /\ e.name = name THEN header
  ELSE header \cup {[map |-> m, name |-> name, value |-> value]}

Reading == stage = "headers" /\ at < Len(input)

\* One round of the loop: lines without a colon and a colon alone are skipped.
\* substr(colon_position + 2) cuts the first character behind the colon, whatever
\* it is; where there is none, it throws std::out_of_range in a noexcept function.
parse_header ==
  /\ Reading
  /\ LET line == input[at + 1] IN
       \/ /\ line.kind \in {"text", "colon", "cr"}
          /\ UNCHANGED <<stage, header>>
       \/ /\ line.kind = "field" /\ NoCR(line.rest) = <<>>
          /\ stage' = "dead" /\ header' = header
       \/ /\ line.kind = "field" /\ NoCR(line.rest) # <<>> /\ ~ HitsAssert(line.name)
          /\ header' = stored(MapOf(line.name), line.name, Tail(NoCR(line.rest)))
          /\ stage' = stage
       \/ /\ line.kind = "field" /\ NoCR(line.rest) # <<>> /\ HitsAssert(line.name)
          /\ UNCHANGED <<stage, header>>
  /\ at' = at + 1
  /\ UNCHANGED <<first, input, words, body, result>>

\* Mutant: the body starts with the empty line.
parse_body_early ==
  /\ stage = "headers"
  /\ \/ /\ Reading
        /\ input[at + 1].kind = "empty"
        /\ body' = SubSeq(input, at + 1, Len(input))
     \/ /\ at = Len(input)
        /\ body' = <<>>
  /\ stage' = "done"
  /\ result' = "success"
  /\ UNCHANGED <<first, input, at, words, header>>

\* The loop ends at an empty line, behind which the body starts, or at the end
\* of the input, where tellg() is -1 and no body is read.
parse_body ==
  /\ stage = "headers"
  /\ \/ /\ Reading
        /\ input[at + 1].kind = "empty"
        /\ body' = SubSeq(input, at + 2, Len(input))
     \/ /\ at = Len(input)
        /\ body' = <<>>
  /\ stage' = "done"
  /\ result' = "success"
  /\ UNCHANGED <<first, input, at, words, header>>

ParserNext == parse_request_line \/ parse_header \/ parse_body

ParserSpec == ParserInit /\ [][ParserNext]_parser_vars /\ WF_parser_vars(ParserNext)

-----------------------------------------------------------------------------
(* Properties.                                                             *)

Blank(line) == line.kind \in {"cr", "empty"}

\* The lines of the header section: those before the first blank line.
InSection(i) == i \in DOMAIN input /\ \A j \in 1..i : ~ Blank(input[j])

\* Fields of that section, without one of their name before.
FirstOfName(i) ==
  /\ InSection(i)
  /\ input[i].kind = "field"
  /\ \A j \in 1..(i - 1) :
       input[j].kind = "field" => input[j].name # input[i].name

\* The map a field belongs in; fields no list names are entity fields.
ListOf(name) == IF name \in {"general", "request"} THEN name ELSE "entity"

\* Field i is stored; its value is what is written behind "Name: ".
Kept(i) == \E e \in header : e.name = input[i].name /\ e.map = ListOf(input[i].name)
ValueKept(i) ==
  \E e \in header : e.name = input[i].name /\ NoCR(input[i].rest) = <<"SP">> \o e.value

Spaced(i) == NoCR(input[i].rest) # <<>> /\ NoCR(input[i].rest)[1] = "SP"

FirstBlank(i) ==
  i \in DOMAIN input /\ Blank(input[i]) /\ \A j \in 1..(i - 1) : ~ Blank(input[j])

\* A request line of the form Method SP Request-URI SP HTTP-Version, with or
\* without a '\r', is read as that, and no other line is: the two readings of
\* the line, by single spaces for the version and by all spaces for the words,
\* never disagree about a request that is parsed.
RequestLineIsRead ==
  result # "none" =>
    LET Joined(u) == Method \o <<"SP">> \o u \o <<"SP">> \o Version
        uris == {SubSeq(first, 3, n) : n \in 2..Len(first)}
        fits == {u \in uris : Joined(u) = NoCR(first)
                               /\ \A i \in DOMAIN u : u[i] \notin {"SP", "CR"}}
    IN IF result = "success" THEN \E u \in fits : words = <<Method, u, Version>>
       ELSE fits = {}

\* A parsed request has the header fields of its header section, whether lines
\* end in LF or CRLF (http_protocol_one_one.cpp, lines 66-95): each field but the
\* one the assertion drops is in the map of its list, once, and with its first
\* value where a space stands before it.  Text behind an empty line never
\* becomes a header field.
HeadersAreTheSection ==
  result = "success" =>
    /\ \A i \in DOMAIN input : FirstOfName(i) /\ ~ HitsAssert(input[i].name) =>
         Kept(i) /\ (Spaced(i) => ValueKept(i))
    /\ \A e, f \in header : e.name = f.name => e = f
    /\ \A e \in header : \E i \in DOMAIN input :
         /\ input[i].kind = "field" /\ input[i].name = e.name
         /\ \A j \in 1..i : input[j].kind # "empty"

\* message_body is what follows the blank line of a request whose lines end in
\* LF; that of a CRLF request, whose blank line is "\r", is lost, as long as its
\* body has no empty line (http_protocol_one_one.cpp, lines 66, 68 and 100-102).
BodyDelivered ==
  result = "success" =>
    /\ \A i \in DOMAIN input : FirstBlank(i) /\ input[i].kind = "empty" =>
         body = SubSeq(input, i + 1, Len(input))
    /\ (\A i \in DOMAIN input : input[i].kind # "empty") => body = <<>>

\* A field's value is what stands behind the colon, with or without a space
\* (http_protocol_one_one.cpp, line 77).
ValuesAreWhole ==
  result = "success" =>
    \A i \in DOMAIN input : FirstOfName(i) /\ ~ HitsAssert(input[i].name) =>
      ValueKept(i) \/ \E e \in header : e.name = input[i].name /\ e.value = NoCR(input[i].rest)

\* Text behind the blank line is no header field (http_protocol_one_one.cpp, line 65).
BodyIsNoHeader ==
  result = "success" =>
    \A e \in header : \E i \in DOMAIN input : FirstOfName(i) /\ input[i].name = e.name

\* message_body is what follows the blank line (http_protocol_one_one.cpp, line 65).
BodyFollowsBlank ==
  result = "success" =>
    \A i \in DOMAIN input : FirstBlank(i) => body = SubSeq(input, i + 1, Len(input))

\* parse_request reports a status, whatever lines it is given.
AlwaysReports == <>(result # "none")

=============================================================================
