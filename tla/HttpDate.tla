------------------------------ MODULE HttpDate ------------------------------
(***************************************************************************)
(* http_constants::http_date and httptime: the conversion of a time to the *)
(* text of a header, as the worker threads run it at the same time.        *)
(*                                                                         *)
(* localtime() fills one std::tm of the C library and httptime() prints it *)
(* into one static buffer; both are shared and nothing guards them.  A     *)
(* date is a function from its fields to the time each field was taken     *)
(* from, so a date is right when all of its fields show the one time that  *)
(* was asked for.  Every date has the same number of characters, so a race *)
(* mixes fields and never changes the length.                              *)
(***************************************************************************)
EXTENDS Naturals

CONSTANTS
  Threads,  \* the threads that format dates
  Times,    \* the times they format
  Fields    \* the number of fields of a date

ASSUME DateAssumption == Fields \in Nat \ {0} /\ Times # {}

VARIABLES
  tm,      \* the C library's std::tm
  text,    \* httptime's static buffer "result"
  at,      \* at[t]: the function thread t is in
  field,   \* field[t]: the field it handles next
  asked,   \* asked[t]: the argument of its call
  answer,  \* answer[t]: the string its call builds
  direct,  \* history: the times asked for by the calls its call overlaps
  near     \* history: the times asked for by those and by what they overlap

dvars == <<tm, text, at, field, asked, answer, direct, near>>

Field == 1..Fields
Blank == [f \in Field |-> CHOOSE x \in Times : TRUE]   \* static storage

DateInit ==
  /\ tm     = Blank
  /\ text   = Blank
  /\ at     = [t \in Threads |-> "idle"]
  /\ field  = [t \in Threads |-> 1]
  /\ asked  = [t \in Threads |-> Blank[1]]
  /\ answer = [t \in Threads |-> Blank]
  /\ direct = [t \in Threads |-> {}]
  /\ near   = [t \in Threads |-> {}]

Busy == {t \in Threads : at[t] # "idle"}

\* Whom a call for time overlaps: it is added to the calls under way, and
\* what the calls before them returned is forgotten.
Overlap(t, time) ==
  /\ direct' = [u \in Threads |->
       IF u = t THEN {time} \cup {asked[b] : b \in Busy}
       ELSE IF u \in Busy THEN direct[u] \cup {time} ELSE {}]
  /\ near' = [u \in Threads |->
       IF u = t THEN {time} \cup UNION {direct[b] : b \in Busy}
       ELSE IF u \in Busy THEN near[u] \cup {time} ELSE {}]
  /\ answer' = [u \in Threads |-> IF u \in Busy THEN answer[u] ELSE Blank]

\* Mutant: the conversion is skipped, and the last one's fields are printed.
http_date_stale(t, time) ==
  /\ at[t] = "idle"
  /\ at' = [at EXCEPT ![t] = "sprintf"]
  /\ asked' = [asked EXCEPT ![t] = time]
  /\ Overlap(t, time)
  /\ UNCHANGED <<tm, text, field>>

http_date(t, time) ==
  /\ at[t] = "idle"
  /\ at' = [at EXCEPT ![t] = "localtime"]
  /\ asked' = [asked EXCEPT ![t] = time]
  /\ Overlap(t, time)
  /\ UNCHANGED <<tm, text, field>>

\* A function works field by field and hands over to the next one.
Advance(t, next) ==
  /\ field' = [field EXCEPT ![t] = (@ % Fields) + 1]
  /\ at' = IF field[t] = Fields THEN [at EXCEPT ![t] = next] ELSE at
  /\ UNCHANGED <<asked, direct, near>>

\* localtime() runs under a lock of the C library: calls of it exclude each
\* other, and what reads the std::tm meanwhile does not take part in that.
localtime(t) ==
  /\ at[t] = "localtime"
  /\ \A u \in Threads \ {t} : at[u] = "localtime" => field[u] = 1
  /\ tm' = [tm EXCEPT ![field[t]] = asked[t]]
  /\ Advance(t, "sprintf")
  /\ UNCHANGED <<text, answer>>

\* httptime's sprintf into the static buffer.
httptime(t) ==
  /\ at[t] = "sprintf"
  /\ text' = [text EXCEPT ![field[t]] = tm[field[t]]]
  /\ Advance(t, "copy")
  /\ UNCHANGED <<tm, answer>>

\* return std::string(result).
copy_result(t) ==
  /\ at[t] = "copy"
  /\ answer' = [answer EXCEPT ![t][field[t]] = text[field[t]]]
  /\ Advance(t, "idle")
  /\ UNCHANGED <<tm, text>>

Step(t) == localtime(t) \/ httptime(t) \/ copy_result(t)

DateNext == \E t \in Threads : (\E time \in Times : http_date(t, time)) \/ Step(t)

DateSpec == DateInit /\ [][DateNext]_dvars

-----------------------------------------------------------------------------
(* Properties, of the calls that have returned.                            *)

Returned(t) == at[t] = "idle" /\ near[t] # {}

\* The races of http_date reach no further than two calls: every field of a
\* date comes from the call itself, from one that overlapped it, or from one
\* that overlapped such a call.  In particular a call that runs alone returns
\* its own date, whatever the calls before it left behind.
FieldsOfNearCalls ==
  \A t \in Threads : Returned(t) => \A f \in Field : answer[t][f] \in near[t]

\* A date has the fields of one time.
DatesAreWhole ==
  \A t \in Threads : Returned(t) => \A f, g \in Field : answer[t][f] = answer[t][g]

=============================================================================
