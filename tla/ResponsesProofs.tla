-------------------------- MODULE ResponsesProofs ---------------------------
(***************************************************************************)
(* How far the races of http_date reach, proved for every number of        *)
(* threads, of fields and of times; that it holds for the worker threads   *)
(* that answer requests, since all they do with the shared storage is to   *)
(* call http_date, one call at a time each; and the cache of handlers,     *)
(* once it is warm.                                                        *)
(***************************************************************************)
EXTENDS Responses, TLAPS

-----------------------------------------------------------------------------
(* http_date alone.                                                        *)

TypeOK ==
  /\ tm     \in [Field -> Times]
  /\ text   \in [Field -> Times]
  /\ at     \in [Threads -> {"idle", "localtime", "sprintf", "copy"}]
  /\ field  \in [Threads -> Field]
  /\ asked  \in [Threads -> Times]
  /\ answer \in [Threads -> [Field -> Times]]
  /\ direct \in [Threads -> SUBSET Times]
  /\ near   \in [Threads -> SUBSET Times]

\* The fields that t's call has put into the std::tm, printed and copied.
Converted(t, f) == at[t] \in {"sprintf", "copy"} \/ (at[t] = "localtime" /\ f < field[t])
Printed(t, f)   == at[t] = "copy" \/ (at[t] = "sprintf" /\ f < field[t])
Copied(t, f)    == Returned(t) \/ (at[t] = "copy" /\ f < field[t])

\* Calls under way know of each other ...
Overlapping ==
  \A t, u \in Busy :
    /\ asked[u] \in direct[t]
    /\ direct[u] \subseteq near[t]

\* ... and whoever wrote a field after t's call did was under way with it.
Fresh ==
  \A t \in Threads, f \in Field :
    /\ Converted(t, f) => tm[f] \in direct[t]
    /\ Printed(t, f)   => text[f] \in near[t]
    /\ Copied(t, f)    => answer[t][f] \in near[t]

IdleAtFirst == \A t \in Threads : at[t] = "idle" => field[t] = 1

IInv == TypeOK /\ Overlapping /\ Fresh /\ IdleAtFirst

\* Nobody is under way at first, and nothing has been returned.
LEMMA InitIInv == DateInit => IInv
<1> SUFFICES ASSUME DateInit PROVE IInv
  OBVIOUS
<1> USE DateAssumption
<1>1. 1 \in Field
  BY DEF Field
<1>2. Blank \in [Field -> Times]
  BY DEF Blank
<1>3. TypeOK
  BY <1>1, <1>2 DEF DateInit, TypeOK
<1>4. Busy = {}
  BY DEF DateInit, Busy
<1>5. \A t \in Threads : ~Returned(t)
  BY DEF DateInit, Returned
<1>6. Fresh
  BY <1>5 DEF DateInit, Fresh, Converted, Printed, Copied
<1>7. IdleAtFirst
  BY DEF DateInit, IdleAtFirst
<1> QED
  BY <1>3, <1>4, <1>6, <1>7 DEF IInv, Overlapping

\* A step inside a call advances by one field, or to the next function.
LEMMA Advancing ==
  ASSUME NEW t \in Threads, NEW next, TypeOK, Advance(t, next),
         next \in {"idle", "sprintf", "copy"}
  PROVE  /\ field' \in [Threads -> Field]
         /\ at' \in [Threads -> {"idle", "localtime", "sprintf", "copy"}]
         /\ field[t] < Fields => field'[t] = field[t] + 1 /\ at'[t] = at[t]
         /\ field[t] = Fields => field'[t] = 1 /\ at'[t] = next
         /\ \A u \in Threads \ {t} : at'[u] = at[u] /\ field'[u] = field[u]
<1> USE DateAssumption
<1>1. field[t] \in 1..Fields
  BY DEF TypeOK, Field
<1>2. CASE field[t] = Fields
  <2>1. (field[t] % Fields) + 1 = 1
    BY <1>2
  <2> QED
    BY <2>1, <1>1, <1>2 DEF Advance, TypeOK, Field
<1>3. CASE field[t] < Fields
  <2>1. (field[t] % Fields) + 1 = field[t] + 1
    BY <1>1, <1>3
  <2> QED
    BY <2>1, <1>1, <1>3 DEF Advance, TypeOK, Field
<1> QED
  BY <1>1, <1>2, <1>3

\* A call that begins overlaps the calls under way, and only those.
LEMMA BeginIInv ==
  ASSUME IInv, NEW t \in Threads, NEW time \in Times, http_date(t, time)
  PROVE  IInv'
<1> USE DEF IInv
<1>1. /\ t \notin Busy
      /\ Busy' = Busy \cup {t}
  BY DEF http_date, TypeOK, Busy
<1>2. \A u \in Threads : asked'[u] = IF u = t THEN time ELSE asked[u]
  BY DEF http_date, TypeOK
<1>3. /\ direct'[t] = {time} \cup {asked[b] : b \in Busy}
      /\ near'[t] = {time} \cup UNION {direct[b] : b \in Busy}
  BY DEF http_date, Overlap
<1>4. \A u \in Busy : /\ u \in Threads
                      /\ u # t
                      /\ direct'[u] = direct[u] \cup {time}
                      /\ near'[u] = near[u] \cup {time}
                      /\ answer'[u] = answer[u]
  BY <1>1 DEF http_date, Overlap, Busy
<1>5. \A u \in Threads : u \notin Busy /\ u # t => near'[u] = {}
  BY DEF http_date, Overlap
<1>6. TypeOK'
  <2>1. \A b \in Busy : asked[b] \in Times /\ direct[b] \subseteq Times
    BY DEF TypeOK, Busy
  <2>2. direct' \in [Threads -> SUBSET Times]
    BY <2>1 DEF TypeOK, http_date, Overlap
  <2>3. near' \in [Threads -> SUBSET Times]
    BY <2>1 DEF TypeOK, http_date, Overlap
  <2>4. Blank \in [Field -> Times]
    BY DateAssumption DEF Blank
  <2>5. answer' \in [Threads -> [Field -> Times]]
    BY <2>4 DEF TypeOK, http_date, Overlap
  <2> QED
    BY <2>2, <2>3, <2>5 DEF TypeOK, http_date
<1>7. Overlapping'
  <2> SUFFICES ASSUME NEW s \in Busy', NEW u \in Busy'
               PROVE  asked'[u] \in direct'[s] /\ direct'[u] \subseteq near'[s]
    BY DEF Overlapping
  <2>1. CASE s = t /\ u = t
    BY <2>1, <1>2, <1>3, <1>1 DEF Overlapping
  <2>2. CASE s = t /\ u # t
    BY <2>2, <1>1, <1>2, <1>3, <1>4 DEF Overlapping
  <2>3. CASE s # t /\ u = t
    BY <2>3, <1>1, <1>2, <1>3, <1>4 DEF Overlapping
  <2>4. CASE s # t /\ u # t
    BY <2>4, <1>1, <1>2, <1>4 DEF Overlapping
  <2> QED
    BY <2>1, <2>2, <2>3, <2>4
<1>8. Fresh'
  <2> SUFFICES ASSUME NEW u \in Threads, NEW f \in Field
               PROVE  /\ Converted(u, f)' => tm'[f] \in direct'[u]
                      /\ Printed(u, f)'   => text'[f] \in near'[u]
                      /\ Copied(u, f)'    => answer'[u][f] \in near'[u]
    BY DEF Fresh
  <2>1. tm' = tm /\ text' = text /\ field' = field
    BY DEF http_date
  <2>2. CASE u = t
    <3>1. at'[u] = "localtime" /\ field[u] = 1
      BY <2>2 DEF http_date, TypeOK, IdleAtFirst
    <3> QED
      BY <3>1, <2>1 DEF Converted, Printed, Copied, Returned, Field
  <2>3. CASE u # t /\ u \in Busy
    <3>1. at'[u] = at[u] /\ at[u] # "idle"
      BY <2>3 DEF http_date, TypeOK, Busy
    <3>2. /\ Converted(u, f)' => Converted(u, f)
          /\ Printed(u, f)' => Printed(u, f)
          /\ Copied(u, f)' => Copied(u, f)
      BY <3>1, <2>1 DEF Converted, Printed, Copied, Returned
    <3> QED
      BY <3>2, <2>1, <2>3, <1>4 DEF Fresh
  <2>4. CASE u # t /\ u \notin Busy
    <3>1. at'[u] = "idle" /\ near'[u] = {}
      BY <2>4, <1>5 DEF http_date, TypeOK, Busy
    <3> QED
      BY <3>1 DEF Converted, Printed, Copied, Returned
  <2> QED
    BY <2>2, <2>3, <2>4
<1>9. IdleAtFirst'
  BY DEF http_date, TypeOK, IdleAtFirst
<1> QED
  BY <1>6, <1>7, <1>8, <1>9

\* What the three functions leave alone.
LEMMA StepOverlapping ==
  ASSUME IInv, NEW t \in Threads, Step(t)
  PROVE  /\ Overlapping'
         /\ IdleAtFirst'
         /\ direct' = direct /\ near' = near /\ asked' = asked
         /\ t \in Busy
<1> USE DEF IInv
<1>1. PICK next \in {"idle", "sprintf", "copy"} : Advance(t, next)
  BY DEF Step, localtime, httptime, copy_result
<1>2. t \in Busy
  BY DEF Step, localtime, httptime, copy_result, Busy
<1>3. direct' = direct /\ near' = near /\ asked' = asked
  BY <1>1 DEF Advance
<1>4. Busy' \subseteq Busy
  BY <1>1, <1>2, Advancing DEF Busy
<1>5. IdleAtFirst'
  <2>1. field[t] \in 1..Fields
    BY DEF TypeOK, Field
  <2>2. at[t] # "idle"
    BY <1>2 DEF Busy
  <2> QED
    BY <1>1, <2>1, <2>2, Advancing, DateAssumption DEF IdleAtFirst
<1> QED
  BY <1>2, <1>3, <1>4, <1>5 DEF Overlapping

\* localtime writes a field that no call past it has to itself: the calls under
\* way that read it next know the time written.
LEMMA LocaltimeIInv ==
  ASSUME IInv, NEW t \in Threads, localtime(t)
  PROVE  IInv'
<1> USE DEF IInv
<1>1. Step(t) /\ Advance(t, "sprintf")
  BY DEF Step, localtime
<1>2. /\ tm' = [tm EXCEPT ![field[t]] = asked[t]] /\ text' = text /\ answer' = answer
      /\ field[t] \in 1..Fields /\ asked[t] \in Times /\ at[t] = "localtime"
  BY DEF localtime, TypeOK, Field
<1>3. TypeOK'
  BY <1>1, <1>2, StepOverlapping, Advancing DEF TypeOK, Field
<1>5. /\ at[t] = "localtime" /\ near' = near
      /\ field[t] < Fields => field'[t] = field[t] + 1 /\ at'[t] = "localtime"
      /\ field[t] = Fields => field'[t] = 1 /\ at'[t] = "sprintf"
      /\ \A u \in Threads \ {t} : at'[u] = at[u] /\ field'[u] = field[u]
  BY <1>1, <1>2, Advancing, StepOverlapping
<1>6. t \in Busy /\ \A f \in Field : f \in 1..Fields
  BY <1>2 DEF Busy, Field
<1>7. Fresh'
  <2> SUFFICES ASSUME NEW u \in Threads, NEW f \in Field
               PROVE  /\ Converted(u, f)' => tm'[f] \in direct'[u]
                      /\ Printed(u, f)'   => text'[f] \in near'[u]
                      /\ Copied(u, f)'    => answer'[u][f] \in near'[u]
    BY DEF Fresh
  <2>1. Converted(u, f)' => u \in Busy /\ (Converted(u, f) \/ (u = t /\ f = field[t]))
    BY <1>2, <1>5, <1>6, DateAssumption DEF Converted, Busy, TypeOK, Field
  <2>2. /\ Printed(u, f)' => Printed(u, f)
        /\ Copied(u, f)' => Copied(u, f)
    BY <1>2, <1>5, <1>6, DateAssumption
    DEF Printed, Copied, Returned, TypeOK, Field
  <2>3. Converted(u, f)' => tm'[f] \in direct[u]
    <3>1. u \in Busy => asked[t] \in direct[u]
      BY <1>1, StepOverlapping DEF Overlapping
    <3>2. tm'[f] = IF f = field[t] THEN asked[t] ELSE tm[f]
      BY <1>2 DEF TypeOK, Field
    <3> QED
      BY <3>1, <3>2, <2>1 DEF Fresh
  <2> QED
    BY <2>2, <2>3, <1>1, <1>2, StepOverlapping DEF Fresh
<1> QED
  BY <1>1, <1>3, <1>7, StepOverlapping

\* What httptime prints is known directly to the call that prints it, and so
\* near to every call under way.
LEMMA HttptimeIInv ==
  ASSUME IInv, NEW t \in Threads, httptime(t)
  PROVE  IInv'
<1> USE DEF IInv
<1>1. Step(t) /\ Advance(t, "copy")
  BY DEF Step, httptime
<1>2. /\ text' = [text EXCEPT ![field[t]] = tm[field[t]]] /\ tm' = tm /\ answer' = answer
      /\ field[t] \in 1..Fields /\ tm[field[t]] \in Times /\ at[t] = "sprintf"
  BY DEF httptime, TypeOK, Field
<1>3. TypeOK'
  BY <1>1, <1>2, StepOverlapping, Advancing DEF TypeOK, Field
<1>5. /\ at[t] = "sprintf" /\ near' = near
      /\ field[t] < Fields => field'[t] = field[t] + 1 /\ at'[t] = "sprintf"
      /\ field[t] = Fields => field'[t] = 1 /\ at'[t] = "copy"
      /\ \A u \in Threads \ {t} : at'[u] = at[u] /\ field'[u] = field[u]
  BY <1>1, <1>2, Advancing, StepOverlapping
<1>6. t \in Busy /\ \A f \in Field : f \in 1..Fields
  BY <1>2 DEF Busy, Field
<1>7. Fresh'
  <2> SUFFICES ASSUME NEW u \in Threads, NEW f \in Field
               PROVE  /\ Converted(u, f)' => tm'[f] \in direct'[u]
                      /\ Printed(u, f)'   => text'[f] \in near'[u]
                      /\ Copied(u, f)'    => answer'[u][f] \in near'[u]
    BY DEF Fresh
  <2>1. Printed(u, f)' => u \in Busy /\ (Printed(u, f) \/ (u = t /\ f = field[t]))
    BY <1>2, <1>5, <1>6, DateAssumption DEF Printed, Busy, TypeOK, Field
  <2>2. /\ Converted(u, f)' => Converted(u, f)
        /\ Copied(u, f)' => Copied(u, f)
    BY <1>2, <1>5, <1>6, DateAssumption
    DEF Converted, Copied, Returned, TypeOK, Field
  <2>3. Printed(u, f)' => text'[f] \in near[u]
    <3>1. tm[field[t]] \in direct[t]
      BY <1>2 DEF Fresh, Converted, Field
    <3>2. u \in Busy => direct[t] \subseteq near[u]
      BY <1>1, StepOverlapping DEF Overlapping
    <3>3. text'[f] = IF f = field[t] THEN tm[field[t]] ELSE text[f]
      BY <1>2 DEF TypeOK, Field
    <3> QED
      BY <3>1, <3>2, <3>3, <2>1 DEF Fresh
  <2> QED
    BY <2>2, <2>3, <1>1, <1>2, StepOverlapping DEF Fresh
<1> QED
  BY <1>1, <1>3, <1>7, StepOverlapping

\* The call copies what it printed itself, or what a near call put over it.
LEMMA CopyIInv ==
  ASSUME IInv, NEW t \in Threads, copy_result(t)
  PROVE  IInv'
<1> USE DEF IInv
<1>1. Step(t) /\ Advance(t, "idle")
  BY DEF Step, copy_result
<1>2. /\ answer' = [answer EXCEPT ![t][field[t]] = text[field[t]]] /\ tm' = tm /\ text' = text
      /\ field[t] \in 1..Fields /\ text[field[t]] \in Times /\ at[t] = "copy"
  BY DEF copy_result, TypeOK, Field
<1>3. TypeOK'
  BY <1>1, <1>2, StepOverlapping, Advancing DEF TypeOK, Field
<1>5. /\ at[t] = "copy" /\ near' = near
      /\ field[t] < Fields => field'[t] = field[t] + 1 /\ at'[t] = "copy"
      /\ field[t] = Fields => field'[t] = 1 /\ at'[t] = "idle"
      /\ \A u \in Threads \ {t} : at'[u] = at[u] /\ field'[u] = field[u]
  BY <1>1, <1>2, Advancing, StepOverlapping
<1>6. t \in Busy /\ \A f \in Field : f \in 1..Fields
  BY <1>2 DEF Busy, Field
<1>7. Fresh'
  <2> SUFFICES ASSUME NEW u \in Threads, NEW f \in Field
               PROVE  /\ Converted(u, f)' => tm'[f] \in direct'[u]
                      /\ Printed(u, f)'   => text'[f] \in near'[u]
                      /\ Copied(u, f)'    => answer'[u][f] \in near'[u]
    BY DEF Fresh
  <2>1. Copied(u, f)' => Copied(u, f) \/ (u = t /\ f = field[t])
    BY <1>2, <1>5, <1>6, DateAssumption
    DEF Copied, Returned, TypeOK, Field
  <2>2. /\ Converted(u, f)' => Converted(u, f)
        /\ Printed(u, f)' => Printed(u, f)
    BY <1>2, <1>5, <1>6, DateAssumption DEF Converted, Printed, TypeOK, Field
  <2>3. Copied(u, f)' => answer'[u][f] \in near[u]
    <3>1. text[field[t]] \in near[t]
      BY <1>2 DEF Fresh, Printed, Field
    <3>2. answer'[u][f] = IF u = t /\ f = field[t] THEN text[f] ELSE answer[u][f]
      BY <1>2 DEF TypeOK, Field
    <3> QED
      BY <3>1, <3>2, <2>1 DEF Fresh
  <2> QED
    BY <2>2, <2>3, <1>1, <1>2, StepOverlapping DEF Fresh
<1> QED
  BY <1>1, <1>3, <1>7, StepOverlapping

\* The races of http_date reach no further than two calls, whatever the number
\* of threads, of fields and of times: a returned date has no field from a call
\* that neither overlapped its call nor a call that did.
THEOREM DatesStayNear == DateSpec => []FieldsOfNearCalls
<1>1. IInv /\ [DateNext]_dvars => IInv'
  <2> SUFFICES ASSUME IInv, [DateNext]_dvars PROVE IInv'
    OBVIOUS
  <2>1. CASE UNCHANGED dvars
    BY <2>1 DEF IInv, TypeOK, Overlapping, Fresh, IdleAtFirst, Converted, Printed,
                Copied, Returned, Busy, dvars
  <2>2. CASE DateNext
    BY <2>2, BeginIInv, LocaltimeIInv, HttptimeIInv, CopyIInv DEF DateNext, Step
  <2> QED
    BY <2>1, <2>2
<1>2. IInv => FieldsOfNearCalls
  BY DEF IInv, Fresh, Copied, FieldsOfNearCalls
<1> QED
  BY InitIInv, <1>1, <1>2, PTL DEF DateSpec

-----------------------------------------------------------------------------
(* The threads that answer requests.                                       *)

\* Every step of a request is one of its thread in http_date, or leaves the
\* shared storage alone.
LEMMA RequestsOnlyCall ==
  ASSUME [Next]_vars
  PROVE  [DateNext]_dvars
<1>1. CASE UNCHANGED vars
  BY <1>1 DEF vars
<1>2. CASE Next
  <2> PICK t \in Threads : RequestStep(t)
    BY <1>2 DEF Next
  <2>1. CASE \E r \in Request : arrive(t, r)
    BY <2>1 DEF arrive
  <2>2. CASE parse_request(t)
    BY <2>2 DEF parse_request
  <2>3. CASE execute(t)
    BY <2>3 DEF execute, DateNext
  <2>4. CASE last_modified(t)
    BY <2>4 DEF last_modified, DateNext
  <2>5. CASE make_response(t)
    BY <2>5 DEF make_response
  <2>6. CASE Handler(t)
    BY <2>6 DEF Handler
  <2>7. CASE Dating(t)
    BY <2>7 DEF Dating, DateNext
  <2> QED
    BY <2>1, <2>2, <2>3, <2>4, <2>5, <2>6, <2>7 DEF RequestStep
<1> QED
  BY <1>1, <1>2

\* Requests, whatever cache of handlers they find and however they end, use
\* http_date as HttpDate says (make_response, fetch_resource_header).
THEOREM RequestsUseDates == Spec => DateSpec
<1>1. Init => DateInit
  BY DEF Init
<1> QED
  BY <1>1, RequestsOnlyCall, PTL DEF Spec, DateSpec

\* So the Date and the Last-Modified of a response never have a field from a
\* call of http_date that was not near theirs in time, whatever the number of
\* worker threads and of requests.
THEOREM ResponsesDatesStayNear == Spec => []FieldsOfNearCalls
BY RequestsUseDates, DatesStayNear, PTL

-----------------------------------------------------------------------------
(* Requests to a warm cache.                                               *)

\* What a call of get_handler stores; never a null pointer.
Made == (Threads \X Nat) \cup {Cache!Earlier}

CacheInv ==
  /\ cache  \in [Known -> SUBSET Made]
  /\ pos    \in [Threads -> [Known -> SUBSET Made]]
  /\ pc     \in [Threads -> {"idle", "contains", "get", "find", "link", "dead"}]
  /\ ver    \in [Threads -> Known \cup Unknown \cup {Cache!NoVer}]
  /\ result \in [Threads -> Made \cup {Cache!Null}]
  /\ calls  \in [Threads -> Nat]
  /\ \A t \in Threads : pc[t] \in {"contains", "get", "find", "link"} => ver[t] \in Known

RequestInv ==
  /\ phase \in [Threads -> {"idle", "parse", "execute", "last_modified", "make_response"}]
  /\ request \in [Threads -> Request]
  /\ warm \in [Threads -> BOOLEAN]
  /\ status \in [Threads -> {"none", "bad_request", "server_error", "dated"}]

\* What t asks the cache for is what its request needs.
PhaseInv(t) ==
  /\ phase[t] \notin {"parse", "execute"} => pc[t] = "idle"
  /\ phase[t] = "parse" => ver[t] = request[t].version
  /\ phase[t] \in {"execute", "last_modified", "make_response"} =>
       request[t].version = "HTTP/1.1"
  /\ phase[t] = "execute" => ver[t] = "HTTP/1.1"

\* A request that found the cache warm keeps it so, and gets a handler for a
\* known version.
WarmInv(t) ==
  warm[t] =>
    /\ Cache!Warm /\ Cache!Alive
    /\ phase[t] \in {"parse", "execute"} /\ pc[t] = "idle" =>
         (result[t] = Cache!Null <=> ver[t] \notin Known)
    /\ status[t] # "none" => (status[t] = "dated" <=> request[t].version = "HTTP/1.1")

HandlerInv ==
  /\ CacheInv /\ RequestInv
  /\ \A t \in Threads : PhaseInv(t) /\ WarmInv(t)

\* A step of thread t inside the cache, and what it may touch.
CacheStep(t) ==
  \/ \E v \in Known \cup Unknown : Cache!get_handler(t, v)
  \/ Cache!contains(t) \/ Cache!get(t) \/ Cache!emplace_find(t) \/ Cache!emplace_link(t)

LEMMA HandlersNotNull == Cache!Null \notin Made
BY DEF Made, Cache!Null, Cache!Earlier

LEMMA CacheStepInv ==
  ASSUME CacheInv, NEW t \in Threads, CacheStep(t)
  PROVE  /\ CacheInv'
         /\ \A u \in Threads \ {t} :
              pc'[u] = pc[u] /\ ver'[u] = ver[u] /\ result'[u] = result[u]
<1>1. CASE \E v \in Known \cup Unknown : Cache!get_handler(t, v)
  <2> PICK v \in Known \cup Unknown : Cache!get_handler(t, v)
    BY <1>1
  <2>1. CASE v \in Known /\ pc' = [pc EXCEPT ![t] = "contains"] /\ result' = result
    BY <2>1 DEF CacheInv, Cache!get_handler
  <2>2. CASE v \in Unknown /\ Cache!return(t, Cache!Null)
    BY <2>2 DEF CacheInv, Cache!get_handler, Cache!return
  <2> QED
    BY <2>1, <2>2 DEF Cache!get_handler
<1>2. CASE Cache!contains(t)
  BY <1>2 DEF CacheInv, Cache!contains
<1>3. CASE Cache!get(t)
  <2>1. CASE \E h \in cache[ver[t]] : Cache!return(t, h)
    <3>1. ver[t] \in Known
      BY <1>3 DEF CacheInv, Cache!get
    <3> QED
      BY <1>3, <2>1, <3>1 DEF CacheInv, Cache!get, Cache!return
  <2>2. CASE pc' = [pc EXCEPT ![t] = "dead"] /\ result' = result
    BY <1>3, <2>2 DEF CacheInv, Cache!get
  <2> QED
    BY <1>3, <2>1, <2>2 DEF Cache!get
<1>4. CASE Cache!emplace_find(t)
  <2>1. CASE Cache!return(t, Cache!Null) /\ pos' = pos
    BY <1>4, <2>1 DEF CacheInv, Cache!emplace_find, Cache!return
  <2>2. CASE pos' = [pos EXCEPT ![t] = cache] /\ pc' = [pc EXCEPT ![t] = "link"] /\ result' = result
    BY <1>4, <2>2 DEF CacheInv, Cache!emplace_find
  <2> QED
    BY <1>4, <2>1, <2>2 DEF Cache!emplace_find
<1>5. CASE Cache!emplace_link(t)
  <2>1. <<t, calls[t]>> \in Made /\ ver[t] \in Known
    BY <1>5 DEF CacheInv, Made, Cache!emplace_link
  <2>2. PICK seen \in {cache, pos[t]} : cache' = [seen EXCEPT ![ver[t]] = @ \cup {<<t, calls[t]>>}]
    BY <1>5 DEF Cache!emplace_link
  <2>3. seen \in [Known -> SUBSET Made]
    BY DEF CacheInv
  <2>4. cache' \in [Known -> SUBSET Made]
    BY <2>1, <2>2, <2>3
  <2> QED
    BY <1>5, <2>1, <2>4 DEF CacheInv, Cache!emplace_link, Cache!return
<1> QED
  BY <1>1, <1>2, <1>3, <1>4, <1>5 DEF CacheStep

\* Nobody writes to a warm cache, and so nobody misses a handler in it.
LEMMA WarmStays ==
  ASSUME CacheInv, Cache!Warm, Cache!Alive, NEW t \in Threads, CacheStep(t)
  PROVE  /\ Cache!Warm' /\ Cache!Alive' /\ cache' = cache
         /\ pc[t] \in {"contains", "get"} /\ pc'[t] = "idle" => result'[t] \in Made
<1>1. /\ \A v \in Known : cache[v] # {}
      /\ \A u \in Threads : pc[u] \notin {"find", "link", "dead"}
  BY DEF Cache!Warm, Cache!Alive
<1>2. pc[t] \in {"contains", "get"} => ver[t] \in Known /\ ~ Cache!Misses(t)
  BY <1>1 DEF CacheInv, Cache!Misses, Cache!Linking
<1>3. cache' = cache /\ pc'[t] \in {"idle", "contains", "get"}
  <2>1. CASE \E v \in Known \cup Unknown : Cache!get_handler(t, v)
    BY <2>1 DEF CacheInv, Cache!get_handler, Cache!return
  <2>2. CASE Cache!contains(t)
    BY <1>2, <2>2 DEF CacheInv, Cache!contains
  <2>3. CASE Cache!get(t)
    BY <1>2, <2>3 DEF CacheInv, Cache!get, Cache!return
  <2>4. CASE Cache!emplace_find(t) \/ Cache!emplace_link(t)
    BY <1>1, <2>4 DEF Cache!emplace_find, Cache!emplace_link
  <2> QED
    BY <2>1, <2>2, <2>3, <2>4 DEF CacheStep
<1>4. ASSUME pc[t] \in {"contains", "get"}, pc'[t] = "idle" PROVE result'[t] \in Made
  <2>1. Cache!get(t)
    BY <1>4 DEF CacheInv, CacheStep, Cache!get_handler, Cache!contains, Cache!emplace_find,
                Cache!emplace_link
  <2> QED
    BY <1>2, <1>4, <2>1 DEF CacheInv, Cache!get, Cache!return
<1>5. \A u \in Threads \ {t} : pc'[u] = pc[u]
  BY CacheStepInv
<1> QED
  BY <1>1, <1>3, <1>4, <1>5 DEF Cache!Warm, Cache!Alive

LEMMA InitHandlerInv == Init => HandlerInv
<1> SUFFICES ASSUME Init PROVE HandlerInv
  OBVIOUS
<1>1. CacheInv
  <2> PICK seen \in SUBSET Known : Cache!Holding(seen)
    BY DEF Init
  <2> QED
    BY DEF CacheInv, Cache!Holding, Cache!Empty, Made
<1>2. RequestInv
  BY DEF Init, RequestInv, Request, Known
<1>3. ASSUME NEW t \in Threads PROVE PhaseInv(t) /\ WarmInv(t)
  BY DEF Init, PhaseInv, WarmInv, Cache!Holding
<1> QED
  BY <1>1, <1>2, <1>3 DEF HandlerInv

\* What a step of t does to the other threads' requests: nothing.
LEMMA OneRequestInv ==
  ASSUME HandlerInv, NEW t \in Threads, CacheStep(t) \/ UNCHANGED cvars, RequestInv',
         \A u \in Threads \ {t} :
           /\ phase'[u] = phase[u] /\ request'[u] = request[u]
           /\ warm'[u] = warm[u] /\ status'[u] = status[u],
         PhaseInv(t)', WarmInv(t)'
  PROVE  HandlerInv'
<1>1. /\ CacheInv'
      /\ \A u \in Threads \ {t} : pc'[u] = pc[u] /\ ver'[u] = ver[u] /\ result'[u] = result[u]
  <2>1. CASE UNCHANGED cvars
    BY <2>1 DEF cvars, HandlerInv, CacheInv
  <2> QED
    BY <2>1, CacheStepInv DEF HandlerInv
<1>2. Cache!Warm /\ Cache!Alive => Cache!Warm' /\ Cache!Alive'
  <2>1. CASE UNCHANGED cvars
    BY <2>1 DEF cvars, Cache!Warm, Cache!Alive
  <2> QED
    BY <2>1, WarmStays DEF HandlerInv
<1>3. ASSUME NEW u \in Threads \ {t} PROVE PhaseInv(u)' /\ WarmInv(u)'
  BY <1>1, <1>2 DEF HandlerInv, PhaseInv, WarmInv
<1> QED
  BY <1>1, <1>3 DEF HandlerInv

\* A request ends with a dated response if it is HTTP/1.1, or was not warm.
LEMMA EndInv ==
  ASSUME HandlerInv, NEW t \in Threads, UNCHANGED cvars, pc[t] = "idle",
         NEW e \in {"bad_request", "server_error", "dated"}, End(t, e),
         warm[t] => (e = "dated" <=> request[t].version = "HTTP/1.1")
  PROVE  HandlerInv'
<1>1. /\ phase' = [phase EXCEPT ![t] = "idle"] /\ status' = [status EXCEPT ![t] = e]
      /\ UNCHANGED <<request, warm>>
  BY DEF End
<1>2. RequestInv' /\ phase'[t] = "idle" /\ status'[t] = e
  BY <1>1 DEF HandlerInv, RequestInv
<1>3. PhaseInv(t)'
  BY <1>2 DEF PhaseInv, cvars
<1>4. WarmInv(t)'
  BY <1>1, <1>2 DEF HandlerInv, WarmInv, cvars, Cache!Warm, Cache!Alive
<1>5. \A u \in Threads \ {t} : phase'[u] = phase[u] /\ status'[u] = status[u]
  BY <1>1 DEF HandlerInv, RequestInv
<1> QED
  BY <1>1, <1>2, <1>3, <1>4, <1>5, OneRequestInv

LEMMA NextHandlerInv == ASSUME HandlerInv, Next PROVE HandlerInv'
<1> PICK t \in Threads : RequestStep(t)
  BY DEF Next
<1>1. /\ CacheInv /\ RequestInv /\ PhaseInv(t) /\ WarmInv(t)
      /\ request[t] \in Request /\ request[t].version \in Known \cup Unknown
  BY DEF HandlerInv, RequestInv, Request
<1>2. CASE \E r \in Request : arrive(t, r)
  <2> PICK r \in Request : arrive(t, r)
    BY <1>2
  <2>1. r.version \in Known \cup Unknown /\ Cache!get_handler(t, r.version) /\ CacheStep(t)
    BY DEF arrive, Request, CacheStep
  <2>2. /\ phase' = [phase EXCEPT ![t] = "parse"] /\ request' = [request EXCEPT ![t] = r]
        /\ warm' = [warm EXCEPT ![t] = Cache!Warm] /\ status' = [status EXCEPT ![t] = "none"]
    BY DEF arrive
  <2>3. ver'[t] = r.version
    BY <1>1, <2>1 DEF CacheInv, Cache!get_handler
  <2>4. PhaseInv(t)'
    BY <1>1, <2>2, <2>3 DEF PhaseInv, RequestInv
  <2>5. pc'[t] = "idle" => (result'[t] = Cache!Null /\ ver'[t] \notin Known)
    <3>1. CASE r.version \in Known /\ pc' = [pc EXCEPT ![t] = "contains"]
      BY <1>1, <3>1 DEF CacheInv
    <3>2. CASE r.version \in Unknown /\ Cache!return(t, Cache!Null)
      BY <1>1, <2>3, <3>2 DEF CacheInv, Cache!return, Known, Unknown
    <3> QED
      BY <2>1, <3>1, <3>2 DEF Cache!get_handler
  <2>6. pc'[t] # "idle" \/ (result'[t] = Cache!Null /\ ver'[t] \notin Known)
    BY <2>5
  <2>7. WarmInv(t)'
    <3> SUFFICES ASSUME Cache!Warm PROVE WarmInv(t)'
      BY <1>1, <2>2 DEF WarmInv, RequestInv
    <3>1. Cache!Alive
      BY <2>1 DEF Cache!get_handler
    <3>2. Cache!Warm' /\ Cache!Alive'
      BY <1>1, <2>1, <3>1, WarmStays
    <3> QED
      BY <1>1, <2>2, <2>6, <3>2 DEF WarmInv, RequestInv
  <2>8. RequestInv'
    <3>1. Cache!Warm \in BOOLEAN
      BY DEF Cache!Warm
    <3> HIDE DEF Cache!Warm
    <3>2. warm' \in [Threads -> BOOLEAN]
      BY <1>1, <2>2, <3>1 DEF RequestInv
    <3> QED
      BY <1>1, <2>2, <3>2 DEF RequestInv
  <2>9. \A u \in Threads \ {t} :
          /\ phase'[u] = phase[u] /\ request'[u] = request[u]
          /\ warm'[u] = warm[u] /\ status'[u] = status[u]
    BY <1>1, <2>2 DEF RequestInv
  <2> QED
    BY <2>1, <2>4, <2>7, <2>8, <2>9, OneRequestInv
<1>3. CASE parse_request(t)
  <2>1. phase[t] = "parse" /\ pc[t] = "idle" /\ UNCHANGED <<request, warm>>
    BY <1>3 DEF parse_request, End, WaitFor
  <2>2. ASSUME NEW e \in {"bad_request", "server_error"}, End(t, e), UNCHANGED cvars,
               e = "bad_request" => result[t] = Cache!Null,
               e = "server_error" => request[t].version = "HTTP/1.0"
        PROVE  HandlerInv'
    <3>1. request[t].version = "HTTP/1.1" => ~ warm[t]
      BY <1>1, <2>1, <2>2 DEF PhaseInv, WarmInv, Known
    <3> QED
      BY <1>1, <2>1, <2>2, <3>1, EndInv
  <2>3. CASE request[t].version = "HTTP/1.1" /\ Cache!get_handler(t, "HTTP/1.1") /\ WaitFor(t, "execute")
    <3>1. CacheStep(t) /\ pc'[t] = "contains" /\ ver'[t] = "HTTP/1.1"
      BY <1>1, <2>3 DEF CacheStep, Cache!get_handler, CacheInv, Known, Unknown
    <3>2. PhaseInv(t)'
      BY <1>1, <2>1, <2>3, <3>1 DEF PhaseInv, RequestInv, WaitFor
    <3>3. WarmInv(t)'
      BY <1>1, <2>1, <2>3, <3>1, WarmStays DEF WarmInv, WaitFor
    <3> QED
      BY <1>1, <2>3, <3>1, <3>2, <3>3, OneRequestInv DEF RequestInv, WaitFor
  <2> QED
    BY <1>3, <2>2, <2>3 DEF parse_request
<1>4. CASE execute(t) \/ last_modified(t) \/ make_response(t)
  <2>1. UNCHANGED cvars
    BY <1>4 DEF execute, last_modified, make_response
  <2>2. CASE End(t, "bad_request") /\ phase[t] = "execute" /\ pc[t] = "idle" /\ result[t] = Cache!Null
    <3>1. ~ warm[t]
      BY <1>1, <2>2 DEF PhaseInv, WarmInv, Known
    <3> QED
      BY <1>1, <2>1, <2>2, <3>1, EndInv
  <2>3. CASE End(t, "dated") /\ phase[t] = "make_response"
    BY <1>1, <2>1, <2>3, EndInv DEF PhaseInv
  <2>4. ASSUME NEW next \in {"last_modified", "make_response"}, WaitFor(t, next), pc[t] = "idle",
               phase[t] \in {"execute", "last_modified"}
        PROVE  HandlerInv'
    <3>1. PhaseInv(t)'
      BY <1>1, <2>1, <2>4 DEF PhaseInv, RequestInv, WaitFor, cvars
    <3>2. WarmInv(t)'
      BY <1>1, <2>1, <2>4 DEF WarmInv, RequestInv, WaitFor, cvars, Cache!Warm, Cache!Alive
    <3> QED
      BY <1>1, <2>1, <2>4, <3>1, <3>2, OneRequestInv DEF RequestInv, WaitFor
  <2>5. phase[t] = "last_modified" => pc[t] = "idle"
    BY <1>1 DEF PhaseInv
  <2> QED
    BY <1>4, <2>2, <2>3, <2>4, <2>5 DEF execute, last_modified, make_response
<1>5. CASE Handler(t)
  <2>1. CacheStep(t) /\ UNCHANGED rvars
    BY <1>5 DEF Handler, CacheStep
  <2>2. ver'[t] = ver[t] /\ pc[t] # "idle"
    BY <1>5 DEF Handler, Cache!contains, Cache!get, Cache!emplace_find, Cache!emplace_link
  <2>3. PhaseInv(t)'
    BY <1>1, <2>1, <2>2 DEF rvars, PhaseInv
  <2>4. WarmInv(t)'
    <3> SUFFICES ASSUME warm[t] PROVE WarmInv(t)'
      BY <2>1 DEF rvars, WarmInv
    <3>1. Cache!Warm /\ Cache!Alive
      BY <1>1 DEF WarmInv
    <3>2. /\ Cache!Warm' /\ Cache!Alive'
          /\ pc[t] \in {"contains", "get"} /\ pc'[t] = "idle" => result'[t] \in Made
      BY <1>1, <2>1, <3>1, WarmStays
    <3>3. pc[t] \in {"contains", "get"} /\ ver[t] \in Known
      BY <1>1, <2>2, <3>1 DEF CacheInv, Cache!Warm, Cache!Alive
    <3> QED
      BY <1>1, <2>1, <2>2, <3>2, <3>3, HandlersNotNull DEF rvars, WarmInv
  <2> QED
    BY <1>1, <2>1, <2>3, <2>4, OneRequestInv DEF rvars, RequestInv
<1>6. CASE Dating(t)
  <2>1. UNCHANGED <<cvars, rvars>>
    BY <1>6 DEF Dating
  <2>2. PhaseInv(t)' /\ WarmInv(t)'
    BY <1>1, <2>1 DEF cvars, rvars, PhaseInv, WarmInv, Cache!Warm, Cache!Alive
  <2> QED
    BY <1>1, <2>1, <2>2, OneRequestInv DEF rvars, RequestInv
<1> QED
  BY <1>2, <1>3, <1>4, <1>5, <1>6 DEF RequestStep

THEOREM HandlerInvariance == Spec => []HandlerInv
<1>1. HandlerInv /\ [Next]_vars => HandlerInv'
  <2>1. ASSUME HandlerInv, UNCHANGED vars PROVE HandlerInv'
    BY <2>1 DEF vars, cvars, rvars, HandlerInv, CacheInv, RequestInv, PhaseInv, WarmInv,
                Cache!Warm, Cache!Alive
  <2> QED
    BY <2>1, NextHandlerInv
<1> QED
  BY InitHandlerInv, <1>1, PTL DEF Spec

\* For any number of worker threads and requests: a request that arrives when
\* every version has its handler, and nobody is inserting one, is answered with a
\* dated response exactly if it is an HTTP/1.1 request, and its thread survives,
\* though no lock is taken (http_protocol_handler::get_handler and its cache).
THEOREM WarmCacheNeedsNoLock == Spec => []WarmRequestsAnswered
<1>1. HandlerInv => WarmRequestsAnswered
  BY DEF HandlerInv, WarmInv, WarmRequestsAnswered, Cache!Alive
<1> QED
  BY <1>1, HandlerInvariance, PTL
=============================================================================
