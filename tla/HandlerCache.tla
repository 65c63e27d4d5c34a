---------------------------- MODULE HandlerCache ----------------------------
(***************************************************************************)
(* http_protocol_handler::get_handler and the http_protocol_handler_cache  *)
(* behind it: one std::map, a static member of http_service, that every    *)
(* worker thread reads and fills without a lock, twice per request (once   *)
(* in parse_request, once in execute).                                     *)
(*                                                                         *)
(* emplace() is two steps: it looks for its position, then links a node    *)
(* there.  Threads that overlap it race, and the model keeps the outcomes  *)
(* such a race has without crashing: a lookup that overlaps a link may     *)
(* miss a node, and a link at a position that is out of date leaves a      *)
(* second node for its key or cuts off the nodes linked since.  The build  *)
(* is one with NDEBUG: with assertions, a null handler aborts the process. *)
(***************************************************************************)
EXTENDS Naturals

CONSTANTS
  Threads,   \* the worker threads
  Known,     \* the versions that have a handler: HTTP/1.1 and HTTP/1.0
  Unknown,   \* other strings a request line may end in
  MaxCalls   \* bound: calls of get_handler one thread makes

VARIABLES
  cache,   \* cache[v]: the handlers stored under v (a race can leave two)
  pc,      \* pc[t]: where thread t is in get_handler
  ver,     \* ver[t]: its argument http_version
  pos,     \* pos[t]: the map as t's emplace found it
  result,  \* result[t]: what its last call returned
  calls    \* calls[t]: how many calls t has begun

vars == <<cache, pc, ver, pos, result, calls>>

Earlier == <<0>>                      \* a call before the initial state
Handler == (Threads \X (1..MaxCalls)) \cup {Earlier}   \* who made the instance
Null    == <<>>                       \* nullptr
NoVer   == ""

TypeOK ==
  /\ cache  \in [Known -> SUBSET Handler]
  /\ pc     \in [Threads -> {"idle", "contains", "get", "find", "link", "dead"}]
  /\ ver    \in [Threads -> Known \cup Unknown \cup {NoVer}]
  /\ pos    \in [Threads -> [Known -> SUBSET Handler]]
  /\ result \in [Threads -> Handler \cup {Null}]
  /\ calls  \in [Threads -> 0..MaxCalls]

Empty == [v \in Known |-> {}]

\* The cache as earlier calls left it, and no call under way.
Holding(seen) ==
  /\ cache  = [v \in Known |-> IF v \in seen THEN {Earlier} ELSE {}]
  /\ pc     = [t \in Threads |-> "idle"]
  /\ ver    = [t \in Threads |-> NoVer]
  /\ pos    = [t \in Threads |-> Empty]
  /\ result = [t \in Threads |-> Null]
  /\ calls  = [t \in Threads |-> 0]

Init == Holding({})

Alive == \A t \in Threads : pc[t] # "dead"

return(t, h) ==
  /\ pc' = [pc EXCEPT ![t] = "idle"]
  /\ result' = [result EXCEPT ![t] = h]

\* The comparisons of get_handler: other versions have no handler.
get_handler(t, v) ==
  /\ Alive
  /\ pc[t] = "idle"
  /\ calls[t] < MaxCalls
  /\ calls' = [calls EXCEPT ![t] = @ + 1]
  /\ ver' = [ver EXCEPT ![t] = v]
  /\ \/ v \in Known /\ pc' = [pc EXCEPT ![t] = "contains"] /\ result' = result
     \/ v \in Unknown /\ return(t, Null)
  /\ UNCHANGED <<cache, pos>>

\* Another thread is about to write to the map, or is writing to it.
Linking(t) == \E u \in Threads \ {t} : pc[u] = "link"

\* What a lookup may see.
Finds(t)  == cache[ver[t]] # {}
Misses(t) == cache[ver[t]] = {} \/ Linking(t)

\* Mutant: contains() never finds the version.
contains_never(t) ==
  /\ Alive
  /\ pc[t] = "contains"
  /\ pc' = [pc EXCEPT ![t] = "find"]
  /\ UNCHANGED <<cache, ver, pos, result, calls>>

contains(t) ==
  /\ Alive
  /\ pc[t] = "contains"
  /\ \/ Finds(t)  /\ pc' = [pc EXCEPT ![t] = "get"]
     \/ Misses(t) /\ pc' = [pc EXCEPT ![t] = "find"]
  /\ UNCHANGED <<cache, ver, pos, result, calls>>

\* at() throws on a miss, and make_handle_impl is noexcept.
get(t) ==
  /\ Alive
  /\ pc[t] = "get"
  /\ \/ Finds(t) /\ \E h \in cache[ver[t]] : return(t, h)
     \/ Misses(t) /\ pc' = [pc EXCEPT ![t] = "dead"] /\ result' = result
  /\ UNCHANGED <<cache, ver, pos, calls>>

\* insert(): emplace() finds the key, and insert() answers nullptr ...
emplace_find(t) ==
  /\ Alive
  /\ pc[t] = "find"
  /\ \/ Finds(t) /\ return(t, Null) /\ pos' = pos
     \/ /\ Misses(t)
        /\ pos' = [pos EXCEPT ![t] = cache]
        /\ pc' = [pc EXCEPT ![t] = "link"]
        /\ result' = result
  /\ UNCHANGED <<cache, ver, calls>>

\* ... or links a node with the new handler.
emplace_link(t) ==
  /\ Alive
  /\ pc[t] = "link"
  /\ \E seen \in {cache, pos[t]} :
       cache' = [seen EXCEPT ![ver[t]] = @ \cup {<<t, calls[t]>>}]
  /\ return(t, <<t, calls[t]>>)
  /\ UNCHANGED <<ver, pos, calls>>

Next == \E t \in Threads :
  \/ \E v \in Known \cup Unknown : get_handler(t, v)
  \/ contains(t)
  \/ get(t)
  \/ emplace_find(t)
  \/ emplace_link(t)

Spec == Init /\ [][Next]_vars

-----------------------------------------------------------------------------
(* Properties.                                                             *)

\* get_handler answers nullptr exactly for the versions that have no handler.
NullMeansUnknown ==
  \A t \in Threads :
    pc[t] = "idle" /\ ver[t] # NoVer => (result[t] = Null <=> ver[t] \in Unknown)

\* Every version has a handler, and nobody is inserting one.
Warm ==
  /\ \A v \in Known : cache[v] # {}
  /\ \A t \in Threads : pc[t] \notin {"find", "link"}

\* Without any lock, a warm cache serves all threads: it stays as it is, no
\* call dies, and every call for a known version returns a stored handler.
WarmCacheServes ==
  [][Warm => /\ Warm' /\ cache' = cache
             /\ \A t \in Threads :
                  /\ pc'[t] # "dead" \/ pc[t] = "dead"
                  /\ pc[t] \in {"contains", "get"} /\ pc'[t] = "idle"
                       => result'[t] \in cache[ver[t]]]_vars

=============================================================================
