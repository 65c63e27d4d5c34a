------------------------------- MODULE Router -------------------------------
(***************************************************************************)
(* librest's router: add_route, which a service calls from its setup(),    *)
(* and get_dispatch, which create_resource calls for each request.         *)
(*                                                                         *)
(* A route or a path is the sequence of its segments behind the leading    *)
(* '/', and <<>> where that is missing.  A node of the dispatch tree is    *)
(* named by the edges that lead to it; the loops over the segments take    *)
(* one step for each of them, so that what an exception leaves behind is   *)
(* what the steps before it did.  Assertions only record that they failed, *)
(* as in a build with NDEBUG.                                              *)
(***************************************************************************)
EXTENDS Naturals, Sequences, FiniteSets

CONSTANTS
  Methods,   \* HTTP methods
  Statics,   \* segments of routes that are no ":name"
  Names,     \* the names of ":name" segments
  Segments,  \* segments of requested paths
  MaxRoute,  \* bound: segments of a route
  MaxPath,   \* bound: segments of a path
  MaxRoutes  \* bound: routes a service adds

ASSUME RouterAssumption ==
  MaxRoute \in Nat \ {0} /\ MaxPath \in Nat \ {0} /\ MaxRoutes \in Nat

Static(s)  == [dynamic |-> FALSE, name |-> s]
Dynamic(n) == [dynamic |-> TRUE, name |-> n]
Segment    == {Static(s) : s \in Statics} \cup {Dynamic(n) : n \in Names}

SeqsUpTo(S, n) == UNION {[1..k -> S] : k \in 0..n}
Route == SeqsUpTo(Segment, MaxRoute)
Path  == SeqsUpTo({Static(s) : s \in Segments}, MaxPath)

\* static_routes_[s] and dynamic_route_node_
DynamicEdge == Dynamic("")
Edge(s)     == IF s.dynamic THEN DynamicEdge ELSE s
Edges(r)    == [i \in DOMAIN r |-> Edge(r[i])]
Node        == SeqsUpTo({Edge(s) : s \in Segment}, MaxRoute)

VARIABLES
  nodes,     \* the nodes of router_dispatch_
  ids,       \* <<node, name>>: dynamic_route_identifier_ of node
  fns,       \* <<node, method>>: the keys of functions_
  routes,    \* <<method, route>>: what add_route returned for
  pc,        \* "idle", "add" or "dispatch"
  method,    \* the arguments of the call under way, or the last one
  segs,
  at,        \* segments walked
  node,      \* the node the walk has reached
  params,    \* <<name, segment>>: out_params
  outcome,   \* how the last call ended
  asserted   \* whether an assertion has failed

tree == <<nodes, ids, fns>>
args == <<method, segs>>
vars == <<tree, routes, pc, args, at, node, params, outcome, asserted>>

TypeOK ==
  /\ nodes \subseteq Node /\ <<>> \in nodes
  /\ ids \subseteq nodes \X Names
  /\ fns \subseteq nodes \X Methods
  /\ routes \subseteq Methods \X Route
  /\ pc \in {"idle", "add", "dispatch"}
  /\ method \in Methods
  /\ segs \in Seq(Segment \cup {Static(s) : s \in Segments})
  /\ at \in 0..Len(segs)
  /\ node \in nodes
  /\ params \subseteq Names \X Segments
  /\ outcome \in {"none", "added", "invalid_argument", "found", "nullptr"}
  /\ asserted \in BOOLEAN

Init ==
  /\ nodes = {<<>>}
  /\ ids = {}
  /\ fns = {}
  /\ routes = {}
  /\ pc = "idle"
  /\ method \in Methods
  /\ segs = <<>>
  /\ at = 0
  /\ node = <<>>
  /\ params = {}
  /\ outcome = "none"
  /\ asserted = FALSE

-----------------------------------------------------------------------------
(* What the two walks share.                                               *)

\* Without a leading '/', std::invalid_argument.
begin(kind, m, s) ==
  /\ pc = "idle"
  /\ method' = m
  /\ segs' = s
  /\ at' = 0
  /\ node' = <<>>
  /\ params' = {}
  /\ IF s = <<>> THEN pc' = "idle" /\ outcome' = "invalid_argument"
     ELSE pc' = kind /\ outcome' = "none"
  /\ UNCHANGED <<tree, routes, asserted>>

More == at < Len(segs)

descend(edge) ==
  /\ node' = Append(node, edge)
  /\ at' = at + 1
  /\ UNCHANGED <<pc, outcome>>

end(how) ==
  /\ pc' = "idle"
  /\ outcome' = how
  /\ UNCHANGED <<at, node>>

-----------------------------------------------------------------------------
(* add_route.                                                              *)

\* setup() precedes the requests.
add_route(m, r) ==
  /\ outcome \notin {"found", "nullptr"}
  /\ Cardinality(routes) < MaxRoutes
  /\ begin("add", m, r)

\* Mutant: the identifier is assigned before it is compared.
add_dynamic_assign(name) ==
  IF \A id \in ids : id[1] # node
    THEN /\ ids' = ids \cup {<<node, name>>}
         /\ nodes' = nodes \cup {Append(node, DynamicEdge)}
         /\ descend(DynamicEdge)
    ELSE /\ ids' = {id \in ids : id[1] # node} \cup {<<node, name>>}
         /\ nodes' = nodes
         /\ IF <<node, name>> \in ids THEN descend(DynamicEdge)
            ELSE end("invalid_argument")

\* The dynamic branch of the loop: one name for each node.
add_dynamic(name) ==
  \/ /\ \A id \in ids : id[1] # node
     /\ ids' = ids \cup {<<node, name>>}
     /\ nodes' = nodes \cup {Append(node, DynamicEdge)}
     /\ descend(DynamicEdge)
  \/ /\ <<node, name>> \in ids
     /\ descend(DynamicEdge)
     /\ UNCHANGED <<nodes, ids>>
  \/ /\ \E id \in ids : id[1] = node /\ id[2] # name
     /\ end("invalid_argument")
     /\ UNCHANGED <<nodes, ids>>

\* Mutant: a static segment that is new moves on without its node.
add_segment_no_node ==
  /\ pc = "add"
  /\ More
  /\ LET s == segs[at + 1] IN
       \/ s.dynamic /\ add_dynamic(s.name)
       \/ /\ ~ s.dynamic
          /\ UNCHANGED <<nodes, ids>>
          /\ descend(s)
  /\ UNCHANGED <<fns, routes, args, params, asserted>>

\* A round of the loop: the child is looked up, and created where missing.
add_segment ==
  /\ pc = "add"
  /\ More
  /\ LET s == segs[at + 1] IN
       \/ s.dynamic /\ add_dynamic(s.name)
       \/ /\ ~ s.dynamic
          /\ nodes' = nodes \cup {Append(node, s)}
          /\ ids' = ids
          /\ descend(s)
  /\ UNCHANGED <<fns, routes, args, params, asserted>>

add_function ==
  /\ pc = "add"
  /\ ~ More
  /\ \/ /\ <<node, method>> \in fns
        /\ end("invalid_argument")
        /\ UNCHANGED <<fns, routes>>
     \/ /\ <<node, method>> \notin fns
        /\ fns' = fns \cup {<<node, method>>}
        /\ routes' = routes \cup {<<method, segs>>}
        /\ end("added")
  /\ UNCHANGED <<nodes, ids, args, params, asserted>>

-----------------------------------------------------------------------------
(* get_dispatch.                                                           *)

get_dispatch(m, p) == begin("dispatch", m, p)

\* out_params.emplace keeps a value that is there, after the assertion that
\* there is none.
bind(name, s) ==
  /\ asserted' = (asserted \/ \E q \in params : q[1] = name)
  /\ params' = IF \E q \in params : q[1] = name THEN params
               ELSE params \cup {<<name, s>>}

\* Mutant: the dynamic route is tried first.
dispatch_segment_dynamic_first ==
  /\ pc = "dispatch"
  /\ More
  /\ LET s == segs[at + 1] IN
       \/ /\ s.name = ""
          /\ at' = Len(segs)
          /\ UNCHANGED <<node, pc, outcome, params, asserted>>
       \/ /\ s.name # ""
          /\ \E id \in ids : id[1] = node /\ bind(id[2], s.name)
          /\ descend(DynamicEdge)
       \/ /\ s.name # ""
          /\ \A id \in ids : id[1] # node
          /\ IF Append(node, s) \in nodes THEN descend(s)
             ELSE end("nullptr")
          /\ UNCHANGED <<params, asserted>>
  /\ UNCHANGED <<tree, routes, args>>

\* A round of the loop: an empty segment ends it, a static child is preferred
\* to the dynamic one, and there is no way back from either.
dispatch_segment ==
  /\ pc = "dispatch"
  /\ More
  /\ LET s == segs[at + 1] IN
       \/ /\ s.name = ""
          /\ at' = Len(segs)
          /\ UNCHANGED <<node, pc, outcome, params, asserted>>
       \/ /\ s.name # ""
          /\ Append(node, s) \in nodes
          /\ descend(s)
          /\ UNCHANGED <<params, asserted>>
       \/ /\ s.name # ""
          /\ Append(node, s) \notin nodes
          /\ \/ /\ \E id \in ids : id[1] = node /\ bind(id[2], s.name)
                /\ descend(DynamicEdge)
             \/ /\ \A id \in ids : id[1] # node
                /\ end("nullptr")
                /\ UNCHANGED <<params, asserted>>
  /\ UNCHANGED <<tree, routes, args>>

dispatch_function ==
  /\ pc = "dispatch"
  /\ ~ More
  /\ end(IF <<node, method>> \in fns THEN "found" ELSE "nullptr")
  /\ UNCHANGED <<tree, routes, args, params, asserted>>

Next ==
  \/ \E m \in Methods, r \in Route : add_route(m, r)
  \/ add_segment
  \/ add_function
  \/ \E m \in Methods, p \in Path : get_dispatch(m, p)
  \/ dispatch_segment
  \/ dispatch_function

Spec == Init /\ [][Next]_vars

-----------------------------------------------------------------------------
(* Properties.                                                             *)

\* Between calls the tree is the one the successful calls of add_route
\* describe: a call that throws in the middle of its walk, for a name or a
\* method that is taken, has left no node, name or function behind.
TreeIsTheRoutes ==
  pc = "idle" =>
    /\ nodes = {<<>>} \cup
         UNION {{SubSeq(Edges(x[2]), 1, i) : i \in DOMAIN x[2]} : x \in routes}
    /\ ids = UNION {{<<SubSeq(Edges(x[2]), 1, i - 1), x[2][i].name>> :
                       i \in {j \in DOMAIN x[2] : x[2][j].dynamic}} : x \in routes}
    /\ fns = {<<Edges(x[2]), x[1]>> : x \in routes}

\* A path matches a route segment by segment.
Matches(r, p) ==
  /\ Len(r) = Len(p)
  /\ \A i \in DOMAIN r : r[i].dynamic \/ r[i] = p[i]

\* Every variable of r stands where no route has p's own segment instead.
Preferred(r, p) ==
  \A i \in DOMAIN r : r[i].dynamic =>
    ~ \E x \in routes : /\ i \in DOMAIN x[2]
                        /\ \A j \in 1..(i - 1) : Edge(x[2][j]) = Edge(r[j])
                        /\ x[2][i] = p[i]

Bindings(r, p) == {<<r[i].name, p[i].name>> : i \in {j \in DOMAIN r : r[j].dynamic}}

Distinct(r) ==
  \A i, j \in DOMAIN r :
    r[i].dynamic /\ r[j].dynamic /\ r[i].name = r[j].name => i = j

Dispatched == pc = "idle" /\ outcome \in {"found", "nullptr"}

\* The routes that fit the whole path, explicit segments preferred.
Hits == {x \in routes : x[1] = method /\ Matches(x[2], segs) /\ Preferred(x[2], segs)}

\* For a path without empty segments, get_dispatch finds a function exactly
\* when a route was added that the whole path matches, explicit segments
\* preferred, and hands over that route's variables with the segments they
\* stand for.
DispatchIsPreferredMatch ==
  Dispatched /\ (\A i \in DOMAIN segs : segs[i].name # "") =>
    /\ outcome = "found" <=> Hits # {}
    /\ \A x \in Hits : Distinct(x[2]) => params = Bindings(x[2], segs)

\* A path reaches a function only as a whole (router.h, line 42).
NoForwarding == Dispatched /\ outcome = "found" => Hits # {}

\* What was added is found under its own path: a route without variables that
\* add_route accepted is dispatched when it is requested literally.
AddedIsFound == Dispatched /\ <<method, segs>> \in routes => outcome = "found"

\* The assertion of get_dispatch: no variable is bound twice.
NoVariableBoundTwice == ~ asserted

=============================================================================
