---------------------------- MODULE RouterProofs ----------------------------
(***************************************************************************)
(* Proofs about Router, for all methods, all names and segments, and any   *)
(* number of routes of any length.                                         *)
(***************************************************************************)
EXTENDS Router, SequenceTheorems, TLAPS

\* Segments of routes and of paths.
AnySegment == Segment \cup {Static(s) : s \in Segments}
AnyEdge    == {Edge(s) : s \in AnySegment}

\* The node i segments down the route r.
Prefix(r, i) == SubSeq(Edges(r), 1, i)

\* What the routes, and the walk of add_route so far, have put into the tree.
RouteNodes == UNION {{Prefix(x[2], i) : i \in DOMAIN x[2]} : x \in routes}
RouteIds   == UNION {{<<Prefix(x[2], i - 1), x[2][i].name>> :
                        i \in {j \in DOMAIN x[2] : x[2][j].dynamic}} : x \in routes}
RouteFns   == {<<Edges(x[2]), x[1]>> : x \in routes}
WalkNodes  == {Prefix(segs, i) : i \in 1..at}
WalkIds    == {<<Prefix(segs, i - 1), segs[i].name>> : i \in {j \in 1..at : segs[j].dynamic}}

\* add_route throws in the middle of its walk only at a node that a route
\* passes through, where everything it would have created was there.
TreeInv ==
  /\ pc # "add" => nodes = {<<>>} \cup RouteNodes /\ ids = RouteIds
  /\ pc = "add" => /\ nodes = {<<>>} \cup RouteNodes \cup WalkNodes
                   /\ ids = RouteIds \cup WalkIds
                   /\ segs \in Route /\ segs # <<>>
                   /\ node = Prefix(segs, at)
                   /\ outcome = "none"
  /\ fns = RouteFns
  /\ \A x \in routes : x[2] # <<>>
  /\ \A i, j \in ids : i[1] = j[1] => i[2] = j[2]

\* Matches, Preferred and Bindings for the first k segments.
MatchesTo(r, p, k) == \A i \in 1..k : r[i].dynamic \/ r[i] = p[i]
PreferredTo(r, p, k) ==
  \A i \in 1..k : r[i].dynamic =>
    ~ \E x \in routes : /\ i \in DOMAIN x[2]
                        /\ \A j \in 1..(i - 1) : Edge(x[2][j]) = Edge(r[j])
                        /\ x[2][i] = p[i]
BindingsTo(r, p, k) == {<<r[i].name, p[i].name>> : i \in {j \in 1..k : r[j].dynamic}}

NoneEmpty == \A i \in DOMAIN segs : segs[i].name # ""

\* The walk of get_dispatch stands at the node of exactly those routes that
\* fit the segments walked, and has bound their variables.
WalkInv ==
  pc = "dispatch" =>
    /\ segs \in Path /\ segs # <<>>
    /\ outcome = "none"
    /\ NoneEmpty =>
         /\ Len(node) = at
         /\ \A x \in routes : at <= Len(x[2]) =>
              /\ Prefix(x[2], at) = node
                   <=> MatchesTo(x[2], segs, at) /\ PreferredTo(x[2], segs, at)
              /\ Prefix(x[2], at) = node /\ Distinct(x[2])
                   => params = BindingsTo(x[2], segs, at)

IInv == TypeOK /\ TreeInv /\ WalkInv /\ DispatchIsPreferredMatch
-----------------------------------------------------------------------------
(* Segments, edges and prefixes.                                           *)

\* A segment of the path is its own edge; every variable has the same one.
LEMMA EdgeFacts ==
  /\ DynamicEdge.dynamic
  /\ \A s \in AnySegment : /\ s.dynamic \in BOOLEAN
                           /\ Edge(s).dynamic = s.dynamic
                           /\ s.dynamic => Edge(s) = DynamicEdge
                           /\ ~ s.dynamic => Edge(s) = s
  /\ DynamicEdge \in AnyEdge \/ \A s \in AnySegment : ~ s.dynamic
  /\ \A s \in Segment : s.dynamic => s.name \in Names
  /\ \A s \in Segments : Static(s) \in AnySegment /\ ~ Static(s).dynamic /\ Static(s).name = s
<1>1. \A s \in AnySegment : (\E x : s = Static(x)) \/ (\E x \in Names : s = Dynamic(x))
  BY DEF AnySegment, Segment
<1>2. DynamicEdge.dynamic
  BY DEF DynamicEdge, Dynamic
<1>3. \A s \in AnySegment : s.dynamic \in BOOLEAN /\ Edge(s).dynamic = s.dynamic
                             /\ (s.dynamic => Edge(s) = DynamicEdge) /\ (~ s.dynamic => Edge(s) = s)
  <2>1. \A x : /\ Static(x).dynamic = FALSE /\ Edge(Static(x)) = Static(x)
               /\ Dynamic(x).dynamic = TRUE /\ Edge(Dynamic(x)) = DynamicEdge
    BY DEF Edge, Static, Dynamic
  <2> QED BY <1>1, <1>2, <2>1 DEF DynamicEdge
<1>4. \A s \in Segment : s.dynamic => s.name \in Names
  BY DEF Segment, Static, Dynamic
<1>5. \A s \in Segments : Static(s) \in AnySegment /\ ~ Static(s).dynamic /\ Static(s).name = s
  BY DEF AnySegment, Static
<1>6. DynamicEdge \in AnyEdge \/ \A s \in AnySegment : ~ s.dynamic
  BY <1>3 DEF AnyEdge
<1> QED BY <1>2, <1>3, <1>4, <1>5, <1>6

\* Two segments with one edge are both variables, or the same segment.
LEMMA SameEdge ==
  ASSUME NEW s \in AnySegment, NEW t \in AnySegment, Edge(s) = Edge(t)
  PROVE  (s.dynamic <=> t.dynamic) /\ (~ t.dynamic => s = t)
<1>1. \A x \in AnySegment : (\E y : x = Static(y)) \/ (\E y \in Names : x = Dynamic(y))
  BY DEF AnySegment, Segment
<1>2. \A x : /\ Static(x).dynamic = FALSE /\ Edge(Static(x)) = Static(x)
             /\ Dynamic(x).dynamic = TRUE /\ Edge(Dynamic(x)) = DynamicEdge
  BY DEF Edge, Static, Dynamic
<1>3. DynamicEdge.dynamic = TRUE
  BY <1>2 DEF DynamicEdge
<1> QED BY <1>1, <1>2, <1>3

\* Routes and paths are sequences of segments.
LEMMA RoutesAreSeqs ==
  /\ \A r \in Route : /\ r \in Seq(Segment) /\ Len(r) \in 0..MaxRoute /\ r \in Seq(AnySegment)
  /\ \A p \in Path : /\ p \in Seq(AnySegment)
                     /\ \A i \in 1..Len(p) : /\ p[i].name \in Segments
                                             /\ ~ p[i].dynamic /\ p[i] \in AnySegment
  /\ \A s \in Seq(AnyEdge) :
       (\A i \in 1..Len(s) : s[i] \in {Edge(x) : x \in Segment}) /\ Len(s) <= MaxRoute
         => s \in Node
<1> USE RouterAssumption
<1>1. ASSUME NEW r \in Route PROVE r \in Seq(Segment) /\ Len(r) \in 0..MaxRoute /\ r \in Seq(AnySegment)
  <2>1. PICK k \in 0..MaxRoute : r \in [1..k -> Segment]
    BY DEF Route, SeqsUpTo
  <2>2. r \in Seq(Segment) /\ Len(r) = k
    BY <2>1
  <2> QED BY <2>2, SeqMonotonic DEF AnySegment
<1>2. ASSUME NEW p \in Path
      PROVE  /\ p \in Seq(AnySegment)
             /\ \A i \in 1..Len(p) : p[i].name \in Segments /\ ~ p[i].dynamic /\ p[i] \in AnySegment
  <2> DEFINE S == {Static(s) : s \in Segments}
  <2>1. PICK k \in 0..MaxPath : p \in [1..k -> S]
    BY DEF Path, SeqsUpTo
  <2>2. p \in Seq(S) /\ Len(p) = k
    BY <2>1
  <2>3. S \subseteq AnySegment
    BY DEF AnySegment
  <2>4. p \in Seq(AnySegment)
    BY <2>2, <2>3, SeqMonotonic
  <2>5. ASSUME NEW i \in 1..Len(p) PROVE p[i].name \in Segments /\ ~ p[i].dynamic /\ p[i] \in AnySegment
    <3>1. PICK s \in Segments : p[i] = Static(s)
      BY <2>1, <2>2
    <3> QED BY <3>1, EdgeFacts
  <2> QED BY <2>4, <2>5
<1>3. ASSUME NEW s \in Seq(AnyEdge),
             \A i \in 1..Len(s) : s[i] \in {Edge(x) : x \in Segment}, Len(s) <= MaxRoute
      PROVE  s \in Node
  <2>1. s \in [1..Len(s) -> {Edge(x) : x \in Segment}] /\ Len(s) \in 0..MaxRoute
    BY <1>3
  <2> QED BY <2>1 DEF Node, SeqsUpTo
<1> QED BY <1>1, <1>2, <1>3

\* A node is the sequence of the edges that lead to it.
LEMMA NodesAreSeqs == ASSUME NEW n \in Node PROVE n \in Seq(AnyEdge) /\ Len(n) \in Nat
<1>1. PICK k \in 0..MaxRoute : n \in [1..k -> {Edge(s) : s \in Segment}]
  BY DEF Node, SeqsUpTo
<1>2. n \in Seq({Edge(s) : s \in Segment})
  BY <1>1, RouterAssumption
<1>3. {Edge(s) : s \in Segment} \subseteq AnyEdge
  BY DEF AnyEdge, AnySegment
<1>4. n \in Seq(AnyEdge)
  BY <1>2, <1>3, SeqMonotonic
<1> QED BY <1>4, LenProperties

\* A prefix is the sequence of the first edges.
LEMMA PrefixIs ==
  ASSUME NEW r \in Seq(AnySegment), NEW i \in 0..Len(r)
  PROVE  /\ Prefix(r, i) \in Seq(AnyEdge) /\ Len(Prefix(r, i)) = i
         /\ \A j \in 1..i : Prefix(r, i)[j] = Edge(r[j])
         /\ Edges(r) = Prefix(r, Len(r))
<1>1. Edges(r) \in Seq(AnyEdge) /\ Len(Edges(r)) = Len(r) /\ \A j \in 1..Len(r) : Edges(r)[j] = Edge(r[j])
  <2>1. DOMAIN r = 1..Len(r) /\ Len(r) \in Nat
    BY LenProperties
  <2>2. \A j \in 1..Len(r) : Edge(r[j]) \in AnyEdge
    BY ElementOfSeq DEF AnyEdge
  <2>3. Edges(r) \in [1..Len(r) -> AnyEdge]
    BY <2>1, <2>2 DEF Edges
  <2> QED BY <2>1, <2>3 DEF Edges
<1>2. \A j \in 1..i : Edges(r)[j] \in AnyEdge
  BY <1>1, ElementOfSeq
<1>3. Prefix(r, i) \in Seq(AnyEdge) /\ Len(Prefix(r, i)) = i
      /\ \A j \in 1..i : Prefix(r, i)[j] = Edges(r)[j]
  BY <1>2, SubSeqProperties DEF Prefix
<1>4. Edges(r) = Prefix(r, Len(r))
  BY <1>1, SubSeqFull DEF Prefix
<1> QED BY <1>1, <1>3, <1>4

\* The next node down a route.
LEMMA PrefixNext ==
  ASSUME NEW r \in Seq(AnySegment), NEW i \in 0..Len(r), i < Len(r)
  PROVE  Prefix(r, i + 1) = Append(Prefix(r, i), Edge(r[i + 1]))
<1>1. Prefix(r, i) \in Seq(AnyEdge) /\ Len(Prefix(r, i)) = i /\ \A j \in 1..i : Prefix(r, i)[j] = Edge(r[j])
  BY PrefixIs
<1>2. Prefix(r, i+1) \in Seq(AnyEdge) /\ Len(Prefix(r, i+1)) = i+1
      /\ \A j \in 1..(i+1) : Prefix(r, i+1)[j] = Edge(r[j])
  BY PrefixIs, i + 1 \in 0..Len(r)
<1>3. Edge(r[i+1]) \in AnyEdge
  BY ElementOfSeq, i + 1 \in 1..Len(r) DEF AnyEdge
<1>4. Append(Prefix(r, i), Edge(r[i+1])) \in Seq(AnyEdge)
      /\ Len(Append(Prefix(r, i), Edge(r[i+1]))) = i+1
      /\ (\A j \in 1..i : Append(Prefix(r, i), Edge(r[i+1]))[j] = Prefix(r, i)[j])
      /\ Append(Prefix(r, i), Edge(r[i+1]))[i+1] = Edge(r[i+1])
  BY <1>1, <1>3, AppendProperties
<1>5. \A j \in 1..(i+1) : Prefix(r, i+1)[j] = Append(Prefix(r, i), Edge(r[i+1]))[j]
  BY <1>1, <1>2, <1>4
<1> QED BY <1>2, <1>4, <1>5, SeqEqual

\* Two routes that reach the same node have taken the same edges to it.
LEMMA PrefixAgree ==
  ASSUME NEW r \in Seq(AnySegment), NEW q \in Seq(AnySegment),
         NEW i \in 0..Len(r), NEW j \in 0..Len(q)
  PROVE  Prefix(r, i) = Prefix(q, j) <=> i = j /\ \A k \in 1..i : Edge(r[k]) = Edge(q[k])
<1>1. Prefix(r, i) \in Seq(AnyEdge) /\ Len(Prefix(r, i)) = i /\ \A k \in 1..i : Prefix(r, i)[k] = Edge(r[k])
  BY PrefixIs
<1>2. Prefix(q, j) \in Seq(AnyEdge) /\ Len(Prefix(q, j)) = j /\ \A k \in 1..j : Prefix(q, j)[k] = Edge(q[k])
  BY PrefixIs
<1>3. ASSUME Prefix(r, i) = Prefix(q, j) PROVE i = j /\ \A k \in 1..i : Edge(r[k]) = Edge(q[k])
  BY <1>1, <1>2, <1>3
<1>4. ASSUME i = j, \A k \in 1..i : Edge(r[k]) = Edge(q[k]) PROVE Prefix(r, i) = Prefix(q, j)
  BY <1>1, <1>2, <1>4, SeqEqual
<1> QED BY <1>3, <1>4

-----------------------------------------------------------------------------
(* The tree while a route is added.                                        *)

\* The types in terms of sequences.
LEMMA TypedState ==
  ASSUME TypeOK
  PROVE  /\ segs \in Seq(AnySegment) /\ Len(segs) \in Nat /\ at \in 0..Len(segs)
         /\ \A x \in routes : /\ x = <<x[1], x[2]>> /\ x[1] \in Methods /\ x[2] \in Route
                              /\ x[2] \in Seq(AnySegment) /\ Len(x[2]) \in Nat
                              /\ DOMAIN x[2] = 1..Len(x[2])
         /\ nodes \subseteq Node
<1>1. segs \in Seq(AnySegment) /\ Len(segs) \in Nat /\ at \in 0..Len(segs)
  BY LenProperties DEF TypeOK, AnySegment
<1>2. \A x \in routes : x = <<x[1], x[2]>> /\ x[1] \in Methods /\ x[2] \in Route
  BY DEF TypeOK
<1>3. \A x \in routes : x[2] \in Seq(AnySegment) /\ Len(x[2]) \in Nat /\ DOMAIN x[2] = 1..Len(x[2])
  BY <1>2, RoutesAreSeqs, LenProperties
<1> QED BY <1>1, <1>2, <1>3 DEF TypeOK

\* A walk that stands at a node some route passes through has created nothing:
\* an exception thrown there leaves the tree of the routes behind.
LEMMA NothingCreated ==
  ASSUME TypeOK, TreeInv, pc = "add",
         NEW x \in routes, at <= Len(x[2]), Prefix(x[2], at) = node
  PROVE  nodes = {<<>>} \cup RouteNodes /\ ids = RouteIds
<1> USE TypedState
<1>1. node = Prefix(segs, at) /\ nodes = {<<>>} \cup RouteNodes \cup WalkNodes /\ ids = RouteIds \cup WalkIds
  BY DEF TreeInv
<1>2. \A k \in 1..at : Edge(x[2][k]) = Edge(segs[k])
  BY <1>1, PrefixAgree
<1>3. ASSUME NEW i \in 0..at PROVE Prefix(x[2], i) = Prefix(segs, i)
  BY <1>2, PrefixAgree
<1>4. WalkNodes \subseteq RouteNodes
  <2> SUFFICES ASSUME NEW i \in 1..at PROVE Prefix(segs, i) \in RouteNodes
    BY DEF WalkNodes
  <2>1. i \in DOMAIN x[2] /\ Prefix(x[2], i) = Prefix(segs, i)
    BY <1>3
  <2> QED BY <2>1 DEF RouteNodes
<1>5. WalkIds \subseteq RouteIds
  <2> SUFFICES ASSUME NEW i \in 1..at, segs[i].dynamic
               PROVE  <<Prefix(segs, i - 1), segs[i].name>> \in RouteIds
    BY DEF WalkIds
  <2>1. i \in DOMAIN x[2] /\ Prefix(x[2], i - 1) = Prefix(segs, i - 1)
    BY <1>3, i - 1 \in 0..at
  <2>2. x[2][i] \in AnySegment /\ segs[i] \in AnySegment
    BY ElementOfSeq, <2>1
  <2>3. x[2][i].dynamic
    <3>1. Edge(x[2][i]) = Edge(segs[i])
      BY <1>2
    <3> QED BY <2>2, <3>1, SameEdge
  <2>4. <<Prefix(x[2], i - 1), x[2][i].name>> \in RouteIds
    BY <2>1, <2>3 DEF RouteIds
  <2>5. <<Prefix(segs, i - 1), segs[i].name>> \in WalkIds
    BY DEF WalkIds
  <2>6. <<Prefix(segs, i - 1), x[2][i].name>> \in ids /\ <<Prefix(segs, i - 1), segs[i].name>> \in ids
    BY <2>1, <2>4, <2>5, <1>1
  <2>7. x[2][i].name = segs[i].name
    BY <2>6 DEF TreeInv
  <2> QED BY <2>1, <2>4, <2>7
<1> QED BY <1>1, <1>4, <1>5

\* A name that is taken at a node is a route's name: the walk has not named
\* the node it stands at.
LEMMA NameTaken ==
  ASSUME TypeOK, TreeInv, NEW id \in ids, id[1] = node, pc = "add" \/ Len(node) = at
  PROVE  \E x \in routes : /\ at < Len(x[2]) /\ Prefix(x[2], at) = node
                           /\ x[2][at + 1].dynamic /\ x[2][at + 1].name = id[2]
<1> USE TypedState
<1>1. Len(node) = at
  BY PrefixIs DEF TreeInv
<1>2. ASSUME id \in WalkIds, pc = "add" PROVE FALSE
  <2>1. PICK i \in 1..at : id = <<Prefix(segs, i - 1), segs[i].name>>
    BY <1>2 DEF WalkIds
  <2>2. Len(Prefix(segs, i - 1)) = i - 1
    BY PrefixIs, i - 1 \in 0..Len(segs)
  <2> QED BY <1>1, <2>1, <2>2
<1>3. id \in RouteIds
  BY <1>2 DEF TreeInv
<1>4. PICK x \in routes : id \in {<<Prefix(x[2], i - 1), x[2][i].name>> :
                                  i \in {j \in DOMAIN x[2] : x[2][j].dynamic}}
  BY <1>3 DEF RouteIds
<1>5. PICK i \in 1..Len(x[2]) : x[2][i].dynamic /\ id = <<Prefix(x[2], i - 1), x[2][i].name>>
  BY <1>4
<1>6. Len(Prefix(x[2], i - 1)) = i - 1
  BY PrefixIs, i - 1 \in 0..Len(x[2])
<1>7. i = at + 1
  BY <1>1, <1>5, <1>6
<1> QED BY <1>5, <1>7

\* Initially there are no routes and no nodes but the root.
LEMMA InitIInv == Init => IInv
<1> SUFFICES ASSUME Init PROVE IInv
  OBVIOUS
<1>1. <<>> \in Node
  <2>1. <<>> \in [1..0 -> {Edge(s) : s \in Segment}] /\ 0 \in 0..MaxRoute
    BY RouterAssumption
  <2> QED BY <2>1 DEF Node, SeqsUpTo
<1>2. <<>> \in Seq(AnySegment) /\ Len(<<>>) = 0
  BY EmptySeq
<1>3. TypeOK
  <2>1. nodes \subseteq Node /\ <<>> \in nodes /\ node \in nodes
    BY <1>1 DEF Init
  <2>2. segs \in Seq(AnySegment) /\ at \in 0..Len(segs)
    BY <1>2 DEF Init
  <2> QED BY <2>1, <2>2 DEF Init, TypeOK, AnySegment
<1>4. TreeInv
  BY DEF Init, TreeInv, RouteNodes, RouteIds, RouteFns
<1>5. WalkInv /\ DispatchIsPreferredMatch
  BY DEF Init, WalkInv, DispatchIsPreferredMatch, Dispatched
<1> QED BY <1>3, <1>4, <1>5 DEF IInv

\* A call begins at the root: no route has been walked, and all fit so far.
LEMMA BeginStep ==
  ASSUME IInv, NEW m \in Methods, NEW r \in Route \cup Path,
         \/ r \in Route /\ begin("add", m, r)
         \/ r \in Path /\ begin("dispatch", m, r)
  PROVE  IInv'
<1> USE TypedState DEF IInv
<1>1. r \in Seq(AnySegment)
  BY RoutesAreSeqs
<1>2. /\ pc = "idle" /\ segs' = r /\ at' = 0 /\ node' = <<>> /\ params' = {} /\ method' = m
      /\ nodes' = nodes /\ ids' = ids /\ fns' = fns /\ routes' = routes /\ asserted' = asserted
      /\ r = <<>> => pc' = "idle" /\ outcome' = "invalid_argument"
      /\ r # <<>> => pc' \in {"add", "dispatch"} /\ outcome' = "none"
      /\ pc' = "add" => r \in Route /\ r # <<>>
      /\ pc' = "dispatch" => r \in Path /\ r # <<>>
  BY DEF begin, tree
<1>3. TypeOK'
  BY <1>1, <1>2 DEF TypeOK, AnySegment
<1>4. \A q \in Seq(AnySegment) : Prefix(q, 0) = <<>>
  BY PrefixIs, LenProperties, EmptySeq
<1>5. TreeInv'
  <2>1. RouteNodes' = RouteNodes /\ RouteIds' = RouteIds /\ RouteFns' = RouteFns
    BY <1>2 DEF RouteNodes, RouteIds, RouteFns
  <2>2. WalkNodes' = {} /\ WalkIds' = {}
    BY <1>2 DEF WalkNodes, WalkIds
  <2>3. nodes = {<<>>} \cup RouteNodes /\ ids = RouteIds /\ fns = RouteFns
    BY <1>2 DEF TreeInv
  <2>4. (\A x \in routes' : x[2] # <<>>) /\ \A i, j \in ids' : i[1] = j[1] => i[2] = j[2]
    BY <1>2 DEF TreeInv
  <2>5. node' = Prefix(segs', at')
    BY <1>1, <1>2, <1>4
  <2> QED BY <1>2, <2>1, <2>2, <2>3, <2>4, <2>5 DEF TreeInv
<1>6. WalkInv'
  <2> SUFFICES ASSUME pc' = "dispatch" PROVE WalkInv'
    BY DEF WalkInv
  <2>1. Len(node') = at'
    BY <1>2, EmptySeq
  <2>2. ASSUME NEW x \in routes'
        PROVE  /\ Prefix(x[2], at') = node'
               /\ MatchesTo(x[2], segs', at')
               /\ PreferredTo(x[2], segs, at)'
               /\ params' = BindingsTo(x[2], segs', at')
    <3>1. 1..at' = {} /\ x[2] \in Seq(AnySegment)
      BY <1>2
    <3>2. Prefix(x[2], at') = node'
      BY <1>2, <1>4, <3>1
    <3>3. MatchesTo(x[2], segs', at')
      BY <3>1 DEF MatchesTo
    <3>4. PreferredTo(x[2], segs, at)'
      BY <3>1 DEF PreferredTo
    <3>5. params' = BindingsTo(x[2], segs', at')
      BY <1>2, <3>1 DEF BindingsTo
    <3> QED BY <3>2, <3>3, <3>4, <3>5
  <2> QED BY <1>2, <2>1, <2>2 DEF WalkInv
<1>7. DispatchIsPreferredMatch'
  BY <1>2 DEF DispatchIsPreferredMatch, Dispatched
<1> QED BY <1>3, <1>5, <1>6, <1>7

\* A call of add_route that has failed leaves the tree of the routes behind.
LEMMA AddEnds ==
  ASSUME IInv, pc = "add", pc' = "idle", outcome' = "invalid_argument",
         UNCHANGED <<nodes, ids, fns, routes, args, at, node, params, asserted>>,
         nodes = {<<>>} \cup RouteNodes, ids = RouteIds
  PROVE  IInv'
<1> USE DEF IInv
<1>1. TypeOK'
  BY DEF TypeOK, args
<1>2. TreeInv'
  <2>1. RouteNodes' = RouteNodes /\ RouteIds' = RouteIds /\ RouteFns' = RouteFns
    BY DEF RouteNodes, RouteIds, RouteFns
  <2> QED BY <2>1 DEF TreeInv
<1>3. WalkInv' /\ DispatchIsPreferredMatch'
  BY DEF WalkInv, DispatchIsPreferredMatch, Dispatched
<1> QED BY <1>1, <1>2, <1>3

\* A child that is found or created: the tree has the walk's next node.
LEMMA Descended ==
  ASSUME IInv, pc = "add", at < Len(segs),
         UNCHANGED <<fns, routes, args, params, asserted, pc, outcome>>,
         node' = Append(node, Edge(segs[at + 1])), at' = at + 1,
         nodes' = nodes \cup {Append(node, Edge(segs[at + 1]))},
         ids' = ids \cup {<<node, n>> : n \in {m \in {segs[at + 1].name} : segs[at + 1].dynamic}},
         segs[at + 1].dynamic => \A id \in ids : id[1] = node => id[2] = segs[at + 1].name
  PROVE  IInv'
<1> USE TypedState DEF IInv
<1> DEFINE s == segs[at + 1]
           new == Prefix(segs, at + 1)
<1>1. /\ segs' = segs /\ method' = method /\ routes' = routes /\ fns' = fns
      /\ params' = params /\ pc' = "add" /\ outcome' = "none"
  BY DEF args, TreeInv
<1>2. node = Prefix(segs, at) /\ segs \in Route
  BY DEF TreeInv
<1>3. node' = new /\ nodes' = nodes \cup {new}
  BY <1>2, PrefixNext
<1>4. s \in Segment /\ segs \in Seq(Segment) /\ Len(segs) <= MaxRoute
  BY <1>2, RoutesAreSeqs, ElementOfSeq
<1>5. new \in Node
  <2>1. new \in Seq(AnyEdge) /\ Len(new) = at + 1 /\ \A j \in 1..(at + 1) : new[j] = Edge(segs[j])
    BY PrefixIs, at + 1 \in 0..Len(segs)
  <2>2. \A j \in 1..Len(new) : new[j] \in {Edge(x) : x \in Segment}
    BY <2>1, <1>4, ElementOfSeq
  <2>3. Len(new) <= MaxRoute
    BY <2>1, <1>4, RouterAssumption
  <2> QED BY <2>1, <2>2, <2>3, RoutesAreSeqs
<1>6. TypeOK'
  <2>1. nodes' \subseteq Node /\ <<>> \in nodes' /\ node' \in nodes'
    BY <1>3, <1>5 DEF TypeOK
  <2>2. ids' \subseteq nodes' \X Names
    <3>1. ids \subseteq nodes' \X Names /\ node \in nodes'
      BY <1>3 DEF TypeOK
    <3>2. s.dynamic => s.name \in Names
      BY <1>4, EdgeFacts
    <3> QED BY <3>1, <3>2
  <2>3. fns' \subseteq nodes' \X Methods
    BY <1>1, <1>3 DEF TypeOK
  <2>4. at' \in 0..Len(segs')
    BY <1>1
  <2> QED BY <1>1, <2>1, <2>2, <2>3, <2>4 DEF TypeOK
<1>7. TreeInv'
  <2>1. RouteNodes' = RouteNodes /\ RouteIds' = RouteIds /\ RouteFns' = RouteFns
    BY <1>1 DEF RouteNodes, RouteIds, RouteFns
  <2>2. 1..at' = (1..at) \cup {at + 1}
    OBVIOUS
  <2>3. WalkNodes' = WalkNodes \cup {new}
    BY <2>2, <1>1 DEF WalkNodes
  <2>4. WalkIds' = WalkIds \cup {<<node, n>> : n \in {m \in {s.name} : s.dynamic}}
    <3>1. {j \in 1..at' : segs'[j].dynamic} = {j \in 1..at : segs[j].dynamic}
                                               \cup {j \in {at + 1} : segs[j].dynamic}
      BY <2>2, <1>1
    <3>2. (at + 1) - 1 = at
      OBVIOUS
    <3>3. ASSUME NEW x PROVE x \in WalkIds' <=>
            \/ x \in WalkIds
            \/ s.dynamic /\ x = <<Prefix(segs, (at + 1) - 1), s.name>>
      BY <3>1, <1>1 DEF WalkIds
    <3> QED BY <3>2, <3>3, <1>2
  <2>5. nodes' = {<<>>} \cup RouteNodes' \cup WalkNodes' /\ ids' = RouteIds' \cup WalkIds'
    BY <2>1, <2>3, <2>4, <1>3 DEF TreeInv
  <2>6. \A i, j \in ids' : i[1] = j[1] => i[2] = j[2]
    <3>1. ASSUME NEW i \in ids', NEW j \in ids', i[1] = j[1], i \notin ids PROVE i[2] = j[2]
      BY <3>1
    <3>2. ASSUME NEW i \in ids, NEW j \in ids', i[1] = j[1] PROVE i[2] = j[2]
      BY <3>2 DEF TreeInv
    <3> QED BY <3>1, <3>2
  <2>7. fns' = RouteFns' /\ \A x \in routes' : x[2] # <<>>
    BY <2>1, <1>1 DEF TreeInv
  <2>8. segs' \in Route /\ segs' # <<>> /\ node' = Prefix(segs', at')
    BY <1>1, <1>3 DEF TreeInv
  <2> QED BY <1>1, <2>5, <2>6, <2>7, <2>8 DEF TreeInv
<1>8. WalkInv' /\ DispatchIsPreferredMatch'
  BY <1>1 DEF WalkInv, DispatchIsPreferredMatch, Dispatched
<1> QED BY <1>6, <1>7, <1>8

\* A round of add_route's loop.
LEMMA AddSegmentStep == ASSUME IInv, add_segment PROVE IInv'
<1> USE TypedState DEF IInv
<1> DEFINE s == segs[at + 1]
<1>1. /\ pc = "add" /\ at < Len(segs) /\ UNCHANGED <<fns, routes, args, params, asserted>>
      /\ \/ s.dynamic /\ add_dynamic(s.name)
         \/ ~ s.dynamic /\ nodes' = nodes \cup {Append(node, s)} /\ ids' = ids /\ descend(s)
  BY DEF add_segment, More
<1>2. s \in AnySegment
  BY <1>1, ElementOfSeq
<1>3. CASE ~ s.dynamic
  <2>1. Edge(s) = s
    BY <1>3 DEF Edge
  <2>2. /\ nodes' = nodes \cup {Append(node, Edge(s))}
        /\ node' = Append(node, Edge(s)) /\ at' = at + 1 /\ UNCHANGED <<pc, outcome>>
        /\ ids' = ids \cup {<<node, n>> : n \in {m \in {s.name} : s.dynamic}}
    BY <1>1, <1>3, <2>1 DEF descend
  <2> QED BY <1>1, <1>3, <2>2, Descended
<1>4. CASE s.dynamic
  <2>1. Edge(s) = DynamicEdge
    BY <1>4 DEF Edge
  <2>2. CASE (\A id \in ids : id[1] # node) /\ ids' = ids \cup {<<node, s.name>>}
             /\ nodes' = nodes \cup {Append(node, DynamicEdge)} /\ descend(DynamicEdge)
    <3>1. /\ nodes' = nodes \cup {Append(node, Edge(s))}
          /\ node' = Append(node, Edge(s)) /\ at' = at + 1 /\ UNCHANGED <<pc, outcome>>
          /\ ids' = ids \cup {<<node, n>> : n \in {m \in {s.name} : s.dynamic}}
      BY <1>4, <2>1, <2>2 DEF descend
    <3> QED BY <1>1, <2>2, <3>1, Descended
  <2>3. CASE <<node, s.name>> \in ids /\ descend(DynamicEdge) /\ UNCHANGED <<nodes, ids>>
    <3>1. PICK x \in routes : at < Len(x[2]) /\ Prefix(x[2], at) = node /\ x[2][at + 1].dynamic
      BY <1>1, <2>3, NameTaken
    <3>2. Edge(x[2][at + 1]) = DynamicEdge
      BY <3>1 DEF Edge
    <3>3. Prefix(x[2], at + 1) = Append(node, DynamicEdge)
      BY <3>1, <3>2, PrefixNext
    <3>4. Append(node, DynamicEdge) \in RouteNodes
      BY <3>1, <3>3, at + 1 \in DOMAIN x[2] DEF RouteNodes
    <3>5. Append(node, DynamicEdge) \in nodes
      BY <3>4, <1>1 DEF TreeInv
    <3>6. /\ nodes' = nodes \cup {Append(node, Edge(s))}
          /\ node' = Append(node, Edge(s)) /\ at' = at + 1 /\ UNCHANGED <<pc, outcome>>
          /\ ids' = ids \cup {<<node, n>> : n \in {m \in {s.name} : s.dynamic}}
      BY <1>4, <2>1, <2>3, <3>5 DEF descend
    <3>7. \A id \in ids : id[1] = node => id[2] = s.name
      BY <2>3 DEF TreeInv
    <3> QED BY <1>1, <3>6, <3>7, Descended
  <2>4. CASE (\E id \in ids : id[1] = node /\ id[2] # s.name)
             /\ end("invalid_argument") /\ UNCHANGED <<nodes, ids>>
    <3>1. PICK x \in routes : at < Len(x[2]) /\ Prefix(x[2], at) = node
      BY <1>1, <2>4, NameTaken
    <3>2. nodes = {<<>>} \cup RouteNodes /\ ids = RouteIds
      BY <1>1, <3>1, NothingCreated
    <3> QED BY <1>1, <2>4, <3>2, AddEnds DEF end
  <2> QED BY <1>1, <1>4, <2>2, <2>3, <2>4 DEF add_dynamic
<1> QED BY <1>3, <1>4

\* The end of add_route: the function is entered, or another route has it.
LEMMA AddFunctionStep == ASSUME IInv, add_function PROVE IInv'
<1> USE TypedState DEF IInv
<1>1. /\ pc = "add" /\ at = Len(segs) /\ UNCHANGED <<nodes, ids, args, params, asserted>>
      /\ node = Prefix(segs, at) /\ Edges(segs) = node /\ segs \in Route /\ segs # <<>>
  BY PrefixIs, LenProperties DEF add_function, More, TreeInv
<1>2. CASE <<node, method>> \in fns /\ end("invalid_argument") /\ UNCHANGED <<fns, routes>>
  <2>1. PICK x \in routes : <<node, method>> = <<Edges(x[2]), x[1]>>
    BY <1>2 DEF TreeInv, RouteFns
  <2>2. Edges(x[2]) = Prefix(x[2], Len(x[2])) /\ Len(Prefix(x[2], Len(x[2]))) = Len(x[2])
    BY PrefixIs
  <2>3. Len(node) = at
    BY <1>1, PrefixIs
  <2>4. Prefix(x[2], at) = node /\ at <= Len(x[2])
    BY <2>1, <2>2, <2>3
  <2>5. nodes = {<<>>} \cup RouteNodes /\ ids = RouteIds
    BY <1>1, <2>4, NothingCreated
  <2> QED BY <1>1, <1>2, <2>5, AddEnds DEF end
<1>3. CASE /\ <<node, method>> \notin fns /\ end("added")
           /\ fns' = fns \cup {<<node, method>>} /\ routes' = routes \cup {<<method, segs>>}
  <2> DEFINE new == <<method, segs>>
  <2>0. routes' = routes \cup {new}
    BY <1>3
  <2>1. /\ pc' = "idle" /\ outcome' = "added" /\ at' = at /\ node' = node
        /\ segs' = segs /\ method' = method
    BY <1>1, <1>3 DEF end, args
  <2>2. TypeOK'
    BY <1>1, <1>3, <2>1 DEF TypeOK
  <2>3. nodes' = {<<>>} \cup RouteNodes'
    <3>1. DOMAIN segs = 1..at
      BY <1>1, LenProperties
    <3>2. \A z : z \in RouteNodes' <=> \E x \in routes' : z \in {Prefix(x[2], i) : i \in DOMAIN x[2]}
      BY DEF RouteNodes
    <3>3. \A z : z \in RouteNodes <=> \E x \in routes : z \in {Prefix(x[2], i) : i \in DOMAIN x[2]}
      BY DEF RouteNodes
    <3>4. WalkNodes = {Prefix(new[2], i) : i \in DOMAIN new[2]}
      BY <3>1 DEF WalkNodes
    <3> HIDE DEF new
    <3>5. RouteNodes' = RouteNodes \cup WalkNodes
      BY <1>3, <3>2, <3>3, <3>4, <2>0
    <3> QED BY <1>1, <3>5 DEF TreeInv
  <2>4. ids' = RouteIds'
    <3>1. DOMAIN segs = 1..at
      BY <1>1, LenProperties
    <3> DEFINE Of(x) == {<<Prefix(x[2], i - 1), x[2][i].name>> : i \in {j \in DOMAIN x[2] : x[2][j].dynamic}}
    <3>2. \A z : z \in RouteIds' <=> \E x \in routes' : z \in Of(x)
      BY DEF RouteIds
    <3>3. \A z : z \in RouteIds <=> \E x \in routes : z \in Of(x)
      BY DEF RouteIds
    <3>4. WalkIds = Of(new)
      BY <3>1 DEF WalkIds
    <3> HIDE DEF new, Of
    <3>5. RouteIds' = RouteIds \cup WalkIds
      BY <1>3, <3>2, <3>3, <3>4, <2>0
    <3> QED BY <1>1, <3>5 DEF TreeInv
  <2>5. fns' = RouteFns'
    <3>1. RouteFns' = RouteFns \cup {<<Edges(new[2]), new[1]>>}
      <4> HIDE DEF new
      <4> QED BY <2>0 DEF RouteFns
    <3> QED BY <1>1, <1>3, <3>1 DEF TreeInv
  <2>6. (\A x \in routes' : x[2] # <<>>) /\ \A i, j \in ids' : i[1] = j[1] => i[2] = j[2]
    BY <1>1, <1>3 DEF TreeInv
  <2>7. TreeInv'
    BY <2>1, <2>3, <2>4, <2>5, <2>6 DEF TreeInv
  <2>8. WalkInv' /\ DispatchIsPreferredMatch'
    BY <2>1 DEF WalkInv, DispatchIsPreferredMatch, Dispatched
  <2> QED BY <2>2, <2>7, <2>8
<1> QED BY <1>2, <1>3 DEF add_function

-----------------------------------------------------------------------------
(* The walk of a request.                                                  *)

\* What a walk of get_dispatch leaves alone: the tree, and with it the routes.
LEMMA DispatchKeepsTree ==
  ASSUME TypeOK, TreeInv, pc = "dispatch", UNCHANGED <<tree, routes, args>>, pc' \in {"idle", "dispatch"}
  PROVE  TreeInv'
<1>1. RouteNodes' = RouteNodes /\ RouteIds' = RouteIds /\ RouteFns' = RouteFns
  BY DEF RouteNodes, RouteIds, RouteFns
<1> QED BY <1>1 DEF TreeInv, tree

\* A child with the path's own segment is there exactly if a route that
\* reaches the node goes on with that segment.
LEMMA StaticChild ==
  ASSUME TypeOK, TreeInv, pc # "add", NEW s \in AnySegment, ~ s.dynamic,
         NEW r \in Seq(AnySegment), NEW i \in 0..Len(r), Prefix(r, i) = node
  PROVE  Append(node, s) \in nodes <=>
           \E x \in routes : /\ i + 1 \in DOMAIN x[2]
                             /\ \A j \in 1..i : Edge(x[2][j]) = Edge(r[j])
                             /\ x[2][i + 1] = s
<1> USE TypedState
<1>1. nodes = {<<>>} \cup RouteNodes
  BY DEF TreeInv
<1>2. Edge(s) = s
  BY DEF Edge
<1>3. node \in Seq(AnyEdge) /\ Len(node) = i /\ s \in AnyEdge
  BY <1>2, PrefixIs DEF AnyEdge
<1>4. Append(node, s) # <<>> /\ Len(Append(node, s)) = i + 1
  BY <1>3, AppendProperties
<1>5. ASSUME Append(node, s) \in nodes
      PROVE  \E x \in routes : /\ i + 1 \in DOMAIN x[2]
                               /\ \A j \in 1..i : Edge(x[2][j]) = Edge(r[j])
                               /\ x[2][i + 1] = s
  <2>1. Append(node, s) \in RouteNodes
    BY <1>1, <1>4, <1>5
  <2>2. PICK x \in routes : \E k \in DOMAIN x[2] : Append(node, s) = Prefix(x[2], k)
    BY <2>1 DEF RouteNodes
  <2>3. PICK k \in 1..Len(x[2]) : Append(node, s) = Prefix(x[2], k)
    BY <2>2
  <2>4. k = i + 1
    BY <1>4, <2>3, PrefixIs
  <2>5. Prefix(x[2], i + 1) = Append(Prefix(x[2], i), Edge(x[2][i + 1]))
    BY <2>3, <2>4, PrefixNext
  <2>6. x[2][i + 1] \in AnySegment /\ Edge(x[2][i + 1]) \in AnyEdge
    BY <2>3, <2>4, ElementOfSeq DEF AnyEdge
  <2>7. Prefix(x[2], i) = node /\ Edge(x[2][i + 1]) = s
    <3>1. Prefix(x[2], i) \in Seq(AnyEdge)
      BY <2>3, <2>4, PrefixIs, i \in 0..Len(x[2])
    <3>2. Append(node, s) = Append(Prefix(x[2], i), Edge(x[2][i + 1]))
      BY <2>3, <2>4, <2>5
    <3> QED BY <1>3, <2>6, <3>1, <3>2, AppendInjective
  <2>8. x[2][i + 1] = s
    BY <1>2, <2>6, <2>7, SameEdge
  <2>9. \A j \in 1..i : Edge(x[2][j]) = Edge(r[j])
    BY <2>3, <2>4, <2>7, PrefixAgree
  <2> QED BY <2>3, <2>4, <2>8, <2>9
<1>6. ASSUME NEW x \in routes, i + 1 \in DOMAIN x[2], x[2][i + 1] = s,
             \A j \in 1..i : Edge(x[2][j]) = Edge(r[j])
      PROVE  Append(node, s) \in nodes
  <2>1. Prefix(x[2], i) = node
    BY <1>6, PrefixAgree
  <2>2. Prefix(x[2], i + 1) = Append(node, s)
    BY <1>2, <1>6, <2>1, PrefixNext
  <2> QED BY <1>1, <1>6, <2>2 DEF RouteNodes
<1> QED BY <1>5, <1>6

\* Which routes fit one more segment: those that go on with the segment itself
\* where some route does, and else those that go on with a variable.
LEMMA FitsNext ==
  ASSUME TypeOK, TreeInv, pc = "dispatch", segs \in Path, at < Len(segs),
         NEW x \in routes, at < Len(x[2]),
         Prefix(x[2], at) = node <=> MatchesTo(x[2], segs, at) /\ PreferredTo(x[2], segs, at)
  PROVE  MatchesTo(x[2], segs, at + 1) /\ PreferredTo(x[2], segs, at + 1) <=>
           /\ Prefix(x[2], at) = node
           /\ IF Append(node, segs[at + 1]) \in nodes THEN x[2][at + 1] = segs[at + 1]
              ELSE x[2][at + 1].dynamic
<1> USE TypedState
<1> DEFINE s == segs[at + 1]
           r == x[2]
           Rival == \E y \in routes : /\ at + 1 \in DOMAIN y[2]
                                      /\ \A j \in 1..at : Edge(y[2][j]) = Edge(r[j])
                                      /\ y[2][at + 1] = s
<1>1. s \in AnySegment /\ ~ s.dynamic
  BY RoutesAreSeqs
<1>2. at + 1 \in 1..Len(r) /\ (at + 1) - 1 = at
  OBVIOUS
<1>3. MatchesTo(r, segs, at + 1) <=> MatchesTo(r, segs, at) /\ (r[at + 1].dynamic \/ r[at + 1] = s)
  <2>1. \A i \in 1..(at + 1) : i \in 1..at \/ i = at + 1
    OBVIOUS
  <2>2. 1..at \subseteq 1..(at + 1) /\ at + 1 \in 1..(at + 1)
    OBVIOUS
  <2> QED BY <2>1, <2>2 DEF MatchesTo
<1>4. PreferredTo(r, segs, at + 1) <=> PreferredTo(r, segs, at) /\ (r[at + 1].dynamic => ~ Rival)
  <2>1. \A i \in 1..(at + 1) : i \in 1..at \/ i = at + 1
    OBVIOUS
  <2>2. 1..at \subseteq 1..(at + 1) /\ at + 1 \in 1..(at + 1)
    OBVIOUS
  <2> DEFINE Free(i) == r[i].dynamic =>
                ~ \E y \in routes : /\ i \in DOMAIN y[2]
                                    /\ \A j \in 1..(i - 1) : Edge(y[2][j]) = Edge(r[j])
                                    /\ y[2][i] = segs[i]
  <2>3. Free(at + 1) <=> (r[at + 1].dynamic => ~ Rival)
    BY <1>2
  <2>4. \A k : PreferredTo(r, segs, k) <=> \A i \in 1..k : Free(i)
    BY DEF PreferredTo
  <2> HIDE DEF Free, Rival
  <2> QED BY <2>1, <2>2, <2>3, <2>4
<1>5. Prefix(r, at) = node => (Append(node, s) \in nodes <=> Rival)
  <2> SUFFICES ASSUME Prefix(r, at) = node PROVE Append(node, s) \in nodes <=> Rival
    OBVIOUS
  <2>1. at \in 0..Len(r) /\ r \in Seq(AnySegment) /\ pc # "add"
    OBVIOUS
  <2> QED BY ONLY <1>1, <2>1, Prefix(r, at) = node, TypeOK, TreeInv, StaticChild
<1>6. r[at + 1] = s /\ Prefix(r, at) = node => Rival
  BY <1>2
<1>7. r[at + 1] = s => ~ r[at + 1].dynamic
  BY <1>1
<1> DEFINE A == Append(node, s) \in nodes
           D == r[at + 1].dynamic
           E == r[at + 1] = s
           M == MatchesTo(r, segs, at)
           P == PreferredTo(r, segs, at)
           N == Prefix(r, at) = node
           M1 == MatchesTo(r, segs, at + 1)
           P1 == PreferredTo(r, segs, at + 1)
<1>8. /\ M1 <=> M /\ (D \/ E)
      /\ P1 <=> P /\ (D => ~ Rival)
      /\ N => (A <=> Rival)
      /\ E /\ N => Rival
      /\ E => ~ D
      /\ N <=> M /\ P
  BY <1>3, <1>4, <1>5, <1>6, <1>7
<1>9. SUFFICES M1 /\ P1 <=> N /\ IF A THEN E ELSE D
  OBVIOUS
<1> HIDE DEF Rival, A, D, E, M, P, N, M1, P1
<1> QED BY ONLY <1>8

\* A step of the walk to a child: the routes at the child are those that fit
\* one more segment.
LEMMA WalkOn ==
  ASSUME IInv, pc = "dispatch", at < Len(segs), NoneEmpty, NEW edge,
         edge = IF Append(node, segs[at + 1]) \in nodes THEN segs[at + 1] ELSE DynamicEdge,
         NEW x \in routes, at < Len(x[2])
  PROVE  /\ Prefix(x[2], at + 1) = Append(node, edge)
              <=> MatchesTo(x[2], segs, at + 1) /\ PreferredTo(x[2], segs, at + 1)
         /\ Prefix(x[2], at + 1) = Append(node, edge) =>
              /\ Prefix(x[2], at) = node
              /\ x[2][at + 1].dynamic <=> Append(node, segs[at + 1]) \notin nodes
<1> DEFINE s == segs[at + 1]
           r == x[2]
<1>0. /\ TypeOK /\ TreeInv /\ WalkInv
      /\ at \in Nat /\ r \in Seq(AnySegment) /\ Len(r) \in Nat /\ Len(segs) \in Nat
      /\ at + 1 \in 1..Len(segs) /\ at + 1 \in 1..Len(r) /\ at \in 0..Len(r)
  BY TypedState DEF IInv
<1>1. /\ segs \in Path /\ Len(node) = at
      /\ Prefix(r, at) = node <=> MatchesTo(r, segs, at) /\ PreferredTo(r, segs, at)
  BY <1>0 DEF WalkInv
<1>2. s \in AnySegment /\ ~ s.dynamic /\ r[at + 1] \in AnySegment
  BY <1>0, <1>1, RoutesAreSeqs, ElementOfSeq
<1>3. MatchesTo(r, segs, at + 1) /\ PreferredTo(r, segs, at + 1) <=>
        Prefix(r, at) = node /\ IF Append(node, s) \in nodes THEN r[at + 1] = s ELSE r[at + 1].dynamic
  BY <1>0, <1>1, FitsNext
<1>4. Prefix(r, at + 1) = Append(Prefix(r, at), Edge(r[at + 1]))
  BY <1>0, PrefixNext
<1> DEFINE S == AnyEdge \cup {DynamicEdge}
<1>5. node \in Seq(S)
  BY <1>0, NodesAreSeqs, SeqMonotonic DEF TypeOK
<1>6. Prefix(r, at) \in Seq(S) /\ Edge(r[at + 1]) \in S /\ edge \in S
  <2>1. Prefix(r, at) \in Seq(AnyEdge) /\ Edge(r[at + 1]) \in AnyEdge
    BY <1>0, <1>2, PrefixIs DEF AnyEdge
  <2>2. Edge(s) = s /\ Edge(s) \in AnyEdge
    BY <1>2 DEF AnyEdge, Edge
  <2> QED BY <2>1, <2>2, SeqMonotonic
<1>7. Prefix(r, at + 1) = Append(node, edge) <=> Prefix(r, at) = node /\ Edge(r[at + 1]) = edge
  <2> HIDE DEF S
  <2>1. Append(Prefix(r, at), Edge(r[at + 1])) = Append(node, edge)
          <=> Prefix(r, at) = node /\ Edge(r[at + 1]) = edge
    BY ONLY <1>5, <1>6, AppendInjective
  <2> QED BY <1>4, <2>1
<1>8. CASE Append(node, s) \in nodes
  <2>1. Edge(s) = s /\ edge = s
    BY <1>2, <1>8 DEF Edge
  <2>2. Edge(r[at + 1]) = edge <=> r[at + 1] = s
    BY <1>2, <2>1, SameEdge
  <2>3. r[at + 1] = s => ~ r[at + 1].dynamic
    BY <1>2
  <2> QED BY <1>3, <1>7, <1>8, <2>2, <2>3
<1>9. CASE Append(node, s) \notin nodes
  <2>1. edge = DynamicEdge
    BY <1>9
  <2>2. Edge(r[at + 1]) = edge => r[at + 1].dynamic
    <3> SUFFICES ASSUME Edge(r[at + 1]) = edge, ~ r[at + 1].dynamic PROVE FALSE
      OBVIOUS
    <3>1. Edge(r[at + 1]) = r[at + 1]
      BY DEF Edge
    <3>2. r[at + 1] = DynamicEdge
      BY <2>1, <3>1
    <3> QED BY <3>2, EdgeFacts
  <2>3. r[at + 1].dynamic => Edge(r[at + 1]) = edge
    BY <2>1 DEF Edge
  <2> QED BY <1>3, <1>7, <1>9, <2>2, <2>3
<1> QED BY <1>8, <1>9

\* What the step to a child binds: nothing for a route's own segment, and the
\* variable of all routes that go on there, unless its name was bound before.
LEMMA Bound ==
  ASSUME IInv, pc = "dispatch", at < Len(segs), NoneEmpty,
         NEW x \in routes, at < Len(x[2]), Prefix(x[2], at) = node, Distinct(x[2]),
         NEW bound,
         \/ ~ x[2][at + 1].dynamic /\ bound = params
         \/ /\ x[2][at + 1].dynamic
            /\ \E id \in ids : /\ id[1] = node
                               /\ bound = IF \E q \in params : q[1] = id[2] THEN params
                                          ELSE params \cup {<<id[2], segs[at + 1].name>>}
  PROVE  bound = BindingsTo(x[2], segs, at + 1)
<1> DEFINE r == x[2]
           s == segs[at + 1]
<1>1. TypeOK /\ TreeInv /\ WalkInv
  BY DEF IInv
<1>2. /\ at \in Nat /\ r \in Seq(AnySegment) /\ DOMAIN r = 1..Len(r) /\ Len(r) \in Nat
      /\ at <= Len(r) /\ at + 1 \in DOMAIN r
  BY <1>1, TypedState
<1>3. params = BindingsTo(r, segs, at)
  BY <1>1, <1>2 DEF WalkInv
<1>4. \A i \in 1..(at + 1) : i \in 1..at \/ i = at + 1
  BY <1>2
<1>5. 1..at \subseteq 1..(at + 1) /\ at + 1 \in 1..(at + 1) /\ at + 1 \notin 1..at
  BY <1>2
<1>6. CASE ~ r[at + 1].dynamic
  <2>1. {j \in 1..(at + 1) : r[j].dynamic} = {j \in 1..at : r[j].dynamic}
    BY <1>4, <1>5, <1>6
  <2> QED BY <1>3, <1>6, <2>1 DEF BindingsTo
<1>7. CASE r[at + 1].dynamic
  <2>1. PICK id \in ids : /\ id[1] = node
                          /\ bound = IF \E q \in params : q[1] = id[2] THEN params
                                     ELSE params \cup {<<id[2], s.name>>}
    BY <1>7
  <2>2. <<Prefix(r, (at + 1) - 1), r[at + 1].name>> \in RouteIds
    BY <1>2, <1>7 DEF RouteIds
  <2>3. <<node, r[at + 1].name>> \in ids
    BY <1>1, <1>2, <2>2, (at + 1) - 1 = at DEF TreeInv
  <2>4. id[2] = r[at + 1].name
    BY <1>1, <2>1, <2>3 DEF TreeInv
  <2>5. ASSUME NEW q \in params, q[1] = id[2] PROVE FALSE
    <3>1. PICK i \in {j \in 1..at : r[j].dynamic} : q = <<r[i].name, segs[i].name>>
      BY <1>3, <2>5 DEF BindingsTo
    <3>2. i \in DOMAIN r /\ r[i].dynamic /\ r[i].name = r[at + 1].name
      BY <1>2, <2>4, <2>5, <3>1
    <3>3. i = at + 1
      BY <1>2, <1>7, <3>2 DEF Distinct
    <3> QED BY <1>5, <3>1, <3>3
  <2>6. bound = params \cup {<<r[at + 1].name, s.name>>}
    BY <2>1, <2>4, <2>5
  <2>7. {j \in 1..(at + 1) : r[j].dynamic} = {j \in 1..at : r[j].dynamic} \cup {at + 1}
    BY <1>4, <1>5, <1>7
  <2> QED BY <1>3, <2>6, <2>7 DEF BindingsTo
<1> QED BY <1>6, <1>7

\* A round of get_dispatch's loop at a segment that is not empty: the walk goes
\* on to the child it prefers.
LEMMA DispatchDescends ==
  ASSUME IInv, pc = "dispatch", at < Len(segs), segs[at + 1].name # "",
         UNCHANGED <<tree, routes, args, pc, outcome>>, at' = at + 1,
         NEW edge, node' = Append(node, edge), node' \in nodes, asserted' \in BOOLEAN,
         edge = IF Append(node, segs[at + 1]) \in nodes THEN segs[at + 1] ELSE DynamicEdge,
         Append(node, segs[at + 1]) \in nodes => params' = params,
         Append(node, segs[at + 1]) \notin nodes =>
            \E id \in ids : /\ id[1] = node
                            /\ params' = IF \E q \in params : q[1] = id[2] THEN params
                                         ELSE params \cup {<<id[2], segs[at + 1].name>>}
  PROVE  IInv'
<1> DEFINE s == segs[at + 1]
<1>0. /\ TypeOK /\ TreeInv /\ WalkInv
      /\ at \in Nat /\ Len(segs) \in Nat /\ at + 1 \in 1..Len(segs) /\ at + 1 \in 0..Len(segs)
      /\ \A x \in routes : Len(x[2]) \in Nat
  <2>1. TypeOK /\ TreeInv /\ WalkInv
    BY DEF IInv
  <2>2. /\ Len(segs) \in Nat /\ at \in 0..Len(segs)
        /\ \A x \in routes : Len(x[2]) \in Nat
    BY ONLY <2>1, TypedState
  <2>3. at < Len(segs)
    OBVIOUS
  <2> QED BY ONLY <2>1, <2>2, <2>3
<1>1. /\ nodes' = nodes /\ ids' = ids /\ fns' = fns /\ routes' = routes /\ segs' = segs
      /\ method' = method /\ pc' = "dispatch" /\ outcome' = outcome
      /\ segs \in Path /\ segs # <<>> /\ outcome = "none"
  BY <1>0 DEF tree, args, WalkInv
<1>2. s.name \in Segments
  BY <1>0, <1>1, RoutesAreSeqs
<1>3. TypeOK'
  <2>1. params' \subseteq Names \X Segments
    <3>1. \A id \in ids : id[2] \in Names
      BY <1>0 DEF TypeOK
    <3>2. params \subseteq Names \X Segments
      BY <1>0 DEF TypeOK
    <3>3. params' = params \/ \E id \in ids : params' = params \cup {<<id[2], s.name>>}
      OBVIOUS
    <3> QED BY ONLY <1>2, <3>1, <3>2, <3>3
  <2>2. node' \in nodes' /\ at' \in 0..Len(segs')
    BY <1>0, <1>1
  <2> QED BY <1>0, <1>1, <2>1, <2>2 DEF TypeOK
<1>4. TreeInv'
  BY <1>0, <1>1, DispatchKeepsTree
<1>5. ASSUME NoneEmpty
      PROVE  /\ Len(node') = at + 1
             /\ \A x \in routes : at + 1 <= Len(x[2]) =>
                  /\ Prefix(x[2], at + 1) = node'
                       <=> MatchesTo(x[2], segs, at + 1) /\ PreferredTo(x[2], segs, at + 1)
                  /\ Prefix(x[2], at + 1) = node' /\ Distinct(x[2])
                       => params' = BindingsTo(x[2], segs, at + 1)
  <2>1. Len(node') = at + 1
    <3>1. node' \in Seq(AnyEdge) /\ node \in Seq(AnyEdge) /\ Len(node) = at
      BY <1>0, <1>5, NodesAreSeqs DEF TypeOK, WalkInv
    <3>2. node' = Append(node, edge)
      OBVIOUS
    <3>3. Len(Append(node, edge)) = at + 1
      BY ONLY <1>0, <3>1
    <3> QED BY ONLY <3>2, <3>3
  <2>2. ASSUME NEW x \in routes, at + 1 <= Len(x[2])
        PROVE  /\ Prefix(x[2], at + 1) = node'
                    <=> MatchesTo(x[2], segs, at + 1) /\ PreferredTo(x[2], segs, at + 1)
               /\ Prefix(x[2], at + 1) = node' =>
                    /\ Prefix(x[2], at) = node
                    /\ x[2][at + 1].dynamic <=> Append(node, s) \notin nodes
    <3>1. at < Len(x[2])
      BY ONLY <1>0, <2>2, x \in routes
    <3>2. node' = Append(node, edge)
      OBVIOUS
    <3> QED BY <1>5, <3>1, <3>2, WalkOn
  <2>3. ASSUME NEW x \in routes, at + 1 <= Len(x[2]), Prefix(x[2], at + 1) = node', Distinct(x[2])
        PROVE  params' = BindingsTo(x[2], segs, at + 1)
    <3>1. at < Len(x[2]) /\ Prefix(x[2], at) = node
      BY ONLY <1>0, <2>2, <2>3, x \in routes
    <3>2. x[2][at + 1].dynamic <=> Append(node, s) \notin nodes
      BY <2>2, <2>3
    <3> DEFINE bound == params'
    <3>3. \/ ~ x[2][at + 1].dynamic /\ bound = params
          \/ /\ x[2][at + 1].dynamic
             /\ \E id \in ids : /\ id[1] = node
                                /\ bound = IF \E q \in params : q[1] = id[2] THEN params
                                           ELSE params \cup {<<id[2], segs[at + 1].name>>}
      BY <3>2
    <3> HIDE DEF bound
    <3>4. bound = BindingsTo(x[2], segs, at + 1)
      BY <1>5, <2>3, <3>1, <3>3, Bound
    <3> QED BY <3>4 DEF bound
  <2> QED BY <2>1, <2>2, <2>3
<1>6. WalkInv'
  <2>1. NoneEmpty' = NoneEmpty /\ (\A r : Distinct(r)' = Distinct(r))
    BY <1>1 DEF NoneEmpty, Distinct
  <2>2. \A r : PreferredTo(r, segs, at)' = PreferredTo(r, segs, at + 1)
    BY <1>1 DEF PreferredTo
  <2>3. \A r : MatchesTo(r, segs, at)' = MatchesTo(r, segs, at + 1)
              /\ BindingsTo(r, segs, at)' = BindingsTo(r, segs, at + 1)
              /\ Prefix(r, at)' = Prefix(r, at + 1)
    BY <1>1 DEF MatchesTo, BindingsTo, Prefix
  <2> QED BY <1>1, <1>5, <2>1, <2>2, <2>3 DEF WalkInv
<1>7. DispatchIsPreferredMatch'
  BY <1>1 DEF DispatchIsPreferredMatch, Dispatched
<1> QED BY <1>3, <1>4, <1>6, <1>7 DEF IInv

\* A round of get_dispatch's loop.
LEMMA DispatchSegmentStep == ASSUME IInv, dispatch_segment PROVE IInv'
<1> DEFINE s == segs[at + 1]
<1>0. /\ TypeOK /\ TreeInv /\ WalkInv
      /\ at \in Nat /\ Len(segs) \in Nat /\ at + 1 \in 1..Len(segs) /\ Len(segs) \in 0..Len(segs)
      /\ \A x \in routes : Len(x[2]) \in Nat /\ x[2] \in Seq(AnySegment) /\ DOMAIN x[2] = 1..Len(x[2])
  <2>1. TypeOK /\ TreeInv /\ WalkInv
    BY DEF IInv
  <2>2. /\ Len(segs) \in Nat /\ at \in 0..Len(segs)
        /\ \A x \in routes : Len(x[2]) \in Nat /\ x[2] \in Seq(AnySegment) /\ DOMAIN x[2] = 1..Len(x[2])
    BY ONLY <2>1, TypedState
  <2>3. at < Len(segs)
    BY DEF dispatch_segment, More
  <2> QED BY ONLY <2>1, <2>2, <2>3
<1>1. pc = "dispatch" /\ at < Len(segs) /\ UNCHANGED <<tree, routes, args>>
  BY DEF dispatch_segment, More
<1>2. /\ nodes' = nodes /\ ids' = ids /\ fns' = fns /\ routes' = routes /\ segs' = segs
      /\ method' = method /\ segs \in Path /\ segs # <<>> /\ outcome = "none"
  BY <1>0, <1>1 DEF tree, args, WalkInv
<1>3. s \in AnySegment /\ ~ s.dynamic /\ DOMAIN segs = 1..Len(segs)
  BY <1>0, <1>2, RoutesAreSeqs, LenProperties
<1>4. CASE s.name = "" /\ at' = Len(segs) /\ UNCHANGED <<node, pc, outcome, params, asserted>>
  <2>1. TypeOK'
    BY <1>0, <1>2, <1>4 DEF TypeOK
  <2>2. TreeInv'
    BY <1>0, <1>1, <1>4, DispatchKeepsTree
  <2>3. ~ NoneEmpty'
    BY <1>0, <1>2, <1>3, <1>4 DEF NoneEmpty
  <2>4. WalkInv' /\ DispatchIsPreferredMatch'
    BY <1>1, <1>2, <1>4, <2>3 DEF WalkInv, DispatchIsPreferredMatch, Dispatched
  <2> QED BY <2>1, <2>2, <2>4 DEF IInv
<1>5. CASE s.name # "" /\ Append(node, s) \in nodes /\ descend(s) /\ UNCHANGED <<params, asserted>>
  <2>1. at' = at + 1 /\ UNCHANGED <<pc, outcome>> /\ node' = Append(node, s)
        /\ params' = params /\ asserted' \in BOOLEAN
    BY <1>0, <1>5 DEF descend, TypeOK
  <2> DEFINE edge == s
  <2>2. edge = IF Append(node, s) \in nodes THEN s ELSE DynamicEdge
    BY <1>5
  <2> HIDE DEF edge
  <2>3. node' = Append(node, edge) /\ node' \in nodes
    BY <1>5, <2>1 DEF edge
  <2> QED BY <1>1, <1>5, <2>1, <2>2, <2>3, DispatchDescends
<1>6. CASE /\ s.name # "" /\ Append(node, s) \notin nodes
           /\ \E id \in ids : id[1] = node /\ bind(id[2], s.name)
           /\ descend(DynamicEdge)
  <2>1. at' = at + 1 /\ UNCHANGED <<pc, outcome>> /\ node' = Append(node, DynamicEdge)
        /\ asserted' \in BOOLEAN
    BY <1>0, <1>6 DEF descend, TypeOK, bind
  <2>2. PICK id \in ids : /\ id[1] = node
                          /\ params' = IF \E q \in params : q[1] = id[2] THEN params
                                       ELSE params \cup {<<id[2], s.name>>}
    BY <1>6 DEF bind
  <2>3. node' \in nodes
    <3>1. <<node, id[2]>> \in RouteIds
      BY <1>0, <1>1, <2>2 DEF TreeInv, TypeOK
    <3>2. PICK x \in routes : <<node, id[2]>> \in {<<Prefix(x[2], i - 1), x[2][i].name>> :
                                                   i \in {j \in DOMAIN x[2] : x[2][j].dynamic}}
      BY <3>1 DEF RouteIds
    <3>3. PICK i \in 1..Len(x[2]) : x[2][i].dynamic /\ node = Prefix(x[2], i - 1)
      BY <1>0, <3>2
    <3>4. Edge(x[2][i]) = DynamicEdge
      BY <3>3 DEF Edge
    <3>5. i - 1 \in 0..Len(x[2]) /\ i - 1 < Len(x[2]) /\ (i - 1) + 1 = i
      BY <1>0
    <3>6. Prefix(x[2], i) = Append(node, DynamicEdge)
      BY <1>0, <3>3, <3>4, <3>5, PrefixNext
    <3>7. Prefix(x[2], i) \in RouteNodes
      <4>1. i \in DOMAIN x[2]
        BY <1>0
      <4> QED BY ONLY <4>1, x \in routes DEF RouteNodes
    <3> QED BY <1>0, <1>1, <2>1, <3>6, <3>7 DEF TreeInv
  <2> DEFINE edge == DynamicEdge
  <2>4. edge = IF Append(node, s) \in nodes THEN s ELSE DynamicEdge
    BY <1>6
  <2> HIDE DEF edge
  <2>5. node' = Append(node, edge)
    BY <2>1 DEF edge
  <2>6. \E id1 \in ids : /\ id1[1] = node
                         /\ params' = IF \E q \in params : q[1] = id1[2] THEN params
                                      ELSE params \cup {<<id1[2], s.name>>}
    BY <2>2
  <2> QED BY <1>1, <1>6, <2>1, <2>3, <2>4, <2>5, <2>6, DispatchDescends
<1>7. CASE /\ s.name # "" /\ Append(node, s) \notin nodes /\ \A id \in ids : id[1] # node
           /\ end("nullptr") /\ UNCHANGED <<params, asserted>>
  <2>1. pc' = "idle" /\ outcome' = "nullptr" /\ UNCHANGED <<at, node, params, asserted>>
    BY <1>7 DEF end
  <2>2. TypeOK'
    BY <1>0, <1>2, <2>1 DEF TypeOK
  <2>3. TreeInv'
    BY <1>0, <1>1, <2>1, DispatchKeepsTree
  <2>4. ASSUME NoneEmpty, NEW x \in routes, Matches(x[2], segs), Preferred(x[2], segs) PROVE FALSE
    <3>1. Len(x[2]) = Len(segs) /\ at + 1 \in DOMAIN x[2] /\ at < Len(x[2])
      BY <1>0, <1>1, <2>4 DEF Matches
    <3>2. MatchesTo(x[2], segs, at + 1) /\ PreferredTo(x[2], segs, at + 1)
      BY <1>0, <2>4, <3>1 DEF Matches, Preferred, MatchesTo, PreferredTo
    <3>3. Prefix(x[2], at) = node <=> MatchesTo(x[2], segs, at) /\ PreferredTo(x[2], segs, at)
      BY <1>0, <1>1, <2>4, <3>1 DEF WalkInv
    <3>4. Prefix(x[2], at) = node /\ x[2][at + 1].dynamic
      BY <1>0, <1>1, <1>2, <1>7, <3>1, <3>2, <3>3, FitsNext
    <3>5. <<Prefix(x[2], (at + 1) - 1), x[2][at + 1].name>> \in RouteIds
      BY <3>1, <3>4 DEF RouteIds
    <3>6. <<node, x[2][at + 1].name>> \in ids
      BY <1>0, <1>1, <3>4, <3>5, (at + 1) - 1 = at DEF TreeInv
    <3> QED BY <1>7, <3>6
  <2>5. DispatchIsPreferredMatch'
    <3>1. NoneEmpty' = NoneEmpty
      BY <1>2 DEF NoneEmpty
    <3>2. NoneEmpty => Hits' = {}
      BY <1>2, <2>4 DEF Hits, Matches, Preferred
    <3> QED BY <2>1, <3>1, <3>2 DEF DispatchIsPreferredMatch, Dispatched, NoneEmpty
  <2> QED BY <2>1, <2>2, <2>3, <2>5 DEF IInv, WalkInv
<1> QED BY <1>4, <1>5, <1>6, <1>7 DEF dispatch_segment

\* The end of get_dispatch: the routes at the node the walk has ended at are the
\* ones that fit the whole path.
LEMMA DispatchFunctionStep == ASSUME IInv, dispatch_function PROVE IInv'
<1>0. /\ TypeOK /\ TreeInv /\ WalkInv
      /\ at = Len(segs) /\ Len(segs) \in Nat
      /\ \A x \in routes : Len(x[2]) \in Nat /\ x[2] \in Seq(AnySegment) /\ DOMAIN x[2] = 1..Len(x[2])
  <2>1. TypeOK /\ TreeInv /\ WalkInv
    BY DEF IInv
  <2>2. /\ Len(segs) \in Nat /\ at \in 0..Len(segs)
        /\ \A x \in routes : Len(x[2]) \in Nat /\ x[2] \in Seq(AnySegment) /\ DOMAIN x[2] = 1..Len(x[2])
    BY ONLY <2>1, TypedState
  <2>3. ~ at < Len(segs)
    BY DEF dispatch_function, More
  <2> QED BY ONLY <2>1, <2>2, <2>3
<1>1. /\ pc = "dispatch" /\ pc' = "idle" /\ UNCHANGED <<tree, routes, args, at, node, params, asserted>>
      /\ outcome' = IF <<node, method>> \in fns THEN "found" ELSE "nullptr"
  BY DEF dispatch_function, end
<1>2. /\ nodes' = nodes /\ ids' = ids /\ fns' = fns /\ routes' = routes /\ segs' = segs
      /\ method' = method
  BY <1>1 DEF tree, args
<1>3. TypeOK'
  BY <1>0, <1>1, <1>2 DEF TypeOK
<1>4. TreeInv'
  BY <1>0, <1>1, DispatchKeepsTree
<1>5. DispatchIsPreferredMatch'
  <2> SUFFICES ASSUME NoneEmpty
               PROVE  /\ outcome' = "found" <=> Hits # {}
                      /\ \A x \in Hits : Distinct(x[2]) => params = BindingsTo(x[2], segs, at)
    <3>1. Hits' = Hits /\ NoneEmpty' = NoneEmpty
      BY <1>2 DEF Hits, Matches, Preferred, NoneEmpty
    <3>2. \A x \in Hits : BindingsTo(x[2], segs, at) = Bindings(x[2], segs)
      BY <1>0 DEF Hits, Matches, BindingsTo, Bindings
    <3>3. params' = params /\ segs' = segs
      BY <1>1, <1>2
    <3> QED BY <3>1, <3>2, <3>3 DEF DispatchIsPreferredMatch, NoneEmpty, Distinct, Bindings
  <2>1. Len(node) = at
    BY <1>0, <1>1 DEF WalkInv
  <2>2. ASSUME NEW x \in Hits PROVE x \in routes /\ x[1] = method /\ Prefix(x[2], at) = node /\ Edges(x[2]) = node
    <3>1. x \in routes /\ x[1] = method /\ Len(x[2]) = at /\ Matches(x[2], segs) /\ Preferred(x[2], segs)
      BY <1>0 DEF Hits, Matches
    <3>2. MatchesTo(x[2], segs, at) /\ PreferredTo(x[2], segs, at)
      BY <1>0, <3>1 DEF Matches, Preferred, MatchesTo, PreferredTo
    <3>3. Prefix(x[2], at) = node
      BY <1>0, <1>1, <3>1, <3>2 DEF WalkInv
    <3> QED BY <1>0, <3>1, <3>3, PrefixIs
  <2>3. ASSUME <<node, method>> \in fns PROVE Hits # {}
    <3>1. PICK x \in routes : <<node, method>> = <<Edges(x[2]), x[1]>>
      BY <1>0, <2>3 DEF TreeInv, RouteFns
    <3>2. Edges(x[2]) = Prefix(x[2], Len(x[2])) /\ Len(Prefix(x[2], Len(x[2]))) = Len(x[2])
      BY <1>0, PrefixIs
    <3>3. Len(x[2]) = at /\ Prefix(x[2], at) = node
      BY <2>1, <3>1, <3>2
    <3>4. MatchesTo(x[2], segs, at) /\ PreferredTo(x[2], segs, at)
      BY <1>0, <1>1, <3>3 DEF WalkInv
    <3>5. Matches(x[2], segs) /\ Preferred(x[2], segs)
      BY <1>0, <3>3, <3>4 DEF Matches, Preferred, MatchesTo, PreferredTo
    <3> QED BY <3>1, <3>5 DEF Hits
  <2>4. ASSUME Hits # {} PROVE <<node, method>> \in fns
    <3>1. PICK x \in Hits : TRUE
      BY <2>4
    <3> QED BY <1>0, <2>2, <3>1 DEF TreeInv, RouteFns
  <2>5. ASSUME NEW x \in Hits, Distinct(x[2]) PROVE params = BindingsTo(x[2], segs, at)
    <3>1. x \in routes /\ Prefix(x[2], at) = node /\ at <= Len(x[2])
      BY <1>0, <2>2 DEF Hits, Matches
    <3> QED BY <1>0, <1>1, <2>5, <3>1 DEF WalkInv
  <2> QED BY <1>1, <2>3, <2>4, <2>5
<1> QED BY <1>1, <1>3, <1>4, <1>5 DEF IInv, WalkInv

\* Every step keeps the invariant.
LEMMA NextIInv == IInv /\ [Next]_vars => IInv'
<1> SUFFICES ASSUME IInv, [Next]_vars PROVE IInv'
  OBVIOUS
<1>1. ASSUME NEW m \in Methods, NEW r \in Route, add_route(m, r) PROVE IInv'
  BY <1>1, BeginStep DEF add_route
<1>2. ASSUME NEW m \in Methods, NEW p \in Path, get_dispatch(m, p) PROVE IInv'
  BY <1>2, BeginStep DEF get_dispatch
<1>3. CASE UNCHANGED vars
  <2>1. TypeOK' = TypeOK
    BY <1>3 DEF vars, tree, args, TypeOK
  <2>2. TreeInv' = TreeInv
    BY <1>3 DEF vars, tree, args, TreeInv, RouteNodes, RouteIds, RouteFns, WalkNodes, WalkIds
  <2>3. WalkInv' = WalkInv
    BY <1>3 DEF vars, tree, args, WalkInv, PreferredTo, NoneEmpty
  <2>4. DispatchIsPreferredMatch' = DispatchIsPreferredMatch
    BY <1>3 DEF vars, tree, args, DispatchIsPreferredMatch, Dispatched, Hits, Preferred
  <2> QED BY <2>1, <2>2, <2>3, <2>4 DEF IInv
<1> QED BY <1>1, <1>2, <1>3, AddSegmentStep, AddFunctionStep, DispatchSegmentStep,
           DispatchFunctionStep DEF Next

\* The invariant of the router.
LEMMA RouterInvariant == Spec => []IInv
<1> QED BY InitIInv, NextIInv, PTL DEF Spec

\* Between calls the dispatch tree is the one the successful calls of add_route
\* describe, whatever routes were added, in whatever order, and wherever other
\* calls threw in the middle of their walk (add_route, router.h).
THEOREM RouterTree == Spec => []TreeIsTheRoutes
<1>1. IInv => TreeIsTheRoutes
  BY DEF IInv, TreeInv, TreeIsTheRoutes, RouteNodes, RouteIds, RouteFns, Prefix
<1> QED BY RouterInvariant, <1>1, PTL

\* A request without empty segments finds a function exactly when a route fits
\* the whole path, own segments preferred to variables, and is given that
\* route's variables, for any set of routes (get_dispatch, router.h).
THEOREM RouterDispatch == Spec => []DispatchIsPreferredMatch
<1>1. IInv => DispatchIsPreferredMatch
  BY DEF IInv
<1> QED BY RouterInvariant, <1>1, PTL
=============================================================================
