--------------------------- MODULE ProgramProofs ----------------------------
(***************************************************************************)
(* The process around the server, proved for all websites, libraries,      *)
(* ports and workers: the registry of websites keeps in step with the      *)
(* bound ports, the references to libraries with the websites, and what a  *)
(* thread uses is there until it has been joined.                          *)
(***************************************************************************)
EXTENDS Program, FiniteSetTheorems, TLAPS

-----------------------------------------------------------------------------
(* The inductive invariant.                                                *)

Uses(l) == {s \in websites : s.path = l}
Building(l) == {i \in DOMAIN built : built[i].path = l}

\* The registry; it is only changed before the first request.
SitesInv ==
  /\ websites \subseteq Site /\ IsFiniteSet(websites)
  /\ PortsMatchWebsites
  /\ found \subseteq websites
  /\ phase \in {"statics", "main", "setup", "launch"} => request = <<>>
  /\ \A i \in DOMAIN request : i = 1 /\ request[1] \in Request

\* The references to libraries, whether or not the process still runs.
RefsInv ==
  /\ built = <<>> \/ \E s \in Site : built = <<s>>
  /\ built # <<>> => phase = "setup"
  /\ refs \in [Libraries -> Nat]
  /\ \A l \in Libraries :
       refs[l] = Cardinality(Building(l))
                 + (IF "websites" \in destroyed THEN 0 ELSE Cardinality(Uses(l)))

\* Members are destroyed one by one, the threads with the list of workers.
LifeInv ==
  /\ phase \notin {"unwind", "gone"} => destroyed = {}
  /\ {"websites", "context"} \cap destroyed # {} => "workers" \in destroyed
  /\ thread \in [Workers -> {"none", "starting", "polling", "serving", "ended"}]
  /\ "workers" \in destroyed => \A w \in Workers : thread[w] \in {"none", "ended"}
  /\ serving \in [Workers -> SUBSET websites]
  /\ \A w \in Workers : pending[w] => phase \in {"loop", "unwind", "gone"}
  /\ sockets \subseteq ({"main"} \X ({"stream", "pub", "dealer"} \ destroyed))
       \cup UNION {WorkerSockets(w) : w \in {v \in Workers : thread[v] \in {"polling", "serving"}}}

PInv == SitesInv /\ ServedByNamedWebsite /\ RefsInv /\ LifeInv

-----------------------------------------------------------------------------
(* The lookup of a website.                                                *)

\* A record of a name and a port is its two fields.
LEMMA NameAndPort ==
  ASSUME NEW A, NEW B, NEW g \in [name : A, port : B]
  PROVE  g.name \in A /\ g.port \in B /\ g = [name |-> g.name, port |-> g.port]
OBVIOUS

LEMMA PortIsNumber ==
  ASSUME NEW p \in Port16
  PROVE  p \in Nat /\ p <= MaxPort
<1>1. MaxPort \in Nat
  BY SMT DEF MaxPort
<1> QED
  BY <1>1 DEF Port16

\* Two hosts that agree in name and port are one.
LEMMA HostFields ==
  ASSUME NEW g \in Host
  PROVE  /\ g.port \in Nat /\ g.port <= MaxPort
         /\ \A n, p : g = [name |-> n, port |-> p] <=> g.name = n /\ g.port = p
<1>1. g.port \in Port16 /\ g = [name |-> g.name, port |-> g.port]
  BY NameAndPort DEF Host
<1>2. g.port \in Nat /\ g.port <= MaxPort
  BY <1>1, PortIsNumber
<1>3. ASSUME NEW n, NEW p PROVE g = [name |-> n, port |-> p] <=> g.name = n /\ g.port = p
  <2>1. CASE g = [name |-> n, port |-> p]
    BY <2>1
  <2>2. CASE g.name = n /\ g.port = p
    BY <1>1, <2>2
  <2> QED
    BY <2>1, <2>2
<1> QED
  BY <1>2, <1>3

\* A port that is written is a number.
LEMMA PortOfText ==
  ASSUME NEW t \in HostText
  PROVE  t.port = <<>> \/ \E p \in Nat : t.port = <<p>>
<1>1. t.port \in {<<>>} \cup {<<p>> : p \in PortTexts}
  BY NameAndPort DEF HostText
<1>2. CASE t.port \in {<<p>> : p \in PortTexts}
  <2>1. PICK p \in PortTexts : t.port = <<p>>
    BY <1>2
  <2>2. p \in Nat
    BY WebsitesAssumption
  <2> QED
    BY <2>1, <2>2
<1> QED
  BY <1>1, <1>2

\* Reading a host text gives a website's host exactly if the text names it.
LEMMA ReadIsNamed ==
  ASSUME NEW g \in Host, NEW t, t.port = <<>> \/ \E p \in Nat : t.port = <<p>>
  PROVE  g = [name |-> t.name, port |-> parse_port(t.port)] <=> Names16(t, g)
<1>1. g = [name |-> t.name, port |-> parse_port(t.port)]
        <=> g.name = t.name /\ g.port = parse_port(t.port)
  <2>1. \A n, p : g = [name |-> n, port |-> p] <=> g.name = n /\ g.port = p
    BY HostFields
  <2> QED
    BY <2>1
<1>2. CASE t.port = <<>>
  <2>1. parse_port(t.port) = 80
    BY <1>2 DEF parse_port, DefaultPort
  <2>2. t.port # <<g.port>>
    BY <1>2
  <2> QED
    BY <1>1, <1>2, <2>1, <2>2 DEF Names16, DefaultPort
<1>3. CASE \E p \in Nat : t.port = <<p>>
  <2> PICK p \in Nat : t.port = <<p>>
    BY <1>3
  <2>1. t.port # <<>> /\ t.port[1] = p /\ (t.port = <<g.port>> <=> p = g.port)
    OBVIOUS
  <2>2. parse_port(t.port) = IF p > MaxPort THEN 80 ELSE p
    BY <2>1 DEF parse_port, DefaultPort
  <2>3. Names16(t, g) <=> t.name = g.name /\ (p = g.port \/ (g.port = 80 /\ p > MaxPort))
    BY <2>1 DEF Names16, DefaultPort
  <2>4. g.port \in Nat /\ g.port <= MaxPort
    BY HostFields
  <2>5. g.port = (IF p > MaxPort THEN 80 ELSE p) <=> p = g.port \/ (g.port = 80 /\ p > MaxPort)
    BY <2>4, SMT DEF MaxPort
  <2> QED
    BY <1>1, <2>2, <2>3, <2>5
<1> QED
  BY <1>2, <1>3

\* The host that is extracted is the one the request names.
LEMMA ExtractedIsAsked ==
  ASSUME NEW r \in Request, NEW s \in Site
  PROVE  (\E h \in extract_host(r) : Matches(s, h)) <=> \E t \in Asked(r) : Names16(t, s.host)
<1>1. s.host \in Host
  BY DEF Site
<1>2. r.uri \in URI /\ r.header \in Header
  BY DEF Request
<1>3. CASE r.uri.form = "absolute"
  <2>1. r.uri.host \in HostText
    BY <1>2, <1>3 DEF URI
  <2>2. s.host = [name |-> r.uri.host.name, port |-> parse_port(r.uri.host.port)]
          <=> Names16(r.uri.host, s.host)
    BY <1>1, <2>1, PortOfText, ReadIsNamed
  <2>3. extract_host(r)
          = {[name |-> r.uri.host.name, port |-> parse_port(r.uri.host.port)]}
    BY <1>3 DEF extract_host
  <2>4. Asked(r) = {r.uri.host}
    BY <1>3 DEF Asked
  <2> QED
    BY <2>2, <2>3, <2>4 DEF Matches
<1>4. CASE r.uri.form = "path" /\ r.header.form = "named"
  <2>1. r.header.host \in HostText
    BY <1>2, <1>4 DEF Header
  <2>2. s.host = [name |-> r.header.host.name, port |-> parse_port(r.header.host.port)]
          <=> Names16(r.header.host, s.host)
    BY <1>1, <2>1, PortOfText, ReadIsNamed
  <2>3. extract_host(r)
          = {[name |-> r.header.host.name, port |-> parse_port(r.header.host.port)]}
    BY <1>4 DEF extract_host
  <2>4. Asked(r) = {r.header.host}
    BY <1>4 DEF Asked
  <2> QED
    BY <2>2, <2>3, <2>4 DEF Matches
<1>5. CASE r.uri.form = "star"
  <2>1. PICK t : t = [name |-> "*", port |-> <<>>]
    OBVIOUS
  <2>2. s.host = [name |-> t.name, port |-> parse_port(t.port)] <=> Names16(t, s.host)
    BY <1>1, <2>1, ReadIsNamed
  <2>3. extract_host(r) = {[name |-> t.name, port |-> parse_port(t.port)]}
    BY <1>5, <2>1 DEF extract_host, parse_port
  <2>4. Asked(r) = {t}
    BY <1>5, <2>1 DEF Asked
  <2> QED
    BY <2>2, <2>3, <2>4 DEF Matches
<1>6. CASE /\ r.uri.form \notin {"absolute", "star"}
           /\ ~ (r.uri.form = "path" /\ r.header.form = "named")
  BY <1>6 DEF extract_host, Asked
<1> QED
  BY <1>3, <1>4, <1>5, <1>6

\* Of the websites of a server at most one has the host of a request.
LEMMA OneWebsite ==
  ASSUME PortsMatchWebsites, NEW r, NEW s \in websites, NEW t \in websites,
         NEW h \in extract_host(r), Matches(s, h), NEW g \in extract_host(r), Matches(t, g)
  PROVE  s = t
<1>1. h = g
  BY DEF extract_host
<1> QED
  BY <1>1 DEF Matches, PortsMatchWebsites

LEMMA FoundIsServed ==
  ASSUME SitesInv, NEW r \in Request, find_website(r),
         phase \notin {"statics", "main", "setup", "launch"}, phase' = phase
  PROVE  SitesInv' /\ ServedByNamedWebsite'
<1> DEFINE hits == {s \in websites : \E h \in extract_host(r) : Matches(s, h)}
<1>1. found' = hits
  <2>1. \A s, t \in hits : s = t
    BY OneWebsite DEF SitesInv
  <2>2. \/ hits # {} /\ \E s \in hits : found' = {s}
        \/ hits = {} /\ found' = {}
    BY DEF find_website
  <2> QED
    BY <2>1, <2>2
<1>2. hits = {s \in websites : \E t \in Asked(r) : Names16(t, s.host)}
  BY ExtractedIsAsked DEF SitesInv
<1>3. request' = <<r>> /\ UNCHANGED <<websites, bound, outcome>>
  BY DEF find_website
<1>4. \A i \in DOMAIN request' : i = 1 /\ request'[i] = r
  BY <1>3
<1>5. \A i \in DOMAIN request' :
        found' = {s \in websites' : \E t \in Asked(request'[i]) : Names16(t, s.host)}
  BY <1>1, <1>2, <1>3, <1>4
<1>6. SitesInv'
  BY <1>1, <1>3, <1>4 DEF SitesInv, PortsMatchWebsites
<1> QED
  BY <1>5, <1>6 DEF ServedByNamedWebsite

-----------------------------------------------------------------------------
(* The registry.                                                           *)

LEMMA SitesKeep ==
  ASSUME SitesInv, ServedByNamedWebsite, UNCHANGED <<websites, bound, request, found>>,
         phase' \in {"statics", "main", "setup", "launch"}
           => phase \in {"statics", "main", "setup", "launch"}
  PROVE  SitesInv' /\ ServedByNamedWebsite'
BY DEF SitesInv, ServedByNamedWebsite, PortsMatchWebsites

\* A website that is placed was not there before, neither was its port.
LEMMA PlaceOutcome ==
  ASSUME place
  PROVE  \/ /\ outcome' = "ok" /\ websites' = websites \cup {built[1]}
            /\ bound' = bound \cup {built[1].host.port}
            /\ built[1].host.port \notin bound /\ built[1] \notin websites
         \/ outcome' \in {"invalid_argument", "zmq_error"} /\ UNCHANGED <<websites, bound>>
<1>1. CASE \E x \in websites : SameHost(x, built[1].host)
  BY <1>1 DEF place, emplace_and_bind
<1>2. CASE /\ ~ \E x \in websites : SameHost(x, built[1].host)
           /\ Bindable(built[1].host.port)
  BY <1>2 DEF place, emplace_and_bind, SameHost, Bindable
<1>3. CASE /\ ~ \E x \in websites : SameHost(x, built[1].host)
           /\ ~ Bindable(built[1].host.port)
  BY <1>3 DEF place, emplace_and_bind
<1> QED
  BY <1>1, <1>2, <1>3

LEMMA SitesPlace ==
  ASSUME PInv, place
  PROVE  SitesInv' /\ ServedByNamedWebsite'
<1>1. phase = "setup" /\ built # <<>> /\ phase' = phase /\ UNCHANGED <<request, found>>
  BY DEF place
<1>2. request = <<>> /\ request' = <<>>
  BY <1>1 DEF PInv, SitesInv
<1>3. ServedByNamedWebsite'
  BY <1>2 DEF ServedByNamedWebsite
<1>4. built[1] \in Site
  <2>1. PICK s \in Site : built = <<s>>
    BY <1>1 DEF PInv, RefsInv
  <2> QED
    BY <2>1
<1>5. CASE outcome' = "ok"
  <2>1. /\ websites' = websites \cup {built[1]} /\ bound' = bound \cup {built[1].host.port}
        /\ built[1].host.port \notin bound
    BY <1>5, PlaceOutcome
  <2>2. websites' \subseteq Site /\ IsFiniteSet(websites')
    BY <1>4, <2>1, FS_AddElement DEF PInv, SitesInv
  <2>3. PortsMatchWebsites'
    BY <2>1 DEF PInv, SitesInv, PortsMatchWebsites
  <2> QED
    BY <1>1, <1>2, <1>3, <2>1, <2>2, <2>3 DEF PInv, SitesInv
<1>6. CASE outcome' # "ok"
  <2>1. UNCHANGED <<websites, bound>>
    BY <1>6, PlaceOutcome
  <2> QED
    BY <1>1, <2>1, SitesKeep DEF PInv
<1> QED
  BY <1>5, <1>6

LEMMA SitesStep ==
  ASSUME PInv, [ProgramNext]_pvars
  PROVE  SitesInv' /\ ServedByNamedWebsite'
<1> USE DEF PInv
<1>1. CASE place
  BY <1>1, SitesPlace
<1>2. ASSUME NEW w \in Workers, handle_request(w) PROVE SitesInv' /\ ServedByNamedWebsite'
  <2>1. phase \in {"loop", "unwind", "gone"} /\ phase' = phase
    BY <1>2 DEF handle_request, LifeInv
  <2>2. PICK r \in Request : find_website(r)
    BY <1>2 DEF handle_request
  <2> QED
    BY <2>1, <2>2, FoundIsServed
<1>3. ASSUME NEW w \in Workers, respond(w) PROVE SitesInv' /\ ServedByNamedWebsite'
  <2>1. request' = <<>> /\ found' = {} /\ UNCHANGED <<websites, bound, phase>>
    BY <1>3 DEF respond
  <2> QED
    BY <2>1 DEF SitesInv, ServedByNamedWebsite, PortsMatchWebsites
<1>4. ASSUME NEW c \in Call, refuse(c) PROVE SitesInv' /\ ServedByNamedWebsite'
  BY <1>4, SitesKeep DEF refuse, connect
<1>5. ASSUME NEW c \in Call, construct(c) PROVE SitesInv' /\ ServedByNamedWebsite'
  BY <1>5, SitesKeep DEF construct, server
<1>6. ASSUME NEW n, static_logger(n) PROVE SitesInv' /\ ServedByNamedWebsite'
  BY <1>6, SitesKeep DEF static_logger
<1>7. CASE main \/ http_server \/ no_logger \/ uncaught \/ run \/ run_throws \/ give_up
  BY <1>7, SitesKeep DEF main, http_server, no_logger, uncaught, run, run_throws, give_up, server
<1>8. ASSUME NEW w \in Workers, start(w) \/ forward(w) \/ stop(w) \/ open_sockets(w)
      PROVE  SitesInv' /\ ServedByNamedWebsite'
  BY <1>8, SitesKeep DEF start, forward, stop, open_sockets, server
<1>9. CASE join \/ destroy_websites \/ destroy_logger \/ destroy_context
  BY <1>9, SitesKeep DEF join, destroy_websites, destroy_logger, destroy_context, server
<1>10. ASSUME NEW k, close(k) PROVE SitesInv' /\ ServedByNamedWebsite'
  BY <1>10, SitesKeep DEF close, server
<1>11. CASE UNCHANGED pvars
  BY <1>11, SitesKeep DEF pvars, server
<1> QED
  BY <1>1, <1>2, <1>3, <1>4, <1>5, <1>6, <1>7, <1>8, <1>9, <1>10, <1>11
     DEF ProgramNext, MainThread, WorkerThread

-----------------------------------------------------------------------------
(* The references to libraries.                                            *)

LEMMA RefsKeep ==
  ASSUME RefsInv, UNCHANGED <<websites, built, refs>>,
         "websites" \in destroyed' <=> "websites" \in destroyed,
         built = <<>> \/ phase' = phase
  PROVE  RefsInv'
BY DEF RefsInv, Building, Uses

\* At most one website is being built, and it counts for its own library.
LEMMA BuildingOne ==
  ASSUME NEW s \in Site, NEW l
  PROVE  /\ built = <<>> => Cardinality(Building(l)) = 0
         /\ built = <<s>> => Cardinality(Building(l)) = IF s.path = l THEN 1 ELSE 0
<1>1. Cardinality({}) = 0 /\ Cardinality({1}) = 1
  BY FS_EmptySet, FS_Singleton
<1>2. CASE built = <<>>
  <2>1. Building(l) = {} /\ built # <<s>>
    BY <1>2 DEF Building
  <2> QED
    BY <1>1, <1>2, <2>1
<1>3. CASE built = <<s>>
  <2>1. Building(l) = (IF s.path = l THEN {1} ELSE {}) /\ built # <<>>
    BY <1>3 DEF Building
  <2> QED
    BY <1>1, <1>3, <2>1
<1>4. CASE built # <<>> /\ built # <<s>>
  BY <1>4
<1> QED
  BY <1>2, <1>3, <1>4

\* The same for the website of the next state.
LEMMA BuildingNext ==
  ASSUME NEW s \in Site, NEW l
  PROVE  /\ built' = <<>> => Cardinality(Building(l)') = 0
         /\ built' = <<s>> => Cardinality(Building(l)') = IF s.path = l THEN 1 ELSE 0
<1>1. Cardinality({}) = 0 /\ Cardinality({1}) = 1
  BY FS_EmptySet, FS_Singleton
<1>2. CASE built' = <<>>
  <2>1. Building(l)' = {} /\ built' # <<s>>
    BY <1>2 DEF Building
  <2> QED
    BY <1>1, <1>2, <2>1
<1>3. CASE built' = <<s>>
  <2>1. Building(l)' = (IF s.path = l THEN {1} ELSE {}) /\ built' # <<>>
    BY <1>3 DEF Building
  <2> QED
    BY <1>1, <1>3, <2>1
<1>4. CASE built' # <<>> /\ built' # <<s>>
  BY <1>4
<1> QED
  BY <1>2, <1>3, <1>4

LEMMA UsesNat ==
  ASSUME SitesInv, NEW l
  PROVE  IsFiniteSet(Uses(l)) /\ Cardinality(Uses(l)) \in Nat
<1>1. IsFiniteSet(websites) /\ Uses(l) \subseteq websites
  BY DEF SitesInv, Uses
<1>2. IsFiniteSet(Uses(l))
  BY <1>1, FS_Subset
<1> QED
  BY <1>2, FS_CardinalityType

LEMMA SiteOfCall ==
  ASSUME NEW c \in Call, Constructible(c.path)
  PROVE  SiteOf(c) \in Site
<1>1. c.name \in Names /\ c.port \in Ports
  BY DEF Call
<1>2. c.port \in Port16
  BY <1>1, WebsitesAssumption
<1>3. [name |-> c.name, port |-> c.port] \in Host
  BY <1>1, <1>2 DEF Host
<1> QED
  BY <1>3 DEF SiteOf, Site, Constructible

LEMMA RefsConstruct ==
  ASSUME PInv, NEW c \in Call, construct(c)
  PROVE  RefsInv'
<1> PICK s \in Site : s = SiteOf(c)
  BY SiteOfCall DEF construct
<1>1. /\ built = <<>> /\ built' = <<s>> /\ phase' = "setup" /\ phase = "setup"
      /\ UNCHANGED <<websites, destroyed>>
      /\ refs' = IF s.path \in Libraries THEN load(s.path) ELSE refs
  BY DEF construct, construct_factory, server
<1>2. "websites" \notin destroyed /\ "websites" \notin destroyed'
  BY <1>1 DEF PInv, LifeInv
<1>3. refs' \in [Libraries -> Nat]
  BY <1>1 DEF PInv, RefsInv, load
<1>4. ASSUME NEW l \in Libraries
      PROVE  refs'[l] = Cardinality(Building(l)') + Cardinality(Uses(l)')
  <2>1. refs[l] = 0 + Cardinality(Uses(l))
    BY <1>1, <1>2, BuildingOne DEF PInv, RefsInv
  <2>2. Cardinality(Building(l)') = IF s.path = l THEN 1 ELSE 0
    BY <1>1, BuildingNext
  <2>3. refs'[l] = IF s.path = l THEN refs[l] + 1 ELSE refs[l]
    BY <1>1 DEF PInv, RefsInv, load
  <2>4. Uses(l)' = Uses(l) /\ Cardinality(Uses(l)) \in Nat
    BY <1>1, UsesNat DEF PInv, Uses
  <2> QED
    BY <2>1, <2>2, <2>3, <2>4
<1> QED
  BY <1>1, <1>2, <1>3, <1>4 DEF RefsInv

LEMMA RefsPlace ==
  ASSUME PInv, place
  PROVE  RefsInv'
<1>1. /\ built # <<>> /\ built' = <<>> /\ phase' = "setup" /\ UNCHANGED destroyed
      /\ phase = "setup"
  BY DEF place
<1>2. PICK s \in Site : built = <<s>>
  BY <1>1 DEF PInv, RefsInv
<1>3. built[1] = s
  BY <1>2
<1>4. "websites" \notin destroyed /\ "websites" \notin destroyed'
  BY <1>1 DEF PInv, LifeInv
<1>5. ASSUME NEW l \in Libraries
      PROVE  /\ refs[l] = (IF s.path = l THEN 1 ELSE 0) + Cardinality(Uses(l))
             /\ Cardinality(Uses(l)) \in Nat /\ IsFiniteSet(Uses(l))
             /\ Cardinality(Building(l)') = 0
  <2>1. Cardinality(Building(l)) = IF s.path = l THEN 1 ELSE 0
    BY <1>2, BuildingOne
  <2>2. Cardinality(Building(l)') = 0
    BY <1>1, BuildingNext
  <2>3. refs[l] = Cardinality(Building(l)) + Cardinality(Uses(l))
    BY <1>4 DEF PInv, RefsInv
  <2> QED
    BY <2>1, <2>2, <2>3, UsesNat DEF PInv
<1>6. CASE outcome' = "ok"
  <2>1. refs' = refs /\ websites' = websites \cup {s} /\ s \notin websites
    BY <1>3, <1>6, PlaceOutcome DEF place
  <2>2. ASSUME NEW l \in Libraries
        PROVE  refs'[l] = Cardinality(Building(l)') + Cardinality(Uses(l)')
    <3>1. CASE s.path = l
      <4>1. Uses(l)' = Uses(l) \cup {s} /\ s \notin Uses(l)
        BY <2>1, <3>1 DEF Uses
      <4>2. Cardinality(Uses(l) \cup {s}) = Cardinality(Uses(l)) + 1
        BY <1>5, <4>1, FS_AddElement
      <4> QED
        BY <1>5, <2>1, <3>1, <4>1, <4>2
    <3>2. CASE s.path # l
      <4>1. Uses(l)' = Uses(l)
        BY <2>1, <3>2 DEF Uses
      <4> QED
        BY <1>5, <2>1, <3>2, <4>1
    <3> QED
      BY <3>1, <3>2
  <2>3. refs' \in [Libraries -> Nat]
    BY <2>1 DEF PInv, RefsInv
  <2> QED
    BY <1>1, <1>4, <2>2, <2>3 DEF RefsInv
<1>7. CASE outcome' # "ok"
  <2>1. /\ UNCHANGED websites
        /\ refs' = IF s.path \in Libraries THEN unload(s.path) ELSE refs
    BY <1>3, <1>7, PlaceOutcome DEF place, destroy_factory
  <2>2. ASSUME NEW l \in Libraries
        PROVE  refs'[l] = Cardinality(Building(l)') + Cardinality(Uses(l)') /\ refs'[l] \in Nat
    <3>1. Uses(l)' = Uses(l)
      BY <2>1 DEF Uses
    <3>2. refs'[l] = IF s.path = l THEN refs[l] - 1 ELSE refs[l]
      BY <2>1 DEF unload, PInv, RefsInv
    <3> QED
      BY <1>5, <3>1, <3>2
  <2>3. DOMAIN refs' = Libraries /\ refs' = [l \in DOMAIN refs' |-> refs'[l]]
    BY <2>1 DEF unload, PInv, RefsInv
  <2>4. refs' \in [Libraries -> Nat]
    BY <2>2, <2>3
  <2> QED
    BY <1>1, <1>4, <2>2, <2>4 DEF RefsInv
<1> QED
  BY <1>6, <1>7

-----------------------------------------------------------------------------
(* The destructor.                                                         *)

\* Members whose turn it is: those declared after them are gone.
LEMMA TurnOrder ==
  ASSUME NEW m, Turn(m)
  PROVE  /\ Alive /\ phase = "unwind" /\ m \notin destroyed
         /\ m = "websites" => "workers" \in destroyed
         /\ m = "context" => {"stream", "pub", "dealer", "websites", "workers"} \subseteq destroyed
<1>1. PICK i \in 1..7 : Members[i] = m /\ \A j \in (i + 1)..7 : Members[j] \in destroyed
  BY DEF Turn, Members
<1>2. CASE m = "websites"
  <2>1. i = 5
    BY <1>1, <1>2 DEF Members
  <2>2. Members[6] \in destroyed
    BY <1>1, <2>1
  <2> QED
    BY <1>2, <2>2 DEF Members, Turn
<1>3. CASE m = "context"
  <2>1. i = 1
    BY <1>1, <1>3 DEF Members
  <2>2. \A j \in 2..7 : Members[j] \in destroyed
    BY <1>1, <2>1
  <2> QED
    BY <1>3, <2>2 DEF Members, Turn
<1> QED
  BY <1>2, <1>3 DEF Turn

LEMMA RefsDestroy ==
  ASSUME PInv, destroy_websites
  PROVE  RefsInv'
<1>1. /\ phase = "unwind" /\ "websites" \notin destroyed
      /\ "websites" \in destroyed' /\ UNCHANGED <<phase, websites, built>>
      /\ refs' = [l \in Libraries |-> refs[l] - Cardinality(Uses(l))]
  BY TurnOrder DEF destroy_websites, server, Uses
<1>2. built = <<>> /\ built' = <<>>
  BY <1>1 DEF PInv, RefsInv
<1>3. ASSUME NEW l \in Libraries
      PROVE  refs'[l] = 0 /\ Cardinality(Building(l)') = 0
  <2>1. refs[l] = 0 + Cardinality(Uses(l)) /\ Cardinality(Uses(l)) \in Nat
    <3>1. Cardinality(Building(l)) = 0
      BY <1>2, FS_EmptySet DEF Building
    <3> QED
      BY <1>1, <3>1, UsesNat DEF PInv, RefsInv
  <2>2. Building(l)' = {} /\ Cardinality({}) = 0
    BY <1>2, FS_EmptySet DEF Building
  <2> QED
    BY <1>1, <2>1, <2>2
<1>4. refs' \in [Libraries -> Nat]
  BY <1>1, <1>3
<1> QED
  BY <1>1, <1>2, <1>3, <1>4 DEF RefsInv

LEMMA RefsStep ==
  ASSUME PInv, [ProgramNext]_pvars
  PROVE  RefsInv'
<1> USE DEF PInv
<1>1. CASE place
  BY <1>1, RefsPlace
<1>2. ASSUME NEW c \in Call, construct(c) PROVE RefsInv'
  BY <1>2, RefsConstruct
<1>3. CASE destroy_websites
  BY <1>3, RefsDestroy
<1>4. ASSUME NEW w \in Workers, handle_request(w) \/ respond(w) PROVE RefsInv'
  BY <1>4, RefsKeep DEF handle_request, respond, find_website
<1>5. ASSUME NEW c \in Call, refuse(c) PROVE RefsInv'
  BY <1>5, RefsKeep DEF refuse, connect, Constructible
<1>6. ASSUME NEW n, static_logger(n) PROVE RefsInv'
  BY <1>6, RefsKeep DEF static_logger
<1>7. built = <<>> \/ phase = "setup"
  BY DEF RefsInv
<1>8. CASE main \/ http_server \/ no_logger \/ uncaught \/ run \/ run_throws \/ give_up
  BY <1>7, <1>8, RefsKeep DEF main, http_server, no_logger, uncaught, run, run_throws, give_up, server
<1>9. ASSUME NEW w \in Workers, start(w) \/ forward(w) \/ stop(w) \/ open_sockets(w)
      PROVE  RefsInv'
  BY <1>7, <1>9, RefsKeep DEF start, forward, stop, open_sockets, server
<1>10. CASE join \/ destroy_logger \/ destroy_context
  <2>1. phase = "unwind"
    BY <1>10, TurnOrder DEF join, destroy_logger, destroy_context
  <2> QED
    BY <1>7, <1>10, <2>1, RefsKeep DEF join, destroy_logger, destroy_context, server
<1>11. ASSUME NEW k \in {"stream", "pub", "dealer"}, close(k) PROVE RefsInv'
  BY <1>7, <1>11, RefsKeep DEF close, server
<1>12. CASE UNCHANGED pvars
  BY <1>12, RefsKeep DEF pvars, server
<1> QED
  BY <1>1, <1>2, <1>3, <1>4, <1>5, <1>6, <1>8, <1>9, <1>10, <1>11, <1>12
     DEF ProgramNext, MainThread, WorkerThread

-----------------------------------------------------------------------------
(* Threads, sockets and members.                                           *)

Kinds == {"stream", "pub", "dealer"}
Active(w) == thread[w] \in {"polling", "serving"}
ActiveSockets == UNION {WorkerSockets(w) : w \in {v \in Workers : Active(v)}}

\* Before the destructor nothing is destroyed.
LEMMA LifeKeep ==
  ASSUME LifeInv, UNCHANGED <<destroyed, thread, pending>>,
         serving' = serving, websites \subseteq websites',
         phase' \notin {"unwind", "gone"} => phase \notin {"unwind", "gone"},
         phase \in {"loop", "unwind", "gone"} => phase' \in {"loop", "unwind", "gone"},
         sockets' \subseteq sockets \cup ({"main"} \X (Kinds \ destroyed))
  PROVE  LifeInv'
<1>1. ActiveSockets' = ActiveSockets
  BY DEF ActiveSockets, Active, WorkerSockets
<1>2. sockets' \subseteq ({"main"} \X (Kinds \ destroyed')) \cup ActiveSockets'
  BY <1>1 DEF LifeInv, ActiveSockets, Active, Kinds
<1>3. serving' \in [Workers -> SUBSET websites']
  BY DEF LifeInv
<1> QED
  BY <1>2, <1>3 DEF LifeInv, ActiveSockets, Active, Kinds

\* A thread moves on, with the sockets that are its own.
LEMMA LifeThread ==
  ASSUME LifeInv, NEW w \in Workers, UNCHANGED <<destroyed, phase, websites>>,
         thread[w] \in {"starting", "polling", "serving"},
         NEW at \in {"polling", "serving", "ended"}, thread' = [thread EXCEPT ![w] = at],
         serving' \in [Workers -> SUBSET websites],
         \A v \in Workers : pending'[v] => phase \in {"loop", "unwind", "gone"},
         IF at = "ended" THEN sockets' = sockets \ WorkerSockets(w)
                         ELSE sockets' \subseteq sockets \cup WorkerSockets(w)
  PROVE  LifeInv'
<1>1. thread' \in [Workers -> {"none", "starting", "polling", "serving", "ended"}]
  BY DEF LifeInv
<1>2. "workers" \notin destroyed
  BY DEF LifeInv
<1>3. ASSUME NEW v \in Workers, v # w PROVE Active(v)' <=> Active(v)
  BY <1>3 DEF Active, LifeInv
<1>4. Active(w)' <=> at # "ended"
  BY DEF Active, LifeInv
<1>5. sockets' \subseteq ({"main"} \X (Kinds \ destroyed')) \cup ActiveSockets'
  <2> SUFFICES ASSUME NEW x \in sockets', x \notin {"main"} \X (Kinds \ destroyed)
               PROVE  \E v \in Workers : Active(v)' /\ x \in WorkerSockets(v)
    BY DEF ActiveSockets, WorkerSockets
  <2>1. CASE x \in WorkerSockets(w)
    BY <1>4, <2>1
  <2>2. CASE x \notin WorkerSockets(w)
    <3>1. x \in sockets
      BY <2>2
    <3>2. PICK v \in Workers : Active(v) /\ x \in WorkerSockets(v)
      BY <3>1 DEF LifeInv, Active, Kinds
    <3> QED
      BY <1>3, <2>2, <3>2
  <2> QED
    BY <2>1, <2>2
<1> QED
  BY <1>1, <1>2, <1>5 DEF LifeInv, ActiveSockets, Active, Kinds

\* A member is destroyed, in its turn.
LEMMA LifeDestroy ==
  ASSUME LifeInv, NEW m, Turn(m), destroyed' = destroyed \cup {m},
         UNCHANGED <<websites, thread, pending, serving>>,
         phase' \in {"unwind", "gone"},
         m = "workers" => \A w \in Workers : thread[w] \in {"none", "ended"},
         sockets' \subseteq sockets, <<"main", m>> \notin sockets'
  PROVE  LifeInv'
<1>1. /\ phase = "unwind"
      /\ m \in {"websites", "context"} => "workers" \in destroyed
  BY TurnOrder
<1>2. ActiveSockets' = ActiveSockets
  BY DEF ActiveSockets, Active, WorkerSockets
<1>3. sockets' \subseteq ({"main"} \X (Kinds \ destroyed')) \cup ActiveSockets'
  <2> SUFFICES ASSUME NEW x \in sockets', x \notin ActiveSockets
               PROVE  x \in {"main"} \X (Kinds \ destroyed')
    BY <1>2
  <2>1. x \in {"main"} \X (Kinds \ destroyed)
    BY DEF LifeInv, ActiveSockets, Active, Kinds
  <2>2. x # <<"main", m>>
    OBVIOUS
  <2> QED
    BY <2>1, <2>2
<1> QED
  BY <1>1, <1>3 DEF LifeInv, ActiveSockets, Active, Kinds

LEMMA LifeStep ==
  ASSUME PInv, [ProgramNext]_pvars
  PROVE  LifeInv'
<1> USE DEF PInv
<1>1. CASE place
  <2>1. websites \subseteq websites'
    BY <1>1, PlaceOutcome
  <2> QED
    BY <1>1, <2>1, LifeKeep DEF place, threads
<1>2. ASSUME NEW w \in Workers, start(w) PROVE LifeInv'
  <2>1. /\ phase = "launch" /\ phase' \in {"launch", "loop"} /\ destroyed = {}
        /\ thread[w] = "none" /\ thread' = [thread EXCEPT ![w] = "starting"]
        /\ UNCHANGED <<websites, sockets, pending, serving, destroyed>>
    BY <1>2 DEF start, LifeInv, server
  <2>2. thread' \in [Workers -> {"none", "starting", "polling", "serving", "ended"}]
    BY <2>1 DEF LifeInv
  <2>3. ASSUME NEW v \in Workers PROVE Active(v)' <=> Active(v)
    BY <2>1 DEF Active, LifeInv
  <2>4. ActiveSockets' = ActiveSockets
    BY <2>3 DEF ActiveSockets, WorkerSockets
  <2> QED
    BY <2>1, <2>2, <2>4 DEF LifeInv, ActiveSockets, Active, Kinds
<1>3. ASSUME NEW w \in Workers, open_sockets(w) PROVE LifeInv'
  <2>1. /\ thread[w] = "starting"
        /\ UNCHANGED <<websites, phase, pending, serving, destroyed>>
    BY <1>3 DEF open_sockets, server
  <2>2. CASE running[w]
    <3>1. /\ thread' = [thread EXCEPT ![w] = "polling"]
          /\ sockets' = sockets \cup WorkerSockets(w)
      BY <1>3, <2>2 DEF open_sockets
    <3> QED
      BY <2>1, <3>1, LifeThread DEF LifeInv
  <2>3. CASE ~ running[w]
    <3>1. thread' = [thread EXCEPT ![w] = "ended"] /\ sockets' = sockets
      BY <1>3, <2>3 DEF open_sockets
    <3>2. ASSUME NEW v \in Workers PROVE Active(v)' <=> Active(v)
      BY <2>1, <3>1 DEF Active, LifeInv
    <3>3. ActiveSockets' = ActiveSockets
      BY <3>2 DEF ActiveSockets, WorkerSockets
    <3>4. thread' \in [Workers -> {"none", "starting", "polling", "serving", "ended"}]
      BY <3>1 DEF LifeInv
    <3>5. "workers" \notin destroyed
      BY <2>1 DEF LifeInv
    <3> QED
      BY <2>1, <3>1, <3>3, <3>4, <3>5 DEF LifeInv, ActiveSockets, Active, Kinds
  <2> QED
    BY <2>2, <2>3
<1>4. ASSUME NEW w \in Workers, forward(w) PROVE LifeInv'
  BY <1>4 DEF forward, server, LifeInv, WorkerSockets
<1>5. ASSUME NEW w \in Workers, handle_request(w) PROVE LifeInv'
  <2>1. /\ thread[w] = "polling" /\ thread' = [thread EXCEPT ![w] = "serving"]
        /\ UNCHANGED <<websites, phase, sockets, destroyed>>
        /\ serving' = [serving EXCEPT ![w] = found']
        /\ pending' = [pending EXCEPT ![w] = FALSE] /\ pending[w]
    BY <1>5 DEF handle_request, find_website
  <2>2. found' \subseteq websites
    BY <1>5, SitesStep, <2>1 DEF SitesInv, ProgramNext, WorkerThread
  <2>3. serving' \in [Workers -> SUBSET websites]
    BY <2>1, <2>2 DEF LifeInv
  <2>4. phase \in {"loop", "unwind", "gone"}
    BY <2>1 DEF LifeInv
  <2> QED
    BY <2>1, <2>3, <2>4, LifeThread
<1>6. ASSUME NEW w \in Workers, respond(w) PROVE LifeInv'
  <2>1. /\ thread[w] = "serving" /\ serving' = [serving EXCEPT ![w] = {}] /\ Continue(w)
        /\ UNCHANGED <<websites, phase, pending, destroyed>>
    BY <1>6 DEF respond
  <2>2. serving' \in [Workers -> SUBSET websites]
    BY <2>1 DEF LifeInv
  <2>3. CASE running[w]
    <3>1. thread' = [thread EXCEPT ![w] = "polling"] /\ sockets' = sockets
      BY <2>1, <2>3 DEF Continue
    <3> QED
      BY <2>1, <2>2, <3>1, LifeThread DEF LifeInv
  <2>4. CASE ~ running[w]
    <3>1. thread' = [thread EXCEPT ![w] = "ended"] /\ sockets' = sockets \ WorkerSockets(w)
      BY <2>1, <2>4 DEF Continue
    <3> QED
      BY <2>1, <2>2, <3>1, LifeThread DEF LifeInv
  <2> QED
    BY <2>3, <2>4
<1>7. CASE join
  <2>1. Turn("workers") /\ <<"main", "workers">> \notin sockets
    <3>1. \A x \in sockets : x # <<"main", "workers">>
      BY DEF LifeInv, WorkerSockets
    <3> QED
      BY <1>7, <3>1 DEF join
  <2> QED
    BY <1>7, <2>1, LifeDestroy DEF join, Turn, threads, server
<1>8. CASE destroy_websites \/ destroy_logger \/ destroy_context
  <2>1. \A x \in sockets : x \notin {<<"main", "websites">>, <<"main", "logger">>, <<"main", "context">>}
    BY DEF LifeInv, WorkerSockets
  <2>2. CASE destroy_websites
    BY <2>1, <2>2, LifeDestroy DEF destroy_websites, Turn, threads, server
  <2>3. CASE destroy_logger
    BY <2>1, <2>3, LifeDestroy DEF destroy_logger, Turn, threads, server
  <2>4. CASE destroy_context
    BY <2>1, <2>4, LifeDestroy DEF destroy_context, Turn, threads, server
  <2> QED
    BY <1>8, <2>2, <2>3, <2>4
<1>9. ASSUME NEW k \in Kinds, close(k) PROVE LifeInv'
  BY <1>9, LifeDestroy DEF close, Turn, threads, server, Kinds
<1>10. CASE http_server
  BY <1>10, LifeKeep DEF http_server, MainSockets, LifeInv, Kinds, server, threads
<1>11. CASE main \/ no_logger \/ uncaught \/ run \/ run_throws \/ give_up
  BY <1>11, LifeKeep DEF main, no_logger, uncaught, run, run_throws, give_up, server, threads
<1>12. ASSUME NEW n, static_logger(n) PROVE LifeInv'
  BY <1>12, LifeKeep DEF static_logger, threads
<1>13. ASSUME NEW c \in Call, refuse(c) \/ construct(c) PROVE LifeInv'
  BY <1>13, LifeKeep DEF refuse, connect, construct, Constructible, threads, server
<1>14. ASSUME NEW w \in Workers, stop(w) PROVE LifeInv'
  BY <1>14, LifeKeep DEF stop, server
<1>15. CASE UNCHANGED pvars
  BY <1>15, LifeKeep DEF pvars, server, threads
<1> QED
  BY <1>1, <1>2, <1>3, <1>4, <1>5, <1>6, <1>7, <1>8, <1>9, <1>10, <1>11, <1>12,
     <1>13, <1>14, <1>15
     DEF ProgramNext, MainThread, WorkerThread, Kinds

-----------------------------------------------------------------------------
(* The theorems.                                                           *)

LEMMA ProgramStart ==
  ASSUME ProgramInit
  PROVE  PInv
<1>1. SitesInv /\ ServedByNamedWebsite
  BY FS_EmptySet DEF ProgramInit, Init, SitesInv, ServedByNamedWebsite, PortsMatchWebsites
<1>2. RefsInv
  <2>1. \A l \in Libraries : Building(l) = {} /\ Uses(l) = {}
    BY DEF ProgramInit, Init, Building, Uses
  <2>2. Cardinality({}) = 0
    BY FS_EmptySet
  <2>3. /\ built = <<>> /\ refs \in [Libraries -> Nat]
        /\ \A l \in Libraries : refs[l] = 0
    BY DEF ProgramInit
  <2>4. \A l \in Libraries : Cardinality(Building(l)) = 0 /\ Cardinality(Uses(l)) = 0
    BY <2>1, <2>2
  <2> QED
    BY <2>3, <2>4 DEF RefsInv
<1>3. LifeInv
  BY DEF ProgramInit, Init, LifeInv
<1> QED
  BY <1>1, <1>2, <1>3 DEF PInv

\* The registry, the references to libraries, and the threads, sockets and
\* members keep the invariant together: a request is only looked up once the
\* registry is fixed, and a website only counts for its library until the
\* registry is destroyed.
THEOREM ProgramInvariance == ProgramSpec => []PInv
<1>1. PInv /\ [ProgramNext]_pvars => PInv'
  <2> SUFFICES ASSUME PInv, [ProgramNext]_pvars PROVE PInv'
    OBVIOUS
  <2>1. SitesInv' /\ ServedByNamedWebsite'
    BY SitesStep
  <2>2. RefsInv'
    BY RefsStep
  <2>3. LifeInv'
    BY LifeStep
  <2> QED
    BY <2>1, <2>2, <2>3 DEF PInv
<1> QED
  BY <1>1, ProgramStart, PTL DEF ProgramSpec

\* However the calls of http_server::connect end, the ports the server is
\* bound to and the websites it serves stay in step.
THEOREM PortsFollowWebsites == ProgramSpec => []PortsMatchWebsites
<1>1. PInv => PortsMatchWebsites
  BY DEF PInv, SitesInv
<1> QED
  BY <1>1, ProgramInvariance, PTL

\* http_worker::find_website gives a request the website it names, and no
\* other, for whatever names and ports were connected and asked for.
THEOREM RequestsFindTheirWebsite == ProgramSpec => []ServedByNamedWebsite
<1>1. PInv => ServedByNamedWebsite
  BY DEF PInv
<1> QED
  BY <1>1, ProgramInvariance, PTL

\* The references dlopen handed out for a library are the websites that use
\* it, the one being constructed included.
THEOREM ReferencesAreWebsites == ProgramSpec => []LibraryReferences
<1>1. PInv => LibraryReferences
  BY DEF PInv, RefsInv, LibraryReferences, Building, Uses
<1> QED
  BY <1>1, ProgramInvariance, PTL

\* ~http_server takes nothing away from a thread that still runs, and no
\* socket is left open when the context's turn comes, so zmq_ctx_destroy has
\* nothing to wait for.
THEOREM ThreadsFindWhatTheyUse == ProgramSpec => []UsedIsThere
<1>1. PInv => UsedIsThere
  <2> SUFFICES ASSUME PInv PROVE UsedIsThere
    OBVIOUS
  <2> USE DEF PInv
  <2>1. ASSUME NEW w \in Workers, thread[w] \in {"starting", "polling", "serving"}
        PROVE  {"websites", "context"} \cap destroyed = {}
    BY <2>1 DEF LifeInv
  <2>2. ASSUME NEW w \in Workers, thread[w] \in {"starting", "polling", "serving"},
               NEW s \in serving[w], s.path \in Libraries
        PROVE  refs[s.path] > 0
    <3>1. s \in Uses(s.path)
      BY DEF LifeInv, Uses
    <3>2. Cardinality(Uses(s.path)) \in Nat /\ Cardinality(Uses(s.path)) # 0
      BY <3>1, UsesNat, FS_EmptySet
    <3>3. "websites" \notin destroyed
      BY <2>1, <2>2
    <3>4. refs[s.path] = Cardinality(Building(s.path)) + Cardinality(Uses(s.path))
      BY <2>2, <3>3 DEF RefsInv
    <3>5. Cardinality(Building(s.path)) \in Nat
      <4>1. CASE built = <<>>
        <5>1. Building(s.path) = {}
          BY <4>1 DEF Building
        <5> QED
          BY <5>1, FS_EmptySet
      <4>2. ASSUME NEW t \in Site, built = <<t>>
            PROVE  Cardinality(Building(s.path)) \in Nat
        BY <4>2, BuildingOne
      <4> QED
        BY <4>1, <4>2 DEF RefsInv
    <3> QED
      BY <3>2, <3>4, <3>5
  <2>3. ASSUME Turn("context") PROVE sockets = {}
    <3>1. {"stream", "pub", "dealer", "workers"} \subseteq destroyed
      BY <2>3, TurnOrder
    <3>2. ActiveSockets = {}
      BY <3>1 DEF LifeInv, ActiveSockets, Active
    <3> QED
      BY <3>1, <3>2 DEF LifeInv, ActiveSockets, Active
  <2> QED
    BY <2>1, <2>2, <2>3 DEF UsedIsThere
<1> QED
  BY <1>1, ProgramInvariance, PTL

=============================================================================
