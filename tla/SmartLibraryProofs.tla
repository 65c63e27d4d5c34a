------------------------- MODULE SmartLibraryProofs -------------------------
(***************************************************************************)
(* Proofs about SharedLibrary and SmartLibrary: the references the loader  *)
(* has handed out, for all objects, functions, files and platforms.        *)
(***************************************************************************)
EXTENDS SmartLibrary, FiniteSetTheorems, TLAPS

-----------------------------------------------------------------------------
(* The inductive invariant.                                                *)

Handles == Files \cup {NoFile}

\* What the loader knows about the files.
IsLoader(ld) ==
  /\ ld = [f \in Files |-> ld[f]]
  /\ \A f \in Files : /\ ld[f] = [refs |-> ld[f].refs, name |-> ld[f].name]
                      /\ ld[f].refs \in Int /\ IsPath(ld[f].name)

TypeInv ==
  /\ platform \in Platforms
  /\ IsLoader(loader)
  /\ handle \in [Objects -> Handles \cup {NoObject}]
  /\ keeper \in [Imports -> Handles]
  /\ import \in [Imports -> [keeper : Imports \cup {NoObject}, file : Handles]]

DiskInv ==
  /\ ProgramPlace \in DOMAIN disk /\ disk[ProgramPlace] = Program
  /\ \A place \in DOMAIN disk : disk[place] \in Files

\* A keeper is there for its functions, and they name its library.
KeeperInv ==
  /\ \A i \in Imports : import[i].keeper # NoObject =>
       import[i].file \in Files /\ keeper[import[i].keeper] = import[i].file
  /\ \A k \in Imports : keeper[k] # NoFile => \E i \in Imports : import[i].keeper = k

\* A name under which a library is found again, wherever it is asked for.
Absolute(n) ==
  n.parent = "/lib" \/ IF platform = "linux" THEN n.parent # "" ELSE n.parent = "/d"

\* No two libraries are mapped under one name.
Named(ld) ==
  /\ \A f \in Files : ld[f].refs > 0 => Absolute(ld[f].name) /\ (f = Program \/ Mappable(f))
  /\ \A f, g \in Files :
       ld[f].refs > 0 /\ ld[g].refs > 0 /\ ld[f].name = ld[g].name => f = g
  /\ ld[Program].refs > 0 /\ ld[Program].name = ProgramPath

LibraryInv ==
  /\ TypeInv /\ DiskInv /\ KeeperInv
  /\ LoaderReferences
  /\ Named(loader)

-----------------------------------------------------------------------------
(* What the operations make of a loader.                                   *)

One(b) == IF b THEN 1 ELSE 0

\* From ld to m a reference to h is given back and one to k is taken.
Exchange(ld, m, h, k) ==
  \A f \in Files : m[f].refs = ld[f].refs - One(h = f) + One(k = f)

\* There is a reference to h besides the program's own.
Counted(ld, h) == h \in Files => ld[h].refs > One(h = Program)

LEMMA ProgramPathIsPath ==
  IsPath(ProgramPath) /\ Absolute(ProgramPath)
BY DEF ProgramPath, IsPath, Absolute

LEMMA Unloading ==
  ASSUME NEW ld, IsLoader(ld), Named(ld), NEW h \in Handles, Counted(ld, h)
  PROVE  /\ IsLoader(unload(ld, h)) /\ Named(unload(ld, h))
         /\ Exchange(ld, unload(ld, h), h, NoFile)
<1>1. CASE h = NoFile
  BY <1>1, LibraryAssumption DEF unload, Exchange, One, IsLoader
<1>2. CASE h # NoFile
  <2>1. h \in Files
    BY <1>2 DEF Handles
  <2>2. unload(ld, h) = dlclose(ld, h)
    BY <1>2 DEF unload
  <2>3. /\ IsLoader(unload(ld, h))
        /\ \A f \in Files : /\ unload(ld, h)[f].name = ld[f].name
                            /\ unload(ld, h)[f].refs = IF f = h THEN ld[f].refs - 1 ELSE ld[f].refs
    BY <2>1, <2>2 DEF IsLoader, dlclose
  <2>4. Exchange(ld, unload(ld, h), h, NoFile)
    BY <2>1, <2>3, LibraryAssumption DEF Exchange, One, IsLoader
  <2>5. ld[h].refs > One(h = Program)
    BY <2>1 DEF Counted
  <2>6. Named(unload(ld, h))
    BY <2>1, <2>3, <2>5, LibraryAssumption DEF Named, One, IsLoader
  <2> QED
    BY <2>3, <2>4, <2>6
<1> QED
  BY <1>1, <1>2

\* The name a library gets is one it is found under.
LEMMA OpenedIsAbsolute ==
  ASSUME platform \in Platforms, NEW p, IsPath(p)
  PROVE  /\ IsPath(Opened(p)) /\ Absolute(Opened(p))
         /\ Opened(p).name = p.name
         /\ Opened(p).parent # "/lib" => Directory(p) = "current"
<1>1. Directory(p) = "system" \/ (Directory(p) = "current" /\ (platform = "linux" => p.parent # ""))
  BY DEF Directory
<1>2. Opened(p) = [parent |-> IF Directory(p) = "system" THEN "/lib"
                              ELSE IF platform = "linux" THEN p.parent ELSE "/d",
                   name |-> p.name]
  BY DEF Opened, IsPath
<1>3. /\ Opened(p).name = p.name
      /\ Directory(p) = "system" => Opened(p).parent = "/lib"
      /\ Directory(p) # "system" => Opened(p).parent = IF platform = "linux" THEN p.parent ELSE "/d"
  BY <1>2
<1>4. IsPath(Opened(p))
  BY <1>2 DEF IsPath
<1> QED
  BY <1>1, <1>3, <1>4 DEF Absolute

\* ... and again under that.
LEMMA AbsoluteStays ==
  ASSUME platform \in Platforms, NEW p, IsPath(p), Absolute(p)
  PROVE  Opened(p) = p /\ located(p, {}) = p /\ candidates(p, {}) = <<p>>
<1>1. p.parent # "" /\ (p.parent # "/lib" /\ platform # "linux" => p.parent = "/d")
  BY DEF Absolute
<1>2. Directory(p) = IF p.parent = "/lib" THEN "system" ELSE "current"
  BY <1>1 DEF Directory
<1>3. p = [parent |-> p.parent, name |-> p.name]
  BY DEF IsPath
<1>4. Opened(p) = [parent |-> p.parent, name |-> p.name]
  BY <1>1, <1>2, <1>3 DEF Opened, Absolute
<1>5. located(p, {}) = p
  BY <1>1 DEF located, Absolute
<1>6. candidates(p, {}) = <<>> \o <<p>>
  BY <1>5 DEF candidates
<1> QED
  BY <1>3, <1>4, <1>5, <1>6

\* The program's own name is its file's.
LEMMA ProgramIsThere ==
  DiskInv => At(ProgramPath) = Program
<1>1. ProgramPath.parent = "/d" /\ Directory(ProgramPath) = "current"
  BY DEF ProgramPath, Directory
<1> QED
  BY <1>1 DEF At, DiskInv, ProgramPlace

LEMMA FoundIsFile ==
  ASSUME DiskInv, NEW ld, IsLoader(ld), NEW p, IsPath(p), Found(ld, p) # NoFile
  PROVE  Found(ld, p) \in Files /\ Mappable(Found(ld, p))
         /\ \/ ld[Found(ld, p)].refs > 0 /\ ld[Found(ld, p)].name = Opened(p)
            \/ /\ Found(ld, p) = At(p)
               /\ ~ \E f \in Files : ld[f].refs > 0 /\ ld[f].name = Opened(p) /\ Mappable(f)
<1> DEFINE named == {f \in Files : ld[f].refs > 0 /\ ld[f].name = Opened(p) /\ Mappable(f)}
<1>1. CASE named # {}
  <2>1. Found(ld, p) = CHOOSE g \in named : TRUE
    BY <1>1 DEF Found
  <2>2. Found(ld, p) \in named
    BY <1>1, <2>1
  <2> QED
    BY <2>2
<1>2. CASE named = {}
  <2>1. Found(ld, p) = At(p) /\ Mappable(At(p))
    BY <1>2 DEF Found
  <2>2. At(p) \in Files
    BY <2>1 DEF At, Mappable, DiskInv
  <2> QED
    BY <1>2, <2>1, <2>2
<1> QED
  BY <1>1, <1>2

LEMMA Opening ==
  ASSUME platform \in Platforms, DiskInv, NEW ld, IsLoader(ld), Named(ld),
         NEW p, IsPath(p), NEW f, f = Found(ld, p), f # NoFile
  PROVE  /\ f \in Files
         /\ IsLoader(dlopen(ld, f, p)) /\ Named(dlopen(ld, f, p))
         /\ Exchange(ld, dlopen(ld, f, p), NoFile, f)
<1> DEFINE m == dlopen(ld, f, p)
<1>1. f \in Files /\ Mappable(f)
  BY FoundIsFile
<1>2. /\ IsLoader(m)
      /\ \A g \in Files \ {f} : m[g] = ld[g]
      /\ m[f].refs = ld[f].refs + 1
      /\ m[f].name = IF ld[f].refs = 0 THEN Opened(p) ELSE ld[f].name
  BY <1>1, OpenedIsAbsolute DEF dlopen, IsLoader
<1> HIDE DEF m
<1>3. Exchange(ld, m, NoFile, f)
  BY <1>1, <1>2, LibraryAssumption DEF Exchange, One, IsLoader
<1> DEFINE Own == /\ Absolute(m[f].name)
                  /\ \A g \in Files \ {f} : ld[g].refs > 0 => ld[g].name # m[f].name
                  /\ f = Program => m[f].refs > 0 /\ m[f].name = ProgramPath
<1>4. ASSUME ld[f].refs > 0 PROVE Own
  BY <1>1, <1>2, <1>4 DEF Named, IsLoader
<1>5. ASSUME ld[f].refs = 0 PROVE Own
  <2>1. f # Program
    BY <1>5 DEF Named
  <2>2. f = At(p) /\ ~ \E g \in Files : ld[g].refs > 0 /\ ld[g].name = Opened(p) /\ Mappable(g)
    BY <1>5, FoundIsFile
  <2>3. Opened(p) # ProgramPath
    <3> SUFFICES ASSUME Opened(p) = ProgramPath PROVE FALSE
      OBVIOUS
    <3>1. Directory(p) = "current" /\ p.name = ProgramPath.name
      BY OpenedIsAbsolute DEF ProgramPath
    <3> QED
      BY <2>1, <2>2, <3>1 DEF At, DiskInv, ProgramPlace
  <2>4. \A g \in Files : ld[g].refs > 0 => ld[g].name # Opened(p)
    BY <2>2, <2>3 DEF Named
  <2> QED
    BY <1>2, <1>5, <2>1, <2>4, OpenedIsAbsolute
<1>6. m[f].refs > 0 => Own
  BY <1>1, <1>2, <1>4, <1>5 DEF IsLoader
<1>7. Named(m)
  BY <1>1, <1>2, <1>6, LibraryAssumption DEF Named, IsLoader
<1> QED
  BY <1>1, <1>2, <1>3, <1>7 DEF m

-----------------------------------------------------------------------------
(* Loading and assigning.                                                  *)

\* What an operation on a handle h makes of it, and of the loader.
Outcome(ld, h, l) ==
  /\ l = Holding(l.loader, l.handle, l.ec)
  /\ l.handle \in Handles /\ l.ec \in BOOLEAN
  /\ IsLoader(l.loader) /\ Named(l.loader)
  /\ Exchange(ld, l.loader, h, l.handle)

LEMMA AnotherPath ==
  ASSUME NEW S, \A r \in S : IsPath(r), NEW s \in Seq(S), Len(s) <= 2, NEW q \in S
  PROVE  /\ DOMAIN (s \o <<q>>) \subseteq 1..3
         /\ \A i \in DOMAIN (s \o <<q>>) : IsPath((s \o <<q>>)[i])
<1>1. s \o <<q>> \in Seq(S) /\ Len(s \o <<q>>) = Len(s) + 1
  OBVIOUS
<1> QED
  BY <1>1

LEMMA CandidatesAre ==
  ASSUME platform \in Platforms, NEW p, IsPath(p), NEW mode
  PROVE  /\ DOMAIN candidates(p, mode) \subseteq 1..3
         /\ \A i \in DOMAIN candidates(p, mode) : IsPath(candidates(p, mode)[i])
<1>1. IsPath(located(p, mode))
  BY DEF located, IsPath
<1> DEFINE q == located(p, mode)
<1>2. \A n, r : n = [q EXCEPT !.name = r] => IsPath(n)
  BY <1>1 DEF IsPath
<1> HIDE DEF q
<1>3. CASE "append_decorations" \notin mode
  <2>1. candidates(p, mode) = <<q>>
    BY <1>3 DEF candidates, q
  <2> QED
    BY <1>1, <2>1 DEF q
<1>4. CASE "append_decorations" \in mode
  <2>1. candidates(p, mode) = decorated(q) \o <<q>>
    BY <1>4 DEF candidates, q
  <2>2. \/ \E a : IsPath(a) /\ decorated(q) = <<a>>
        \/ \E a, b : IsPath(a) /\ IsPath(b) /\ decorated(q) = <<a, b>>
    BY <1>2 DEF decorated
  <2>3. CASE \E a : IsPath(a) /\ decorated(q) = <<a>>
    <3>1. PICK a : IsPath(a) /\ decorated(q) = <<a>>
      BY <2>3
    <3>2. <<a>> \in Seq({a, q}) /\ Len(<<a>>) <= 2
      OBVIOUS
    <3> QED
      BY <1>1, <2>1, <3>1, <3>2, AnotherPath DEF q
  <2>4. CASE \E a, b : IsPath(a) /\ IsPath(b) /\ decorated(q) = <<a, b>>
    <3>1. PICK a, b : IsPath(a) /\ IsPath(b) /\ decorated(q) = <<a, b>>
      BY <2>4
    <3>2. <<a, b>> \in Seq({a, b, q}) /\ Len(<<a, b>>) <= 2
      OBVIOUS
    <3> QED
      BY <1>1, <2>1, <3>1, <3>2, AnotherPath DEF q
  <2> QED
    BY <2>2, <2>3, <2>4
<1> QED
  BY <1>3, <1>4

LEMMA LoadingUnloaded ==
  ASSUME platform \in Platforms, DiskInv, NEW ld, IsLoader(ld), Named(ld),
         NEW p, IsPath(p), NEW mode, NEW can \in BOOLEAN,
         NEW l, l = load_unloaded(can, ld, p, mode)
  PROVE  Outcome(ld, NoFile, l) /\ (l.ec <=> l.handle = NoFile)
<1>1. ASSUME l = Holding(ld, NoFile, TRUE)
      PROVE  Outcome(ld, NoFile, l) /\ l.ec /\ l.handle = NoFile
  <2>1. l.handle = NoFile /\ l.ec = TRUE /\ l.loader = ld
        /\ l = Holding(l.loader, l.handle, l.ec)
    BY <1>1 DEF Holding
  <2>2. Exchange(ld, ld, NoFile, NoFile)
    BY DEF Exchange, One, IsLoader
  <2> QED
    BY <2>1, <2>2 DEF Outcome, Handles
<1>2. ASSUME NEW f \in Files, NEW q, l = opened(ld, f, q),
             IsLoader(dlopen(ld, f, q)), Named(dlopen(ld, f, q)),
             Exchange(ld, dlopen(ld, f, q), NoFile, f)
      PROVE  Outcome(ld, NoFile, l) /\ ~l.ec /\ l.handle # NoFile
  BY <1>2, LibraryAssumption DEF Holding, opened, Outcome, Handles
<1> DEFINE paths == candidates(p, mode)
           found == {i \in DOMAIN paths : Found(ld, paths[i]) # NoFile}
           first == paths[CHOOSE i \in found : \A j \in found : i <= j]
<1>3. CASE found # {} /\ l = opened(ld, Found(ld, first), first)
  <2>1. \E i \in found : \A j \in found : i <= j
    BY <1>3, CandidatesAre
  <2>2. \E i \in found : first = paths[i]
    BY <2>1
  <2>3. IsPath(first) /\ Found(ld, first) # NoFile
    BY <2>2, CandidatesAre
  <2> HIDE DEF first
  <2> QED
    BY <1>2, <1>3, <2>3, Opening
<1>4. CASE l = opened(ld, Program, ProgramPath)
  <2> DEFINE m == dlopen(ld, Program, ProgramPath)
  <2>1. /\ IsLoader(m)
        /\ \A f \in Files : /\ m[f].name = ld[f].name
                            /\ m[f].refs = IF f = Program THEN ld[f].refs + 1 ELSE ld[f].refs
    BY ProgramPathIsPath, LibraryAssumption DEF dlopen, IsLoader, Named
  <2> HIDE DEF m
  <2>2. Exchange(ld, m, NoFile, Program)
    BY <2>1, LibraryAssumption DEF Exchange, One, IsLoader
  <2>3. Named(m)
    BY <2>1, LibraryAssumption DEF Named, IsLoader
  <2> QED
    BY <1>2, <1>4, <2>1, <2>2, <2>3, LibraryAssumption DEF m
<1>5. \/ l = Holding(ld, NoFile, TRUE)
      \/ found # {} /\ l = opened(ld, Found(ld, first), first)
      \/ l = opened(ld, Program, ProgramPath)
  BY DEF load_unloaded, open_first
<1> QED
  BY <1>1, <1>3, <1>4, <1>5

LEMMA ExchangeTwice ==
  ASSUME NEW ld, NEW m, NEW n, IsLoader(ld), IsLoader(m), IsLoader(n),
         NEW h, NEW j, NEW k, Exchange(ld, m, h, j), Exchange(m, n, j, k)
  PROVE  Exchange(ld, n, h, k)
BY DEF Exchange, One, IsLoader

LEMMA ExchangeBoth ==
  ASSUME NEW ld, NEW m, NEW n, IsLoader(ld), IsLoader(m), IsLoader(n),
         NEW h, NEW k, Exchange(ld, m, NoFile, k), Exchange(m, n, h, NoFile)
  PROVE  Exchange(ld, n, h, k)
BY LibraryAssumption DEF Exchange, One, IsLoader

LEMMA Loading ==
  ASSUME platform \in Platforms, DiskInv, NEW ld, IsLoader(ld), Named(ld),
         NEW p, IsPath(p), NEW mode, NEW can \in BOOLEAN,
         NEW h \in Handles, Counted(ld, h), NEW l, l = load(can, ld, h, p, mode)
  PROVE  Outcome(ld, h, l) /\ (l.ec <=> l.handle = NoFile)
<1>1. Outcome(unload(ld, h), NoFile, l) /\ (l.ec <=> l.handle = NoFile)
  BY Unloading, LoadingUnloaded DEF load
<1> QED
  BY <1>1, Unloading, ExchangeTwice DEF Outcome

\* A library that is opened again by its name is the same.
LEMMA Reopening ==
  ASSUME platform \in Platforms, DiskInv, NEW ld, IsLoader(ld), Named(ld),
         NEW f \in Files, ld[f].refs > 0, NEW can \in BOOLEAN,
         NEW l, l = load(can, ld, NoFile, full_module_path(ld, f), {}), ~ l.ec
  PROVE  l.handle = f
<1> DEFINE p == ld[f].name
<1>1. full_module_path(ld, f) = p
  BY DEF full_module_path, Named
<1>2. IsPath(p) /\ Absolute(p)
  BY DEF IsLoader, Named
<1>3. Opened(p) = p /\ located(p, {}) = p /\ candidates(p, {}) = <<p>>
  BY <1>2, AbsoluteStays
<1>4. l = load_unloaded(can, ld, p, {})
  BY <1>1 DEF load, unload
<1> HIDE DEF p
<1>5. l = Holding(ld, NoFile, TRUE) \/ l = open_first(ld, <<p>>, p, {})
  BY <1>3, <1>4 DEF load_unloaded
<1>6. l # Holding(ld, NoFile, TRUE)
  BY DEF Holding
<1> DEFINE found == {i \in DOMAIN <<p>> : Found(ld, <<p>>[i]) # NoFile}
<1>7. CASE Found(ld, p) # NoFile
  <2>1. found = {1}
    BY <1>7
  <2>2. <<p>>[CHOOSE i \in found : \A j \in found : i <= j] = p
    BY <2>1
  <2>3. l = opened(ld, Found(ld, p), p)
    BY <1>5, <1>6, <2>1, <2>2 DEF open_first
  <2>4. Found(ld, p) = f
    <3>1. CASE Mappable(f)
      <4>1. ld[Found(ld, p)].refs > 0 /\ ld[Found(ld, p)].name = p
        BY <1>2, <1>3, <1>7, <3>1, FoundIsFile DEF p
      <4> QED
        BY <1>2, <1>7, <4>1, FoundIsFile DEF Named, p
    <3>2. CASE ~Mappable(f)
      <4>1. f = Program /\ p = ProgramPath
        BY <3>2 DEF Named, p
      <4>2. CASE Found(ld, p) = At(p)
        BY <1>7, <3>2, <4>1, <4>2, ProgramIsThere, FoundIsFile DEF p
      <4>3. CASE ld[Found(ld, p)].refs > 0 /\ ld[Found(ld, p)].name = p
        BY <1>2, <1>7, <4>3, FoundIsFile DEF Named, p
      <4> QED
        BY <1>2, <1>3, <1>7, <4>2, <4>3, FoundIsFile
    <3> QED
      BY <3>1, <3>2
  <2> QED
    BY <2>3, <2>4 DEF opened, Holding
<1>8. CASE Found(ld, p) = NoFile
  <2>1. found = {}
    BY <1>8
  <2>2. l = opened(ld, Program, ProgramPath)
    BY <1>5, <1>6, <2>1 DEF open_first
  <2>3. f = Program
    <3> SUFFICES ASSUME f # Program PROVE FALSE
      OBVIOUS
    <3>1. f \in {g \in Files : ld[g].refs > 0 /\ ld[g].name = Opened(p) /\ Mappable(g)}
      BY <1>3 DEF Named, p
    <3> QED
      BY <1>8, <3>1, LibraryAssumption DEF Found
  <2> QED
    BY <2>2, <2>3 DEF opened, Holding
<1> QED
  BY <1>7, <1>8

LEMMA Assigning ==
  ASSUME platform \in Platforms, DiskInv, NEW ld, IsLoader(ld), Named(ld),
         NEW h \in Handles, Counted(ld, h), NEW f \in Handles, Counted(ld, f),
         NEW can \in BOOLEAN, NEW l, l = assign(can, ld, h, f)
  PROVE  Outcome(ld, h, l) /\ l.handle = IF l.ec THEN h ELSE f
<1>1. CASE h = f
  <2>1. l.handle = h /\ l.ec = FALSE /\ l.loader = ld
        /\ l = Holding(l.loader, l.handle, l.ec)
    BY <1>1 DEF assign, Holding
  <2>2. Exchange(ld, ld, h, h)
    BY DEF Exchange, One, IsLoader
  <2> QED
    BY <1>1, <2>1, <2>2 DEF Outcome
<1>2. CASE h # f /\ f = NoFile
  <2>1. l.handle = NoFile /\ l.ec = FALSE /\ l.loader = unload(ld, h)
        /\ l = Holding(l.loader, l.handle, l.ec)
    BY <1>2 DEF assign, Holding
  <2> QED
    BY <1>2, <2>1, Unloading DEF Outcome
<1>3. CASE h # f /\ f # NoFile
  <2> DEFINE copy == load(can, ld, NoFile, full_module_path(ld, f), {})
  <2>1. l = swapped(copy, ld, h)
    BY <1>3 DEF assign
  <2>2. f \in Files /\ ld[f].refs > 0
    BY <1>3 DEF Handles, Counted, One, IsLoader
  <2>3. IsPath(full_module_path(ld, f))
    BY <2>2, ProgramPathIsPath DEF full_module_path, IsLoader
  <2>4. NoFile \in Handles /\ Counted(ld, NoFile)
    BY LibraryAssumption DEF Handles, Counted
  <2>5. Outcome(ld, NoFile, copy)
    BY <2>3, <2>4, Loading
  <2>6. ~copy.ec => copy.handle = f
    BY <2>2, Reopening
  <2> HIDE DEF copy
  <2>7. CASE copy.ec
    <3>1. l.handle = h /\ l.ec = TRUE /\ l.loader = ld
          /\ l = Holding(l.loader, l.handle, l.ec)
      BY <2>1, <2>7 DEF swapped, Holding
    <3>2. Exchange(ld, ld, h, h)
      BY DEF Exchange, One, IsLoader
    <3> QED
      BY <3>1, <3>2 DEF Outcome
  <2>8. CASE ~copy.ec
    <3>1. l.handle = f /\ l.ec = FALSE /\ l.loader = unload(copy.loader, h)
          /\ l = Holding(l.loader, l.handle, l.ec)
      BY <2>1, <2>6, <2>8 DEF swapped, Holding
    <3>2. /\ IsLoader(copy.loader) /\ Named(copy.loader)
          /\ Exchange(ld, copy.loader, NoFile, f)
      BY <2>5, <2>6, <2>8 DEF Outcome
    <3>3. Counted(copy.loader, h)
      BY <2>2, <3>2, LibraryAssumption DEF Counted, Exchange, One, IsLoader
    <3>4. Exchange(ld, l.loader, h, f)
      <4>1. IsLoader(l.loader) /\ Exchange(copy.loader, l.loader, h, NoFile)
        BY <3>1, <3>2, <3>3, Unloading
      <4> QED
        BY <3>2, <4>1, ExchangeBoth
    <3> QED
      BY <2>2, <3>1, <3>2, <3>3, <3>4, Unloading DEF Outcome, Handles
  <2> QED
    BY <2>7, <2>8
<1> QED
  BY <1>1, <1>2, <1>3

-----------------------------------------------------------------------------
(* Counting references.                                                    *)

\* How many of S hold f.
Holders(S, g, f) == Cardinality({x \in S : g[x] = f})

LEMMA OneApart ==
  ASSUME NEW S, IsFiniteSet(S), NEW g, NEW o \in S, NEW f
  PROVE  /\ Holders(S \ {o}, g, f) \in Nat
         /\ Holders(S, g, f) = Holders(S \ {o}, g, f) + One(g[o] = f)
<1> DEFINE R == {x \in S \ {o} : g[x] = f}
<1>1. IsFiniteSet(R) /\ o \notin R /\ Cardinality(R) \in Nat
  BY FS_Subset, FS_CardinalityType
<1>2. Cardinality(R \cup {o}) = Cardinality(R) + 1
  BY <1>1, FS_AddElement
<1>3. {x \in S : g[x] = f} = IF g[o] = f THEN R \cup {o} ELSE R
  OBVIOUS
<1> QED
  BY <1>1, <1>2, <1>3 DEF Holders, One

LEMMA OneMoves ==
  ASSUME NEW S, IsFiniteSet(S), NEW g, NEW o \in S, NEW f,
         NEW r, \A x \in S \ {o} : r[x] = g[x]
  PROVE  /\ Holders(S, g, f) \in Nat /\ Holders(S, r, f) \in Nat
         /\ Holders(S, r, f) = Holders(S, g, f) - One(g[o] = f) + One(r[o] = f)
<1>1. {x \in S \ {o} : r[x] = f} = {x \in S \ {o} : g[x] = f}
  OBVIOUS
<1>2. Holders(S \ {o}, r, f) = Holders(S \ {o}, g, f)
  BY <1>1 DEF Holders
<1> QED
  <2>1. Holders(S, g, f) = Holders(S \ {o}, g, f) + One(g[o] = f)
    BY OneApart
  <2>2. Holders(S, r, f) = Holders(S \ {o}, r, f) + One(r[o] = f)
    BY OneApart
  <2>3. One(g[o] = f) \in {0, 1} /\ One(r[o] = f) \in {0, 1}
    BY DEF One
  <2>4. Holders(S \ {o}, g, f) \in Nat
    BY OneApart
  <2> QED
    BY <1>2, <2>1, <2>2, <2>3, <2>4

LEMMA HoldersAreNumbers ==
  ASSUME NEW S, IsFiniteSet(S), NEW g, NEW f
  PROVE  Holders(S, g, f) \in Nat /\ \A x \in S : g[x] = f => Holders(S, g, f) > 0
<1>1. ASSUME NEW x \in S, g[x] = f PROVE Cardinality({y \in S : g[y] = f}) # 0
  <2>1. IsFiniteSet({y \in S : g[y] = f}) /\ x \in {y \in S : g[y] = f}
    BY <1>1, FS_Subset
  <2> QED
    BY <2>1, FS_EmptySet
<1>2. Cardinality({y \in S : g[y] = f}) \in Nat
  BY FS_Subset, FS_CardinalityType
<1> QED
  BY <1>1, <1>2 DEF Holders

\* The loader's references are those of objects and keepers.
Balance(ld, hd, kp) ==
  \A f \in Files : ld[f].refs = Holders(Objects, hd, f) + Holders(Imports, kp, f) + One(f = Program)

LEMMA BalanceIsLoaderReferences ==
  /\ LoaderReferences <=> Balance(loader, handle, keeper)
  /\ LoaderReferences' <=> Balance(loader', handle', keeper')
BY DEF LoaderReferences, Balance, Holders, One

LEMMA BalanceOfObject ==
  ASSUME NEW ld, NEW m, NEW hd, NEW r, NEW kp, Balance(ld, hd, kp),
         NEW o \in Objects, \A x \in Objects \ {o} : r[x] = hd[x],
         Exchange(ld, m, hd[o], r[o])
  PROVE  Balance(m, r, kp)
<1> SUFFICES ASSUME NEW f \in Files
             PROVE  m[f].refs = Holders(Objects, r, f) + Holders(Imports, kp, f) + One(f = Program)
  BY DEF Balance
<1>1. Holders(Objects, r, f) = Holders(Objects, hd, f) - One(hd[o] = f) + One(r[o] = f)
  BY OneMoves, LibraryAssumption
<1>2. Holders(Objects, hd, f) \in Nat /\ Holders(Imports, kp, f) \in Nat
  BY HoldersAreNumbers, LibraryAssumption
<1>3. ld[f].refs = Holders(Objects, hd, f) + Holders(Imports, kp, f) + One(f = Program)
  BY DEF Balance
<1>4. m[f].refs = ld[f].refs - One(hd[o] = f) + One(r[o] = f)
  BY DEF Exchange
<1>5. One(hd[o] = f) \in {0, 1} /\ One(r[o] = f) \in {0, 1} /\ One(f = Program) \in {0, 1}
  BY DEF One
<1> QED
  BY <1>1, <1>2, <1>3, <1>4, <1>5

LEMMA BalanceOfKeeper ==
  ASSUME NEW ld, NEW m, NEW hd, NEW kp, NEW r, Balance(ld, hd, kp),
         NEW i \in Imports, \A x \in Imports \ {i} : r[x] = kp[x],
         Exchange(ld, m, kp[i], r[i])
  PROVE  Balance(m, hd, r)
<1> SUFFICES ASSUME NEW f \in Files
             PROVE  m[f].refs = Holders(Objects, hd, f) + Holders(Imports, r, f) + One(f = Program)
  BY DEF Balance
<1>1. Holders(Imports, r, f) = Holders(Imports, kp, f) - One(kp[i] = f) + One(r[i] = f)
  BY OneMoves, LibraryAssumption
<1>2. Holders(Objects, hd, f) \in Nat /\ Holders(Imports, kp, f) \in Nat
  BY HoldersAreNumbers, LibraryAssumption
<1>3. ld[f].refs = Holders(Objects, hd, f) + Holders(Imports, kp, f) + One(f = Program)
  BY DEF Balance
<1>4. m[f].refs = ld[f].refs - One(kp[i] = f) + One(r[i] = f)
  BY DEF Exchange
<1>5. One(kp[i] = f) \in {0, 1} /\ One(r[i] = f) \in {0, 1} /\ One(f = Program) \in {0, 1}
  BY DEF One
<1> QED
  BY <1>1, <1>2, <1>3, <1>4, <1>5

\* What is held may be given back, and keeps its library mapped.
LEMMA HeldIsCounted ==
  ASSUME LibraryInv
  PROVE  /\ \A o \in Objects : Counted(loader, handle[o])
         /\ \A i \in Imports : Counted(loader, keeper[i])
<1>1. Balance(loader, handle, keeper)
  BY BalanceIsLoaderReferences DEF LibraryInv
<1> QED
  BY <1>1, HoldersAreNumbers, LibraryAssumption DEF Balance, Counted, One

-----------------------------------------------------------------------------
(* The steps.  Each changes the handle of one object or two, or a keeper   *)
(* and its functions.                                                      *)

LEMMA ObjectKeeps ==
  ASSUME LibraryInv, NEW o \in Objects, NEW v \in Handles \cup {NoObject},
         IsLoader(loader'), Named(loader'), Exchange(loader, loader', handle[o], v),
         handle' = [handle EXCEPT ![o] = v],
         UNCHANGED <<platform, disk, keeper, import>>
  PROVE  LibraryInv'
<1>1. TypeInv'
  BY DEF LibraryInv, TypeInv, IsLoader, IsPath
<1>2. DiskInv' /\ KeeperInv'
  BY DEF LibraryInv, DiskInv, KeeperInv
<1>3. Named(loader)'
  BY DEF Named, Absolute, Mappable
<1>4. Balance(loader', handle', keeper)
  <2>1. Balance(loader, handle, keeper)
    BY BalanceIsLoaderReferences DEF LibraryInv
  <2>2. /\ handle'[o] = v
        /\ \A x \in Objects \ {o} : handle'[x] = handle[x]
    BY DEF LibraryInv, TypeInv
  <2>3. Exchange(loader, loader', handle[o], handle'[o])
    BY <2>2
  <2>4. ASSUME NEW m, NEW r, Exchange(loader, m, handle[o], r[o]),
               \A x \in Objects \ {o} : r[x] = handle[x]
        PROVE  Balance(m, r, keeper)
    BY <2>1, <2>4, BalanceOfObject
  <2> QED
    BY <2>2, <2>3, <2>4
<1>5. LoaderReferences'
  BY <1>4, BalanceIsLoaderReferences
<1> QED
  BY <1>1, <1>2, <1>3, <1>5 DEF LibraryInv

\* What one object gives another is held as before.
LEMMA BalanceOfTwo ==
  ASSUME NEW ld, NEW hd, NEW r, NEW kp, Balance(ld, hd, kp), IsLoader(ld),
         NEW o \in Objects, NEW p \in Objects, o # p,
         r[o] = hd[p], r[p] = hd[o] \/ (r[p] = NoFile /\ hd[o] = NoObject),
         \A x \in Objects \ {o, p} : r[x] = hd[x]
  PROVE  Balance(ld, r, kp)
<1> DEFINE once == [x \in Objects |-> IF x = o THEN hd[p] ELSE hd[x]]
           m == [f \in Files |-> [refs |-> ld[f].refs - One(hd[o] = f) + One(hd[p] = f)]]
<1>1. once[o] = hd[p] /\ once[p] = hd[p]
  OBVIOUS
<1>2. \A x \in Objects \ {o} : once[x] = hd[x]
  OBVIOUS
<1>3. \A x \in Objects \ {p} : r[x] = once[x]
  OBVIOUS
<1>4. Exchange(ld, m, hd[o], once[o])
  BY <1>1 DEF Exchange
<1>5. Exchange(m, ld, once[p], r[p])
  <2> SUFFICES ASSUME NEW f \in Files
               PROVE  ld[f].refs = m[f].refs - One(hd[p] = f) + One(r[p] = f)
    BY <1>1 DEF Exchange
  <2>1. ld[f].refs \in Int
    BY DEF IsLoader
  <2>2. One(r[p] = f) = One(hd[o] = f)
    BY LibraryAssumption DEF One
  <2>3. m[f].refs = ld[f].refs - One(hd[o] = f) + One(hd[p] = f)
    OBVIOUS
  <2>4. One(hd[o] = f) \in {0, 1} /\ One(hd[p] = f) \in {0, 1}
    BY DEF One
  <2> QED
    BY <2>1, <2>2, <2>3, <2>4
<1> HIDE DEF once, m
<1>6. Balance(m, once, kp)
  BY <1>2, <1>4, BalanceOfObject
<1> QED
  BY <1>3, <1>5, <1>6, BalanceOfObject

LEMMA TwoObjectsKeep ==
  ASSUME LibraryInv, NEW o \in Objects, NEW p \in Objects, o # p,
         NEW v \in Handles \cup {NoObject}, v = handle[o] \/ (v = NoFile /\ handle[o] = NoObject),
         handle' = [handle EXCEPT ![o] = handle[p], ![p] = v],
         UNCHANGED <<platform, disk, loader, keeper, import>>
  PROVE  LibraryInv'
<1>1. TypeInv' /\ DiskInv' /\ KeeperInv'
  BY DEF LibraryInv, TypeInv, IsLoader, IsPath, DiskInv, KeeperInv
<1>2. Named(loader)'
  BY DEF LibraryInv, Named, Absolute, Mappable
<1>3. /\ handle'[o] = handle[p] /\ handle'[p] = v
      /\ \A x \in Objects \ {o, p} : handle'[x] = handle[x]
  BY DEF LibraryInv, TypeInv
<1>4. IsLoader(loader) /\ Balance(loader, handle, keeper)
  BY BalanceIsLoaderReferences DEF LibraryInv, TypeInv
<1>5. ASSUME NEW r, r[o] = handle[p], r[p] = v, \A x \in Objects \ {o, p} : r[x] = handle[x]
      PROVE  Balance(loader, r, keeper)
  BY <1>4, <1>5, BalanceOfTwo
<1>6. Balance(loader, handle', keeper)
  BY <1>3, <1>5
<1>7. LoaderReferences'
  BY <1>6, BalanceIsLoaderReferences
<1> QED
  BY <1>1, <1>2, <1>7 DEF LibraryInv

LEMMA ImportKeeps ==
  ASSUME LibraryInv, NEW i \in Imports, Unused(i), NEW symbol, NEW l,
         Imported(i, l, symbol),
         NEW ld, IsLoader(ld), Named(ld), Outcome(ld, NoFile, l), l.ec => l.handle = NoFile,
         handle' \in [Objects -> Handles \cup {NoObject}], Balance(ld, handle', keeper),
         UNCHANGED <<platform, disk>>
  PROVE  LibraryInv'
<1> DEFINE made == ~l.ec /\ has(l.handle, symbol)
<1>1. keeper[i] = NoFile /\ import[i].keeper = NoObject
  BY DEF Unused, LibraryInv, KeeperInv
<1>2. /\ i # NoObject /\ l.handle \in Handles
      /\ keeper \in [Imports -> Handles]
      /\ import \in [Imports -> [keeper : Imports \cup {NoObject}, file : Handles]]
  BY LibraryAssumption DEF LibraryInv, TypeInv, Outcome
<1>3. CASE made
  <2>1. /\ keeper' = [keeper EXCEPT ![i] = l.handle]
        /\ import' = [import EXCEPT ![i] = [keeper |-> i, file |-> l.handle]]
        /\ loader' = l.loader
    BY <1>3 DEF Imported
  <2>2. l.handle \in Files
    BY <1>2, <1>3 DEF has, Handles
  <2>3. KeeperInv'
    <3>1. /\ keeper'[i] = l.handle
          /\ import'[i].keeper = i /\ import'[i].file = l.handle
          /\ \A x \in Imports \ {i} : keeper'[x] = keeper[x] /\ import'[x] = import[x]
      BY <1>2, <2>1
    <3>2. \A x \in Imports : import[x].keeper # i
      BY DEF Unused
    <3>3. \A x \in Imports : import'[x].keeper # NoObject =>
            import'[x].file \in Files /\ keeper'[import'[x].keeper] = import'[x].file
      BY <1>2, <2>2, <3>1, <3>2 DEF LibraryInv, KeeperInv
    <3>4. ASSUME NEW k \in Imports, keeper'[k] # NoFile PROVE \E x \in Imports : import'[x].keeper = k
      <4>1. CASE k = i
        BY <3>1, <4>1
      <4>2. CASE k # i
        <5>1. PICK x \in Imports : import[x].keeper = k
          BY <3>1, <3>4, <4>2 DEF LibraryInv, KeeperInv
        <5>2. x # i
          BY <1>1, <5>1, LibraryAssumption
        <5> QED
          BY <3>1, <5>1, <5>2
      <4> QED
        BY <4>1, <4>2
    <3> QED
      BY <3>3, <3>4 DEF KeeperInv
  <2>4. TypeInv' /\ Named(loader)' /\ DiskInv'
    <3>1. IsLoader(loader') /\ Named(loader')
      BY <2>1 DEF Outcome
    <3>2. keeper' \in [Imports -> Handles]
      BY <1>2, <2>1
    <3>3. import' \in [Imports -> [keeper : Imports \cup {NoObject}, file : Handles]]
      BY <1>2, <2>1
    <3>4. TypeInv'
      BY <3>1, <3>2, <3>3 DEF LibraryInv, TypeInv, IsLoader, IsPath
    <3>5. DiskInv' /\ Named(loader)'
      BY <3>1 DEF LibraryInv, DiskInv, Named, Absolute, Mappable
    <3> QED
      BY <3>4, <3>5
  <2>5. Balance(loader', handle', keeper')
    <3>1. /\ keeper'[i] = l.handle
          /\ \A x \in Imports \ {i} : keeper'[x] = keeper[x]
      BY <1>2, <2>1
    <3>2. Exchange(ld, loader', keeper[i], keeper'[i])
      BY <1>1, <2>1, <3>1 DEF Outcome
    <3>3. \A x \in Imports \ {i} : keeper'[x] = keeper[x]
      BY <3>1
    <3> QED
      BY <3>2, <3>3, BalanceOfKeeper
  <2> QED
    BY <2>3, <2>4, <2>5, BalanceIsLoaderReferences DEF LibraryInv
<1>4. CASE ~made
  <2>1. keeper' = keeper /\ import' = import
    BY <1>1, <1>2, <1>4 DEF Imported
  <2>2. /\ IsLoader(loader') /\ Named(loader')
        /\ \A f \in Files : loader'[f].refs = ld[f].refs
    <3>1. CASE l.handle = NoFile
      <4>1. loader' = l.loader
        BY <1>4, <3>1 DEF Imported, unload
      <4>2. Exchange(ld, loader', NoFile, NoFile) /\ IsLoader(loader') /\ Named(loader')
        BY <3>1, <4>1 DEF Outcome
      <4> QED
        BY <4>2 DEF Exchange, One, IsLoader
    <3>2. CASE l.handle # NoFile
      <4>1. loader' = unload(l.loader, l.handle) /\ l.handle \in Files
        BY <1>2, <1>4, <3>2 DEF Imported, Handles
      <4>2. Counted(l.loader, l.handle)
        <5>1. ld[l.handle].refs = Holders(Objects, handle', l.handle) + Holders(Imports, keeper, l.handle)
                                  + One(l.handle = Program)
          BY <4>1 DEF Balance
        <5>2. Holders(Objects, handle', l.handle) \in Nat /\ Holders(Imports, keeper, l.handle) \in Nat
          BY HoldersAreNumbers, LibraryAssumption
        <5>3. l.loader[l.handle].refs = ld[l.handle].refs + 1
          BY <4>1, LibraryAssumption DEF Outcome, Exchange, One, IsLoader
        <5>4. One(l.handle = Program) \in {0, 1}
          BY DEF One
        <5> QED
          BY <5>1, <5>2, <5>3, <5>4 DEF Counted
      <4>3. Exchange(ld, loader', NoFile, NoFile)
        BY <1>2, <4>1, <4>2, Unloading, ExchangeTwice DEF Outcome
      <4>4. IsLoader(loader') /\ Named(loader')
        BY <1>2, <4>1, <4>2, Unloading DEF Outcome
      <4> QED
        BY <4>3, <4>4 DEF Exchange, One, IsLoader
    <3> QED
      BY <3>1, <3>2
  <2>3. Balance(loader', handle', keeper)
    BY <2>2 DEF Balance
  <2>4. TypeInv' /\ DiskInv' /\ KeeperInv'
    BY <1>2, <2>1, <2>2 DEF LibraryInv, TypeInv, DiskInv, KeeperInv, IsLoader, IsPath
  <2>5. Named(loader)'
    BY <2>2 DEF Named, Absolute, Mappable
  <2> QED
    BY <2>1, <2>3, <2>4, <2>5, BalanceIsLoaderReferences DEF LibraryInv
<1> QED
  BY <1>3, <1>4

-----------------------------------------------------------------------------
(* The operations on objects.                                              *)

LEMMA NothingHeld ==
  ASSUME NEW ld, NEW m, NEW h, NEW k
  PROVE  /\ Exchange(ld, m, NoFile, k) => Exchange(ld, m, NoObject, k)
         /\ Exchange(ld, m, h, NoFile) => Exchange(ld, m, h, NoObject)
BY LibraryAssumption DEF Exchange, One

LEMMA AttemptKeeps ==
  ASSUME LibraryInv, NEW o \in Objects, NEW op, NEW other, NEW throws \in BOOLEAN,
         NEW h, h = handle[o] \/ (h = NoFile /\ handle[o] = NoObject),
         NEW l, Outcome(loader, h, l), l.ec /\ throws => l.handle = NoFile,
         Attempt(op, o, other, l, throws),
         UNCHANGED <<platform, disk, keeper, import>>
  PROVE  /\ LibraryInv' /\ result' = Report(op, o, other, l.ec)
         /\ handle' = [handle EXCEPT ![o] = IF l.ec /\ throws THEN NoObject ELSE l.handle]
<1> DEFINE v == IF l.ec /\ throws THEN NoObject ELSE l.handle
<1>1. v \in Handles \cup {NoObject}
  BY DEF Outcome
<1>2. /\ loader' = l.loader /\ handle' = [handle EXCEPT ![o] = v]
      /\ result' = Report(op, o, other, l.ec)
  BY DEF Attempt, Become, Outcome, Holding
<1>3. Exchange(loader, l.loader, handle[o], v)
  <2>1. Exchange(loader, l.loader, h, v)
    BY NothingHeld DEF Outcome
  <2> QED
    BY <2>1, NothingHeld
<1> HIDE DEF v
<1>4. LibraryInv'
  BY <1>1, <1>2, <1>3, ObjectKeeps DEF Outcome
<1> QED
  BY <1>2, <1>4 DEF v

\* A step that reports nothing.
LEMMA DoneIsTrue ==
  result' = Done => LoadedAsReported'
BY DEF LoadedAsReported, Done, Report

LEMMA ConstructKeeps ==
  ASSUME LibraryInv, NEW o \in Objects, Free(o), construct(o)
  PROVE  LibraryInv' /\ LoadedAsReported'
<1>1. handle[o] = NoObject
  BY DEF Free, Exists
<1>2. /\ handle' = [handle EXCEPT ![o] = NoFile] /\ loader' = loader /\ result' = Done
      /\ UNCHANGED <<platform, disk, keeper, import>>
  BY DEF construct
<1>3. IsLoader(loader) /\ Named(loader)
  BY DEF LibraryInv, TypeInv
<1>4. Exchange(loader, loader, handle[o], NoFile)
  BY <1>1, <1>3, LibraryAssumption DEF Exchange, One, IsLoader
<1>5. NoFile \in Handles \cup {NoObject}
  BY DEF Handles
<1> QED
  BY <1>2, <1>3, <1>4, <1>5, ObjectKeeps, DoneIsTrue

LEMMA LoadKeeps ==
  ASSUME LibraryInv, NEW o \in Objects, NEW request \in Requested[platform],
         NEW throws \in BOOLEAN, NEW can \in BOOLEAN,
         NEW h, (h = handle[o] /\ h # NoObject) \/ (h = NoFile /\ handle[o] = NoObject),
         Attempt("load", o, NoObject, load(can, loader, h, request.path, request.mode), throws),
         UNCHANGED <<platform, disk, keeper, import>>
  PROVE  LibraryInv' /\ LoadedAsReported'
<1> DEFINE l == load(can, loader, h, request.path, request.mode)
<1>1. /\ platform \in Platforms /\ DiskInv /\ IsLoader(loader) /\ Named(loader)
      /\ handle \in [Objects -> Handles \cup {NoObject}]
  BY DEF LibraryInv, TypeInv
<1>2. IsPath(request.path)
  BY <1>1, DiskAssumption
<1>3. h \in Handles /\ Counted(loader, h)
  BY <1>1, HeldIsCounted, LibraryAssumption DEF Handles, Counted
<1>4. Outcome(loader, h, l) /\ (l.ec <=> l.handle = NoFile)
  BY <1>1, <1>2, <1>3, Loading
<1> HIDE DEF l
<1>5. /\ LibraryInv' /\ result' = Report("load", o, NoObject, l.ec)
      /\ handle' = [handle EXCEPT ![o] = IF l.ec /\ throws THEN NoObject ELSE l.handle]
  BY <1>4, AttemptKeeps DEF l
<1>6. handle'[o] \in {NoFile, NoObject} <=> l.ec
  BY <1>1, <1>4, <1>5, LibraryAssumption DEF Outcome, Handles
<1>7. /\ result'.op = "load" /\ result'.object = o /\ result'.error = l.ec
  BY <1>5 DEF Report
<1> QED
  BY <1>5, <1>6, <1>7 DEF LoadedAsReported

LEMMA AssignKeeps ==
  ASSUME LibraryInv, NEW o \in Objects, NEW p \in Objects, Exists(p),
         NEW throws \in BOOLEAN, NEW can \in BOOLEAN,
         NEW h, (h = handle[o] /\ h # NoObject /\ throws = FALSE) \/ (h = NoFile /\ handle[o] = NoObject),
         Attempt("assign", o, p, assign(can, loader, h, handle[p]), throws),
         UNCHANGED <<platform, disk, keeper, import>>
  PROVE  LibraryInv' /\ LoadedAsReported'
<1> DEFINE l == assign(can, loader, h, handle[p])
<1>1. /\ platform \in Platforms /\ DiskInv /\ IsLoader(loader) /\ Named(loader)
      /\ handle \in [Objects -> Handles \cup {NoObject}]
  BY DEF LibraryInv, TypeInv
<1>2. handle[p] \in Handles /\ Counted(loader, handle[p])
  BY <1>1, HeldIsCounted DEF Exists
<1>3. h \in Handles /\ Counted(loader, h)
  BY <1>1, HeldIsCounted, LibraryAssumption DEF Handles, Counted
<1>4. Outcome(loader, h, l) /\ l.handle = IF l.ec THEN h ELSE handle[p]
  BY <1>1, <1>2, <1>3, Assigning
<1> HIDE DEF l
<1>5. /\ LibraryInv' /\ result' = Report("assign", o, p, l.ec)
      /\ handle' = [handle EXCEPT ![o] = IF l.ec /\ throws THEN NoObject ELSE l.handle]
  BY <1>4, AttemptKeeps DEF l
<1>6. ~l.ec => handle'[o] = handle'[p]
  BY <1>1, <1>4, <1>5
<1>7. /\ result'.op = "assign" /\ result'.object = o /\ result'.other = p /\ result'.error = l.ec
  BY <1>5 DEF Report
<1> QED
  BY <1>5, <1>6, <1>7 DEF LoadedAsReported

LEMMA UnloadKeeps ==
  ASSUME LibraryInv, NEW o \in Objects, unload_library(o) \/ destroy(o)
  PROVE  LibraryInv' /\ LoadedAsReported'
<1>1. /\ handle[o] \in Handles /\ loader' = unload(loader, handle[o]) /\ result' = Done
      /\ \E v \in {NoFile, NoObject} : handle' = [handle EXCEPT ![o] = v]
      /\ UNCHANGED <<platform, disk, keeper, import>>
  BY DEF unload_library, destroy, Become, Holding, Exists, LibraryInv, TypeInv
<1>2. /\ IsLoader(loader') /\ Named(loader')
      /\ Exchange(loader, loader', handle[o], NoFile)
  BY <1>1, HeldIsCounted, Unloading DEF LibraryInv, TypeInv
<1>3. PICK v \in {NoFile, NoObject} : handle' = [handle EXCEPT ![o] = v]
  BY <1>1
<1>4. Exchange(loader, loader', handle[o], v) /\ v \in Handles \cup {NoObject}
  BY <1>2, NothingHeld DEF Handles
<1> QED
  BY <1>1, <1>2, <1>3, <1>4, ObjectKeeps, DoneIsTrue

LEMMA SwapKeeps ==
  ASSUME LibraryInv, NEW o \in Objects, NEW p \in Objects,
         move_assign(o, p) \/ swap(o, p) \/ (Free(o) /\ move_construct(o, p))
  PROVE  LibraryInv' /\ LoadedAsReported'
<1>1. result' = Done /\ UNCHANGED <<platform, disk, loader, keeper, import>>
  BY DEF move_assign, swap, move_construct
<1>2. o # p
  BY DEF move_assign, swap, move_construct, Free, Exists
<1>3. \E v \in Handles \cup {NoObject} :
        /\ v = handle[o] \/ (v = NoFile /\ handle[o] = NoObject)
        /\ handle' = [handle EXCEPT ![o] = handle[p], ![p] = v]
  <2>1. handle \in [Objects -> Handles \cup {NoObject}]
    BY DEF LibraryInv, TypeInv
  <2>2. CASE swap(o, p)
    BY <2>1, <2>2 DEF swap
  <2>3. CASE move_assign(o, p)
    <3>1. CASE handle[o] # handle[p]
      BY <2>1, <2>3, <3>1 DEF move_assign
    <3>2. CASE handle[o] = handle[p]
      BY <2>1, <2>3, <3>2, <1>2 DEF move_assign
    <3> QED
      BY <3>1, <3>2
  <2>4. CASE Free(o) /\ move_construct(o, p)
    BY <2>4 DEF move_construct, Free, Exists, Handles
  <2> QED
    BY <2>2, <2>3, <2>4
<1> QED
  BY <1>1, <1>2, <1>3, TwoObjectsKeep, DoneIsTrue

LEMMA Unchanged ==
  ASSUME LibraryInv, UNCHANGED <<platform, disk, state>>
  PROVE  LibraryInv'
<1>1. TypeInv' /\ DiskInv' /\ KeeperInv'
  BY DEF LibraryInv, state, TypeInv, IsLoader, IsPath, DiskInv, KeeperInv
<1>2. Named(loader)' /\ LoaderReferences'
  BY DEF LibraryInv, state, Named, Absolute, Mappable, LoaderReferences
<1> QED
  BY <1>1, <1>2 DEF LibraryInv

\* A library that was just opened can be closed again.
LEMMA GivenBack ==
  ASSUME LibraryInv, NEW l, Outcome(loader, NoFile, l)
  PROVE  Outcome(loader, NoFile, Holding(unload(l.loader, l.handle), NoFile, TRUE))
<1>1. Counted(l.loader, l.handle)
  <2> SUFFICES ASSUME l.handle \in Files PROVE l.loader[l.handle].refs > One(l.handle = Program)
    BY DEF Counted
  <2>1. Balance(loader, handle, keeper)
    BY BalanceIsLoaderReferences DEF LibraryInv
  <2>2. loader[l.handle].refs = Holders(Objects, handle, l.handle) + Holders(Imports, keeper, l.handle)
                                + One(l.handle = Program)
    BY <2>1 DEF Balance
  <2>3. Holders(Objects, handle, l.handle) \in Nat /\ Holders(Imports, keeper, l.handle) \in Nat
    BY HoldersAreNumbers, LibraryAssumption
  <2>4. l.loader[l.handle].refs = loader[l.handle].refs + 1
    <3>1. l.loader[l.handle].refs = loader[l.handle].refs - One(NoFile = l.handle) + One(l.handle = l.handle)
      BY DEF Outcome, Exchange
    <3>2. loader[l.handle].refs \in Int
      BY DEF LibraryInv, TypeInv, IsLoader
    <3> QED
      BY <3>1, <3>2, LibraryAssumption DEF One
  <2>5. One(l.handle = Program) \in {0, 1}
    BY DEF One
  <2> QED
    BY <2>2, <2>3, <2>4, <2>5
<1> DEFINE m == unload(l.loader, l.handle)
<1>2. IsLoader(m) /\ Named(m) /\ Exchange(l.loader, m, l.handle, NoFile)
  BY <1>1, Unloading DEF Outcome
<1>3. Exchange(loader, m, NoFile, NoFile)
  BY <1>2, ExchangeTwice DEF Outcome, LibraryInv, TypeInv
<1> HIDE DEF m
<1>4. Outcome(loader, NoFile, Holding(m, NoFile, TRUE))
  BY <1>2, <1>3 DEF Outcome, Holding, Handles
<1> QED
  BY <1>4 DEF m

LEMMA SmartConstructKeeps ==
  ASSUME LibraryInv, NEW s \in Objects, Free(s), NEW request \in Requested[platform],
         smart_construct_load(s, request) \/ smart_construct_load_ec(s, request)
  PROVE  LibraryInv' /\ LoadedAsReported'
<1>1. handle[s] = NoObject
  BY DEF Free, Exists
<1>2. CASE smart_construct_load_ec(s, request)
  BY <1>1, <1>2, LoadKeeps DEF smart_construct_load_ec
<1>3. CASE smart_construct_load(s, request)
  <2> DEFINE from(can) == load(can, loader, NoFile, request.path, request.mode)
             Tried(l) ==
               \/ Attempt("load", s, NoObject, l, TRUE)
               \/ Attempt("load", s, NoObject, Holding(unload(l.loader, l.handle), NoFile, TRUE), TRUE)
  <2>1. PICK can \in BOOLEAN : Tried(from(can))
    BY <1>3 DEF smart_construct_load
  <2> DEFINE l == from(can)
  <2>2. UNCHANGED <<platform, disk, keeper, import>>
    BY <1>3 DEF smart_construct_load
  <2>3. CASE Attempt("load", s, NoObject, l, TRUE)
    BY <1>1, <2>1, <2>2, <2>3, LoadKeeps
  <2>4. CASE Attempt("load", s, NoObject, Holding(unload(l.loader, l.handle), NoFile, TRUE), TRUE)
    <3> DEFINE d == Holding(unload(l.loader, l.handle), NoFile, TRUE)
    <3>1. /\ platform \in Platforms /\ DiskInv /\ IsLoader(loader) /\ Named(loader)
          /\ NoFile \in Handles /\ Counted(loader, NoFile) /\ IsPath(request.path)
      BY DiskAssumption, LibraryAssumption DEF LibraryInv, TypeInv, Handles, Counted
    <3>2. Outcome(loader, NoFile, l)
      BY <2>1, <3>1, Loading
    <3>3. Outcome(loader, NoFile, d) /\ d.ec = TRUE /\ d.handle = NoFile
      BY <3>2, GivenBack DEF Holding
    <3> HIDE DEF d
    <3>4. Attempt("load", s, NoObject, d, TRUE)
      BY <2>4 DEF d
    <3>5. LibraryInv' /\ result' = Report("load", s, NoObject, d.ec)
          /\ handle' = [handle EXCEPT ![s] = IF d.ec /\ TRUE THEN NoObject ELSE d.handle]
      BY <1>1, <2>2, <3>3, <3>4, AttemptKeeps
    <3> QED
      BY <3>3, <3>5 DEF LibraryInv, TypeInv, LoadedAsReported, Report
  <2> QED
    BY <2>1, <2>3, <2>4
<1> QED
  BY <1>2, <1>3

LEMMA SmartLoadKeeps ==
  ASSUME LibraryInv, NEW s \in Objects, NEW request \in Requested[platform],
         smart_load(s, request)
  PROVE  LibraryInv' /\ LoadedAsReported'
<1>1. UNCHANGED <<platform, disk, keeper, import>> /\ handle[s] # NoObject
  BY DEF smart_load, Exists
<1>2. CASE Readable(request.path, TRUE)
  BY <1>1, <1>2, LoadKeeps DEF smart_load
<1>3. CASE ~Readable(request.path, TRUE)
  <2>1. result' = Report("read", s, NoObject, TRUE) /\ UNCHANGED <<loader, handle>>
    BY <1>3 DEF smart_load
  <2>2. LibraryInv'
    BY <1>1, <2>1, Unchanged DEF state
  <2> QED
    BY <2>1, <2>2 DEF LoadedAsReported, Report
<1> QED
  BY <1>2, <1>3

LEMMA SharedKeeps ==
  ASSUME LibraryInv, NEW o \in Objects, SharedStep(o)
  PROVE  LibraryInv' /\ LoadedAsReported'
<1>1. CASE Free(o) /\ construct(o)
  BY <1>1, ConstructKeeps
<1>2. ASSUME NEW request \in Requested[platform], NEW throws \in BOOLEAN,
             Free(o), construct_load(o, request, throws)
      PROVE  LibraryInv' /\ LoadedAsReported'
  BY <1>2, LoadKeeps DEF construct_load, Free, Exists
<1>3. ASSUME NEW p \in Objects, Free(o), copy_construct(o, p)
      PROVE  LibraryInv' /\ LoadedAsReported'
  BY <1>3, AssignKeeps DEF copy_construct, Free, Exists
<1>4. ASSUME NEW request \in Requested[platform], load_library(o, request)
      PROVE  LibraryInv' /\ LoadedAsReported'
  BY <1>4, LoadKeeps DEF load_library, Exists
<1>5. ASSUME NEW p \in Objects, copy_assign(o, p)
      PROVE  LibraryInv' /\ LoadedAsReported'
  BY <1>5, AssignKeeps DEF copy_assign, Exists
<1> QED
  BY <1>1, <1>2, <1>3, <1>4, <1>5, UnloadKeeps, SwapKeeps DEF SharedStep, Shared

LEMMA SmartKeeps ==
  ASSUME LibraryInv, NEW s \in Smart, SmartStep(s)
  PROVE  LibraryInv' /\ LoadedAsReported'
<1> s \in Objects /\ Smart \subseteq Objects
  BY SmartAssumption
<1>1. CASE Free(s) /\ smart_construct(s)
  BY <1>1, ConstructKeeps DEF smart_construct
<1>2. ASSUME NEW p \in Objects, copy_assign(s, p)
      PROVE  LibraryInv' /\ LoadedAsReported'
  BY <1>2, AssignKeeps DEF copy_assign, Exists
<1>3. ASSUME NEW a \in Aliases, add_type_alias(s, a)
      PROVE  LibraryInv' /\ LoadedAsReported'
  BY <1>3, Unchanged, DoneIsTrue DEF add_type_alias
<1> QED
  BY <1>1, <1>2, <1>3, SmartConstructKeeps, SmartLoadKeeps, UnloadKeeps, SwapKeeps
     DEF SmartStep, smart_move_construct, smart_unload, smart_destroy, smart_assign, smart_swap

-----------------------------------------------------------------------------
(* The operations on imported functions.                                   *)

LEMMA ReportIsTrue ==
  ASSUME NEW i, NEW l, NEW symbol, Imported(i, l, symbol)
  PROVE  LoadedAsReported'
BY DEF Imported, LoadedAsReported, Done, Report

LEMMA ImportOpenedKeeps ==
  ASSUME LibraryInv, NEW i \in Imports, Unused(i), NEW symbol,
         NEW can \in BOOLEAN, NEW l, Imported(i, l, symbol),
         \/ \E request \in Requested[platform] :
              l = load(can, loader, NoFile, request.path, request.mode)
         \/ \E o \in Objects : Exists(o) /\ l = assign(can, loader, NoFile, handle[o]),
         UNCHANGED <<platform, disk, handle>>
  PROVE  LibraryInv'
<1>1. /\ platform \in Platforms /\ DiskInv /\ IsLoader(loader) /\ Named(loader)
      /\ handle \in [Objects -> Handles \cup {NoObject}]
      /\ NoFile \in Handles /\ Counted(loader, NoFile)
  BY LibraryAssumption DEF LibraryInv, TypeInv, Handles, Counted
<1>2. Outcome(loader, NoFile, l) /\ (l.ec => l.handle = NoFile)
  <2>1. ASSUME NEW request \in Requested[platform],
               l = load(can, loader, NoFile, request.path, request.mode)
        PROVE  Outcome(loader, NoFile, l) /\ (l.ec => l.handle = NoFile)
    <3>1. IsPath(request.path)
      BY <1>1, DiskAssumption
    <3> QED
      BY <1>1, <2>1, <3>1, Loading
  <2>2. ASSUME NEW o \in Objects, Exists(o), l = assign(can, loader, NoFile, handle[o])
        PROVE  Outcome(loader, NoFile, l) /\ (l.ec => l.handle = NoFile)
    <3>1. handle[o] \in Handles /\ Counted(loader, handle[o])
      BY <1>1, <2>2, HeldIsCounted DEF Exists
    <3> QED
      BY <1>1, <2>2, <3>1, Assigning
  <2> QED
    BY <2>1, <2>2
<1>3. Balance(loader, handle', keeper)
  BY BalanceIsLoaderReferences DEF LibraryInv
<1>4. handle' \in [Objects -> Handles \cup {NoObject}]
  BY <1>1
<1> QED
  BY <1>1, <1>2, <1>3, <1>4, ImportKeeps

\* A library that moves is held by nobody for a moment.
LEMMA ImportMovedKeeps ==
  ASSUME LibraryInv, NEW i \in Imports, Unused(i), NEW symbol, NEW o \in Objects,
         import_move(i, o, symbol)
  PROVE  LibraryInv'
<1> DEFINE l == Holding(loader, handle[o], handle[o] = NoFile)
           ld == unload(loader, handle[o])
<1>1. handle[o] \in Handles /\ Counted(loader, handle[o])
  BY HeldIsCounted DEF import_move, Exists, LibraryInv, TypeInv
<1>2. IsLoader(loader) /\ Named(loader) /\ handle \in [Objects -> Handles \cup {NoObject}]
  BY DEF LibraryInv, TypeInv
<1>3. IsLoader(ld) /\ Named(ld) /\ Exchange(loader, ld, handle[o], NoFile)
  BY <1>1, <1>2, Unloading
<1>4. /\ Imported(i, l, symbol) /\ UNCHANGED <<platform, disk>>
      /\ handle' = [handle EXCEPT ![o] = NoFile]
  BY DEF import_move
<1>5. l.loader = loader /\ l.handle = handle[o] /\ l.ec = (handle[o] = NoFile)
      /\ l = Holding(l.loader, l.handle, l.ec)
  BY DEF Holding
<1> HIDE DEF l, ld
<1>6. Exchange(ld, loader, NoFile, handle[o])
  BY <1>2, <1>3, LibraryAssumption DEF Exchange, One, IsLoader
<1>7. Outcome(ld, NoFile, l) /\ (l.ec => l.handle = NoFile)
  BY <1>1, <1>2, <1>5, <1>6 DEF Outcome
<1>8. /\ handle'[o] = NoFile
      /\ \A x \in Objects \ {o} : handle'[x] = handle[x]
      /\ handle' \in [Objects -> Handles \cup {NoObject}]
  BY <1>2, <1>4 DEF Handles
<1>9. Balance(loader, handle, keeper)
  BY BalanceIsLoaderReferences DEF LibraryInv
<1>10. Exchange(loader, ld, handle[o], handle'[o])
  BY <1>3, <1>8
<1>11. Balance(ld, handle', keeper)
  BY <1>8, <1>9, <1>10, BalanceOfObject
<1> QED
  BY <1>3, <1>4, <1>7, <1>8, <1>11, ImportKeeps

LEMMA CopyKeeps ==
  ASSUME LibraryInv, NEW i \in Imports, Unused(i), NEW j \in Imports, copy_function(i, j)
  PROVE  LibraryInv'
<1>1. /\ import[j].keeper # NoObject /\ import[i].keeper = NoObject
      /\ import' = [import EXCEPT ![i] = import[j]]
      /\ UNCHANGED <<platform, disk, loader, handle, keeper>>
  BY DEF copy_function, Unused
<1>2. import \in [Imports -> [keeper : Imports \cup {NoObject}, file : Handles]]
  BY DEF LibraryInv, TypeInv
<1>3. import'[i] = import[j] /\ \A x \in Imports \ {i} : import'[x] = import[x]
  BY <1>1, <1>2
<1>4. TypeInv' /\ DiskInv'
  BY <1>1, <1>2 DEF LibraryInv, TypeInv, DiskInv, IsLoader, IsPath
<1>5. Named(loader)' /\ LoaderReferences'
  BY <1>1 DEF LibraryInv, Named, Absolute, Mappable, LoaderReferences
<1>6. \A x \in Imports : import'[x].keeper # NoObject =>
        import'[x].file \in Files /\ keeper'[import'[x].keeper] = import'[x].file
  BY <1>1, <1>3 DEF LibraryInv, KeeperInv
<1>7. ASSUME NEW k \in Imports, keeper'[k] # NoFile PROVE \E x \in Imports : import'[x].keeper = k
  <2>1. PICK x \in Imports : import[x].keeper = k
    BY <1>1, <1>7 DEF LibraryInv, KeeperInv
  <2>2. x # i
    BY <1>1, <2>1, LibraryAssumption
  <2> QED
    BY <1>3, <2>1, <2>2
<1>8. KeeperInv'
  BY <1>6, <1>7 DEF KeeperInv
<1> QED
  BY <1>4, <1>5, <1>8 DEF LibraryInv

LEMMA DropKeeps ==
  ASSUME LibraryInv, NEW i \in Imports, drop_function(i)
  PROVE  LibraryInv'
<1> DEFINE k == import[i].keeper
           last == \A j \in Imports \ {i} : import[j].keeper # k
<1>1. /\ k # NoObject
      /\ import' = [import EXCEPT ![i] = [keeper |-> NoObject, file |-> NoFile]]
      /\ keeper' = IF last THEN [keeper EXCEPT ![k] = NoFile] ELSE keeper
      /\ loader' = IF last THEN unload(loader, keeper[k]) ELSE loader
      /\ UNCHANGED <<platform, disk, handle>>
  BY DEF drop_function
<1>2. /\ import \in [Imports -> [keeper : Imports \cup {NoObject}, file : Handles]]
      /\ keeper \in [Imports -> Handles] /\ IsLoader(loader) /\ Named(loader)
  BY DEF LibraryInv, TypeInv
<1>3. k \in Imports
  BY <1>1, <1>2
<1>4. /\ import'[i].keeper = NoObject
      /\ \A x \in Imports \ {i} : import'[x] = import[x]
      /\ import' \in [Imports -> [keeper : Imports \cup {NoObject}, file : Handles]]
  BY <1>1, <1>2 DEF Handles
<1> HIDE DEF k
<1>5. /\ \A x \in Imports \ {k} : keeper'[x] = keeper[x]
      /\ keeper' \in [Imports -> Handles]
      /\ keeper'[k] = IF last THEN NoFile ELSE keeper[k]
  BY <1>1, <1>2, <1>3 DEF Handles
<1>6. IsLoader(loader') /\ Named(loader') /\ Exchange(loader, loader', keeper[k], keeper'[k])
  <2>1. CASE last
    <3>1. loader' = unload(loader, keeper[k]) /\ keeper'[k] = NoFile /\ keeper[k] \in Handles
      BY <1>1, <1>2, <1>3, <1>5, <2>1
    <3>2. Counted(loader, keeper[k])
      BY <1>3, HeldIsCounted
    <3> QED
      BY <1>2, <3>1, <3>2, Unloading
  <2>2. CASE ~last
    <3>1. loader' = loader /\ keeper'[k] = keeper[k]
      BY <1>1, <1>5, <2>2
    <3>2. Exchange(loader, loader, keeper[k], keeper[k])
      BY <1>2 DEF Exchange, One, IsLoader
    <3> QED
      BY <1>2, <3>1, <3>2
  <2> QED
    BY <2>1, <2>2
<1>7. Balance(loader, handle, keeper)
  BY BalanceIsLoaderReferences DEF LibraryInv
<1>8. ASSUME NEW m, NEW r, Exchange(loader, m, keeper[k], r[k]), \A x \in Imports \ {k} : r[x] = keeper[x]
      PROVE  Balance(m, handle, r)
  BY <1>3, <1>7, <1>8, BalanceOfKeeper
<1>9. Balance(loader', handle, keeper')
  BY <1>5, <1>6, <1>8
<1>10. LoaderReferences'
  BY <1>1, <1>9, BalanceIsLoaderReferences
<1>11. TypeInv' /\ DiskInv' /\ Named(loader)'
  <2>1. TypeInv'
    BY <1>1, <1>4, <1>5, <1>6 DEF LibraryInv, TypeInv, IsLoader, IsPath
  <2>2. DiskInv' /\ Named(loader)'
    BY <1>1, <1>6 DEF LibraryInv, DiskInv, Named, Absolute, Mappable
  <2> QED
    BY <2>1, <2>2
<1>12. ASSUME NEW x \in Imports, import'[x].keeper # NoObject
       PROVE  import'[x].file \in Files /\ keeper'[import'[x].keeper] = import'[x].file
  <2>1. x # i /\ import'[x] = import[x]
    BY <1>4, <1>12
  <2>2. import[x].file \in Files /\ keeper[import[x].keeper] = import[x].file
    BY <1>12, <2>1 DEF LibraryInv, KeeperInv
  <2>3. keeper'[import[x].keeper] = keeper[import[x].keeper]
    BY <1>2, <1>5, <1>12, <2>1
  <2> QED
    BY <2>1, <2>2, <2>3
<1>13. ASSUME NEW x \in Imports, keeper'[x] # NoFile PROVE \E y \in Imports : import'[y].keeper = x
  <2>1. CASE x = k
    <3>1. ~last
      BY <1>5, <1>13, <2>1
    <3> QED
      BY <1>4, <2>1, <3>1
  <2>2. CASE x # k
    <3>1. PICK y \in Imports : import[y].keeper = x
      BY <1>5, <1>13, <2>2 DEF LibraryInv, KeeperInv
    <3>2. y # i
      BY <2>2, <3>1 DEF k
    <3> QED
      BY <1>4, <3>1, <3>2
  <2> QED
    BY <2>1, <2>2
<1>14. KeeperInv'
  BY <1>12, <1>13 DEF KeeperInv
<1> QED
  BY <1>10, <1>11, <1>14 DEF LibraryInv

LEMMA ImportStepKeeps ==
  ASSUME LibraryInv, NEW i \in Imports, ImportStep(i)
  PROVE  LibraryInv' /\ LoadedAsReported'
<1>1. ASSUME NEW symbol, NEW request \in Requested[platform], Unused(i), import_path(i, request, symbol)
      PROVE  LibraryInv' /\ LoadedAsReported'
  BY <1>1, ImportOpenedKeeps, ReportIsTrue DEF import_path
<1>2. ASSUME NEW symbol, NEW o \in Objects, Unused(i), import_copy(i, o, symbol)
      PROVE  LibraryInv' /\ LoadedAsReported'
  BY <1>2, ImportOpenedKeeps, ReportIsTrue DEF import_copy
<1>3. ASSUME NEW symbol, NEW o \in Objects, Unused(i), import_move(i, o, symbol)
      PROVE  LibraryInv' /\ LoadedAsReported'
  BY <1>3, ImportMovedKeeps, ReportIsTrue DEF import_move
<1>4. ASSUME NEW j \in Imports, Unused(i), copy_function(i, j)
      PROVE  LibraryInv' /\ LoadedAsReported'
  BY <1>4, CopyKeeps, DoneIsTrue DEF copy_function
<1>5. ASSUME drop_function(i)
      PROVE  LibraryInv' /\ LoadedAsReported'
  BY <1>5, DropKeeps, DoneIsTrue DEF drop_function
<1> QED
  BY <1>1, <1>2, <1>3, <1>4, <1>5 DEF ImportStep, Shared

\* A new version of a library leaves what is mapped alone.
LEMMA ReplaceKeeps ==
  ASSUME LibraryInv, NEW r \in Replacements, replace(r)
  PROVE  LibraryInv' /\ LoadedAsReported'
<1>1. /\ disk' = [disk EXCEPT ![r.place] = r.file] /\ result' = Done
      /\ UNCHANGED <<platform, loader, handle, keeper, import>>
  BY DEF replace, state
<1>2. TypeInv' /\ KeeperInv'
  BY <1>1 DEF LibraryInv, TypeInv, IsLoader, IsPath, KeeperInv
<1>3. DiskInv'
  BY <1>1, DiskAssumption DEF LibraryInv, DiskInv
<1>4. Named(loader)' /\ LoaderReferences'
  BY <1>1 DEF LibraryInv, Named, Absolute, Mappable, LoaderReferences
<1> QED
  BY <1>1, <1>2, <1>3, <1>4, DoneIsTrue DEF LibraryInv

-----------------------------------------------------------------------------
(* The theorems.                                                           *)

Reported == LibraryInv /\ LoadedAsReported

LEMMA InitiallyNothingIsHeld ==
  Init => Reported
<1> SUFFICES ASSUME Init PROVE Reported
  OBVIOUS
<1>1. /\ platform \in Platforms /\ disk = InitialDisk[platform]
      /\ loader = [f \in Files |-> [refs |-> IF f = Program THEN 1 ELSE 0, name |-> ProgramPath]]
      /\ handle = [o \in Objects |-> NoObject]
      /\ keeper = [i \in Imports |-> NoFile]
      /\ import = [i \in Imports |-> [keeper |-> NoObject, file |-> NoFile]]
      /\ result = Done
  BY DEF Init, LibraryInit
<1>2. IsLoader(loader) /\ Named(loader)
  BY <1>1, ProgramPathIsPath, LibraryAssumption DEF IsLoader, Named
<1>3. TypeInv /\ KeeperInv
  BY <1>1, <1>2, LibraryAssumption DEF TypeInv, KeeperInv, Handles
<1>4. DiskInv
  BY <1>1, DiskAssumption DEF DiskInv
<1>5. LoaderReferences
  <2> SUFFICES ASSUME NEW f \in Files
               PROVE  loader[f].refs = Cardinality({o \in Objects : handle[o] = f})
                                         + Cardinality({i \in Imports : keeper[i] = f})
                                         + (IF f = Program THEN 1 ELSE 0)
    BY DEF LoaderReferences
  <2>1. {o \in Objects : handle[o] = f} = {} /\ {i \in Imports : keeper[i] = f} = {}
    BY <1>1, LibraryAssumption
  <2>2. loader[f].refs = IF f = Program THEN 1 ELSE 0
    BY <1>1
  <2> QED
    BY <2>1, <2>2, FS_EmptySet
<1>6. LoadedAsReported
  BY <1>1 DEF LoadedAsReported, Done, Report
<1> QED
  BY <1>2, <1>3, <1>4, <1>5, <1>6 DEF LibraryInv, Reported

LEMMA StepKeeps ==
  Reported /\ [Next]_vars => Reported'
<1> SUFFICES ASSUME Reported, [Next]_vars PROVE Reported'
  OBVIOUS
<1>1. LibraryInv /\ LoadedAsReported
  BY DEF Reported
<1>2. CASE UNCHANGED vars
  <2>1. UNCHANGED <<platform, disk, state>> /\ UNCHANGED <<handle, result>>
    BY <1>2 DEF vars, libraryVars, state
  <2>2. LibraryInv'
    BY <1>1, <2>1, Unchanged
  <2>3. LoadedAsReported'
    BY <1>1, <2>1 DEF LoadedAsReported
  <2> QED
    BY <2>2, <2>3 DEF Reported
<1>3. CASE \E o \in Shared : SharedStep(o)
  BY <1>1, <1>3, SharedKeeps DEF Shared, Reported
<1>4. CASE \E s \in Smart : SmartStep(s)
  BY <1>1, <1>4, SmartKeeps DEF Reported
<1>5. CASE \E i \in Imports : ImportStep(i)
  BY <1>1, <1>5, ImportStepKeeps DEF Reported
<1>6. CASE \E r \in Replacements : replace(r)
  BY <1>1, <1>6, ReplaceKeeps DEF Reported
<1> QED
  BY <1>2, <1>3, <1>4, <1>5, <1>6 DEF Next

LEMMA ReportedAlways == Spec => []Reported
BY InitiallyNothingIsHeld, StepKeeps, PTL DEF Spec

(* What the loader counts, what objects, functions and keepers hold, and   *)
(* the names that libraries are mapped under fit together in every state.  *)
THEOREM LibraryInvariance == Spec => []LibraryInv
<1>1. Reported => LibraryInv
  BY DEF Reported
<1> QED
  BY <1>1, ReportedAlways, PTL

(* A library is mapped for exactly the objects, keepers and the program    *)
(* that hold it (shared_library_impl: handle_): no sequence of operations, *)
(* failed ones among them, leaks a reference or gives one back twice.      *)
THEOREM ReferencesAreHeld == Spec => []LoaderReferences
<1>1. LibraryInv => LoaderReferences
  BY DEF LibraryInv
<1> QED
  BY <1>1, LibraryInvariance, PTL

(* load and assign leave behind what they report, and the library a copy   *)
(* opens by name is the very one of its original.                          *)
THEOREM ReportsAreTrue == Spec => []LoadedAsReported
<1>1. Reported => LoadedAsReported
  BY DEF Reported
<1> QED
  BY <1>1, ReportedAlways, PTL

(* The shared_library an imported function holds with its copies keeps     *)
(* its library mapped as long as one of them is there.                     *)
THEOREM FunctionsKeepTheirLibrary == Spec => []ImportKeepsLoaded
<1>1. LibraryInv => ImportKeepsLoaded
  <2> SUFFICES ASSUME LibraryInv, NEW i \in Imports, import[i].keeper # NoObject
               PROVE  keeper[import[i].keeper] = import[i].file /\ loader[import[i].file].refs > 0
    BY DEF ImportKeepsLoaded
  <2>1. import[i].keeper \in Imports
    BY DEF LibraryInv, TypeInv
  <2>2. import[i].file \in Files /\ keeper[import[i].keeper] = import[i].file
    BY DEF LibraryInv, KeeperInv
  <2>3. Counted(loader, import[i].file)
    BY <2>1, <2>2, HeldIsCounted
  <2> QED
    BY <2>2, <2>3 DEF Counted, One, LibraryInv, TypeInv, IsLoader
<1> QED
  BY <1>1, LibraryInvariance, PTL
=============================================================================
