---------------------- MODULE FilesystemResourceProofs ----------------------
(***************************************************************************)
(* Proofs about FilesystemResource, for any number of threads and edits    *)
(* and all contents of the files.                                          *)
(***************************************************************************)
EXTENDS FilesystemResource, TLAPS

Header == [len : Nat, type : {"text", "image"}]

\* Every name has its own inode.
WorldInv ==
  /\ edits \in 0..MaxEdits
  /\ inode \in Seq(Contents) /\ Len(inode) <= 2 + edits
  /\ disk \in [Files -> 0..Len(inode)]
  /\ \A f, g \in Files : disk[f] # NoFile /\ disk[f] = disk[g] => f = g

TypeInv ==
  /\ descriptors \in 0..MaxOpen
  /\ buffer \in {"text", "image"}
  /\ pc     \in [Threads -> {"idle", "open", "length", "type", "copy", "mtime",
                             "content", "directory", "others", "files", "done"}]
  /\ req    \in [Threads -> Request \cup {NoRequest}]
  /\ path   \in [Threads -> Files \cup {"directory", "none"}]
  /\ stream \in [Threads -> 0..Len(inode)]
  /\ counted \in [Threads -> Nat]
  /\ header \in [Threads -> Seq(Header)]
  /\ body   \in [Threads -> Seq(Contents \cup Listing)]
  /\ status \in [Threads -> {0, 200, 404, 500}]
  /\ seen   \in [Threads -> SUBSET Contents]
  /\ hit    \in [Threads -> SUBSET Editor]
  /\ \A t \in Threads : Len(header[t]) <= 1

\* The places where t serves a file, and those where it has a header for it.
Opened   == {"length", "type", "copy", "mtime", "content"}
Measured == Opened \ {"length"}
Listed   == {"directory", "others", "files"}

\* What a thread's place says about its resource and its stream; the inode of
\* a stream never has another name than the one it was opened under.
PlaceInv(t) ==
  /\ pc[t] \in {"idle", "open"} \cup Listed => stream[t] = NoFile
  /\ pc[t] \in {"idle", "open"} => counted[t] = 0
  /\ pc[t] \in {"idle", "open"} \cup (Opened \ {"content"}) => body[t] = <<>>
  /\ pc[t] = "open" => path[t] \in Files \cup {"directory"}
  /\ pc[t] \in Opened => path[t] \in Files
  /\ pc[t] \in Listed => path[t] = "directory"
  /\ pc[t] \in {"others", "files"} => Len(body[t]) = 1 /\ body[t][1] \in Listing
  /\ pc[t] \in Measured => Len(header[t]) = 1
  /\ \A f \in Files : stream[t] # NoFile /\ disk[f] = stream[t] => path[t] = f

\* Unless its file is written to, the length t announces is its stream's, and
\* the blocks it reads are the stream's, from the first on.
LengthInv(t) ==
  "rewrite" \notin hit[t] =>
    /\ pc[t] = "length" => counted[t] <= StreamLength(t)
    /\ pc[t] \in Measured => header[t][1].len = StreamLength(t)
    /\ pc[t] = "content" => Len(body[t]) <= StreamLength(t)
    /\ ServedBody(t) => header[t][1].len = StreamLength(t) /\ Len(body[t]) = StreamLength(t)
    /\ pc[t] = "content" \/ ServedBody(t) =>
         \A i \in DOMAIN body[t] : body[t][i] = inode[stream[t]]

\* Both the file that has the name and the one that is open have been seen, and
\* whatever was read.
SeenInv(t) ==
  /\ path[t] \in Files /\ disk[path[t]] # NoFile => At(path[t]) \in seen[t]
  /\ stream[t] # NoFile => inode[stream[t]] \in seen[t]
  /\ pc[t] = "content" \/ ServedBody(t) => \A i \in DOMAIN body[t] : body[t][i] \in seen[t]

ThreadInv(t) == PlaceInv(t) /\ LengthInv(t) /\ SeenInv(t)

IInv == WorldInv /\ TypeInv /\ \A t \in Threads : ThreadInv(t)

\* Why the stream is not open on the file that was found when the resource was
\* made: it was removed, and put in its place again if it is there by now; or
\* opening it failed for another reason.
FoundInv(t) ==
  /\ pc[t] = "open" /\ path[t] \in Files \ Present => "remove" \in hit[t]
  /\ pc[t] \in Opened /\ stream[t] = NoFile =>
       \/ \E c \in seen[t] : ~c.readable
       \/ ~CanOpen
       \/ /\ "remove" \in hit[t]
          /\ path[t] \in Present \/ pc[t] = "content" => "rename" \in hit[t]
  /\ Served(t) /\ stream[t] = NoFile =>
       \/ \E c \in seen[t] : ~c.readable
       \/ ~CanOpen
       \/ {"remove", "rename"} \subseteq hit[t]

AllFound == \A t \in Threads : FoundInv(t)

-----------------------------------------------------------------------------

\* The site is there, with any two contents, before the first request.
LEMMA InitIInv == Init => IInv
<1> SUFFICES ASSUME Init PROVE IInv
  OBVIOUS
<1>1. WorldInv
  <2> PICK p \in Contents, i \in Contents :
         /\ inode = <<p, i>>
         /\ \E there \in SUBSET Files :
              disk = [f \in Files |-> IF f \notin there THEN NoFile
                                      ELSE IF f = "page" THEN 1 ELSE 2]
    BY DEF Init
  <2>1. inode \in Seq(Contents) /\ Len(inode) = 2
    OBVIOUS
  <2>2. disk \in [Files -> 0..2] /\ \A f, g \in Files : disk[f] # 0 /\ disk[f] = disk[g] => f = g
    BY DEF Files, NoFile
  <2> QED
    BY <2>1, <2>2, FilesAssumption DEF Init, WorldInv, NoFile
<1>2. TypeInv
  <2>1. <<>> \in Seq(Header) /\ <<>> \in Seq(Contents \cup Listing) /\ Len(<<>>) = 0
    OBVIOUS
  <2>2. Len(inode) \in Nat
    BY <1>1 DEF WorldInv
  <2> QED
    BY <2>1, <2>2, FilesAssumption DEF Init, TypeInv, NoFile
<1>3. ASSUME NEW t \in Threads PROVE ThreadInv(t)
  BY DEF Init, ThreadInv, PlaceInv, LengthInv, SeenInv, ServedBody, Served, Opened, Measured,
         Listed, Files, NoFile
<1> QED
  BY <1>1, <1>2, <1>3 DEF IInv

-----------------------------------------------------------------------------
(* The editor's steps.                                                     *)

\* An edit is seen by the threads whose resource is for the file, and leaves
\* what they have computed alone.
Edited(f, way) ==
  /\ hit' = [t \in Threads |-> IF path[t] = f THEN hit[t] \cup {way} ELSE hit[t]]
  /\ way \in Editor
  /\ UNCHANGED <<descriptors, buffer, thread>>

\* A new file has a new inode, which no stream is open on.
LEMMA RenameIInv ==
  ASSUME IInv, NEW f \in Files, NEW c \in Contents, rename(f, c) PROVE IInv'
<1>1. Edited(f, "rename") /\ edits' = edits + 1 /\ edits < MaxEdits
  BY DEF rename, Edit, Edited
<1>2. /\ inode' = Append(inode, c) /\ Len(inode') = Len(inode) + 1
      /\ inode' \in Seq(Contents) /\ inode'[Len(inode) + 1] = c
      /\ \A i \in 1..Len(inode) : inode'[i] = inode[i]
      /\ Len(inode) \in Nat
  BY DEF rename, IInv, WorldInv
<1>3. disk' = [disk EXCEPT ![f] = Len(inode) + 1] /\ Observe(f, c)
  BY DEF rename
<1>4. WorldInv'
  BY <1>1, <1>2, <1>3, FilesAssumption DEF IInv, WorldInv, NoFile
<1>5. TypeInv'
  BY <1>1, <1>2, <1>3 DEF Edited, Observe, thread, IInv, TypeInv
<1>6. ASSUME NEW t \in Threads PROVE ThreadInv(t)'
  <2>1. ThreadInv(t) /\ stream[t] \in 0..Len(inode)
    BY DEF IInv, TypeInv
  <2>2. stream[t] # NoFile => inode'[stream[t]] = inode[stream[t]]
    BY <1>2, <2>1 DEF NoFile
  <2>3. PlaceInv(t)'
    BY <1>1, <1>2, <1>3, <2>1 DEF Edited, thread, ThreadInv, PlaceInv, NoFile, IInv, WorldInv
  <2>4. LengthInv(t)'
    BY <1>1, <2>1, <2>2 DEF Edited, thread, ThreadInv, LengthInv, StreamLength, ServedBody,
                            Served, IInv, TypeInv
  <2>5. SeenInv(t)'
    <3>1. path[t] \in Files /\ disk'[path[t]] # NoFile => At(path[t])' \in seen'[t]
      <4>1. CASE path[t] = f
        BY <1>1, <1>2, <1>3, <4>1 DEF Edited, thread, Observe, At, IInv, WorldInv, TypeInv
      <4>2. CASE path[t] # f /\ path[t] \in Files /\ disk[path[t]] # NoFile
        <5>1. disk'[path[t]] = disk[path[t]] /\ disk[path[t]] \in 1..Len(inode)
          BY <1>3, <4>2 DEF IInv, WorldInv, NoFile
        <5>2. seen'[t] = seen[t] /\ path'[t] = path[t]
          BY <1>1, <1>3, <4>2 DEF Observe, Edited, thread
        <5> QED
          BY <1>2, <2>1, <4>2, <5>1, <5>2 DEF ThreadInv, SeenInv, At
      <4> QED
        BY <1>3, <4>1, <4>2 DEF IInv, WorldInv
    <3>2. seen[t] \subseteq seen'[t]
      BY <1>3 DEF Observe
    <3> QED
      BY <1>1, <2>1, <2>2, <3>1, <3>2 DEF Edited, thread, ThreadInv, SeenInv, ServedBody, Served
  <2> QED
    BY <2>3, <2>4, <2>5 DEF ThreadInv
<1> QED
  BY <1>4, <1>5, <1>6 DEF IInv

\* A file written in place is seen, and hit, by all threads that have it open.
LEMMA RewriteIInv ==
  ASSUME IInv, NEW f \in Files, NEW c \in Contents, rewrite(f, c) PROVE IInv'
<1>1. Edited(f, "rewrite") /\ edits' = edits + 1 /\ edits < MaxEdits
  BY DEF rewrite, Edit, Edited
<1>2. /\ disk' = disk /\ disk[f] \in 1..Len(inode)
      /\ inode' = [inode EXCEPT ![disk[f]] = c]
      /\ inode' \in Seq(Contents) /\ Len(inode') = Len(inode)
      /\ inode'[disk[f]] = c
      /\ \A i \in 1..Len(inode) : i # disk[f] => inode'[i] = inode[i]
      /\ Observe(f, c)
  BY DEF rewrite, IInv, WorldInv, Present, NoFile
<1>3. WorldInv'
  BY <1>1, <1>2, FilesAssumption DEF IInv, WorldInv
<1>4. TypeInv'
  BY <1>1, <1>2 DEF Edited, Observe, thread, IInv, TypeInv
<1>5. ASSUME NEW t \in Threads PROVE ThreadInv(t)'
  <2>1. ThreadInv(t) /\ stream[t] \in 0..Len(inode)
    BY DEF IInv, TypeInv
  <2>2. PlaceInv(t)'
    BY <1>1, <1>2, <2>1 DEF Edited, thread, ThreadInv, PlaceInv
  <2>3. CASE path[t] = f
    <3>1. hit'[t] = hit[t] \cup {"rewrite"} /\ seen'[t] = seen[t] \cup {c}
      BY <1>1, <1>2, <2>3 DEF Edited, Observe
    <3>2. stream[t] # NoFile => inode'[stream[t]] \in seen'[t]
      BY <1>2, <2>1, <3>1 DEF ThreadInv, SeenInv, NoFile
    <3>3. LengthInv(t)'
      BY <3>1 DEF LengthInv
    <3>4. SeenInv(t)'
      BY <1>1, <1>2, <2>1, <2>3, <3>1, <3>2 DEF Edited, thread, ThreadInv, SeenInv, At,
                                               ServedBody, Served
    <3> QED
      BY <2>2, <3>3, <3>4 DEF ThreadInv
  <2>4. CASE path[t] # f
    <3>1. hit'[t] = hit[t] /\ seen'[t] = seen[t]
      BY <1>1, <1>2, <2>4 DEF Edited, Observe
    <3>2. stream[t] # NoFile => inode'[stream[t]] = inode[stream[t]]
      BY <1>2, <2>1, <2>4 DEF ThreadInv, PlaceInv, NoFile
    <3>3. path[t] \in Files /\ disk[path[t]] # NoFile => At(path[t])' = At(path[t])
      <4> SUFFICES ASSUME path[t] \in Files, disk[path[t]] # NoFile
                   PROVE  At(path[t])' = At(path[t])
        OBVIOUS
      <4>1. disk[path[t]] # disk[f] /\ disk[path[t]] \in 1..Len(inode)
        BY <2>4 DEF IInv, WorldInv, NoFile
      <4>2. path'[t] = path[t]
        BY <1>1 DEF Edited, thread
      <4> QED
        BY <1>2, <4>1, <4>2 DEF At
    <3>4. LengthInv(t)'
      BY <1>1, <2>1, <3>1, <3>2 DEF Edited, thread, ThreadInv, LengthInv, StreamLength,
                                    ServedBody, Served
    <3>5. SeenInv(t)'
      BY <1>1, <1>2, <2>1, <3>1, <3>2, <3>3 DEF Edited, thread, ThreadInv, SeenInv,
                                               ServedBody, Served
    <3> QED
      BY <2>2, <3>4, <3>5 DEF ThreadInv
  <2> QED
    BY <2>3, <2>4
<1> QED
  BY <1>3, <1>4, <1>5 DEF IInv

\* A removed file stays what it was for those who have it open.
LEMMA RemoveIInv ==
  ASSUME IInv, NEW f \in Files, remove(f) PROVE IInv'
<1>1. Edited(f, "remove") /\ edits' = edits + 1 /\ edits < MaxEdits
  BY DEF remove, Edit, Edited
<1>2. disk' = [disk EXCEPT ![f] = NoFile] /\ UNCHANGED <<inode, seen>>
  BY DEF remove
<1>3. WorldInv'
  BY <1>1, <1>2, FilesAssumption DEF IInv, WorldInv, NoFile
<1>4. TypeInv'
  BY <1>1, <1>2 DEF Edited, thread, IInv, TypeInv
<1>5. ASSUME NEW t \in Threads PROVE ThreadInv(t)'
  BY <1>1, <1>2 DEF Edited, thread, IInv, WorldInv, ThreadInv, PlaceInv, LengthInv, SeenInv,
                    StreamLength, ServedBody, Served, At, TypeInv
<1> QED
  BY <1>3, <1>4, <1>5 DEF IInv

-----------------------------------------------------------------------------
(* The steps of a thread.                                                  *)

\* A step of thread t leaves the files and the other threads alone.
StepOf(t) ==
  /\ UNCHANGED <<world, hit>>
  /\ \A u \in Threads \ {t} :
       /\ pc'[u] = pc[u] /\ req'[u] = req[u] /\ path'[u] = path[u]
       /\ stream'[u] = stream[u] /\ counted'[u] = counted[u] /\ header'[u] = header[u] /\ body'[u] = body[u]
       /\ status'[u] = status[u] /\ seen'[u] = seen[u]

LEMMA OneThreadIInv ==
  ASSUME IInv, NEW t \in Threads, StepOf(t), TypeInv', ThreadInv(t)' PROVE IInv'
<1>1. WorldInv'
  BY DEF IInv, WorldInv, StepOf, world
<1>2. ASSUME NEW u \in Threads \ {t} PROVE ThreadInv(u)'
  <2>1. ThreadInv(u) /\ inode' = inode /\ disk' = disk /\ hit' = hit
    BY DEF IInv, StepOf, world
  <2>2. PlaceInv(u)'
    BY <2>1 DEF ThreadInv, PlaceInv, StepOf
  <2>3. LengthInv(u)'
    BY <2>1 DEF ThreadInv, LengthInv, StepOf, StreamLength, ServedBody, Served
  <2>4. SeenInv(u)'
    BY <2>1 DEF ThreadInv, SeenInv, StepOf, At, ServedBody, Served
  <2> QED
    BY <2>2, <2>3, <2>4 DEF ThreadInv
<1> QED
  BY <1>1, <1>2 DEF IInv

\* What the resource is made for has been seen.
LEMMA CreateIInv ==
  ASSUME IInv, NEW t \in Threads, create_handle(t) PROVE IInv'
<1>1. PICK r \in Request :
        /\ req' = [req EXCEPT ![t] = r]
        /\ \/ \E f \in Present : resource_for(t, f)
           \/ no_resource(t)
           \/ listing_for(t)
  BY DEF create_handle
<1>2. UNCHANGED <<world, descriptors, buffer, stream, counted, header, body, hit>> /\ pc[t] = "idle"
  BY DEF create_handle
<1>3. /\ ThreadInv(t) /\ TypeInv /\ WorldInv
      /\ stream[t] = NoFile /\ body[t] = <<>> /\ counted[t] = 0
  BY <1>2 DEF IInv, ThreadInv, PlaceInv
<1>4. CASE \E f \in Present : resource_for(t, f)
  <2> PICK f \in Present : resource_for(t, f)
    BY <1>4
  <2>1. f \in Files /\ disk[f] # NoFile /\ At(f) \in Contents /\ At(f)' = At(f)
    BY <1>2, <1>3 DEF Present, At, WorldInv, NoFile, world
  <2>2. /\ pc' = [pc EXCEPT ![t] = "open"] /\ path' = [path EXCEPT ![t] = f]
        /\ seen' = [seen EXCEPT ![t] = {At(f)}] /\ status' = status
    BY DEF resource_for
  <2>3. TypeInv'
    BY <1>1, <1>2, <1>3, <2>1, <2>2 DEF TypeInv, world
  <2>4. ThreadInv(t)'
    <3>1. /\ pc'[t] = "open" /\ path'[t] = f /\ seen'[t] = {At(f)} /\ stream'[t] = NoFile
          /\ body'[t] = <<>> /\ counted'[t] = 0
      BY <1>2, <1>3, <2>2 DEF TypeInv
    <3>2. PlaceInv(t)'
      BY <2>1, <3>1 DEF PlaceInv, Listed, Opened, Measured
    <3>3. LengthInv(t)'
      BY <3>1 DEF LengthInv, Measured, Opened, ServedBody, Served
    <3>4. SeenInv(t)'
      BY <2>1, <3>1 DEF SeenInv, ServedBody, Served
    <3> QED
      BY <3>2, <3>3, <3>4 DEF ThreadInv
  <2>5. StepOf(t)
    BY <1>1, <1>2, <1>3, <2>2 DEF StepOf, TypeInv
  <2> QED
    BY <2>3, <2>4, <2>5, OneThreadIInv
<1>5. CASE no_resource(t) \/ listing_for(t)
  <2>1. TypeInv'
    <3>1. CASE no_resource(t)
      BY <1>1, <1>2, <1>3, <3>1 DEF TypeInv, world, history, no_resource
    <3>2. CASE listing_for(t)
      BY <1>1, <1>2, <1>3, <3>2 DEF TypeInv, world, history, listing_for
    <3> QED
      BY <1>5, <3>1, <3>2
  <2>2. ThreadInv(t)'
    <3>1. /\ stream'[t] = NoFile /\ seen' = seen /\ disk' = disk /\ inode' = inode
          /\ body'[t] = <<>> /\ counted'[t] = 0
          /\ \/ pc'[t] = "done" /\ status'[t] = 404 /\ path'[t] = path[t]
             \/ pc'[t] = "open" /\ path'[t] = "directory"
      BY <1>2, <1>3, <1>5 DEF TypeInv, no_resource, listing_for, world, history
    <3>2. PlaceInv(t)'
      BY <1>3, <3>1 DEF PlaceInv, Listed, Opened, Measured
    <3>3. LengthInv(t)'
      BY <3>1 DEF LengthInv, Measured, Opened, ServedBody, Served
    <3>4. SeenInv(t)'
      BY <1>3, <3>1 DEF ThreadInv, SeenInv, ServedBody, Served, At, Files
    <3> QED
      BY <3>2, <3>3, <3>4 DEF ThreadInv
  <2>3. StepOf(t)
    BY <1>1, <1>2, <1>3, <1>5 DEF StepOf, TypeInv, no_resource, listing_for, history
  <2> QED
    BY <2>1, <2>2, <2>3, OneThreadIInv
<1> QED
  BY <1>1, <1>4, <1>5

\* The name's inode is the one that is opened, so it has no other name.
LEMMA OpenIInv ==
  ASSUME IInv, NEW t \in Threads, open_stream(t) PROVE IInv'
<1>1. /\ pc[t] = "open" /\ path[t] \in Files /\ pc' = [pc EXCEPT ![t] = "length"]
      /\ UNCHANGED <<world, buffer, req, path, counted, header, body, status, history>>
  BY DEF open_stream
<1>2. ThreadInv(t) /\ TypeInv /\ WorldInv
  BY DEF IInv
<1>3. /\ disk[path[t]] \in 0..Len(inode) /\ Len(inode) \in Nat
      /\ stream[t] = NoFile /\ body[t] = <<>> /\ counted[t] = 0
  BY <1>1, <1>2 DEF ThreadInv, PlaceInv, WorldInv
<1>4. /\ stream' \in [Threads -> 0..Len(inode)] /\ stream'[t] \in {NoFile, disk[path[t]]}
      /\ \A u \in Threads \ {t} : stream'[u] = stream[u]
      /\ descriptors' \in 0..MaxOpen
  <2>1. CASE Opens(path[t])
    <3>1. stream' = [stream EXCEPT ![t] = disk[path[t]]] /\ descriptors' = descriptors + 1
      BY <2>1 DEF open_stream
    <3>2. descriptors < MaxOpen /\ descriptors \in 0..MaxOpen
      BY <1>2, <2>1 DEF Opens, CanOpen, TypeInv
    <3>3. descriptors' \in 0..MaxOpen
      BY <3>1, <3>2, FilesAssumption
    <3> QED
      BY <1>2, <1>3, <3>1, <3>3 DEF TypeInv
  <2>2. CASE ~Opens(path[t])
    BY <1>2, <1>3, <2>2 DEF open_stream, TypeInv
  <2> QED
    BY <2>1, <2>2
<1>5. TypeInv'
  BY <1>1, <1>2, <1>4 DEF TypeInv, world, history
<1>6. pc'[t] = "length"
  BY <1>1, <1>2 DEF TypeInv
<1>7. ThreadInv(t)'
  <2>1. PlaceInv(t)'
    BY <1>1, <1>2, <1>3, <1>4, <1>6 DEF PlaceInv, WorldInv, Listed, Opened, Measured, world
  <2>2. LengthInv(t)'
    <3>1. counted'[t] = 0 /\ inode' = inode /\ stream'[t] \in 0..Len(inode)
      BY <1>1, <1>3, <1>4 DEF world
    <3>2. counted'[t] <= StreamLength(t)'
      BY <1>2, <3>1, FilesAssumption DEF StreamLength, WorldInv, NoFile
    <3> QED
      BY <1>6, <3>2 DEF LengthInv, Measured, Opened, ServedBody, Served
  <2>3. SeenInv(t)'
    <3>1. path'[t] = path[t] /\ disk' = disk /\ inode' = inode /\ seen' = seen
      BY <1>1 DEF world, history
    <3>2. disk[path[t]] # NoFile => inode[disk[path[t]]] \in seen[t]
      BY <1>1, <1>2 DEF ThreadInv, SeenInv, At
    <3> QED
      BY <1>4, <1>6, <3>1, <3>2 DEF SeenInv, At, ServedBody, Served
  <2> QED
    BY <2>1, <2>2, <2>3 DEF ThreadInv
<1>8. StepOf(t)
  BY <1>1, <1>2, <1>4 DEF StepOf, TypeInv, history
<1> QED
  BY <1>5, <1>7, <1>8, OneThreadIInv

LEMMA OpenDirectoryIInv ==
  ASSUME IInv, NEW t \in Threads, open_directory(t) PROVE IInv'
<1>1. /\ pc[t] = "open" /\ path[t] = "directory" /\ pc' = [pc EXCEPT ![t] = "directory"]
      /\ UNCHANGED <<world, buffer, req, path, stream, counted, header, body, status, history>>
  BY DEF open_directory
<1>2. ThreadInv(t) /\ TypeInv /\ WorldInv
  BY DEF IInv
<1>3. descriptors' \in 0..MaxOpen
  BY <1>2, FilesAssumption DEF open_directory, CanOpen, TypeInv
<1>4. TypeInv' /\ pc'[t] = "directory"
  BY <1>1, <1>2, <1>3 DEF TypeInv, world, history
<1>5. PlaceInv(t)'
  BY <1>1, <1>2, <1>4 DEF ThreadInv, PlaceInv, Listed, Opened, Measured, world
<1>6. LengthInv(t)' /\ SeenInv(t)'
  BY <1>1, <1>2, <1>4 DEF ThreadInv, LengthInv, SeenInv, Measured, Opened, ServedBody, Served,
                          At, world, history
<1>7. StepOf(t)
  BY <1>1, <1>2 DEF StepOf, TypeInv, history
<1> QED
  BY <1>4, <1>5, <1>6, <1>7, OneThreadIInv DEF ThreadInv

\* No more blocks are passed than the stream has.
LEMMA IgnoreIInv ==
  ASSUME IInv, NEW t \in Threads, ignore_block(t) PROVE IInv'
<1>1. /\ pc[t] = "length" /\ counted[t] < StreamLength(t)
      /\ counted' = [counted EXCEPT ![t] = counted[t] + 1]
      /\ UNCHANGED <<world, descriptors, buffer, pc, req, path, stream, header, body, status,
                     history>>
  BY DEF ignore_block
<1>2. ThreadInv(t) /\ TypeInv /\ WorldInv
  BY DEF IInv
<1>3. StreamLength(t) \in Nat /\ StreamLength(t)' = StreamLength(t)
  BY <1>1, <1>2, FilesAssumption DEF StreamLength, TypeInv, WorldInv, NoFile, world
<1>4. TypeInv' /\ counted'[t] = counted[t] + 1 /\ counted[t] \in Nat
  BY <1>1, <1>2 DEF TypeInv, world, history
<1>5. PlaceInv(t)'
  BY <1>1, <1>2 DEF ThreadInv, PlaceInv, Opened, Measured, Listed, world
<1>6. LengthInv(t)'
  BY <1>1, <1>3, <1>4 DEF LengthInv, Measured, Opened, ServedBody, Served
<1>7. SeenInv(t)'
  BY <1>1, <1>2 DEF ThreadInv, SeenInv, ServedBody, Served, At, world, history
<1>8. StepOf(t)
  BY <1>1, <1>2 DEF StepOf, TypeInv, history
<1> QED
  BY <1>4, <1>5, <1>6, <1>7, <1>8, OneThreadIInv DEF ThreadInv

\* What is announced is the length of what is open.
LEMMA LengthIInv ==
  ASSUME IInv, NEW t \in Threads, fetch_length(t) PROVE IInv'
<1> DEFINE h == [len |-> counted[t], type |-> "text"]
<1>1. /\ pc[t] = "length" /\ pc' = [pc EXCEPT ![t] = IF LibMagic THEN "type" ELSE "mtime"]
      /\ header' = [header EXCEPT ![t] = <<h>>] /\ counted[t] >= StreamLength(t)
      /\ UNCHANGED <<world, descriptors, buffer, req, path, stream, counted, body, status, history>>
  BY DEF fetch_length, AfterLength
<1>2. ThreadInv(t) /\ TypeInv /\ WorldInv
  BY DEF IInv
<1>3. counted[t] \in Nat /\ StreamLength(t) \in Nat
  BY <1>2, FilesAssumption DEF TypeInv, WorldInv, StreamLength, NoFile
<1>4. h \in Header /\ <<h>> \in Seq(Header) /\ Len(<<h>>) = 1 /\ <<h>>[1] = h
  BY <1>3 DEF Header
<1>a. h.len = counted[t]
  OBVIOUS
<1> HIDE DEF h
<1>5. pc'[t] \in {"type", "mtime"} /\ header'[t] = <<h>>
  BY <1>1, <1>2 DEF TypeInv
<1>6. TypeInv'
  BY <1>1, <1>2, <1>4 DEF TypeInv, world, history
<1>7. ThreadInv(t)'
  <2>1. PlaceInv(t)'
    BY <1>1, <1>2, <1>4, <1>5 DEF ThreadInv, PlaceInv, Listed, Opened, Measured, world
  <2>2. LengthInv(t)'
    <3>1. StreamLength(t)' = StreamLength(t) /\ hit' = hit
      BY <1>1 DEF StreamLength, world, history
    <3>2. "rewrite" \notin hit[t] => counted[t] = StreamLength(t)
      BY <1>1, <1>2, <1>3 DEF ThreadInv, LengthInv
    <3> QED
      BY <1>4, <1>5, <1>a, <3>1, <3>2 DEF LengthInv, ServedBody, Served
  <2>3. SeenInv(t)'
    BY <1>1, <1>2, <1>5 DEF ThreadInv, SeenInv, At, ServedBody, Served, world, history
  <2> QED
    BY <2>1, <2>2, <2>3 DEF ThreadInv
<1>8. StepOf(t)
  BY <1>1, <1>2 DEF StepOf, TypeInv, history
<1> QED
  BY <1>6, <1>7, <1>8, OneThreadIInv

\* The type is written into the buffer of all threads ...
LEMMA MagicIInv ==
  ASSUME IInv, NEW t \in Threads, magic_file(t) PROVE IInv'
<1>1. /\ pc[t] = "type" /\ (pc' = [pc EXCEPT ![t] = "copy"] \/ pc' = [pc EXCEPT ![t] = "mtime"])
      /\ UNCHANGED <<world, descriptors, req, path, stream, counted, header, body, status, history>>
  BY DEF magic_file
<1>2. ThreadInv(t) /\ TypeInv /\ WorldInv
  BY DEF IInv
<1>3. pc'[t] \in {"copy", "mtime"}
  BY <1>1, <1>2 DEF TypeInv
<1>4. buffer' \in {"text", "image"}
  <2>1. CASE buffer' = At(path[t]).type /\ path[t] \in Present
    BY <1>2, <2>1, FilesAssumption DEF Present, At, WorldInv, NoFile
  <2> QED
    BY <1>2, <2>1 DEF magic_file, Opens, TypeInv
<1>5. TypeInv'
  <2>1. PICK p \in {"copy", "mtime"} : pc' = [pc EXCEPT ![t] = p]
    BY <1>1
  <2> QED
    BY <1>1, <1>2, <1>4, <2>1 DEF TypeInv, world, history
<1>6. ThreadInv(t)'
  <2>1. PlaceInv(t)'
    BY <1>1, <1>2, <1>3 DEF ThreadInv, PlaceInv, Listed, Opened, Measured, world
  <2>2. LengthInv(t)'
    BY <1>1, <1>2, <1>3 DEF ThreadInv, LengthInv, StreamLength, ServedBody, Served, Measured,
                            Opened, world, history
  <2>3. SeenInv(t)'
    BY <1>1, <1>2, <1>3 DEF ThreadInv, SeenInv, At, ServedBody, Served, world, history
  <2> QED
    BY <2>1, <2>2, <2>3 DEF ThreadInv
<1>7. StepOf(t)
  BY <1>1, <1>2 DEF StepOf, TypeInv, history
<1> QED
  BY <1>5, <1>6, <1>7, OneThreadIInv

\* ... and copied into the header, whose length stays.
LEMMA CopyIInv ==
  ASSUME IInv, NEW t \in Threads, copy_content_type(t) PROVE IInv'
<1> DEFINE h == [header[t][1] EXCEPT !.type = buffer]
<1>1. /\ pc[t] = "copy" /\ pc' = [pc EXCEPT ![t] = "mtime"]
      /\ UNCHANGED <<world, descriptors, buffer, req, path, stream, counted, body, status, history>>
  BY DEF copy_content_type
<1>2. ThreadInv(t) /\ TypeInv /\ WorldInv
  BY DEF IInv
<1>3. header[t] \in Seq(Header) /\ Len(header[t]) = 1 /\ header[t][1] \in Header
  <2>1. header[t] \in Seq(Header)
    BY <1>2 DEF TypeInv
  <2>2. Len(header[t]) = 1
    BY <1>1, <1>2 DEF ThreadInv, PlaceInv, Opened, Measured
  <2> QED
    BY <2>1, <2>2
<1>4. h \in Header /\ h.len = header[t][1].len
  BY <1>2, <1>3 DEF Header, TypeInv
<1>5. header' = [header EXCEPT ![t] = <<h>>]
  BY <1>2 DEF copy_content_type, TypeInv
<1> HIDE DEF h
<1>6. <<h>> \in Seq(Header) /\ Len(<<h>>) = 1 /\ <<h>>[1] = h
  BY <1>4
<1>7. pc'[t] = "mtime" /\ header'[t] = <<h>>
  BY <1>1, <1>2, <1>5 DEF TypeInv
<1>8. TypeInv'
  BY <1>1, <1>2, <1>5, <1>6 DEF TypeInv, world, history
<1>9. ThreadInv(t)'
  <2>1. PlaceInv(t)'
    BY <1>1, <1>2, <1>6, <1>7 DEF ThreadInv, PlaceInv, Listed, Opened, Measured, world
  <2>2. LengthInv(t)'
    BY <1>1, <1>2, <1>4, <1>6, <1>7 DEF ThreadInv, LengthInv, StreamLength, ServedBody, Served,
                                        Measured, Opened, world, history
  <2>3. SeenInv(t)'
    BY <1>1, <1>2, <1>7 DEF ThreadInv, SeenInv, At, ServedBody, Served, world, history
  <2> QED
    BY <2>1, <2>2, <2>3 DEF ThreadInv
<1>10. StepOf(t)
  BY <1>1, <1>2, <1>5 DEF StepOf, TypeInv, history
<1> QED
  BY <1>8, <1>9, <1>10, OneThreadIInv

\* A name that is gone costs the header; the length stays in all other cases.
LEMMA DateIInv ==
  ASSUME IInv, NEW t \in Threads, last_write_time(t) PROVE IInv'
<1>1. /\ pc[t] = "mtime" /\ UNCHANGED <<world, descriptors, buffer, req, path, stream, counted, body, history>>
      /\ \/ /\ header' = [header EXCEPT ![t] = <<>>]
            /\ status' = [status EXCEPT ![t] = 500]
            /\ pc' = [pc EXCEPT ![t] = "done"]
         \/ /\ pc' = [pc EXCEPT ![t] = "content"] /\ UNCHANGED <<header, status>>
         \/ /\ req[t].method # "GET"
            /\ status' = [status EXCEPT ![t] = 200]
            /\ pc' = [pc EXCEPT ![t] = "done"]
            /\ UNCHANGED header
  BY DEF last_write_time
<1>2. ThreadInv(t) /\ TypeInv /\ WorldInv
  BY DEF IInv
<1>3. TypeInv' /\ StepOf(t)
  <2>1. CASE header' = header /\ pc' = [pc EXCEPT ![t] = "content"] /\ status' = status
    BY <1>1, <1>2, <2>1 DEF StepOf, TypeInv, world, history
  <2>2. CASE /\ header' = header /\ pc' = [pc EXCEPT ![t] = "done"]
             /\ status' = [status EXCEPT ![t] = 200]
    BY <1>1, <1>2, <2>2 DEF StepOf, TypeInv, world, history
  <2>3. CASE /\ header' = [header EXCEPT ![t] = <<>>] /\ pc' = [pc EXCEPT ![t] = "done"]
             /\ status' = [status EXCEPT ![t] = 500]
    <3>1. <<>> \in Seq(Header) /\ Len(<<>>) = 0
      OBVIOUS
    <3> QED
      BY <1>1, <1>2, <2>3, <3>1 DEF StepOf, TypeInv, world, history
  <2> QED
    BY <1>1, <2>1, <2>2, <2>3
<1>4. ThreadInv(t)'
  <2>1. /\ \/ pc'[t] = "done" /\ status'[t] = 500
           \/ pc'[t] = "content" /\ header' = header
           \/ pc'[t] = "done" /\ req'[t].method # "GET"
        /\ body'[t] = <<>> /\ DOMAIN <<>> = {} /\ Len(<<>>) = 0
    BY <1>1, <1>2 DEF TypeInv, ThreadInv, PlaceInv, Opened
  <2>a. StreamLength(t) \in Nat
    BY <1>2, FilesAssumption DEF StreamLength, TypeInv, WorldInv, NoFile
  <2>2. PlaceInv(t)'
    BY <1>1, <1>2, <2>1 DEF ThreadInv, PlaceInv, Listed, Opened, Measured, world
  <2>3. LengthInv(t)'
    <3>1. StreamLength(t)' = StreamLength(t) /\ hit' = hit
      BY <1>1 DEF StreamLength, world, history
    <3>2. pc'[t] = "content" => Len(body'[t]) <= StreamLength(t) /\ DOMAIN body'[t] = {}
      BY <2>1, <2>a
    <3> QED
      BY <1>1, <1>2, <2>1, <3>1, <3>2 DEF ThreadInv, LengthInv, ServedBody, Served, Measured,
                                         Opened
  <2>4. SeenInv(t)'
    BY <1>1, <1>2, <2>1 DEF ThreadInv, SeenInv, At, ServedBody, Served, world, history
  <2> QED
    BY <2>2, <2>3, <2>4 DEF ThreadInv
<1> QED
  BY <1>3, <1>4, OneThreadIInv

\* A block is of what the stream is open on, and there is room for it in what
\* was announced.
LEMMA BlockIInv ==
  ASSUME IInv, NEW t \in Threads, copy_block(t) PROVE IInv'
<1> DEFINE c == inode[stream[t]]
<1>1. /\ pc[t] = "content" /\ Len(body[t]) < StreamLength(t)
      /\ body' = [body EXCEPT ![t] = Append(body[t], c)]
      /\ UNCHANGED <<world, descriptors, buffer, pc, req, path, stream, counted, header, status,
                     history>>
  BY DEF copy_block
<1>2. ThreadInv(t) /\ TypeInv /\ WorldInv
  BY DEF IInv
<1>3. body[t] \in Seq(Contents \cup Listing) /\ Len(body[t]) \in Nat
  BY <1>2 DEF TypeInv
<1>4. StreamLength(t) \in Nat /\ stream[t] # NoFile
  BY <1>1, <1>2, <1>3, FilesAssumption DEF StreamLength, TypeInv, WorldInv, NoFile
<1>5. c \in Contents /\ c \in seen[t]
  BY <1>2, <1>4 DEF TypeInv, WorldInv, NoFile, ThreadInv, SeenInv
<1>6. c = inode'[stream'[t]] /\ StreamLength(t)' = StreamLength(t) /\ seen' = seen /\ hit' = hit
  BY <1>1 DEF world, history, StreamLength
<1> HIDE DEF c
<1>7. /\ Append(body[t], c) \in Seq(Contents \cup Listing)
      /\ Len(Append(body[t], c)) = Len(body[t]) + 1
      /\ \A i \in DOMAIN Append(body[t], c) :
           \/ i \in DOMAIN body[t] /\ Append(body[t], c)[i] = body[t][i]
           \/ Append(body[t], c)[i] = c
  BY <1>3, <1>5
<1>8. body'[t] = Append(body[t], c)
  BY <1>1, <1>2 DEF TypeInv
<1>9. TypeInv'
  BY <1>1, <1>2, <1>7 DEF TypeInv, world, history
<1>10. ThreadInv(t)'
  <2>1. PlaceInv(t)'
    BY <1>1, <1>2 DEF ThreadInv, PlaceInv, Listed, Opened, Measured, world
  <2>2. LengthInv(t)'
    <3>1. ASSUME "rewrite" \notin hit[t]
          PROVE  /\ header[t][1].len = StreamLength(t)
                 /\ \A i \in DOMAIN body[t] : body[t][i] = c
      BY <1>1, <1>2, <3>1 DEF ThreadInv, LengthInv, Measured, Opened, c
    <3>2. Len(body'[t]) <= StreamLength(t)
      BY <1>1, <1>3, <1>4, <1>7, <1>8
    <3>3. "rewrite" \notin hit[t] => \A i \in DOMAIN body'[t] : body'[t][i] = c
      BY <1>7, <1>8, <3>1
    <3>4. pc'[t] = "content" /\ header' = header
      BY <1>1
    <3> QED
      BY <1>6, <3>1, <3>2, <3>3, <3>4 DEF LengthInv, ServedBody, Served
  <2>3. SeenInv(t)'
    <3>1. \A i \in DOMAIN body'[t] : body'[t][i] \in seen[t]
      BY <1>1, <1>2, <1>5, <1>7, <1>8 DEF ThreadInv, SeenInv
    <3> QED
      BY <1>1, <1>2, <3>1 DEF ThreadInv, SeenInv, At, world, history
  <2> QED
    BY <2>1, <2>2, <2>3 DEF ThreadInv
<1>11. StepOf(t)
  BY <1>1, <1>2 DEF StepOf, TypeInv, history
<1> QED
  BY <1>9, <1>10, <1>11, OneThreadIInv

\* At the end of the stream the body is as long as what was announced.
LEMMA ContentIInv ==
  ASSUME IInv, NEW t \in Threads, fetch_resource_content(t) PROVE IInv'
<1>1. /\ pc[t] = "content" /\ pc' = [pc EXCEPT ![t] = "done"]
      /\ Len(body[t]) >= StreamLength(t) /\ status' = [status EXCEPT ![t] = 200]
      /\ UNCHANGED <<world, descriptors, buffer, req, path, stream, counted, header, body, history>>
  BY DEF fetch_resource_content
<1>2. ThreadInv(t) /\ TypeInv /\ WorldInv
  BY DEF IInv
<1>3. Len(body[t]) \in Nat /\ StreamLength(t) \in Nat /\ StreamLength(t)' = StreamLength(t)
  BY <1>1, <1>2, FilesAssumption DEF StreamLength, TypeInv, WorldInv, NoFile, world
<1>4. TypeInv' /\ pc'[t] = "done"
  BY <1>1, <1>2 DEF TypeInv, world, history
<1>5. PlaceInv(t)'
  BY <1>1, <1>2, <1>4 DEF ThreadInv, PlaceInv, Listed, Opened, Measured, world
<1>6. LengthInv(t)'
  <2>1. ASSUME "rewrite" \notin hit[t]
        PROVE  /\ header[t][1].len = StreamLength(t) /\ Len(body[t]) = StreamLength(t)
               /\ \A i \in DOMAIN body[t] : body[t][i] = inode[stream[t]]
    BY <1>1, <1>2, <1>3, <2>1 DEF ThreadInv, LengthInv, Measured, Opened
  <2> QED
    BY <1>1, <1>3, <1>4, <2>1 DEF LengthInv, Measured, Opened, world, history
<1>7. SeenInv(t)'
  BY <1>1, <1>2 DEF ThreadInv, SeenInv, At, world, history
<1>8. StepOf(t)
  BY <1>1, <1>2 DEF StepOf, TypeInv, history
<1> QED
  BY <1>4, <1>5, <1>6, <1>7, <1>8, OneThreadIInv DEF ThreadInv

\* The directory's passes make a listing, or none, and leave the rest alone.
LEMMA DirectoryIInv ==
  ASSUME IInv, NEW t \in Threads, read_directory(t) \/ list_others(t) \/ list_files(t)
  PROVE  IInv'
<1>1. /\ pc[t] \in Listed
      /\ UNCHANGED <<world, descriptors, buffer, req, path, stream, counted, header, history>>
  BY DEF read_directory, list_others, list_files, Listed
<1>2. ThreadInv(t) /\ TypeInv /\ WorldInv
  BY DEF IInv
<1>3. path[t] = "directory" /\ stream[t] = NoFile
  BY <1>1, <1>2 DEF ThreadInv, PlaceInv
<1>4. pc[t] \in {"others", "files"} => body[t] \in Seq(Contents \cup Listing) /\ body[t][1] \in Listing
  BY <1>2 DEF ThreadInv, PlaceInv, TypeInv
<1>5. PICK b \in Seq(Contents \cup Listing), p \in {"others", "files", "done"} :
        /\ body' = [body EXCEPT ![t] = b] /\ pc' = [pc EXCEPT ![t] = p]
        /\ p \in {"others", "files"} => Len(b) = 1 /\ b[1] \in Listing
  <2>1. CASE /\ read_directory(t) /\ req[t].method # "GET"
    <3>1. body' = [body EXCEPT ![t] = body[t]] /\ body[t] \in Seq(Contents \cup Listing)
      BY <1>2, <2>1 DEF read_directory, TypeInv
    <3> QED
      BY <2>1, <3>1 DEF read_directory, Answer
  <2>2. CASE no_iterator(t)
    <3>1. <<>> \in Seq(Contents \cup Listing)
      OBVIOUS
    <3> QED
      BY <2>2, <3>1 DEF no_iterator, Answer
  <2>3. ASSUME NEW l \in Listing, NEW p \in {"others", "files", "done"},
               body' = [body EXCEPT ![t] = <<l>>], pc' = [pc EXCEPT ![t] = p]
        PROVE  \E b \in Seq(Contents \cup Listing), q \in {"others", "files", "done"} :
                 /\ body' = [body EXCEPT ![t] = b] /\ pc' = [pc EXCEPT ![t] = q]
                 /\ q \in {"others", "files"} => Len(b) = 1 /\ b[1] \in Listing
    <3>1. <<l>> \in Seq(Contents \cup Listing) /\ Len(<<l>>) = 1 /\ <<l>>[1] = l
      OBVIOUS
    <3> QED
      BY <2>3, <3>1
  <2>4. CASE read_directory(t) /\ req[t].method = "GET" /\ ~no_iterator(t)
    <3>1. [files |-> {}, others |-> Present] \in Listing
      BY DEF Listing, Present
    <3> QED
      BY <2>3, <2>4, <3>1 DEF read_directory
  <2>5. CASE list_others(t)
    <3> DEFINE l == [body[t][1] EXCEPT !.others = @ \ Present]
    <3>1. l \in Listing
      BY <1>4, <2>5 DEF Listing, list_others
    <3>2. body' = [body EXCEPT ![t] = <<l>>] /\ pc' = [pc EXCEPT ![t] = "files"]
      BY <2>5 DEF list_others
    <3> HIDE DEF l
    <3> QED
      BY <2>3, <3>1, <3>2
  <2>6. CASE list_files(t) /\ ~no_iterator(t)
    <3> DEFINE l == [body[t][1] EXCEPT !.files = Present]
    <3>1. l \in Listing
      BY <1>4, <2>6 DEF Listing, list_files, Present
    <3>2. body' = [body EXCEPT ![t] = <<l>>] /\ pc' = [pc EXCEPT ![t] = "done"]
      BY <1>2, <2>6 DEF list_files, Answer, TypeInv
    <3> HIDE DEF l
    <3> QED
      BY <2>3, <3>1, <3>2
  <2> QED
    BY <2>1, <2>2, <2>4, <2>5, <2>6
<1>6. /\ status' \in [Threads -> {0, 200, 404, 500}]
      /\ \A u \in Threads \ {t} : status'[u] = status[u]
  <2>1. \/ status' = status
        \/ status' = [status EXCEPT ![t] = 200]
        \/ status' = [status EXCEPT ![t] = 500]
    BY DEF read_directory, list_others, list_files, no_iterator, Answer
  <2>2. status \in [Threads -> {0, 200, 404, 500}]
    BY <1>2 DEF TypeInv
  <2> QED
    BY <2>1, <2>2
<1>7. TypeInv' /\ StepOf(t)
  <2>1. /\ body' \in [Threads -> Seq(Contents \cup Listing)]
        /\ \A u \in Threads \ {t} : body'[u] = body[u] /\ pc'[u] = pc[u]
    BY <1>2, <1>5 DEF TypeInv
  <2>2. pc' \in [Threads -> {"idle", "open", "length", "type", "copy", "mtime",
                            "content", "directory", "others", "files", "done"}]
    BY <1>2, <1>5 DEF TypeInv
  <2>3. /\ UNCHANGED <<disk, inode, edits, descriptors, buffer, req, path, stream, counted,
                       header, seen, hit>>
    BY <1>1 DEF world, history
  <2>4. StepOf(t)
    BY <1>6, <2>1, <2>3 DEF StepOf, world
  <2> QED
    BY <1>2, <1>6, <2>1, <2>2, <2>3, <2>4 DEF TypeInv
<1>8. body'[t] = b /\ pc'[t] = p /\ path'[t] = "directory" /\ stream'[t] = NoFile
  BY <1>1, <1>2, <1>3, <1>5 DEF TypeInv
<1>9. PlaceInv(t)'
  BY <1>5, <1>8 DEF PlaceInv, Listed, Opened, Measured
<1>10. LengthInv(t)' /\ SeenInv(t)'
  BY <1>8 DEF LengthInv, SeenInv, ServedBody, Served, Measured, Opened, Files
<1> QED
  BY <1>7, <1>9, <1>10, OneThreadIInv DEF ThreadInv

-----------------------------------------------------------------------------
(* The theorems.                                                           *)

LEMMA NextIInv == ASSUME IInv, Next PROVE IInv'
<1>1. ASSUME NEW t \in Threads, Serve(t) PROVE IInv'
  BY <1>1, CreateIInv, OpenIInv, OpenDirectoryIInv, IgnoreIInv, LengthIInv, MagicIInv, CopyIInv,
     DateIInv, BlockIInv, ContentIInv, DirectoryIInv DEF Serve
<1> QED
  BY <1>1, RenameIInv, RewriteIInv, RemoveIInv DEF Next

LEMMA StutterIInv == ASSUME IInv, UNCHANGED vars PROVE IInv'
  BY DEF vars, world, thread, history, IInv, WorldInv, TypeInv, ThreadInv, PlaceInv, LengthInv,
         SeenInv, StreamLength, ServedBody, Served, At

THEOREM FilesInvariance == Spec => []IInv
<1>1. IInv /\ [Next]_vars => IInv'
  BY NextIInv, StutterIInv
<1> QED
  BY InitIInv, <1>1, PTL DEF Spec

\* For any number of threads, edits and contents, the Content-Length of a GET is
\* the length of its body unless the file was written in place meanwhile: both
\* are counted on the stream, whatever has the name by now
\* (fetch_resource_header and fetch_resource_content,
\* http_filesystem_resource.cpp).
THEOREM LengthIsOfTheBody == Spec => []LengthMatchesBody
<1>1. IInv => LengthMatchesBody
  BY DEF IInv, ThreadInv, LengthInv, LengthMatchesBody
<1> QED
  BY <1>1, FilesInvariance, PTL

\* A sequence whose elements are all c, as long as c is, is c's blocks.
LEMMA AllBlocks ==
  ASSUME NEW S, NEW b \in Seq(S), NEW c, c.len \in Nat, c.len = Len(b),
         \A i \in DOMAIN b : b[i] = c
  PROVE  b = Blocks(c)
<1>1. DOMAIN b = 1..c.len /\ b = [i \in DOMAIN b |-> b[i]]
  OBVIOUS
<1>2. DOMAIN Blocks(c) = 1..c.len /\ \A i \in 1..c.len : Blocks(c)[i] = c
  BY DEF Blocks
<1>3. Blocks(c) = [i \in DOMAIN Blocks(c) |-> Blocks(c)[i]]
  BY DEF Blocks
<1> QED
  BY <1>1, <1>2, <1>3

\* Each block of what a GET of a file answers is of a content the file's name
\* had at some moment since the resource was made, for any sequence of edits by
\* another process between the blocks; and unless one of the edits wrote to the
\* file in place, the blocks are those of one such content, all of them.
THEOREM BodyWasThere == Spec => []ServedVersionExisted
<1>1. IInv => ServedVersionExisted
  <2> SUFFICES ASSUME IInv, NEW t \in Threads, ServedBody(t), stream[t] # NoFile
               PROVE  /\ \A i \in DOMAIN body[t] : body[t][i] \in seen[t]
                      /\ "rewrite" \notin hit[t] => \E c \in seen[t] : body[t] = Blocks(c)
    BY DEF ServedVersionExisted
  <2>1. ThreadInv(t) /\ TypeInv /\ WorldInv
    BY DEF IInv
  <2>2. ASSUME "rewrite" \notin hit[t] PROVE \E c \in seen[t] : body[t] = Blocks(c)
    <3> DEFINE c == inode[stream[t]]
    <3>1. c \in seen[t] /\ c \in Contents
      BY <2>1 DEF ThreadInv, SeenInv, TypeInv, WorldInv, NoFile
    <3>2. c.len = Len(body[t]) /\ \A i \in DOMAIN body[t] : body[t][i] = c
      BY <2>1, <2>2 DEF ThreadInv, LengthInv, StreamLength
    <3>3. c.len \in Nat /\ body[t] \in Seq(Contents \cup Listing)
      BY <2>1, <3>1, FilesAssumption DEF TypeInv
    <3> HIDE DEF c
    <3>4. body[t] = Blocks(c)
      BY <3>2, <3>3, AllBlocks
    <3> QED
      BY <3>1, <3>4
  <2> QED
    BY <2>1, <2>2 DEF ThreadInv, SeenInv
<1> QED
  BY <1>1, FilesInvariance, PTL

\* An edit can only take the file away, or give it back.
LEMMA EditAllFound ==
  ASSUME IInv, AllFound, NEW f \in Files,
         (\E c \in Contents : rename(f, c) \/ rewrite(f, c)) \/ remove(f)
  PROVE  AllFound'
<1> SUFFICES ASSUME NEW t \in Threads PROVE FoundInv(t)'
  BY DEF AllFound
<1>1. FoundInv(t) /\ TypeInv /\ WorldInv
  BY DEF AllFound, IInv
<1>2. PICK way : Edited(f, way) /\ Edit(way, f)
  BY DEF rename, rewrite, remove, Edit, Edited
<1>3. hit[t] \subseteq hit'[t] /\ (path[t] = f => way \in hit'[t])
  BY <1>2 DEF Edited
<1>4. \A g \in Files : g # f => (disk'[g] = NoFile <=> disk[g] = NoFile)
  BY <1>1 DEF rename, rewrite, remove, WorldInv
<1>5. /\ Served(t)' = Served(t) /\ stream'[t] = stream[t] /\ path'[t] = path[t]
      /\ pc'[t] = pc[t] /\ CanOpen' = CanOpen
  BY <1>2 DEF Edited, thread, Served, CanOpen
<1>a. seen[t] \subseteq seen'[t]
  BY DEF rename, rewrite, remove, Observe
<1>6. CASE path[t] = f
  <2>1. CASE \E c \in Contents : rename(f, c)
    <3>1. disk'[f] # NoFile
      BY <1>1, <2>1 DEF rename, WorldInv, NoFile
    <3>2. "rename" \in hit'[t]
      BY <1>6, <2>1 DEF rename, Edit
    <3> QED
      BY <1>1, <1>3, <1>5, <1>a, <1>6, <3>1, <3>2 DEF FoundInv, Present
  <2>2. CASE \E c \in Contents : rewrite(f, c)
    <3>1. disk' = disk
      BY <2>2 DEF rewrite
    <3> QED
      BY <1>1, <1>3, <1>5, <1>a, <3>1 DEF FoundInv, Present
  <2>3. CASE remove(f)
    <3>1. disk'[f] = NoFile /\ "remove" \in hit'[t]
      BY <1>1, <1>6, <2>3 DEF remove, Edit, WorldInv
    <3> QED
      BY <1>1, <1>3, <1>5, <1>a, <1>6, <3>1 DEF FoundInv, Present
  <2> QED
    BY <2>1, <2>2, <2>3
<1>7. CASE path[t] # f
  <2>1. path[t] \in Present <=> path'[t] \in Present'
    BY <1>4, <1>5, <1>7 DEF Present
  <2> QED
    BY <1>1, <1>3, <1>5, <1>a, <2>1 DEF FoundInv
<1> QED
  BY <1>6, <1>7

\* A stream that is not open gets as far as 200 only past a name that is there.
LEMMA ServeAllFound ==
  ASSUME IInv, AllFound, NEW t \in Threads, Serve(t) PROVE AllFound'
<1>1. FoundInv(t) /\ TypeInv /\ WorldInv /\ ThreadInv(t)
  BY DEF AllFound, IInv
<1>2. UNCHANGED <<disk, hit>> /\ Present' = Present
  BY DEF Serve, create_handle, open_stream, open_directory, ignore_block, fetch_length,
         magic_file, copy_content_type, last_write_time, copy_block, fetch_resource_content,
         read_directory, list_others, list_files, world, history, Present
<1>3. ~CanOpen => ~CanOpen'
  BY <1>1, FilesAssumption DEF Serve, create_handle, open_stream, Opens, open_directory,
         ignore_block, fetch_length, magic_file, copy_content_type, last_write_time, copy_block,
         fetch_resource_content, read_directory, list_others, list_files, CanOpen, TypeInv
<1>4. ASSUME NEW u \in Threads \ {t} PROVE FoundInv(u)'
  <2>1. FoundInv(u)
    BY DEF AllFound
  <2>2. /\ pc'[u] = pc[u] /\ path'[u] = path[u] /\ stream'[u] = stream[u]
        /\ status'[u] = status[u] /\ seen'[u] = seen[u]
    BY <1>1 DEF Serve, TypeInv, create_handle, resource_for, no_resource, listing_for,
         open_stream, open_directory, ignore_block, fetch_length, magic_file, copy_content_type,
         last_write_time, copy_block, fetch_resource_content, read_directory, list_others,
         list_files, no_iterator, Answer, history
  <2> QED
    BY <1>2, <1>3, <2>1, <2>2 DEF FoundInv, Served
<1>5. FoundInv(t)'
  <2>1. CASE create_handle(t)
    <3>1. \/ pc'[t] = "open" /\ path'[t] \in Present \cup {"directory"}
          \/ pc'[t] = "done" /\ status'[t] = 404
      BY <1>1, <2>1 DEF create_handle, resource_for, no_resource, listing_for, TypeInv
    <3> QED
      BY <1>2, <3>1 DEF FoundInv, Opened, Served, Files
  <2>2. CASE open_stream(t)
    <3>1. path[t] \in Present => At(path[t]) \in seen[t]
      BY <1>1 DEF ThreadInv, SeenInv, Present
    <3>2. Opens(path[t]) => stream'[t] # NoFile
      BY <1>1, <2>2 DEF open_stream, Opens, TypeInv, Present
    <3>3. /\ pc[t] = "open" /\ pc'[t] = "length" /\ path'[t] = path[t] /\ path[t] \in Files
          /\ seen' = seen
      BY <1>1, <2>2 DEF open_stream, TypeInv, history
    <3>4. \/ Opens(path[t])
          \/ ~CanOpen
          \/ path[t] \in Files \ Present
          \/ ~At(path[t]).readable /\ At(path[t]) \in seen[t]
      BY <3>1, <3>3 DEF Opens
    <3> QED
      BY <1>1, <1>2, <1>3, <3>2, <3>3, <3>4 DEF FoundInv, Served
  <2>3. CASE ignore_block(t) \/ copy_block(t)
    <3>1. UNCHANGED <<pc, path, stream, status, seen>>
      BY <2>3 DEF ignore_block, copy_block, history
    <3> QED
      BY <1>1, <1>2, <1>3, <3>1 DEF FoundInv, Served
  <2>4. CASE fetch_length(t) \/ magic_file(t) \/ copy_content_type(t)
    <3>1. /\ pc[t] \in Opened /\ pc'[t] \in {"type", "copy", "mtime"}
          /\ UNCHANGED <<path, stream, seen>>
      BY <1>1, <2>4 DEF fetch_length, AfterLength, magic_file, copy_content_type, TypeInv, Opened,
                        history
    <3> QED
      BY <1>1, <1>2, <1>3, <3>1 DEF FoundInv, Served
  <2>5. CASE last_write_time(t)
    BY <1>1, <1>2, <1>3, <2>5 DEF last_write_time, TypeInv, FoundInv, Opened, Served, history
  <2>6. CASE fetch_resource_content(t)
    BY <1>1, <1>2, <1>3, <2>6 DEF fetch_resource_content, TypeInv, FoundInv, Opened, Served, history
  <2>7. CASE open_directory(t) \/ read_directory(t) \/ list_others(t) \/ list_files(t)
    <3>1. pc[t] \in Listed \cup {"open"} /\ pc'[t] \in Listed \cup {"done"} /\ path'[t] = path[t]
      BY <1>1, <2>7 DEF open_directory, read_directory, list_others, list_files, no_iterator,
                        Answer, TypeInv, Listed
    <3>2. path[t] = "directory"
      BY <1>1, <2>7, <3>1 DEF ThreadInv, PlaceInv, open_directory, read_directory, list_others,
                              list_files, Listed
    <3> QED
      BY <3>1, <3>2 DEF FoundInv, Served, Opened, Files, Listed
  <2> QED
    BY <2>1, <2>2, <2>3, <2>4, <2>5, <2>6, <2>7 DEF Serve
<1> QED
  BY <1>4, <1>5 DEF AllFound

\* A file that could not be opened is answered 200 in three cases only: it was
\* removed and put back before its date was asked for, which is what notices
\* (last_write_time in fetch_resource_header, http_filesystem_resource.cpp); the
\* server's user may not read a content the name had; or requests have used up
\* the descriptors, which they never close (http_resource.h, line 12).
THEOREM MissingFileIsAnError == Spec => []LoadedOrError
<1>1. Init => AllFound
  <2>1. Init => \A t \in Threads : pc[t] = "idle"
    BY DEF Init
  <2> QED
    BY <2>1 DEF AllFound, FoundInv, Opened, Served
<1>2. IInv /\ AllFound /\ [Next]_vars => AllFound'
  <2>1. ASSUME IInv, AllFound, UNCHANGED vars PROVE AllFound'
    BY <2>1 DEF vars, world, thread, history, AllFound, FoundInv, Served, Present, CanOpen
  <2> QED
    BY <2>1, EditAllFound, ServeAllFound DEF Next
<1>3. AllFound => LoadedOrError
  BY DEF AllFound, FoundInv, LoadedOrError
<1> QED
  BY <1>1, <1>2, <1>3, FilesInvariance, PTL DEF Spec
=============================================================================
