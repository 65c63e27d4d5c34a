------------------------- MODULE FilesystemResource -------------------------
(***************************************************************************)
(* Files and directories served to several worker threads:                 *)
(* http_filesystem_resource_factory::create_handle,                        *)
(* http_filesystem_resource::execute and http_directory_listing, while     *)
(* another process edits the files.                                        *)
(*                                                                         *)
(* Each step is a system call or a libmagic call, so edits and the other   *)
(* threads come between any two; a stream is read block by block.  The     *)
(* site is one directory that holds "page" and "index" (index.html).       *)
(*                                                                         *)
(* http_resource has no virtual destructor, so the stream of a resource is *)
(* never closed: each request leaves one more descriptor open.             *)
(***************************************************************************)
EXTENDS Integers, Sequences

CONSTANTS
  Threads,   \* worker threads, each of which serves one request
  Contents,  \* what a file may hold: its length in blocks, its type, whether
             \* the server's user may read it
  Editor,    \* the ways files are edited, a subset of
             \* {"rename", "rewrite", "remove"}
  MaxEdits,  \* bound: edits
  MaxOpen,   \* the descriptors the process may have open for its files
  LibMagic   \* HAVE_LIBMAGIC is defined and the database was found

ASSUME FilesAssumption ==
  /\ Contents \subseteq [len : Nat, type : {"text", "image"}, readable : BOOLEAN]
  /\ Editor \subseteq {"rename", "rewrite", "remove"}
  /\ MaxEdits \in Nat
  /\ MaxOpen \in Nat
  /\ LibMagic \in BOOLEAN

Files  == {"page", "index"}
Inodes == 1..(2 + MaxEdits)
NoFile == 0

VARIABLES
  disk,    \* disk[f]: the inode the name f has, or NoFile
  inode,   \* the contents of the inodes used so far
  edits,   \* edits made
  descriptors,  \* descriptors that are open and stay so
  buffer,  \* the string inside the magic_set all threads share
  pc, req, \* the thread's place and its request
  path,    \* the file its resource was made for
  stream,  \* the inode stream_ is open on, NoFile when it is on none
  counted, \* the blocks ignore() has passed
  header,  \* <<>> or <<[len, type]>>
  body,    \* what the message body is made of: the blocks of a file, each with
           \* the content it was read from, or a listing
  status,  \* 0, or the response's status
  seen,    \* history: contents path has had since the resource was looked up
  hit      \* history: the ways path was edited since then

world  == <<disk, inode, edits>>
thread == <<pc, req, path, stream, counted, header, body, status>>
history == <<seen, hit>>
vars   == <<world, descriptors, buffer, thread, history>>

Request == [target : {"page", "directory"}, method : {"GET", "HEAD"}]
NoRequest == [target |-> "none", method |-> "none"]
Listing == [files : SUBSET Files, others : SUBSET Files]

TypeOK ==
  /\ disk   \in [Files -> {NoFile} \cup Inodes]
  /\ inode  \in Seq(Contents) /\ \A f \in Files : disk[f] <= Len(inode)
  /\ edits  \in 0..MaxEdits
  /\ descriptors \in 0..MaxOpen
  /\ buffer \in {"text", "image"}
  /\ pc     \in [Threads -> {"idle", "open", "length", "type", "copy", "mtime",
                             "content", "directory", "others", "files", "done"}]
  /\ req    \in [Threads -> Request \cup {NoRequest}]
  /\ path   \in [Threads -> Files \cup {"directory", "none"}]
  /\ stream \in [Threads -> 0..Len(inode)]
  /\ counted \in [Threads -> Nat]
  /\ status \in [Threads -> {0, 200, 404, 500}]
  /\ \A t \in Threads :
       /\ Len(header[t]) <= 1
       /\ \A i \in DOMAIN header[t] :
            header[t][i] \in [len : Nat, type : {"text", "image"}]
       /\ \A i \in DOMAIN body[t] : body[t][i] \in Contents \cup Listing
       /\ seen[t] \subseteq Contents
       /\ hit[t] \subseteq Editor

Init ==
  /\ \E p, i \in Contents :
       /\ inode = <<p, i>>
       /\ \E there \in SUBSET Files :
            disk = [f \in Files |-> IF f \notin there THEN NoFile
                                    ELSE IF f = "page" THEN 1 ELSE 2]
  /\ edits  = 0
  /\ descriptors \in 0..MaxOpen
  /\ buffer = "text"
  /\ pc     = [t \in Threads |-> "idle"]
  /\ req    = [t \in Threads |-> NoRequest]
  /\ path   = [t \in Threads |-> "none"]
  /\ stream = [t \in Threads |-> NoFile]
  /\ counted = [t \in Threads |-> 0]
  /\ header = [t \in Threads |-> <<>>]
  /\ body   = [t \in Threads |-> <<>>]
  /\ status = [t \in Threads |-> 0]
  /\ seen   = [t \in Threads |-> {}]
  /\ hit    = [t \in Threads |-> {}]

Present == {f \in Files : disk[f] # NoFile}
At(f)   == inode[disk[f]]

-----------------------------------------------------------------------------
(* The editor.                                                             *)

Edit(way, f) ==
  /\ way \in Editor
  /\ edits < MaxEdits
  /\ edits' = edits + 1
  /\ hit' = [t \in Threads |-> IF path[t] = f THEN hit[t] \cup {way} ELSE hit[t]]
  /\ UNCHANGED <<descriptors, buffer, thread>>

\* What a request that is under way could have found under its name.
Observe(f, c) ==
  seen' = [t \in Threads |-> IF path[t] = f THEN seen[t] \cup {c} ELSE seen[t]]

\* A new file is moved over the name; whoever has the old one open keeps it.
rename(f, c) ==
  /\ Edit("rename", f)
  /\ inode' = Append(inode, c)
  /\ disk'  = [disk EXCEPT ![f] = Len(inode) + 1]
  /\ Observe(f, c)

\* The file is written in place; whoever has it open sees the new content.
rewrite(f, c) ==
  /\ Edit("rewrite", f)
  /\ f \in Present
  /\ inode' = [inode EXCEPT ![disk[f]] = c]
  /\ Observe(f, c)
  /\ UNCHANGED disk

remove(f) ==
  /\ Edit("remove", f)
  /\ f \in Present
  /\ disk' = [disk EXCEPT ![f] = NoFile]
  /\ UNCHANGED <<inode, seen>>

-----------------------------------------------------------------------------
(* create_handle                                                           *)

\* The resource is made for file f.
resource_for(t, f) ==
  /\ pc'   = [pc EXCEPT ![t] = "open"]
  /\ path' = [path EXCEPT ![t] = f]
  /\ seen' = [seen EXCEPT ![t] = {At(f)}]
  /\ UNCHANGED status

no_resource(t) ==
  /\ pc'     = [pc EXCEPT ![t] = "done"]
  /\ status' = [status EXCEPT ![t] = 404]
  /\ UNCHANGED <<path, history>>

listing_for(t) ==
  /\ pc'   = [pc EXCEPT ![t] = "open"]
  /\ path' = [path EXCEPT ![t] = "directory"]
  /\ UNCHANGED <<status, history>>

create_handle(t) ==
  /\ pc[t] = "idle"
  /\ \E r \in Request :
       /\ req' = [req EXCEPT ![t] = r]
       /\ \/ /\ r.target = "page"
             /\ "page" \in Present
             /\ resource_for(t, "page")
          \/ /\ r.target = "page"
             /\ "page" \notin Present
             /\ no_resource(t)
          \/ /\ r.target = "directory"
             /\ "index" \in Present
             /\ resource_for(t, "index")
          \/ /\ r.target = "directory"
             /\ "index" \notin Present
             /\ listing_for(t)
  /\ UNCHANGED <<world, descriptors, buffer, stream, counted, header, body, hit>>

CanOpen == descriptors < MaxOpen

\* The file can be opened by its name.
Opens(f) == CanOpen /\ f \in Present /\ At(f).readable

\* Mutant: a stream another thread has open on the file is used again.
open_stream_reuse(t) ==
  /\ pc[t] = "open"
  /\ path[t] \in Files
  /\ \E i \in {disk[path[t]]} \cup {stream[u] : u \in {v \in Threads : path[v] = path[t]}} :
       i # NoFile /\ stream' = [stream EXCEPT ![t] = i]
  /\ pc' = [pc EXCEPT ![t] = "length"]
  /\ UNCHANGED <<world, descriptors, buffer, req, path, counted, header, body, status, history>>

\* The constructor's stream_(request_uri, ...); its failure goes unnoticed.
open_stream(t) ==
  /\ pc[t] = "open"
  /\ path[t] \in Files
  /\ \/ /\ Opens(path[t])
        /\ stream' = [stream EXCEPT ![t] = disk[path[t]]]
        /\ descriptors' = descriptors + 1
     \/ /\ ~Opens(path[t])
        /\ UNCHANGED <<stream, descriptors>>
  /\ pc' = [pc EXCEPT ![t] = "length"]
  /\ UNCHANGED <<world, buffer, req, path, counted, header, body, status, history>>

\* A listing has its stream on the directory, and never reads from it.
open_directory(t) ==
  /\ pc[t] = "open"
  /\ path[t] = "directory"
  /\ descriptors' = IF CanOpen THEN descriptors + 1 ELSE descriptors
  /\ pc' = [pc EXCEPT ![t] = "directory"]
  /\ UNCHANGED <<world, buffer, req, path, stream, counted, header, body, status, history>>

-----------------------------------------------------------------------------
(* http_filesystem_resource::execute: fetch_resource_header and            *)
(* get_content_type, fetch_resource_content.                               *)

\* The blocks there are to read now; a stream that is not open has none.
StreamLength(t) == IF stream[t] = NoFile THEN 0 ELSE inode[stream[t]].len

\* ignore() passes a block ...
ignore_block(t) ==
  /\ pc[t] = "length"
  /\ counted[t] < StreamLength(t)
  /\ counted' = [counted EXCEPT ![t] = @ + 1]
  /\ UNCHANGED <<world, descriptors, buffer, pc, req, path, stream, header, body, status,
                 history>>

AfterLength == IF LibMagic THEN "type" ELSE "mtime"

\* Mutant: the length of whatever has the name by now.
fetch_length_by_name(t) ==
  /\ pc[t] = "length"
  /\ header' = [header EXCEPT ![t] =
       <<[len |-> IF path[t] \in Present THEN At(path[t]).len ELSE 0, type |-> "text"]>>]
  /\ pc'     = [pc EXCEPT ![t] = AfterLength]
  /\ UNCHANGED <<world, descriptors, buffer, req, path, stream, counted, body, status, history>>

\* ... and at the end gcount() is the length.
fetch_length(t) ==
  /\ pc[t] = "length"
  /\ counted[t] >= StreamLength(t)
  /\ header' = [header EXCEPT ![t] = <<[len |-> counted[t], type |-> "text"]>>]
  /\ pc'     = [pc EXCEPT ![t] = AfterLength]
  /\ UNCHANGED <<world, descriptors, buffer, req, path, stream, counted, body, status, history>>

\* magic_file writes the handle's buffer and returns it; with MAGIC_ERROR it
\* returns nullptr for a file it cannot open, and "text/plain" stays.
magic_file(t) ==
  /\ pc[t] = "type"
  /\ \/ /\ Opens(path[t])
        /\ buffer' = At(path[t]).type
        /\ pc' = [pc EXCEPT ![t] = "copy"]
     \/ /\ ~Opens(path[t])
        /\ pc' = [pc EXCEPT ![t] = "mtime"]
        /\ UNCHANGED buffer
  /\ UNCHANGED <<world, descriptors, req, path, stream, counted, header, body, status, history>>

\* content_type = raw_content_type;
copy_content_type(t) ==
  /\ pc[t] = "copy"
  /\ header' = [header EXCEPT ![t] = <<[@[1] EXCEPT !.type = buffer]>>]
  /\ pc'     = [pc EXCEPT ![t] = "mtime"]
  /\ UNCHANGED <<world, descriptors, buffer, req, path, stream, counted, body, status, history>>

\* Mutant: a name that is gone gives the file no date, and no error.
last_write_time_noexcept(t) ==
  /\ pc[t] = "mtime"
  /\ \/ /\ req[t].method = "GET"
        /\ pc' = [pc EXCEPT ![t] = "content"]
        /\ UNCHANGED status
     \/ /\ req[t].method # "GET"
        /\ status' = [status EXCEPT ![t] = 200]
        /\ pc'     = [pc EXCEPT ![t] = "done"]
  /\ UNCHANGED <<world, descriptors, buffer, req, path, stream, counted, header, body, history>>

\* last_write_time throws when the name is gone: the header is dropped and
\* http_service::execute answers 500.
last_write_time(t) ==
  /\ pc[t] = "mtime"
  /\ \/ /\ path[t] \notin Present
        /\ header' = [header EXCEPT ![t] = <<>>]
        /\ status' = [status EXCEPT ![t] = 500]
        /\ pc'     = [pc EXCEPT ![t] = "done"]
     \/ /\ path[t] \in Present
        /\ req[t].method = "GET"
        /\ pc' = [pc EXCEPT ![t] = "content"]
        /\ UNCHANGED <<header, status>>
     \/ /\ path[t] \in Present
        /\ req[t].method # "GET"
        /\ status' = [status EXCEPT ![t] = 200]
        /\ pc'     = [pc EXCEPT ![t] = "done"]
        /\ UNCHANGED header
  /\ UNCHANGED <<world, descriptors, buffer, req, path, stream, counted, body, history>>

\* std::copy over the stream's iterators reads a block at a time ...
copy_block(t) ==
  /\ pc[t] = "content"
  /\ Len(body[t]) < StreamLength(t)
  /\ body' = [body EXCEPT ![t] = Append(@, inode[stream[t]])]
  /\ UNCHANGED <<world, descriptors, buffer, pc, req, path, stream, counted, header, status,
                 history>>

\* ... to the end of what is there by then.
fetch_resource_content(t) ==
  /\ pc[t] = "content"
  /\ Len(body[t]) >= StreamLength(t)
  /\ status' = [status EXCEPT ![t] = 200]
  /\ pc'     = [pc EXCEPT ![t] = "done"]
  /\ UNCHANGED <<world, descriptors, buffer, req, path, stream, counted, header, body, history>>

-----------------------------------------------------------------------------
(* http_directory_listing.  The directory is opened and read three times;  *)
(* the second pass lists directories, of which there are none.             *)

Answer(t, s) ==
  /\ status' = [status EXCEPT ![t] = s]
  /\ pc'     = [pc EXCEPT ![t] = "done"]

\* directory_iterator throws when there is no descriptor to read with, and
\* what was listed goes with the local stream.
no_iterator(t) ==
  /\ ~CanOpen
  /\ body' = [body EXCEPT ![t] = <<>>]
  /\ Answer(t, 500)

\* The first pass reads the directory's entries ...
read_directory(t) ==
  /\ pc[t] = "directory"
  /\ \/ /\ req[t].method # "GET"
        /\ Answer(t, 200)
        /\ UNCHANGED body
     \/ /\ req[t].method = "GET"
        /\ CanOpen
        /\ body' = [body EXCEPT ![t] = <<[files |-> {}, others |-> Present]>>]
        /\ pc'   = [pc EXCEPT ![t] = "others"]
        /\ UNCHANGED status
     \/ /\ req[t].method = "GET"
        /\ no_iterator(t)
  /\ UNCHANGED <<world, descriptors, buffer, req, path, stream, counted, header, history>>

\* ... and lists as "[?]" those that are gone when their type is asked for.
list_others(t) ==
  /\ pc[t] = "others"
  /\ body' = [body EXCEPT ![t] = <<[body[t][1] EXCEPT !.others = @ \ Present]>>]
  /\ pc'   = [pc EXCEPT ![t] = "files"]
  /\ UNCHANGED <<world, descriptors, buffer, req, path, stream, counted, header, status, history>>

list_files(t) ==
  /\ pc[t] = "files"
  /\ \/ /\ CanOpen
        /\ body' = [body EXCEPT ![t] = <<[@[1] EXCEPT !.files = Present]>>]
        /\ Answer(t, 200)
     \/ no_iterator(t)
  /\ UNCHANGED <<world, descriptors, buffer, req, path, stream, counted, header, history>>

-----------------------------------------------------------------------------

Serve(t) ==
  \/ create_handle(t)
  \/ open_stream(t)
  \/ open_directory(t)
  \/ ignore_block(t)
  \/ fetch_length(t)
  \/ magic_file(t)
  \/ copy_content_type(t)
  \/ last_write_time(t)
  \/ copy_block(t)
  \/ fetch_resource_content(t)
  \/ read_directory(t)
  \/ list_others(t)
  \/ list_files(t)

Next ==
  \/ \E t \in Threads : Serve(t)
  \/ \E f \in Files, c \in Contents : rename(f, c) \/ rewrite(f, c)
  \/ \E f \in Files : remove(f)

Spec == Init /\ [][Next]_vars

-----------------------------------------------------------------------------
(* Properties                                                              *)

Served(t) == pc[t] = "done" /\ status[t] = 200 /\ path[t] \in Files
ServedBody(t) == Served(t) /\ req[t].method = "GET"

\* The file with content c, read from its first block to its last.
Blocks(c) == [i \in 1..c.len |-> c]

\* The Content-Length of a response to GET is the length of its body, also when
\* the file is replaced or removed between the header's pass over the stream
\* and the content's (http_filesystem_resource.cpp, lines 37-44 and 55-60).
LengthMatchesBody ==
  \A t \in Threads :
    ServedBody(t) /\ "rewrite" \notin hit[t] => header[t][1].len = Len(body[t])

\* A file that is served is, block for block, one its name stood for during the
\* request (http_filesystem_resource.cpp, lines 14 and 58); if it was written in
\* place meanwhile, each block is of some content that the name stood for, but
\* the blocks may be of several.
ServedVersionExisted ==
  \A t \in Threads : ServedBody(t) /\ stream[t] # NoFile =>
    /\ \A i \in DOMAIN body[t] : body[t][i] \in seen[t]
    /\ "rewrite" \notin hit[t] => \E c \in seen[t] : body[t] = Blocks(c)

\* A file that could not be opened is answered with an error (http_service.cpp,
\* line 127), but for three cases that the code answers with 200 and an empty
\* body: it is there again when its date is asked for, the server's user may not
\* read it, or the descriptors that requests leave open have used up the
\* process's (http_resource.h, line 12).
LoadedOrError ==
  \A t \in Threads : Served(t) /\ stream[t] = NoFile =>
    \/ {"remove", "rename"} \subseteq hit[t]
    \/ \E c \in seen[t] : ~c.readable
    \/ ~CanOpen

\* A file that is there all the time is served with its content, whatever was
\* requested before (http_filesystem_resource.cpp, line 14).
PresentFileIsServed ==
  \A t \in Threads : ServedBody(t) /\ hit[t] = {} => \E c \in seen[t] : body[t] = Blocks(c)

\* A file is served as one version also when it is written in place
\* (http_filesystem_resource.cpp, line 58).
ServedWhole ==
  \A t \in Threads :
    ServedBody(t) /\ stream[t] # NoFile => \E c \in seen[t] : body[t] = Blocks(c)

\* The length of a response is that of its body even if the file is written
\* in place meanwhile (http_filesystem_resource.cpp, line 38).
LengthIsReliable ==
  \A t \in Threads : ServedBody(t) => header[t][1].len = Len(body[t])

\* As long as nobody edits the files, HEAD and GET of one file that both could
\* open give the same header (method.cpp, line 42), in whatever threads they run.
HeadMatchesGet ==
  \A t, u \in Threads :
    edits = 0 /\ Served(t) /\ Served(u) /\ stream[t] = stream[u] /\ stream[t] # NoFile
      => header[t] = header[u]

=============================================================================
