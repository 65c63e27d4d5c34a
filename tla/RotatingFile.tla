---------------------------- MODULE RotatingFile ----------------------------
(***************************************************************************)
(* spdlog's rotating_file_sink over file_helper: the files on disk, the    *)
(* open stream with what stdio buffers, and a rotation as the separate     *)
(* system calls it consists of.  Any of them may fail, which is an         *)
(* exception for the caller of the sink (at = "throw"), and the process    *)
(* may go down between any two of them.  fflush and fclose may fail too,   *)
(* and nobody looks at what they return.                                   *)
(*                                                                         *)
(* Stdio writes what it buffers in order.  When it cannot, as on a full    *)
(* disk, it drops the rest: whole records, and perhaps the end of one.     *)
(***************************************************************************)
EXTENDS Naturals, Sequences, Functions

CONSTANTS
  MaxSize,     \* _max_size
  MaxFiles,    \* _max_files: rotated files that are kept
  ForceFlush,  \* the values of force_flush that sinks are made with
  Faults,      \* calls that may fail: "open", "remove", "rename", "write",
               \* and "flush" for fflush and fclose
  Bytes(_)     \* the size of a formatted record, or of a part of one

ASSUME FileAssumption ==
  /\ MaxSize \in Nat
  /\ MaxFiles \in Nat
  /\ ForceFlush \subseteq BOOLEAN /\ ForceFlush # {}
  /\ Faults \subseteq {"open", "remove", "rename", "write", "flush"}

VARIABLES
  file,      \* the files that exist, file 0 being the one written to: a
             \* function from their numbers to their records, and the parts
             \* of records that were cut, oldest first
  fd,        \* file_helper::_fd is not null
  force,     \* file_helper::_force_flush
  buffered,  \* records at the end of file 0 that are in stdio's buffer only
  sink,      \* the call of _sink_it under way: at, i (target of the rotation)
             \* and the record
  size,      \* _current_size
  lost       \* history: records that stdio had taken and then lost

fvars == <<file, fd, force, buffered, sink, size, lost>>

NoCall == [at |-> "ready", i |-> 0, rec |-> <<>>]

TotalBytes(recs) ==
  LET sum[n \in 0..Len(recs)] == IF n = 0 THEN 0 ELSE sum[n - 1] + Bytes(recs[n])
  IN  sum[Len(recs)]

\* The files, with recs in file i.
Holding(i, recs) == [j \in DOMAIN file \cup {i} |-> IF j = i THEN recs ELSE file[j]]

\* Appended to, a file is created only if there is none.
Appending == IF 0 \in DOMAIN file THEN file ELSE Holding(0, <<>>)

\* The first n bytes of a record, without the rest.
Part(rec, n) == [of |-> rec, bytes |-> n]
Parts(rec)   == {Part(rec, n) : n \in 1..(Bytes(rec) - 1)}

\* What may be left of recs when the n newest records do not arrive whole.
Salvage(recs, n) ==
  LET kept == SubSeq(recs, 1, Len(recs) - n)
  IN  {kept} \cup {Append(kept, p) : p \in Parts(recs[Len(recs) - n + 1])}

\* The n newest records of file 0.
Newest(n) == IF n = 0 THEN {} ELSE {file[0][Len(file[0]) - i] : i \in 0..(n - 1)}

\* Stdio writes what it buffers and loses the n newest records.
WriteOut(n) ==
  /\ IF n = 0 THEN file' = file
               ELSE \E recs \in Salvage(file[0], n) : file' = Holding(0, recs)
  /\ lost' = lost \cup Newest(n)
  /\ buffered' = 0

\* How many records fflush and fclose may lose.
Losses == IF "flush" \in Faults THEN 0..buffered ELSE {0}

Throw == sink' = [sink EXCEPT !.at = "throw"]

FileInit ==
  /\ file = <<>>
  /\ fd = FALSE /\ force = FALSE
  /\ buffered = 0
  /\ sink = NoCall
  /\ size = 0
  /\ lost = {}

-----------------------------------------------------------------------------
\* As open_sink, without asking for the size of a file that exists.
open_sink_no_size ==
  /\ fd' = TRUE /\ force' \in ForceFlush
  /\ file' = Appending
  /\ size' = 0
  /\ UNCHANGED <<buffered, sink, lost>>

\* As open_sink, truncating the file.
open_sink_truncate ==
  /\ fd' = TRUE /\ force' \in ForceFlush
  /\ file' = Holding(0, <<>>)
  /\ size' = 0
  /\ UNCHANGED <<buffered, sink, lost>>

\* The constructor: the file is appended to, and its size is taken once.
open_sink ==
  /\ fd' = TRUE /\ force' \in ForceFlush
  /\ file' = Appending
  /\ size' = TotalBytes(file'[0])
  /\ UNCHANGED <<buffered, sink, lost>>

\* _sink_it counts the record first and closes the file when that is too
\* much; fclose writes what is buffered.
sink_it(rec) ==
  /\ sink.at = "ready"
  /\ size' = size + Bytes(rec)
  /\ \/ /\ size' > MaxSize
        /\ sink' = [at |-> "rotate", i |-> MaxFiles, rec |-> rec]
        /\ fd' = FALSE /\ \E n \in Losses : WriteOut(n)
     \/ /\ size' <= MaxSize
        /\ sink' = [at |-> "write", i |-> 0, rec |-> rec]
        /\ UNCHANGED <<file, fd, buffered, lost>>
  /\ UNCHANGED force

\* _rotate, from the oldest file to the newest: the target is removed, if it
\* exists, and the file below it takes its name, if there is one.
remove ==
  /\ sink.at = "rotate" /\ sink.i > 0
  /\ sink.i \in DOMAIN file
  /\ \/ file' = Restrict(file, DOMAIN file \ {sink.i}) /\ UNCHANGED sink
     \/ "remove" \in Faults /\ Throw /\ UNCHANGED file
  /\ UNCHANGED <<fd, force, buffered, size, lost>>

rename ==
  /\ sink.at = "rotate" /\ sink.i > 0
  /\ sink.i \notin DOMAIN file
  /\ \/ /\ sink.i - 1 \in DOMAIN file
        /\ file' = Restrict(Holding(sink.i, file[sink.i - 1]),
                            (DOMAIN file \cup {sink.i}) \ {sink.i - 1})
        /\ sink' = [sink EXCEPT !.i = @ - 1]
     \/ /\ sink.i - 1 \notin DOMAIN file
        /\ sink' = [sink EXCEPT !.i = @ - 1]
        /\ UNCHANGED file
     \/ /\ sink.i - 1 \in DOMAIN file
        /\ "rename" \in Faults /\ Throw /\ UNCHANGED file
  /\ UNCHANGED <<fd, force, buffered, size, lost>>

\* file_helper::reopen(true): five attempts, then an exception with _fd null.
reopen ==
  /\ sink.at = "rotate" /\ sink.i = 0
  /\ \/ /\ file' = Holding(0, <<>>)
        /\ fd' = TRUE
        /\ size' = Bytes(sink.rec)
        /\ sink' = [sink EXCEPT !.at = "write"]
     \/ "open" \in Faults /\ Throw /\ UNCHANGED <<file, fd, size>>
  /\ UNCHANGED <<force, buffered, lost>>

\* fwrite, and fflush with _force_flush; fwrite fails with what it has to
\* write out first, and only its own record is known to be missing then.
write ==
  /\ sink.at = "write"
  /\ \/ /\ file' = [file EXCEPT ![0] = Append(@, sink.rec)]
        /\ buffered' = IF force THEN 0 ELSE buffered + 1
        /\ sink' = NoCall
        /\ UNCHANGED lost
     \/ /\ force /\ "flush" \in Faults
        /\ \E recs \in Salvage(Append(file[0], sink.rec), 1) : file' = Holding(0, recs)
        /\ lost' = lost \cup {sink.rec}
        /\ sink' = NoCall
        /\ UNCHANGED buffered
     \/ /\ "write" \in Faults
        /\ \E n \in 0..buffered :
             /\ \E recs \in Salvage(Append(file[0], sink.rec), n + 1) : file' = Holding(0, recs)
             /\ lost' = lost \cup Newest(n)
        /\ buffered' = 0
        /\ Throw
  /\ UNCHANGED <<fd, force, size>>

Sinking == remove \/ rename \/ reopen \/ write

\* file_helper::flush
flush_file ==
  /\ \E n \in Losses : WriteOut(n)
  /\ UNCHANGED <<fd, force, sink, size>>

\* The stream is gone, with the process or by fclose; the n newest of the
\* records it buffered have not got into the file.
end_file(n) ==
  /\ WriteOut(n)
  /\ fd' = FALSE /\ force' = FALSE /\ sink' = NoCall /\ size' = 0

-----------------------------------------------------------------------------
FileTypeOK ==
  /\ DOMAIN file \subseteq 0..MaxFiles
  /\ fd \in BOOLEAN
  /\ sink.at \in {"ready", "rotate", "write", "throw"} /\ sink.i \in 0..MaxFiles
  /\ fd => 0 \in DOMAIN file /\ buffered \in 0..Len(file[0])
  /\ force \in BOOLEAN /\ (force => buffered = 0)
  /\ size \in Nat
  \* fwrite is never called with a null stream
  /\ sink.at = "write" => fd

(***************************************************************************)
(* No file grows beyond max_size, across rotations that failed half-way,   *)
(* records that were cut and restarts, but for a single record that is     *)
(* larger itself, or a part of one.                                        *)
(***************************************************************************)
FileBound ==
  \A i \in DOMAIN file : Len(file[i]) > 1 => TotalBytes(file[i]) <= MaxSize
=============================================================================
