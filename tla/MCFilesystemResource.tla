------------------------ MODULE MCFilesystemResource ------------------------
(* FilesystemResource for TLC: what the files of each run may hold.        *)
EXTENDS FilesystemResource, TLC

ReadableContents ==
  {[len |-> 1, type |-> "text", readable |-> TRUE],
   [len |-> 2, type |-> "image", readable |-> TRUE]}

SomeUnreadable ==
  {[len |-> 1, type |-> "text", readable |-> TRUE],
   [len |-> 1, type |-> "text", readable |-> FALSE]}

ThreadSymmetry == Permutations(Threads)

=============================================================================
