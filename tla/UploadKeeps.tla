---------------------------- MODULE UploadKeeps ----------------------------
(***************************************************************************)
(* UploadSync implements FileKeeping.  The places of a file are read off   *)
(* the row that names it; a file is gone once its owner gave it up or its  *)
(* row took an id that a sweep had read before.                            *)
(***************************************************************************)
EXTENDS UploadSync

GoneFiles == released \cup reused
BackedFiles(ids) == {file[r].blob : r \in {q \in ids : Backed(q)}} \ GoneFiles

Keeping == INSTANCE FileKeeping WITH
  Files <- Blobs,
  cached <- BackedFiles(Pending),
  stored <- BackedFiles(rows \ Pending),
  gone <- GoneFiles

\* Whatever requests, sweeps, crashes and failures of Drive do to rows, cache
\* and objects, each file goes through the abstract life and no other: from
\* the cache to Drive, and out of both only when it is given up.
KeepsFiles == Keeping!Spec
=============================================================================
