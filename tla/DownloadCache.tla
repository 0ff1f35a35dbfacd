--------------------------- MODULE DownloadCache ---------------------------
(***************************************************************************)
(* Serving a file: from the pending-upload cache until it is on Drive,     *)
(* then from the download cache, which is filled on demand and expires     *)
(* seven days after the last access (file_content_service.py,              *)
(* local_cache_service.py, download_file of google_drive_client.py, the    *)
(* download routes and the thumbnail route).                               *)
(*                                                                         *)
(* Nothing locks the cache.  A request tests a path, touches it and opens  *)
(* it, in three steps; the purge looks at a file's age and unlinks it, in  *)
(* two; an upload that ends and an item that is deleted unlink as well.    *)
(*                                                                         *)
(* recreated is a history variable.                                        *)
(***************************************************************************)
EXTENDS FiniteSets

CONSTANTS
  Files,     \* rows of item_files
  Getters    \* threads that serve a request

VARIABLES
  stored,     \* file -> "pending", "synced" or "deleted"
  local,      \* files whose copy is in the pending-upload cache
  cached,     \* file -> its download-cache entry: "none", "empty", "part", "whole"
  expired,    \* entries not touched for the TTL
  getter,     \* thread -> what it is doing, for which file, what it sent
  purging,    \* entries that the running purge found expired
  recreated   \* entries that a touch created

cacheVars == <<stored, local, cached, expired, getter, purging, recreated>>

CacheTypeOK ==
  /\ stored \in [Files -> {"pending", "synced", "deleted"}]
  /\ local \subseteq Files /\ purging \subseteq Files
  /\ cached \in [Files -> {"none", "empty", "part", "whole"}]
  /\ expired \subseteq {f \in Files : cached[f] # "none"}
  /\ recreated \subseteq {f \in Files : cached[f] # "none"}
  /\ getter \in [Getters ->
       [pc : {"idle", "hit", "fetch", "local", "found"}, file : Files,
        sent : {"nothing", "error", "empty", "part", "whole"}]]
  \* The only copy of a file that is not on Drive yet stays.
  /\ \A f \in Files : stored[f] = "pending" => f \in local

CacheInit ==
  /\ stored = [f \in Files |-> "pending"] /\ local = Files
  /\ cached = [f \in Files |-> "none"]
  /\ expired = {} /\ purging = {} /\ recreated = {}
  /\ \E f \in Files :
       getter = [g \in Getters |-> [pc |-> "idle", file |-> f, sent |-> "nothing"]]

Becomes(g, pc) == getter' = [getter EXCEPT ![g].pc = pc]
Ends(g, sent) == getter' = [getter EXCEPT ![g].pc = "idle", ![g].sent = sent]

\* The entry of f is written: it is new, and fresh.
Fill(f, content) ==
  /\ cached' = [cached EXCEPT ![f] = content]
  /\ expired' = expired \ {f}
  /\ recreated' = recreated \ {f}

\* The entry of f is unlinked, if there is one.
Unlink(f) ==
  /\ cached' = [cached EXCEPT ![f] = "none"]
  /\ expired' = expired \ {f}
  /\ recreated' = recreated \ {f}

-----------------------------------------------------------------------------
(* resolve_local_path, and the response that reads the path. *)

\* The row is read.  Pending: the local copy is served.  Synced: a fresh entry
\* of the download cache is, and otherwise Drive is asked.
Resolve(g, f) ==
  /\ getter[g].pc = "idle" /\ stored[f] # "deleted"
  /\ getter' = [getter EXCEPT ![g] =
       [pc |-> IF stored[f] = "pending" THEN "local"
               ELSE IF cached[f] # "none" /\ f \notin expired THEN "hit" ELSE "fetch",
        file |-> f, sent |-> "nothing"]]
  /\ UNCHANGED <<stored, local, cached, expired, purging, recreated>>

\* The row was pending when it was read; its copy may be gone by now.
LookLocal(g) ==
  /\ getter[g].pc = "local"
  /\ Ends(g, IF getter[g].file \in local THEN "whole" ELSE "error")
  /\ UNCHANGED <<stored, local, cached, expired, purging, recreated>>

\* is_download_cached touches the file it has just seen; touch() creates it if
\* it has been unlinked in between.
Touch(g) ==
  LET f == getter[g].file IN
  /\ getter[g].pc = "hit"
  /\ Becomes(g, "found")
  /\ expired' = expired \ {f}
  /\ IF cached[f] = "none"
       THEN cached' = [cached EXCEPT ![f] = "empty"] /\ recreated' = recreated \cup {f}
       ELSE UNCHANGED <<cached, recreated>>
  /\ UNCHANGED <<stored, local, purging>>

\* Mutant: the content is written to the path it will be served from.
FetchFailsHalfway(g) ==
  /\ getter[g].pc = "fetch"
  /\ Ends(g, "error")
  /\ Fill(getter[g].file, "part")
  /\ UNCHANGED <<stored, local, purging>>

\* The download fails part-way: its temporary file goes.
FetchFails(g) ==
  /\ getter[g].pc = "fetch"
  /\ Ends(g, "error")
  /\ UNCHANGED <<stored, local, cached, expired, purging, recreated>>

\* The whole content has come and the temporary file replaces the entry; the
\* file may have been deleted meanwhile.
Fetch(g) ==
  /\ getter[g].pc = "fetch"
  /\ Becomes(g, "found")
  /\ Fill(getter[g].file, "whole")
  /\ UNCHANGED <<stored, local, purging>>

\* The response opens the path; a path that is gone raises.
Send(g) ==
  LET f == getter[g].file IN
  /\ getter[g].pc = "found"
  /\ Ends(g, IF cached[f] = "none" THEN "error" ELSE cached[f])
  /\ UNCHANGED <<stored, local, cached, expired, purging, recreated>>

-----------------------------------------------------------------------------
(* The life of a file, the clock and the purge. *)

\* upload_sync_service records the object; the local copy goes afterwards.
RecordSync(f) ==
  /\ stored[f] = "pending"
  /\ stored' = [stored EXCEPT ![f] = "synced"]
  /\ UNCHANGED <<local, cached, expired, getter, purging, recreated>>
DropLocal(f) ==
  /\ stored[f] # "pending" /\ f \in local
  /\ local' = local \ {f}
  /\ UNCHANGED <<stored, cached, expired, getter, purging, recreated>>

\* delete_item: the object or the local copy goes, then the entry
\* (forget_download), then the row.
DeleteFile(f) ==
  /\ stored[f] # "deleted"
  /\ stored' = [stored EXCEPT ![f] = "deleted"]
  /\ local' = IF stored[f] = "pending" THEN local \ {f} ELSE local
  /\ IF stored[f] = "synced" THEN Unlink(f) ELSE UNCHANGED <<cached, expired, recreated>>
  /\ UNCHANGED <<getter, purging>>

\* The TTL of an entry passes.
Expire(f) ==
  /\ cached[f] # "none" /\ f \notin expired
  /\ expired' = expired \cup {f}
  /\ UNCHANGED <<stored, local, cached, getter, purging, recreated>>

\* purge_expired_downloads looks at one entry and unlinks it, not at once.
FindExpired(f) ==
  /\ f \in expired \ purging
  /\ purging' = purging \cup {f}
  /\ UNCHANGED <<stored, local, cached, expired, getter, recreated>>

\* Mutant: the purge renews what it means to remove.
PurgeKeeping(f) ==
  /\ f \in purging
  /\ purging' = purging \ {f}
  /\ expired' = expired \ {f}
  /\ UNCHANGED <<stored, local, cached, getter, recreated>>

Purge(f) ==
  /\ f \in purging
  /\ purging' = purging \ {f}
  /\ Unlink(f)
  /\ UNCHANGED <<stored, local, getter>>

CacheNext ==
  \/ \E g \in Getters : \/ \E f \in Files : Resolve(g, f)
                        \/ LookLocal(g) \/ Touch(g) \/ Fetch(g) \/ FetchFails(g)
                        \/ Send(g)
  \/ \E f \in Files : \/ RecordSync(f) \/ DropLocal(f) \/ DeleteFile(f)
                      \/ Expire(f) \/ FindExpired(f) \/ Purge(f)

\* Time passes and the purge wakes every six hours.
Cleaning(f) == Expire(f) \/ FindExpired(f) \/ Purge(f)

CacheSpec == CacheInit /\ [][CacheNext]_cacheVars
                       /\ \A f \in Files : WF_cacheVars(Cleaning(f))

-----------------------------------------------------------------------------
(* Properties. *)

\* What is sent is the whole file or an error, however downloads fail, purges
\* and deletions interleave with requests (docstring of download_file), unless
\* a touch has recreated an entry that was unlinked after it had been seen.
ServedComplete ==
  [][\A g \in Getters : getter'[g].sent # getter[g].sent =>
       getter'[g].sent \in {"nothing", "whole", "error"}
         \/ getter[g].file \in recreated]_cacheVars

\* The download cache of a deleted file is emptied in the end, although a
\* download that was running during the deletion fills it again.
CacheEmpties ==
  \A f \in Files : (stored[f] = "deleted" /\ cached[f] # "none") ~> cached[f] = "none"
=============================================================================
