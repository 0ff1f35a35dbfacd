---------------------------- MODULE ChunkedUpload ----------------------------
(***************************************************************************)
(* Uploads too large for one request (chunked_upload_service.py, its three *)
(* routes and the page's script).  The browser opens a session, posts the  *)
(* file's chunks one after the other and asks for the file to be put       *)
(* together.  Four actors touch a session: the handler of the chunk being  *)
(* received (a coroutine), the handler of /complete (a thread), the purge  *)
(* of old sessions (another thread) and the rmtree that whoever pops the   *)
(* session from the table performs; the lock protects the table only, not  *)
(* the directory.                                                          *)
(*                                                                         *)
(* Sizes are counted in pieces, the units request.stream() yields; a part  *)
(* on the disk is the number of pieces written so far.                     *)
(***************************************************************************)
EXTENDS Integers, Sequences, FiniteSets

CONSTANTS
  Uploads,      \* upload ids: one per attempt of a browser to upload a file
  Files,        \* the files a user may pick, records of FileRecord
  ChunkSize,    \* CHUNK_SIZE_MB
  MaxSize,      \* the largest file the settings allow
  NoUpload      \* no upload

\* "declared" is the size sent to /init, which a client may state wrongly; a
\* "slow" upload may last longer than the session's TTL.
FileRecord ==
  [size : Nat, declared : Nat, kind : {"good", "mismatched", "disallowed"},
   slow : BOOLEAN]

ASSUME ConstantsOK ==
  /\ Files \subseteq FileRecord
  /\ ChunkSize \in Nat \ {0} /\ MaxSize \in Nat
  /\ NoUpload \notin Uploads

VARIABLES
  file,       \* the file each upload is about
  client,     \* the browser: where it is, the next chunk, why it gave up
  sessions,   \* _sessions: the uploads in the table
  aged,       \* sessions whose created_at is older than the TTL
  dirs,       \* the session directories on the disk
  parts,      \* the .part files of each directory, by chunk index
  writer,     \* the handler of the chunk being received
  completer,  \* the handler of /complete
  clearing,   \* the rmtree of each session directory
  purge,      \* purge_stale_sessions: ids left to abort, the one being aborted
  handed,     \* what each ValidatedUpload contains: its parts in order
  restarted   \* whether the restart has happened

disk     == <<dirs, parts>>
table    == <<sessions, aged>>
vars     == <<file, client, table, disk, writer, completer, clearing, purge,
              handed, restarted>>

-----------------------------------------------------------------------------
(* The browser's arithmetic and the server's view of a directory. *)

NChunks(u)    == (file[u].size + ChunkSize - 1) \div ChunkSize
PartLen(u, i) == IF (i + 1) * ChunkSize <= file[u].size
                   THEN ChunkSize
                   ELSE file[u].size - i * ChunkSize

\* What lies in the directory, piece by piece.
Pieces(u) == UNION {{i} \X (1 .. parts[u][i]) : i \in DOMAIN parts[u]}

\* The sum over "*.part" of their sizes.
Received(u) == Cardinality(Pieces(u))

WithPart(p, i, n)  == [j \in DOMAIN p \cup {i} |-> IF j = i THEN n ELSE p[j]]
WithoutPart(p, i)  == [j \in DOMAIN p \ {i} |-> p[j]]

NoParts     == [i \in {} |-> 0]
IdleWriter  == [at |-> "idle", size |-> 0, already |-> 0]
IdleMaker   == [at |-> "idle", todo |-> {}, copied |-> <<>>, answer |-> "none"]
NotClearing == [at |-> "no", todo |-> {}]
IdlePurge   == [todo |-> {}, at |-> NoUpload]
Nothing     == <<>>

\* The chunks 0, 1, ... of a file, each with all its bytes.
WholeFile(u) == [k \in 1 .. NChunks(u) |-> <<k - 1, PartLen(u, k - 1)>>]

Init ==
  /\ file \in [Uploads -> Files]
  /\ client = [u \in Uploads |-> [at |-> "start", next |-> 0, why |-> "none"]]
  /\ sessions = {} /\ aged = {} /\ dirs = {}
  /\ parts = [u \in Uploads |-> NoParts]
  /\ writer = [u \in Uploads |-> IdleWriter]
  /\ completer = [u \in Uploads |-> IdleMaker]
  /\ clearing = [u \in Uploads |-> NotClearing]
  /\ purge = IdlePurge
  /\ handed = [u \in Uploads |-> Nothing]
  /\ restarted = FALSE

-----------------------------------------------------------------------------
(* The browser. *)

\* The answer of a request reaches the browser, unless it has given up.
Fails(u, why) ==
  IF client[u].at \in {"waiting", "finishing"}
    THEN [client EXCEPT ![u].at = "failed", ![u].why = why]
    ELSE client

\* Mutant: the session directory is left to the first chunk.
InitSessionNoDir(u) ==
  /\ client[u].at = "start"
  /\ file[u].kind # "disallowed" /\ file[u].declared \in 1 .. MaxSize
  /\ client' = [client EXCEPT ![u].at = "sending"]
  /\ sessions' = sessions \cup {u}
  /\ UNCHANGED <<file, aged, disk, writer, completer, clearing, purge, handed,
                 restarted>>

\* POST /init: the checks of the declared name and size, then a session.
InitSession(u) ==
  /\ client[u].at = "start"
  /\ file[u].kind # "disallowed"
  /\ file[u].declared \in 1 .. MaxSize
  /\ client' = [client EXCEPT ![u].at = "sending"]
  /\ sessions' = sessions \cup {u}
  /\ dirs' = dirs \cup {u}
  /\ UNCHANGED <<file, aged, parts, writer, completer, clearing, purge, handed,
                 restarted>>

RefuseInit(u) ==
  /\ client[u].at = "start"
  /\ file[u].kind = "disallowed" \/ file[u].declared \notin 1 .. MaxSize
  /\ client' = [client EXCEPT ![u].at = "failed", ![u].why = "refused"]
  /\ UNCHANGED <<file, table, disk, writer, completer, clearing, purge, handed,
                 restarted>>

SendChunk(u) ==
  /\ client[u].at = "sending" /\ client[u].next < NChunks(u)
  /\ client' = [client EXCEPT ![u].at = "waiting"]
  /\ writer' = [writer EXCEPT ![u].at = "arrived"]
  /\ UNCHANGED <<file, table, disk, completer, clearing, purge, handed, restarted>>

SendComplete(u) ==
  /\ client[u].at = "sending" /\ client[u].next = NChunks(u)
  /\ client' = [client EXCEPT ![u].at = "finishing"]
  /\ completer' = [completer EXCEPT ![u].at = "arrived"]
  /\ UNCHANGED <<file, table, disk, writer, clearing, purge, handed, restarted>>

\* The tab is closed or the network drops; a handler at work is not told.
Disconnect(u) ==
  /\ client[u].at \in {"sending", "waiting", "finishing"}
  /\ client' = [client EXCEPT ![u].at = "failed", ![u].why = "lost"]
  /\ UNCHANGED <<file, table, disk, writer, completer, clearing, purge, handed,
                 restarted>>

-----------------------------------------------------------------------------
(* write_chunk.  Nothing is awaited before the part is open, but the        *)
(* threads of /complete and of the purge do not wait for the event loop.    *)

BeginChunk(u) ==
  /\ writer[u].at = "arrived"
  /\ IF u \in sessions
       THEN /\ writer' = [writer EXCEPT ![u].at = "looked", ![u].already = Received(u)]
            /\ UNCHANGED client
       ELSE /\ writer' = [writer EXCEPT ![u] = IdleWriter]
            /\ client' = Fails(u, "gone")
  /\ UNCHANGED <<file, table, disk, completer, clearing, purge, handed, restarted>>

\* open(chunk_path, "wb") creates or truncates the part.
OpenPart(u) ==
  /\ writer[u].at = "looked"
  /\ u \in dirs
  /\ parts' = [parts EXCEPT ![u] = WithPart(@, client[u].next, 0)]
  /\ writer' = [writer EXCEPT ![u].at = "writing", ![u].size = 0]
  /\ UNCHANGED <<file, client, table, dirs, completer, clearing, purge, handed,
                 restarted>>

OpenPartFails(u) ==
  /\ writer[u].at = "looked"
  /\ u \notin dirs
  /\ writer' = [writer EXCEPT ![u] = IdleWriter]
  /\ client' = Fails(u, "error")
  /\ UNCHANGED <<file, table, disk, completer, clearing, purge, handed, restarted>>

MoreToCome(u) ==
  writer[u].at = "writing" /\ writer[u].size < PartLen(u, client[u].next)

\* Mutant: a file of exactly the largest size is over the limit.
OverLimitInclusive(u) == writer[u].already + writer[u].size + 1 >= MaxSize

OverLimit(u) == writer[u].already + writer[u].size + 1 > MaxSize

\* A piece goes to the open file, whether or not rmtree unlinked its name.
WritePiece(u) ==
  LET i == client[u].next
      n == writer[u].size + 1
  IN /\ MoreToCome(u) /\ ~OverLimit(u)
     /\ writer' = [writer EXCEPT ![u].size = n]
     /\ parts' = IF i \in DOMAIN parts[u]
                   THEN [parts EXCEPT ![u] = WithPart(@, i, n)]
                   ELSE parts
     /\ UNCHANGED <<file, client, table, dirs, completer, clearing, purge, handed,
                    restarted>>

RejectPiece(u) ==
  /\ MoreToCome(u) /\ OverLimit(u)
  /\ parts' = [parts EXCEPT ![u] = WithoutPart(@, client[u].next)]
  /\ writer' = [writer EXCEPT ![u] = IdleWriter]
  /\ client' = Fails(u, "limit")
  /\ UNCHANGED <<file, table, dirs, completer, clearing, purge, handed, restarted>>

\* ClientDisconnect before the body is complete: the part is unlinked.
LoseChunk(u) ==
  /\ MoreToCome(u) /\ client[u].at = "failed"
  /\ parts' = [parts EXCEPT ![u] = WithoutPart(@, client[u].next)]
  /\ writer' = [writer EXCEPT ![u] = IdleWriter]
  /\ UNCHANGED <<file, client, table, dirs, completer, clearing, purge, handed,
                 restarted>>

EndChunk(u) ==
  /\ writer[u].at = "writing" /\ ~MoreToCome(u)
  /\ writer' = [writer EXCEPT ![u] = IdleWriter]
  /\ client' = IF client[u].at = "waiting"
                 THEN [client EXCEPT ![u].at = "sending", ![u].next = @ + 1]
                 ELSE client
  /\ UNCHANGED <<file, table, disk, completer, clearing, purge, handed, restarted>>

-----------------------------------------------------------------------------
(* complete_session.  The size is compared once, before the parts are      *)
(* listed and read.                                                        *)

Aborting(u, answer) ==
  completer' = [completer EXCEPT ![u].at = "aborting", ![u].answer = answer]

CheckComplete(u) ==
  /\ completer[u].at = "arrived"
  /\ \/ /\ u \notin sessions
        /\ completer' = [completer EXCEPT ![u].at = "ending", ![u].answer = "gone"]
     \/ /\ u \in sessions /\ Received(u) # file[u].declared
        /\ Aborting(u, "incomplete")
     \/ /\ u \in sessions /\ Received(u) = file[u].declared
        /\ completer' = [completer EXCEPT ![u].at = "matched"]
  /\ UNCHANGED <<file, client, table, disk, writer, clearing, purge, handed, restarted>>

\* glob("*.part"): the names there are now.
ListParts(u) ==
  /\ completer[u].at = "matched"
  /\ completer' = [completer EXCEPT ![u].at = "copying", ![u].todo = DOMAIN parts[u]]
  /\ UNCHANGED <<file, client, table, disk, writer, clearing, purge, handed, restarted>>

\* Mutant: a part that cannot be opened counts as an empty one.
CopyPartLenient(u) ==
  /\ completer[u].at = "copying"
  /\ \E i \in completer[u].todo :
       /\ \A j \in completer[u].todo : i <= j
       /\ completer' = [completer EXCEPT
            ![u].todo = @ \ {i},
            ![u].copied = Append(@, <<i, IF i \in DOMAIN parts[u]
                                           THEN parts[u][i] ELSE 0>>)]
  /\ UNCHANGED <<file, client, table, disk, writer, clearing, purge, handed, restarted>>

\* Mutant: the parts are taken in the order of the listing, which is any.
CopyPartUnsorted(u) ==
  /\ completer[u].at = "copying"
  /\ \E i \in completer[u].todo :
       IF i \in DOMAIN parts[u]
         THEN completer' = [completer EXCEPT
                              ![u].todo = @ \ {i},
                              ![u].copied = Append(@, <<i, parts[u][i]>>)]
         ELSE Aborting(u, "error")
  /\ UNCHANGED <<file, client, table, disk, writer, clearing, purge, handed, restarted>>

\* sorted(...): the zero-padded names sort by chunk index.  One part is opened
\* and appended; one that is gone ends the attempt.
CopyPart(u) ==
  /\ completer[u].at = "copying"
  /\ \E i \in completer[u].todo :
       /\ \A j \in completer[u].todo : i <= j
       /\ IF i \in DOMAIN parts[u]
            THEN completer' = [completer EXCEPT
                                 ![u].todo = @ \ {i},
                                 ![u].copied = Append(@, <<i, parts[u][i]>>)]
            ELSE Aborting(u, "error")
  /\ UNCHANGED <<file, client, table, disk, writer, clearing, purge, handed, restarted>>

\* The first bytes are those of the file only if its first chunk is there.
HeadIsKnown(u) == completer[u].copied # <<>> /\ completer[u].copied[1][1] = 0

Verify(u) ==
  /\ completer[u].at = "copying" /\ completer[u].todo = {}
  /\ \/ /\ HeadIsKnown(u) => file[u].kind # "mismatched"
        /\ Aborting(u, "ok")
     \/ /\ completer[u].copied # <<>>
        /\ HeadIsKnown(u) => file[u].kind = "mismatched"
        /\ Aborting(u, "signature")
  /\ UNCHANGED <<file, client, table, disk, writer, clearing, purge, handed, restarted>>

\* abort_session: whoever pops the session from the table removes its directory.
AbortSession(u) ==
  /\ completer[u].at = "aborting"
  /\ IF u \in sessions
       THEN /\ sessions' = sessions \ {u}
            /\ aged' = aged \ {u}
            /\ clearing' = [clearing EXCEPT ![u].at = "popped"]
            /\ completer' = [completer EXCEPT ![u].at = "clearing"]
       ELSE /\ completer' = [completer EXCEPT ![u].at = "ending"]
            /\ UNCHANGED <<table, clearing>>
  /\ UNCHANGED <<file, client, disk, writer, purge, handed, restarted>>

\* Mutant: only the handler that popped the session gets to its answer.
EndCompleteOwn(u) ==
  /\ completer[u].at = "clearing" /\ clearing[u].at = "done"
  /\ completer' = [completer EXCEPT ![u] = IdleMaker]
  /\ handed' = IF completer[u].answer = "ok"
                 THEN [handed EXCEPT ![u] = <<completer[u].copied>>] ELSE handed
  /\ client' = IF completer[u].answer = "ok" /\ client[u].at = "finishing"
                 THEN [client EXCEPT ![u].at = "done"]
                 ELSE Fails(u, completer[u].answer)
  /\ UNCHANGED <<file, table, disk, writer, clearing, purge, restarted>>

\* The answer; on success the upload goes on to item_service first.
EndComplete(u) ==
  /\ \/ completer[u].at = "ending"
     \/ completer[u].at = "clearing" /\ clearing[u].at = "done"
  /\ completer' = [completer EXCEPT ![u] = IdleMaker]
  /\ IF completer[u].answer = "ok"
       THEN /\ handed' = [handed EXCEPT ![u] = <<completer[u].copied>>]
            /\ client' = IF client[u].at = "finishing"
                           THEN [client EXCEPT ![u].at = "done"]
                           ELSE client
       ELSE /\ client' = Fails(u, completer[u].answer)
            /\ UNCHANGED handed
  /\ UNCHANGED <<file, table, disk, writer, clearing, purge, restarted>>

-----------------------------------------------------------------------------
(* shutil.rmtree(ignore_errors=True): list, unlink one by one, rmdir. *)

ListDir(u) ==
  /\ clearing[u].at = "popped"
  /\ clearing' = [clearing EXCEPT ![u] = [at |-> "deleting", todo |-> DOMAIN parts[u]]]
  /\ UNCHANGED <<file, client, table, disk, writer, completer, purge, handed,
                 restarted>>

RemovePart(u) ==
  /\ clearing[u].at = "deleting"
  /\ \E i \in clearing[u].todo :
       /\ clearing' = [clearing EXCEPT ![u].todo = @ \ {i}]
       /\ parts' = [parts EXCEPT ![u] = WithoutPart(@, i)]
  /\ UNCHANGED <<file, client, table, dirs, writer, completer, purge, handed,
                 restarted>>

\* rmdir fails, silently, if a part was created since the listing.
RemoveDir(u) ==
  /\ clearing[u].at = "deleting" /\ clearing[u].todo = {}
  /\ clearing' = [clearing EXCEPT ![u].at = "done"]
  /\ dirs' = IF parts[u] = NoParts THEN dirs \ {u} ELSE dirs
  /\ UNCHANGED <<file, client, table, parts, writer, completer, purge, handed,
                 restarted>>

-----------------------------------------------------------------------------
(* purge_stale_sessions: created_at is never renewed. *)

Quiet(u) ==
  /\ client[u].at \in {"failed", "done"}
  /\ writer[u] = IdleWriter /\ completer[u] = IdleMaker

\* The TTL of a session passes.
Expire(u) ==
  /\ u \in sessions \ aged
  /\ file[u].slow \/ Quiet(u)
  /\ aged' = aged \cup {u}
  /\ UNCHANGED <<file, client, sessions, disk, writer, completer, clearing, purge,
                 handed, restarted>>

\* Mutant: the age of a session is not looked at.
StartPurgeAll ==
  /\ purge = IdlePurge
  /\ sessions # {}
  /\ purge' = [todo |-> sessions, at |-> NoUpload]
  /\ UNCHANGED <<file, client, table, disk, writer, completer, clearing, handed,
                 restarted>>

StartPurge ==
  /\ purge = IdlePurge
  /\ sessions \cap aged # {}
  /\ purge' = [todo |-> sessions \cap aged, at |-> NoUpload]
  /\ UNCHANGED <<file, client, table, disk, writer, completer, clearing, handed,
                 restarted>>

\* Mutant: the purge drops the session and leaves its directory.
PurgeSessionTableOnly(u) ==
  /\ purge.at = NoUpload /\ u \in purge.todo
  /\ purge' = [purge EXCEPT !.todo = @ \ {u}]
  /\ sessions' = sessions \ {u} /\ aged' = aged \ {u}
  /\ UNCHANGED <<file, client, disk, writer, completer, clearing, handed, restarted>>

PurgeSession(u) ==
  /\ purge.at = NoUpload /\ u \in purge.todo
  /\ IF u \in sessions
       THEN /\ sessions' = sessions \ {u}
            /\ aged' = aged \ {u}
            /\ clearing' = [clearing EXCEPT ![u].at = "popped"]
            /\ purge' = [todo |-> purge.todo \ {u}, at |-> u]
       ELSE /\ purge' = [purge EXCEPT !.todo = @ \ {u}]
            /\ UNCHANGED <<table, clearing>>
  /\ UNCHANGED <<file, client, disk, writer, completer, handed, restarted>>

PurgeNext ==
  /\ purge.at # NoUpload
  /\ clearing[purge.at].at = "done"
  /\ purge' = [purge EXCEPT !.at = NoUpload]
  /\ UNCHANGED <<file, client, table, disk, writer, completer, clearing, handed,
                 restarted>>

-----------------------------------------------------------------------------
(* A restart loses the table and every handler; the directories stay, and  *)
(* nothing at startup looks at them.  Bound: once, and when every upload is *)
(* slow, so that the properties of the quick ones say what no restart cuts. *)
Restart ==
  /\ ~restarted /\ \A u \in Uploads : file[u].slow
  /\ restarted' = TRUE
  /\ sessions' = {} /\ aged' = {} /\ purge' = IdlePurge
  /\ writer' = [u \in Uploads |-> IdleWriter]
  /\ completer' = [u \in Uploads |-> IdleMaker]
  /\ clearing' = [u \in Uploads |-> NotClearing]
  /\ client' = [u \in Uploads |->
                  IF client[u].at \in {"sending", "waiting", "finishing"}
                    THEN [client[u] EXCEPT !.at = "failed", !.why = "restart"]
                    ELSE client[u]]
  /\ UNCHANGED <<file, disk, handed>>

Browser(u) ==
  InitSession(u) \/ RefuseInit(u) \/ SendChunk(u) \/ SendComplete(u)

WriteChunk(u) ==
  \/ BeginChunk(u) \/ OpenPart(u) \/ OpenPartFails(u)
  \/ WritePiece(u) \/ RejectPiece(u) \/ EndChunk(u)

CompleteSession(u) ==
  \/ CheckComplete(u) \/ ListParts(u) \/ CopyPart(u) \/ Verify(u)
  \/ AbortSession(u) \/ EndComplete(u)

Rmtree(u) == ListDir(u) \/ RemovePart(u) \/ RemoveDir(u)

Purge == StartPurge \/ PurgeNext \/ \E u \in Uploads : PurgeSession(u)

Next ==
  \/ \E u \in Uploads :
       \/ Browser(u) \/ Disconnect(u) \/ Expire(u)
       \/ WriteChunk(u) \/ LoseChunk(u) \/ CompleteSession(u) \/ Rmtree(u)
  \/ Purge
  \/ Restart

(***************************************************************************)
(* Handlers, threads and the script run whenever they can, the clock runs, *)
(* and the purge wakes every 30 minutes.  Nothing makes a connection drop  *)
(* or the process restart.                                                 *)
(***************************************************************************)
Fairness ==
  /\ \A u \in Uploads :
       /\ WF_vars(Browser(u)) /\ WF_vars(Expire(u))
       /\ WF_vars(WriteChunk(u) \/ LoseChunk(u))
       /\ WF_vars(CompleteSession(u)) /\ WF_vars(Rmtree(u))
  /\ WF_vars(Purge)

Spec == Init /\ [][Next]_vars
LiveSpec == Spec /\ Fairness

-----------------------------------------------------------------------------
(* Properties. *)

Answers == {"none", "gone", "incomplete", "error", "ok", "signature"}
Reasons == {"none", "refused", "lost", "gone", "error", "limit", "incomplete",
            "signature", "restart"}

ClientStates ==
  [at : {"start", "sending", "waiting", "finishing", "done", "failed"},
   next : Nat, why : Reasons]

WriterStates ==
  [at : {"idle", "arrived", "looked", "writing"}, size : 0 .. ChunkSize,
   already : Nat]

CompleterStates ==
  [at : {"idle", "arrived", "matched", "copying", "aborting", "clearing", "ending"},
   todo : SUBSET Nat, copied : Seq(Nat \X Nat),
   answer : Answers]

ClearingStates ==
  [at : {"no", "popped", "deleting", "done"}, todo : SUBSET Nat]

TypeOK ==
  /\ file \in [Uploads -> Files]
  /\ client \in [Uploads -> ClientStates]
  /\ aged \subseteq sessions /\ sessions \subseteq dirs /\ dirs \subseteq Uploads
  /\ DOMAIN parts = Uploads
  /\ \A u \in Uploads :
       /\ client[u].next \in 0 .. NChunks(u)
       /\ DOMAIN parts[u] \subseteq 0 .. NChunks(u) - 1
       /\ parts[u] \in [DOMAIN parts[u] -> 0 .. ChunkSize]
  /\ writer \in [Uploads -> WriterStates]
  /\ completer \in [Uploads -> CompleterStates]
  /\ clearing \in [Uploads -> ClearingStates]
  /\ purge.todo \subseteq Uploads /\ purge.at \in Uploads \cup {NoUpload}
  /\ purge = [todo |-> purge.todo, at |-> purge.at]
  /\ handed \in [Uploads -> Seq(Seq(Nat \X Nat))]
  /\ restarted \in BOOLEAN

\* What complete_session hands over as the uploaded file of u is the file:
\* every chunk, in order, with all its bytes.
IsWhole(u) == handed[u] # Nothing =>
  handed[u] = <<WholeFile(u)>> /\ file[u].declared = file[u].size

\* An upload within the TTL hands over its file ("a client that lies about size
\* still can't produce a file that isn't what it appears to be").
HandedOverIsWhole == \A u \in Uploads : file[u].slow \/ IsWhole(u)

\* The same of every upload, those that outlive the TTL included.
AnyHandedOverIsWhole == \A u \in Uploads : IsWhole(u)

\* Even when the purge works on the same session, a file that is handed over is
\* made of whole chunks in the order of the file: some may be missing, none is
\* cut short, repeated or out of place.
HandedPartsAreWhole ==
  \A u \in Uploads : handed[u] # Nothing =>
    LET parted == handed[u][1]
    IN /\ \A k \in DOMAIN parted : parted[k][2] = PartLen(u, parted[k][1])
       /\ \A k, l \in DOMAIN parted : k < l => parted[k][1] < parted[l][1]

\* A browser that was answered with a new item has left nothing behind, and its
\* item holds its file.
DoneMeansDone ==
  \A u \in Uploads : (client[u].at = "done" /\ ~file[u].slow) =>
    handed[u] = <<WholeFile(u)>> /\ u \notin sessions /\ u \notin dirs

\* A file that passed the checks of /init is refused later for its contents or
\* a wrong declared size only: neither the byte counting of write_chunk and
\* complete_session nor the session bookkeeping turns an honest browser away.
NoUndeservedFailure ==
  \A u \in Uploads : ~file[u].slow =>
    /\ client[u].why \notin {"gone", "error"}
    /\ client[u].why = "signature" => file[u].kind = "mismatched"
    /\ client[u].why \in {"limit", "incomplete"} => file[u].declared # file[u].size

\* The answers of the three routes are true: done means done, and nobody is
\* turned away for a reason that is not in the file.
AnswersAreTrue == DoneMeansDone /\ NoUndeservedFailure

\* The parts of a session disappear only when it is over: the browser gave up,
\* or its own /complete is through with them.
OpenPartsStay ==
  [][\A u \in Uploads :
       (client'[u].at \in {"sending", "waiting", "finishing"} /\ ~file[u].slow) =>
         \/ DOMAIN parts[u] \subseteq DOMAIN parts'[u]
         \/ completer[u].at = "clearing"]_vars

\* Every upload that was started ends, one way or the other.
EveryUploadEnds ==
  \A u \in Uploads : client[u].at = "sending" ~> client[u].at \in {"done", "failed"}

\* No session directory stays for ever: it is removed by /complete or, when the
\* upload was abandoned, by the purge.
SweptInTheEnd ==
  \A u \in Uploads : (u \in dirs /\ ~file[u].slow) ~> u \notin dirs
=============================================================================
