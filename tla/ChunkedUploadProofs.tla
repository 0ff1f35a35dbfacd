------------------------- MODULE ChunkedUploadProofs -------------------------
(***************************************************************************)
(* Proofs about ChunkedUpload, for any uploads, files and chunk size: type *)
(* correctness, and that what is handed over is the file.                  *)
(*                                                                         *)
(* The inductive invariant is TypeOK and, for each upload, InStep (the     *)
(* browser and the two handlers take turns), PartsInPlace (what lies in    *)
(* the directory), CopiedInOrder (what /complete has read), Held (what the *)
(* table promises) and, for an upload within the TTL, QuickOK.             *)
(***************************************************************************)
EXTENDS ChunkedUpload, FiniteSetTheorems, TLAPS

-----------------------------------------------------------------------------
(* The inductive invariant, upload by upload. *)

\* The browser, the handler of its chunk and the handler of /complete take
\* turns: only an abandoned upload keeps a handler at work.
InStep(u) ==
  /\ client[u].at = "start" =>
       /\ client[u].next = 0 /\ client[u].why = "none" /\ writer[u].at = "idle"
       /\ completer[u].at = "idle" /\ clearing[u].at = "no"
       /\ u \notin dirs /\ u \notin purge.todo
       /\ DOMAIN parts[u] = {} /\ handed[u] = Nothing
  /\ client[u].at = "sending" => writer[u].at = "idle" /\ completer[u].at = "idle"
  /\ client[u].at = "waiting" => writer[u].at # "idle"
  /\ client[u].at = "finishing" => completer[u].at # "idle"
  /\ client[u].at = "done" => completer[u].at = "idle"
  /\ writer[u].at # "idle" =>
       client[u].at \in {"waiting", "failed"} /\ client[u].next < NChunks(u)
  /\ completer[u].at # "idle" =>
       client[u].at \in {"finishing", "failed"} /\ client[u].next = NChunks(u)

\* The parts of finished chunks are whole; the chunk being received has as many
\* pieces on the disk as its handler has written, or its part is gone.
PartsInPlace(u) ==
  /\ \A i \in DOMAIN parts[u] : i <= client[u].next
  /\ \A i \in DOMAIN parts[u] : i < client[u].next => parts[u][i] = PartLen(u, i)
  /\ client[u].at = "sending" \/ writer[u].at \in {"arrived", "looked"} =>
       client[u].next \notin DOMAIN parts[u]
  /\ writer[u].at = "writing" =>
       /\ writer[u].size <= PartLen(u, client[u].next)
       /\ client[u].next \in DOMAIN parts[u] =>
            parts[u][client[u].next] = writer[u].size

\* Whole parts in the order of the file.
InOrder(u, s) ==
  /\ \A k \in DOMAIN s : s[k][2] = PartLen(u, s[k][1])
  /\ \A k, l \in DOMAIN s : k < l => s[k][1] < s[l][1]

CopiedInOrder(u) ==
  /\ completer[u].at \in {"idle", "arrived", "matched"} => completer[u].copied = <<>>
  /\ InOrder(u, completer[u].copied)
  /\ \A k \in DOMAIN completer[u].copied :
       \A j \in completer[u].todo : completer[u].copied[k][1] < j
  /\ handed[u] # Nothing => InOrder(u, handed[u][1])

\* A session in the table has its directory and every finished chunk in it.
Held(u) ==
  u \in sessions =>
    /\ client[u].at # "start" /\ clearing[u].at = "no"
    /\ \A i \in Nat : i < client[u].next => i \in DOMAIN parts[u]
    /\ writer[u].at = "writing" => client[u].next \in DOMAIN parts[u]

\* The browser has its answer or is gone, and no handler is at work.
Over(u) ==
  /\ client[u].at \in {"failed", "done"}
  /\ writer[u].at = "idle" /\ completer[u].at = "idle"

\* The parts read so far are the first ones of the file, the others are to come.
ReadSoFar(u) ==
  LET n == Len(completer[u].copied)
  IN /\ n <= NChunks(u)
     /\ completer[u].todo = n .. NChunks(u) - 1
     /\ \A k \in 1 .. n : completer[u].copied[k] = WholeFile(u)[k]

\* What the answer of /complete says of the file.
AnswerOK(u) ==
  /\ completer[u].answer \in {"ok", "incomplete", "signature"}
  /\ completer[u].answer = "ok" =>
       completer[u].copied = WholeFile(u) /\ file[u].declared = file[u].size
  /\ completer[u].answer = "incomplete" => file[u].declared # file[u].size
  /\ completer[u].answer = "signature" => file[u].kind = "mismatched"

\* An upload within the TTL leaves the table by its own /complete, or when it
\* is over; so nobody else touches its directory.
OwnSession(u) ==
  /\ client[u].at = "start" \/ u \in sessions \/ Over(u) \/ completer[u].at = "clearing"
  /\ u \in aged \/ u \in purge.todo => Over(u)
  /\ clearing[u].at = "deleting" => DOMAIN parts[u] \subseteq clearing[u].todo
  /\ clearing[u].at = "done" => u \notin dirs

OwnAnswer(u) ==
  /\ client[u].at \in {"sending", "waiting", "finishing"} =>
       file[u].declared <= MaxSize
  /\ writer[u].at \in {"looked", "writing"} =>
       writer[u].already = client[u].next * ChunkSize
  /\ completer[u].at # "ending"
  /\ completer[u].at \in {"matched", "copying"} => file[u].declared = file[u].size
  /\ completer[u].at = "copying" => ReadSoFar(u)
  /\ completer[u].at \in {"aborting", "clearing"} => AnswerOK(u)

\* What AnswersAreTrue says of one upload.
Answered(u) ==
  /\ client[u].at = "done" =>
       handed[u] = <<WholeFile(u)>> /\ u \notin sessions /\ u \notin dirs
  /\ client[u].why \notin {"gone", "error"}
  /\ client[u].why = "signature" => file[u].kind = "mismatched"
  /\ client[u].why \in {"limit", "incomplete"} => file[u].declared # file[u].size

QuickOK(u) ==
  ~file[u].slow => OwnSession(u) /\ OwnAnswer(u) /\ IsWhole(u) /\ Answered(u)

UploadOK(u) ==
  InStep(u) /\ PartsInPlace(u) /\ CopiedInOrder(u) /\ Held(u) /\ QuickOK(u)

Inductive == TypeOK /\ \A u \in Uploads : UploadOK(u)

-----------------------------------------------------------------------------
(* The browser's arithmetic. *)

\* Division with remainder.
LEMMA Division ==
  ASSUME NEW s \in Nat, NEW c \in Nat \ {0}
  PROVE  /\ s \div c \in Nat /\ s % c \in 0 .. c - 1
         /\ s = c * (s \div c) + (s % c)
OBVIOUS

\* Products of one factor grow with the other by at least the factor.
LEMMA Products ==
  ASSUME NEW c \in Nat \ {0}, NEW a \in Int, NEW b \in Int, a < b
  PROVE  c * a \in Int /\ c * b \in Int /\ c * a + c <= c * b
<1> DEFINE d == b - a - 1
<1>1. d \in Nat /\ b = a + d + 1 /\ c \in Nat
  OBVIOUS
<1> HIDE DEF d
<1>2. c * d \in Nat /\ c * a \in Int /\ c * b \in Int
  BY ONLY <1>1, a \in Int, b \in Int
<1>3. c * (a + d + 1) = c * a + c * d + c
  BY ONLY <1>1, a \in Int
<1>4. c * b = c * a + c * d + c
  BY ONLY <1>1, <1>3
<1> QED BY ONLY <1>1, <1>2, <1>4

\* A quotient and a remainder are the only ones.
LEMMA OneQuotient ==
  ASSUME NEW c \in Nat \ {0}, NEW a \in Int, NEW i \in Int,
         NEW b \in 0 .. c - 1, NEW j \in 0 .. c - 1, c * a + b = c * i + j
  PROVE  a = i /\ b = j
<1>1. ASSUME a < i PROVE FALSE
  <2>1. c * a \in Int /\ c * i \in Int /\ c * a + c <= c * i
    BY <1>1, Products
  <2> QED BY <2>1
<1>2. ASSUME i < a PROVE FALSE
  <2>1. c * a \in Int /\ c * i \in Int /\ c * i + c <= c * a
    BY <1>2, Products
  <2> QED BY <2>1
<1>3. a = i
  BY <1>1, <1>2
<1>4. c * i \in Int /\ c * i + b = c * i + j
  BY <1>3
<1> QED BY <1>3, <1>4

\* A quotient that is rounded up.
LEMMA Rounding ==
  ASSUME NEW s \in Nat, NEW c \in Nat \ {0}, NEW n, n = (s + c - 1) \div c
  PROVE  /\ n \in Nat
         /\ s <= n * c
         /\ \A i \in Nat : i < n => i * c < s
<1> DEFINE r == (s + c - 1) % c
<1>1. n \in Nat /\ r \in 0 .. c - 1 /\ s + c - 1 = c * n + r
  BY Division
<1> HIDE DEF r
<1>2. s <= n * c
  BY <1>1
<1>3. ASSUME NEW i \in Nat, i < n PROVE i * c < s
  <2>1. c * i \in Int /\ c * n \in Int /\ c * i + c <= c * n
    BY <1>1, <1>3, Products
  <2>2. i * c = c * i
    OBVIOUS
  <2> QED BY <2>1, <2>2, <1>1
<1> QED BY <1>1, <1>2, <1>3

\* As many pieces as the lengths add up to, when all but the last are full: the
\* piece number x is the one at x - 1, divided with remainder by c.
LEMMA CountPieces ==
  ASSUME NEW c \in Nat \ {0}, NEW n \in Nat, NEW len \in [0 .. n - 1 -> 1 .. c],
         NEW m \in Nat,
         \A i \in 0 .. n - 1 : i + 1 < n => len[i] = c,
         m = IF n = 0 THEN 0 ELSE (n - 1) * c + len[n - 1]
  PROVE  Cardinality(UNION {{i} \X (1 .. len[i]) : i \in 0 .. n - 1}) = m
<1> DEFINE P == UNION {{i} \X (1 .. len[i]) : i \in 0 .. n - 1}
           q(x) == (x - 1) \div c
           r(x) == (x - 1) % c
           g == [x \in 1 .. m |-> <<q(x), r(x) + 1>>]
<1>1. ASSUME NEW x \in 1 .. m
      PROVE  q(x) \in Nat /\ r(x) \in 0 .. c - 1 /\ x - 1 = c * q(x) + r(x)
  <2>1. x - 1 \in Nat
    OBVIOUS
  <2> QED BY <2>1, Division
<1>2. \A i, k : <<i, k>> \in P <=> i \in 0 .. n - 1 /\ k \in 1 .. len[i]
  OBVIOUS
<1>3. ASSUME NEW i \in 0 .. n - 1, NEW k \in 1 .. len[i]
      PROVE  c * i + k \in 1 .. m
  <2>1. CASE i + 1 < n
    <3> DEFINE A == c * i
               B == (n - 1) * c
               L == len[n - 1]
    <3>1. c * i + c <= c * (n - 1) /\ c * (n - 1) = B
      BY <2>1, Products
    <3>2. n # 0 /\ m = B + L /\ L \in 1 .. c /\ c \in Nat
      OBVIOUS
    <3>3. k \in 1 .. c /\ A \in Nat /\ B \in Nat
      BY <3>2
    <3>4. A + c <= B
      BY <3>1
    <3> HIDE DEF P, g, A, B, L
    <3>5. A + k \in 1 .. m
      BY ONLY <3>2, <3>3, <3>4
    <3> QED BY ONLY <3>5 DEF A
  <2>2. CASE i + 1 = n
    <3> DEFINE A == c * i
               L == len[i]
    <3>1. i = n - 1 /\ i \in Nat /\ (n - 1) * c = c * (n - 1)
      BY ONLY <2>2, n \in Nat, c \in Nat \ {0}, i \in 0 .. n - 1
    <3>2. m = A + L /\ k \in 1 .. L /\ L \in 1 .. c
      BY <3>1
    <3>3. A \in Nat /\ c \in Nat
      BY <3>1
    <3> HIDE DEF A, L
    <3>4. A + k \in 1 .. m
      BY ONLY <3>2, <3>3
    <3> QED BY ONLY <3>4 DEF A
  <2> QED BY <2>1, <2>2
<1>4. ASSUME NEW x \in 1 .. m
      PROVE  q(x) \in 0 .. n - 1 /\ r(x) + 1 \in 1 .. len[q(x)]
  <2> DEFINE i == q(x)
             k == r(x)
  <2>1. i \in Nat /\ k \in 0 .. c - 1 /\ x - 1 = c * i + k
    BY <1>1
  <2> HIDE DEF i, k
  <2>2. n # 0 /\ m = (n - 1) * c + len[n - 1] /\ len[n - 1] \in 1 .. c
    OBVIOUS
  <2>3. ASSUME n <= i PROVE FALSE
    <3>1. c * (n - 1) + c <= c * i
      <4>1. n - 1 \in Int /\ n - 1 < i
        BY <2>1, <2>3
      <4> QED BY <2>1, <4>1, Products
    <3> DEFINE B == c * (n - 1)
               A == c * i
               L == len[n - 1]
    <3>2. B \in Int /\ A \in Int /\ m = B + L /\ L \in 1 .. c /\ c \in Nat
      BY <2>1, <2>2
    <3>3. x <= m /\ x - 1 = A + k /\ B + c <= A
      BY <2>1, <3>1
    <3> HIDE DEF A, B, L
    <3> QED BY ONLY <3>2, <3>3, <2>1, x \in 1 .. m
  <2>4. i \in 0 .. n - 1
    BY <2>1, <2>3
  <2>5. k + 1 <= len[i]
    <3>1. CASE i + 1 < n
      BY <3>1, <2>4, <2>1
    <3>2. CASE i = n - 1
      <4>1. c * i + k + 1 <= c * i + len[i]
        BY <3>2, <2>1, <2>2
      <4> QED BY <4>1, <2>1, <2>4
    <3> QED BY <2>4, <3>1, <3>2
  <2>6. i \in 0 .. n - 1 /\ k + 1 \in 1 .. len[i]
    BY <2>1, <2>4, <2>5
  <2> QED BY <2>6 DEF i, k
<1> HIDE DEF P, q, r
<1>5. g \in [1 .. m -> P]
  BY <1>4, <1>2
<1>6. ASSUME NEW x \in 1 .. m, NEW y \in 1 .. m, g[x] = g[y] PROVE x = y
  <2>1. q(x) = q(y) /\ r(x) + 1 = r(y) + 1
    BY <1>6
  <2>2. /\ q(x) \in Nat /\ r(x) \in 0 .. c - 1 /\ x - 1 = c * q(x) + r(x)
        /\ q(y) \in Nat /\ r(y) \in 0 .. c - 1 /\ y - 1 = c * q(y) + r(y)
    BY <1>1
  <2> DEFINE a == q(x)
             b == r(x)
  <2>3. /\ x - 1 = c * a + b /\ y - 1 = c * a + b
        /\ a \in Nat /\ b \in Nat /\ x \in Int /\ y \in Int
    <3>1. r(x) = r(y)
      BY ONLY <2>1, <2>2
    <3> QED BY <2>1, <2>2, <3>1
  <2> HIDE DEF a, b
  <2> QED BY ONLY <2>3
<1>7. ASSUME NEW p \in P PROVE \E x \in 1 .. m : g[x] = p
  <2>1. PICK i \in 0 .. n - 1 : p \in {i} \X (1 .. len[i])
    BY DEF P
  <2>2. PICK k \in 1 .. len[i] : p = <<i, k>>
    BY <2>1
  <2> DEFINE x == c * i + k
  <2>3. x \in 1 .. m
    BY <1>3
  <2>4. x - 1 = c * i + (k - 1) /\ k - 1 \in 0 .. c - 1
    OBVIOUS
  <2> HIDE DEF x
  <2>5. c * q(x) + r(x) = c * i + (k - 1) /\ q(x) \in Nat /\ r(x) \in 0 .. c - 1
    BY <2>3, <2>4, <1>1
  <2>6. q(x) = i /\ r(x) = k - 1
    <3> DEFINE j == k - 1
               a == q(x)
               b == r(x)
    <3>1. /\ j \in 0 .. c - 1 /\ b \in 0 .. c - 1 /\ i \in Int /\ a \in Int
          /\ c * a + b = c * i + j
      BY <2>4, <2>5
    <3> HIDE DEF j, a, b
    <3>4. a = i /\ b = j
      <4>1. ASSUME NEW w \in Nat \ {0}, w * a + b = w * i + j,
                   b \in 0 .. w - 1, j \in 0 .. w - 1
            PROVE  a = i /\ b = j
        BY ONLY <3>1, <4>1, OneQuotient, SMTT(20)
      <4> QED BY ONLY <3>1, <4>1, c \in Nat \ {0}
    <3> QED BY <3>4 DEF j, a, b
  <2>7. g[x] = <<i, k>>
    BY <2>3, <2>5, <2>6
  <2> QED BY <2>2, <2>3, <2>7
<1> HIDE DEF g
<1>8. ExistsBijection(1 .. m, P)
  BY <1>5, <1>6, <1>7 DEF ExistsBijection, Bijection, Injection, Surjection, IsInjective
<1>9. Cardinality(P) = Cardinality(1 .. m) /\ Cardinality(1 .. m) = m
  BY <1>8, FS_Bijection, FS_Interval
<1> QED BY <1>9 DEF P

\* The chunks of a file: all but the last are full, and they add up to it.
LEMMA Sizes ==
  ASSUME TypeOK, NEW u \in Uploads
  PROVE  /\ file[u] \in FileRecord /\ NChunks(u) \in Nat
         /\ NChunks(u) = 0 => file[u].size = 0
         /\ \A i \in Nat : i < NChunks(u) =>
              /\ PartLen(u, i) \in 1 .. ChunkSize
              /\ i * ChunkSize + PartLen(u, i) <= file[u].size
              /\ i + 1 < NChunks(u) => PartLen(u, i) = ChunkSize
              /\ i + 1 = NChunks(u) => i * ChunkSize + PartLen(u, i) = file[u].size
<1> DEFINE s == file[u].size
           c == ChunkSize
           n == NChunks(u)
<1>1. file[u] \in FileRecord /\ s \in Nat /\ c \in Nat \ {0}
  BY ConstantsOK DEF TypeOK, FileRecord
<1>2. n \in Nat /\ s <= n * c /\ \A i \in Nat : i < n => i * c < s
  BY <1>1, Rounding DEF NChunks
<1>3. ASSUME NEW i \in Nat, i < n
      PROVE  /\ PartLen(u, i) \in 1 .. c /\ i * c + PartLen(u, i) <= s
             /\ i + 1 < n => PartLen(u, i) = c
             /\ i + 1 = n => i * c + PartLen(u, i) = s
  <2>1. PartLen(u, i) = IF (i + 1) * c <= s THEN c ELSE s - i * c
    BY DEF PartLen
  <2> HIDE DEF s, c, n
  <2>2. i * c \in Nat /\ i * c < s /\ (i + 1) * c = i * c + c
    BY <1>1, <1>2, <1>3
  <2>3. i + 1 < n => (i + 1) * c < s
    BY <1>2
  <2>4. i + 1 = n => s <= i * c + c
    BY <1>2, <2>2
  <2> QED BY <1>1, <2>1, <2>2, <2>3, <2>4
<1>4. n = 0 => s = 0
  BY <1>1, <1>2
<1> QED BY <1>1, <1>2, <1>3, <1>4

\* When the first n chunks of a file are there, each with all its bytes, and
\* nothing else, the bytes received are those n chunks.
LEMMA ReceivedSoFar ==
  ASSUME TypeOK, NEW u \in Uploads, NEW n \in Nat, n <= NChunks(u),
         DOMAIN parts[u] = 0 .. n - 1,
         \A i \in DOMAIN parts[u] : parts[u][i] = PartLen(u, i)
  PROVE  Received(u) = IF n = NChunks(u) THEN file[u].size ELSE n * ChunkSize
<1> DEFINE len == parts[u]
           m == IF n = NChunks(u) THEN file[u].size ELSE n * ChunkSize
<1>1. /\ NChunks(u) \in Nat /\ file[u].size \in Nat /\ ChunkSize \in Nat \ {0}
      /\ NChunks(u) = 0 => file[u].size = 0
  BY Sizes, ConstantsOK DEF FileRecord
<1>2. ASSUME NEW i \in 0 .. n - 1
      PROVE  /\ len[i] \in 1 .. ChunkSize
             /\ i + 1 < NChunks(u) => len[i] = ChunkSize
             /\ i + 1 = NChunks(u) => i * ChunkSize + len[i] = file[u].size
  <2>1. i \in Nat /\ i < NChunks(u) /\ len[i] = PartLen(u, i)
    BY <1>1
  <2> QED BY <2>1, Sizes
<1>3. len \in [0 .. n - 1 -> 1 .. ChunkSize]
  BY <1>2 DEF TypeOK
<1>4. \A i \in 0 .. n - 1 : i + 1 < n => len[i] = ChunkSize
  BY <1>1, <1>2
<1>5. m = IF n = 0 THEN 0 ELSE (n - 1) * ChunkSize + len[n - 1]
  <2>1. CASE n = 0
    BY <2>1, <1>1
  <2>2. CASE n # 0
    <3>1. n - 1 \in 0 .. n - 1 /\ (n - 1) * ChunkSize + ChunkSize = n * ChunkSize
      BY <2>2, <1>1
    <3>2. CASE n = NChunks(u)
      BY <3>1, <3>2, <1>2, <2>2
    <3>3. CASE n < NChunks(u)
      <4>1. len[n - 1] = ChunkSize
        BY <3>1, <3>3, <1>2
      <4> QED BY <4>1, <3>1, <3>3, <2>2
    <3> QED BY <3>2, <3>3, <1>1
  <2> QED BY <2>1, <2>2
<1>6. m \in Nat
  BY <1>1
<1> HIDE DEF len, m
<1>7. Cardinality(UNION {{i} \X (1 .. len[i]) : i \in 0 .. n - 1}) = m
  <2> DEFINE c == ChunkSize
  <2>1. c \in Nat \ {0} /\ n \in Nat
    BY <1>1
  <2>2. len \in [0 .. n - 1 -> 1 .. c]
    BY <1>3
  <2>3. \A i \in 0 .. n - 1 : i + 1 < n => len[i] = c
    BY <1>4
  <2>4. m = IF n = 0 THEN 0 ELSE (n - 1) * c + len[n - 1]
    BY <1>5
  <2> HIDE DEF c
  <2> QED BY ONLY <2>1, <2>2, <2>3, <2>4, <1>6, CountPieces
<1>8. Pieces(u) = UNION {{i} \X (1 .. len[i]) : i \in 0 .. n - 1}
  BY DEF Pieces, len
<1> QED BY <1>7, <1>8 DEF Received, m


-----------------------------------------------------------------------------
(* Steps. *)

\* A step leaves an upload alone.
Same(u) ==
  /\ file'[u] = file[u] /\ client'[u] = client[u] /\ parts'[u] = parts[u]
  /\ writer'[u] = writer[u] /\ completer'[u] = completer[u]
  /\ clearing'[u] = clearing[u] /\ handed'[u] = handed[u]
  /\ u \in sessions' <=> u \in sessions
  /\ u \in aged' <=> u \in aged
  /\ u \in dirs' <=> u \in dirs
  /\ u \in purge.todo' <=> u \in purge.todo

\* The size of a file never changes.
LEMMA SizesStay ==
  ASSUME NEW u, file' = file
  PROVE  /\ NChunks(u)' = NChunks(u) /\ WholeFile(u)' = WholeFile(u)
         /\ \A i : PartLen(u, i)' = PartLen(u, i)
  BY DEF NChunks, PartLen, WholeFile

\* So does what depends on it and on the handlers alone.
LEMMA FileStays ==
  ASSUME NEW u, file' = file
  PROVE  /\ completer'[u] = completer[u] =>
              ReadSoFar(u)' = ReadSoFar(u) /\ AnswerOK(u)' = AnswerOK(u)
         /\ completer'[u].copied = completer[u].copied /\ completer'[u].todo = completer[u].todo =>
              ReadSoFar(u)' = ReadSoFar(u)
         /\ completer'[u].copied = completer[u].copied /\ completer'[u].answer = completer[u].answer =>
              AnswerOK(u)' = AnswerOK(u)
  BY SizesStay DEF ReadSoFar, AnswerOK

\* The order of the parts that were read depends on the file only.
LEMMA InOrderStays ==
  ASSUME NEW u, file' = file
  PROVE  /\ completer'[u].copied = completer[u].copied =>
              InOrder(u, completer[u].copied)' = InOrder(u, completer[u].copied)
         /\ handed'[u] = handed[u] => InOrder(u, handed[u][1])' = InOrder(u, handed[u][1])
  BY DEF InOrder, PartLen

\* An upload that is left alone stays as it was.
LEMMA OthersKept ==
  ASSUME NEW u \in Uploads, UploadOK(u), Same(u), file' = file
  PROVE  UploadOK(u)'
<1> USE SizesStay DEF Same
<1>1. InStep(u)'
  BY DEF UploadOK, InStep
<1>2. PartsInPlace(u)'
  BY DEF UploadOK, PartsInPlace
<1>3. CopiedInOrder(u)'
  <2>1. InOrder(u, completer[u].copied)' = InOrder(u, completer[u].copied)
    BY DEF InOrder, PartLen
  <2>2. InOrder(u, handed[u][1])' = InOrder(u, handed[u][1])
    BY DEF InOrder, PartLen
  <2> QED BY <2>1, <2>2 DEF UploadOK, CopiedInOrder
<1>4. Held(u)'
  BY DEF UploadOK, Held
<1>5. QuickOK(u)'
  <2>1. Over(u)' = Over(u) /\ OwnSession(u)' = OwnSession(u)
    BY DEF OwnSession, Over
  <2>2. ReadSoFar(u)' = ReadSoFar(u) /\ AnswerOK(u)' = AnswerOK(u)
    BY DEF ReadSoFar, AnswerOK
  <2>3. OwnAnswer(u)' = OwnAnswer(u)
    BY <2>2 DEF OwnAnswer
  <2>4. IsWhole(u)' = IsWhole(u) /\ Answered(u)' = Answered(u)
    BY DEF IsWhole, Answered
  <2> QED BY <2>1, <2>3, <2>4 DEF UploadOK, QuickOK
<1> QED BY <1>1, <1>2, <1>3, <1>4, <1>5 DEF UploadOK

\* One upload's step: the others are left alone.
LEMMA OneKept ==
  ASSUME Inductive, NEW u \in Uploads, file' = file, TypeOK', UploadOK(u)',
         \A v \in Uploads \ {u} : Same(v)
  PROVE  Inductive'
<1>1. \A v \in Uploads \ {u} : UploadOK(v)'
  BY OthersKept DEF Inductive
<1> QED BY <1>1 DEF Inductive

\* What the steps write into the browser's record is well typed.
LEMMA ClientType ==
  ASSUME client \in [Uploads -> ClientStates], NEW u \in Uploads,
         NEW a \in {"start", "sending", "waiting", "finishing", "done", "failed"}
  PROVE  /\ [client EXCEPT ![u].at = a] \in [Uploads -> ClientStates]
         /\ [client EXCEPT ![u].at = a, ![u].next = @ + 1] \in [Uploads -> ClientStates]
<1>1. ASSUME NEW r \in ClientStates, NEW n \in Nat
      PROVE  /\ [r EXCEPT !.at = a, !.next = n] \in ClientStates
             /\ [r EXCEPT !.at = a] \in ClientStates
  BY DEF ClientStates
<1>2. client[u] \in ClientStates /\ client[u].next + 1 \in Nat
  BY DEF ClientStates
<1> QED BY <1>1, <1>2

\* A browser that gives up keeps a well typed record.
LEMMA ClientFailed ==
  ASSUME client \in [Uploads -> ClientStates], NEW u \in Uploads,
         NEW w \in Reasons
  PROVE  [client EXCEPT ![u].at = "failed", ![u].why = w] \in [Uploads -> ClientStates]
<1>1. ASSUME NEW r \in ClientStates
      PROVE  [r EXCEPT !.at = "failed", !.why = w] \in ClientStates
  BY DEF ClientStates
<1>2. client[u] \in ClientStates
  OBVIOUS
<1> QED BY <1>1, <1>2

\* So is what they write into the record of the handler of a chunk.
LEMMA WriterType ==
  ASSUME writer \in [Uploads -> WriterStates], NEW u \in Uploads,
         NEW a \in {"idle", "arrived", "looked", "writing"}
  PROVE  /\ [writer EXCEPT ![u].at = a] \in [Uploads -> WriterStates]
         /\ [writer EXCEPT ![u] = IdleWriter] \in [Uploads -> WriterStates]
         /\ \A n \in Nat :
              [writer EXCEPT ![u].at = a, ![u].already = n] \in [Uploads -> WriterStates]
         /\ \A n \in 0 .. ChunkSize :
              /\ [writer EXCEPT ![u].at = a, ![u].size = n] \in [Uploads -> WriterStates]
              /\ [writer EXCEPT ![u].size = n] \in [Uploads -> WriterStates]
<1>1. ASSUME NEW r \in WriterStates, NEW n \in Nat
      PROVE  /\ [r EXCEPT !.at = a] \in WriterStates
             /\ [r EXCEPT !.at = a, !.already = n] \in WriterStates
  BY DEF WriterStates
<1>2. ASSUME NEW r \in WriterStates, NEW n \in 0 .. ChunkSize
      PROVE  /\ [r EXCEPT !.at = a, !.size = n] \in WriterStates
             /\ [r EXCEPT !.size = n] \in WriterStates
  BY DEF WriterStates
<1>3. IdleWriter \in WriterStates
  BY ConstantsOK DEF IdleWriter, WriterStates
<1>4. writer[u] \in WriterStates
  OBVIOUS
<1> QED BY <1>1, <1>2, <1>3, <1>4

\* So has what the removal of a directory writes into its record,
LEMMA ClearingType ==
  ASSUME clearing \in [Uploads -> ClearingStates], NEW u \in Uploads,
         NEW a \in {"no", "popped", "deleting", "done"}
  PROVE  [clearing EXCEPT ![u].at = a] \in [Uploads -> ClearingStates]
<1>1. ASSUME NEW r \in ClearingStates PROVE [r EXCEPT !.at = a] \in ClearingStates
  BY DEF ClearingStates
<1> QED BY <1>1

\* and what the handler of /complete writes into its own.
LEMMA CompleterType ==
  ASSUME completer \in [Uploads -> CompleterStates], NEW u \in Uploads,
         NEW a \in {"idle", "arrived", "matched", "copying", "aborting", "clearing", "ending"}
  PROVE  /\ [completer EXCEPT ![u].at = a] \in [Uploads -> CompleterStates]
         /\ [completer EXCEPT ![u] = IdleMaker] \in [Uploads -> CompleterStates]
         /\ \A w \in Answers :
              [completer EXCEPT ![u].at = a, ![u].answer = w] \in [Uploads -> CompleterStates]
         /\ \A t \in SUBSET Nat :
              [completer EXCEPT ![u].at = a, ![u].todo = t] \in [Uploads -> CompleterStates]
<1>1. ASSUME NEW r \in CompleterStates PROVE [r EXCEPT !.at = a] \in CompleterStates
  BY DEF CompleterStates
<1>2. ASSUME NEW r \in CompleterStates,
             NEW w \in Answers
      PROVE  [r EXCEPT !.at = a, !.answer = w] \in CompleterStates
  BY DEF CompleterStates
<1>3. ASSUME NEW r \in CompleterStates, NEW t \in SUBSET Nat
      PROVE  [r EXCEPT !.at = a, !.todo = t] \in CompleterStates
  BY DEF CompleterStates
<1>4. completer[u] \in CompleterStates
  OBVIOUS
<1>5. IdleMaker \in CompleterStates
  <2>1. <<>> \in Seq(Nat \X Nat)
    OBVIOUS
  <2> QED BY <2>1 DEF IdleMaker, CompleterStates, Answers
<1> QED BY <1>1, <1>2, <1>3, <1>4, <1>5

\* What a failure does to the browser.
LEMMA FailsEffect ==
  ASSUME client \in [Uploads -> ClientStates], NEW u \in Uploads,
         NEW w \in Reasons,
         client' = Fails(u, w)
  PROVE  /\ client' \in [Uploads -> ClientStates]
         /\ client'[u].next = client[u].next
         /\ client[u].at \in {"waiting", "finishing"} =>
              client'[u].at = "failed" /\ client'[u].why = w
         /\ client[u].at \notin {"waiting", "finishing"} => client' = client
         /\ \A v \in Uploads \ {u} : client'[v] = client[v]
<1>1. CASE client[u].at \in {"waiting", "finishing"}
  <2>1. client' = [client EXCEPT ![u].at = "failed", ![u].why = w]
    BY <1>1 DEF Fails
  <2>2. client' \in [Uploads -> ClientStates]
    <3>1. client \in [Uploads -> ClientStates] /\ u \in Uploads
      OBVIOUS
    <3> QED BY ONLY <2>1, <3>1, w \in Reasons, ClientFailed
  <2>3. ASSUME NEW r \in ClientStates, NEW s, s = [r EXCEPT !.at = "failed", !.why = w]
        PROVE  s.at = "failed" /\ s.why = w /\ s.next = r.next
    BY <2>3 DEF ClientStates
  <2>4. client[u] \in ClientStates /\ client'[u] = [client[u] EXCEPT !.at = "failed", !.why = w]
    BY <2>1
  <2>5. /\ client'[u].at = "failed" /\ client'[u].why = w
        /\ client'[u].next = client[u].next
    <3> DEFINE a == client'[u]
               b == client[u]
    <3>1. b \in ClientStates /\ a = [b EXCEPT !.at = "failed", !.why = w]
      BY <2>4
    <3> HIDE DEF a, b
    <3>2. a.at = "failed" /\ a.why = w /\ a.next = b.next
      BY ONLY <3>1, <2>3
    <3> QED BY ONLY <3>2 DEF a, b
  <2>6. \A v \in Uploads \ {u} : client'[v] = client[v]
    BY <2>1
  <2> QED BY ONLY <1>1, <2>2, <2>5, <2>6
<1>2. CASE client[u].at \notin {"waiting", "finishing"}
  BY <1>2 DEF Fails
<1> QED BY <1>1, <1>2

\* The bytes received are a number.
LEMMA ReceivedNat ==
  ASSUME TypeOK, NEW u \in Uploads
  PROVE  Received(u) \in Nat
<1> DEFINE I == 0 .. NChunks(u) - 1
           L == 1 .. ChunkSize
<1>1. IsFiniteSet(I) /\ IsFiniteSet(L)
  <2>1. NChunks(u) - 1 \in Int /\ ChunkSize \in Int
    BY Sizes, ConstantsOK
  <2> QED BY <2>1, FS_Interval
<1>2. IsFiniteSet(I \X L)
  <2> HIDE DEF I, L
  <2> QED BY <1>1, FS_Product
<1>3. Pieces(u) \subseteq I \X L
  <2>1. \A i \in DOMAIN parts[u] : i \in I /\ parts[u][i] \in 0 .. ChunkSize
    BY DEF TypeOK
  <2> QED BY <2>1, ConstantsOK DEF Pieces
<1>4. IsFiniteSet(Pieces(u))
  BY <1>2, <1>3, FS_Subset
<1> QED BY <1>4, FS_CardinalityType DEF Received


\* The chunk being received is one of the file's.
LEMMA ChunkInHand ==
  ASSUME TypeOK, NEW u \in Uploads, UploadOK(u), writer[u].at # "idle"
  PROVE  /\ client[u].next \in 0 .. NChunks(u) - 1
         /\ PartLen(u, client[u].next) \in 1 .. ChunkSize
         /\ client[u].next * ChunkSize + PartLen(u, client[u].next) <= file[u].size
<1>1. client[u].next \in Nat /\ client[u].next < NChunks(u) /\ NChunks(u) \in Nat
  BY Sizes DEF UploadOK, InStep, TypeOK, ClientStates
<1> QED BY <1>1, Sizes

\* A part is unlinked.
LEMMA PartRemoved ==
  ASSUME TypeOK, NEW u \in Uploads, NEW i,
         parts' = [parts EXCEPT ![u] = WithoutPart(@, i)]
  PROVE  /\ DOMAIN parts' = Uploads /\ \A v \in Uploads \ {u} : parts'[v] = parts[v]
         /\ DOMAIN parts'[u] = DOMAIN parts[u] \ {i}
         /\ parts'[u] \in [DOMAIN parts'[u] -> 0 .. ChunkSize]
         /\ \A j \in DOMAIN parts'[u] : parts'[u][j] = parts[u][j]
<1>1. parts'[u] = [j \in DOMAIN parts[u] \ {i} |-> parts[u][j]]
  BY DEF TypeOK, WithoutPart
<1>2. parts[u] \in [DOMAIN parts[u] -> 0 .. ChunkSize]
  BY DEF TypeOK
<1>3. DOMAIN parts' = Uploads /\ \A v \in Uploads \ {u} : parts'[v] = parts[v]
  BY DEF TypeOK
<1> QED BY <1>1, <1>2, <1>3

\* A session is opened.
LEMMA InitSessionKept ==
  ASSUME Inductive, NEW u \in Uploads, InitSession(u)
  PROVE  Inductive'
<1>a. TypeOK /\ UploadOK(u)
  BY DEF Inductive
<1>1. TypeOK'
  <2>1. client' \in [Uploads -> ClientStates]
    BY <1>a, ClientType DEF InitSession, TypeOK
  <2>2. \A v \in Uploads : client'[v].next \in 0 .. NChunks(v)
    BY <1>a DEF InitSession, TypeOK, ClientStates
  <2> QED BY <1>a, <2>1, <2>2, SizesStay
         DEF InitSession, TypeOK, table, disk
<1>2. \A v \in Uploads \ {u} : Same(v)
  BY <1>a DEF InitSession, Same, TypeOK, table, disk
<1>3. /\ file' = file /\ parts'[u] = parts[u] /\ writer'[u] = writer[u]
      /\ completer'[u] = completer[u] /\ clearing'[u] = clearing[u]
      /\ handed'[u] = handed[u] /\ client'[u].at = "sending"
      /\ client'[u].next = client[u].next /\ client'[u].why = client[u].why
  BY <1>a DEF InitSession, TypeOK, ClientStates, table, disk
<1>4. /\ client[u].at = "start" /\ file[u].declared <= MaxSize
      /\ sessions' = sessions \cup {u} /\ dirs' = dirs \cup {u}
      /\ aged' = aged /\ purge' = purge
  BY <1>a, ConstantsOK DEF InitSession, MoreToCome, TypeOK, FileRecord, WriterStates, UploadOK, InStep, table, disk
<1>5. client[u].next \in Nat /\ writer[u].size \in Nat /\ NChunks(u) \in Nat
  BY <1>a, Sizes DEF TypeOK, ClientStates, WriterStates
<1>6. UploadOK(u)'
  <2> USE <1>a, <1>3, <1>4, <1>5, SizesStay DEF UploadOK, QuickOK
  <2>1. InStep(u)'
    BY DEF InStep
  <2>2. PartsInPlace(u)'
    BY DEF PartsInPlace, InStep
  <2>3. CopiedInOrder(u)'
    BY InOrderStays DEF CopiedInOrder
  <2>4. Held(u)'
    BY DEF Held, InStep
  <2>5. QuickOK(u)'
    <3> SUFFICES ASSUME ~file[u].slow
                 PROVE  (OwnSession(u) /\ OwnAnswer(u) /\ IsWhole(u) /\ Answered(u))'
      OBVIOUS
    <3>1. OwnSession(u)'
      BY DEF OwnSession, Over, InStep, Held
    <3>2. OwnAnswer(u)'
      BY FileStays DEF OwnAnswer, OwnSession, Over, InStep
    <3>3. IsWhole(u)'
      BY DEF IsWhole
    <3>4. Answered(u)'
      BY DEF Answered, OwnSession, OwnAnswer, Over, InStep, Held
    <3> QED BY <3>1, <3>2, <3>3, <3>4
  <2> QED BY <2>1, <2>2, <2>3, <2>4, <2>5
<1> QED BY <1>1, <1>2, <1>3, <1>6, OneKept

\* The request for a session is refused.
LEMMA RefuseInitKept ==
  ASSUME Inductive, NEW u \in Uploads, RefuseInit(u)
  PROVE  Inductive'
<1>a. TypeOK /\ UploadOK(u)
  BY DEF Inductive
<1>1. TypeOK'
  <2>1. client' \in [Uploads -> ClientStates]
    BY <1>a, ClientFailed DEF RefuseInit, TypeOK, Reasons
  <2>2. \A v \in Uploads : client'[v].next \in 0 .. NChunks(v)
    BY <1>a DEF RefuseInit, TypeOK, ClientStates
  <2> QED BY <1>a, <2>1, <2>2, SizesStay
         DEF RefuseInit, TypeOK, table, disk
<1>2. \A v \in Uploads \ {u} : Same(v)
  BY <1>a DEF RefuseInit, Same, TypeOK, table, disk
<1>3. /\ file' = file /\ parts'[u] = parts[u] /\ writer'[u] = writer[u]
      /\ completer'[u] = completer[u] /\ clearing'[u] = clearing[u]
      /\ handed'[u] = handed[u] /\ client'[u].at = "failed"
      /\ client'[u].next = client[u].next /\ client'[u].why = "refused"
  BY <1>a DEF RefuseInit, TypeOK, ClientStates, table, disk
<1>4. /\ client[u].at = "start"
      /\ UNCHANGED <<sessions, dirs, aged, purge>>
  BY <1>a, ConstantsOK DEF RefuseInit, MoreToCome, TypeOK, FileRecord, WriterStates, UploadOK, InStep, table, disk
<1>5. client[u].next \in Nat /\ writer[u].size \in Nat /\ NChunks(u) \in Nat
  BY <1>a, Sizes DEF TypeOK, ClientStates, WriterStates
<1>6. UploadOK(u)'
  <2> USE <1>a, <1>3, <1>4, <1>5, SizesStay DEF UploadOK, QuickOK
  <2>1. InStep(u)'
    BY DEF InStep
  <2>2. PartsInPlace(u)'
    BY DEF PartsInPlace, InStep
  <2>3. CopiedInOrder(u)'
    BY InOrderStays DEF CopiedInOrder
  <2>4. Held(u)'
    BY DEF Held, InStep
  <2>5. QuickOK(u)'
    <3> SUFFICES ASSUME ~file[u].slow
                 PROVE  (OwnSession(u) /\ OwnAnswer(u) /\ IsWhole(u) /\ Answered(u))'
      OBVIOUS
    <3>1. OwnSession(u)'
      BY DEF OwnSession, Over, InStep, Held
    <3>2. OwnAnswer(u)'
      BY FileStays DEF OwnAnswer, OwnSession, Over, InStep
    <3>3. IsWhole(u)'
      BY DEF IsWhole
    <3>4. Answered(u)'
      BY DEF Answered, OwnSession, OwnAnswer, Over, InStep, Held
    <3> QED BY <3>1, <3>2, <3>3, <3>4
  <2> QED BY <2>1, <2>2, <2>3, <2>4, <2>5
<1> QED BY <1>1, <1>2, <1>3, <1>6, OneKept

\* The browser posts its next chunk.
LEMMA SendChunkKept ==
  ASSUME Inductive, NEW u \in Uploads, SendChunk(u)
  PROVE  Inductive'
<1>a. TypeOK /\ UploadOK(u)
  BY DEF Inductive
<1>1. TypeOK'
  <2>1. client' \in [Uploads -> ClientStates]
    BY <1>a, ClientType DEF SendChunk, TypeOK
  <2>2. writer' \in [Uploads -> WriterStates]
    BY <1>a, WriterType DEF SendChunk, TypeOK
  <2>3. \A v \in Uploads : client'[v].next \in 0 .. NChunks(v)
    BY <1>a DEF SendChunk, TypeOK, ClientStates
  <2> QED BY <1>a, <2>1, <2>2, <2>3, SizesStay
         DEF SendChunk, TypeOK, table, disk
<1>2. \A v \in Uploads \ {u} : Same(v)
  BY <1>a DEF SendChunk, Same, TypeOK, table, disk
<1>3. /\ file' = file /\ parts'[u] = parts[u] /\ completer'[u] = completer[u]
      /\ clearing'[u] = clearing[u] /\ handed'[u] = handed[u]
      /\ client'[u].at = "waiting" /\ client'[u].next = client[u].next
      /\ client'[u].why = client[u].why /\ writer'[u].at = "arrived"
      /\ writer'[u].size = writer[u].size
      /\ writer'[u].already = writer[u].already
  BY <1>a DEF SendChunk, TypeOK, ClientStates, WriterStates, table, disk
<1>4. /\ client[u].at = "sending" /\ client[u].next < NChunks(u)
      /\ UNCHANGED <<sessions, dirs, aged, purge>>
  BY <1>a, ConstantsOK DEF SendChunk, MoreToCome, TypeOK, FileRecord, WriterStates, UploadOK, InStep, table, disk
<1>5. client[u].next \in Nat /\ writer[u].size \in Nat /\ NChunks(u) \in Nat
  BY <1>a, Sizes DEF TypeOK, ClientStates, WriterStates
<1>6. UploadOK(u)'
  <2> USE <1>a, <1>3, <1>4, <1>5, SizesStay DEF UploadOK, QuickOK
  <2>1. InStep(u)'
    BY DEF InStep
  <2>2. PartsInPlace(u)'
    BY DEF PartsInPlace, InStep
  <2>3. CopiedInOrder(u)'
    BY InOrderStays DEF CopiedInOrder
  <2>4. Held(u)'
    BY DEF Held, InStep
  <2>5. QuickOK(u)'
    <3> SUFFICES ASSUME ~file[u].slow
                 PROVE  (OwnSession(u) /\ OwnAnswer(u) /\ IsWhole(u) /\ Answered(u))'
      OBVIOUS
    <3>1. OwnSession(u)'
      BY DEF OwnSession, Over, InStep, Held
    <3>2. OwnAnswer(u)'
      BY FileStays DEF OwnAnswer, OwnSession, Over, InStep
    <3>3. IsWhole(u)'
      BY DEF IsWhole
    <3>4. Answered(u)'
      BY DEF Answered, OwnSession, OwnAnswer, Over, InStep, Held
    <3> QED BY <3>1, <3>2, <3>3, <3>4
  <2> QED BY <2>1, <2>2, <2>3, <2>4, <2>5
<1> QED BY <1>1, <1>2, <1>3, <1>6, OneKept

\* The browser asks for the file to be put together.
LEMMA SendCompleteKept ==
  ASSUME Inductive, NEW u \in Uploads, SendComplete(u)
  PROVE  Inductive'
<1>a. TypeOK /\ UploadOK(u)
  BY DEF Inductive
<1>1. TypeOK'
  <2>1. client' \in [Uploads -> ClientStates]
    BY <1>a, ClientType DEF SendComplete, TypeOK
  <2>2. completer' \in [Uploads -> CompleterStates]
    BY <1>a, CompleterType DEF SendComplete, TypeOK
  <2>3. \A v \in Uploads : client'[v].next \in 0 .. NChunks(v)
    BY <1>a DEF SendComplete, TypeOK, ClientStates
  <2> QED BY <1>a, <2>1, <2>2, <2>3, SizesStay
         DEF SendComplete, TypeOK, table, disk
<1>2. \A v \in Uploads \ {u} : Same(v)
  BY <1>a DEF SendComplete, Same, TypeOK, table, disk
<1>3. /\ file' = file /\ parts'[u] = parts[u] /\ writer'[u] = writer[u]
      /\ clearing'[u] = clearing[u] /\ handed'[u] = handed[u]
      /\ client'[u].at = "finishing" /\ client'[u].next = client[u].next
      /\ client'[u].why = client[u].why /\ completer'[u].at = "arrived"
      /\ completer'[u].todo = completer[u].todo
      /\ completer'[u].copied = completer[u].copied
      /\ completer'[u].answer = completer[u].answer
  BY <1>a DEF SendComplete, TypeOK, ClientStates, CompleterStates, table, disk
<1>4. /\ client[u].at = "sending" /\ client[u].next = NChunks(u)
      /\ UNCHANGED <<sessions, dirs, aged, purge>>
  BY <1>a, ConstantsOK DEF SendComplete, MoreToCome, TypeOK, FileRecord, WriterStates, UploadOK, InStep, table, disk
<1>5. client[u].next \in Nat /\ writer[u].size \in Nat /\ NChunks(u) \in Nat
  BY <1>a, Sizes DEF TypeOK, ClientStates, WriterStates
<1>6. UploadOK(u)'
  <2> USE <1>a, <1>3, <1>4, <1>5, SizesStay DEF UploadOK, QuickOK
  <2>1. InStep(u)'
    BY DEF InStep
  <2>2. PartsInPlace(u)'
    BY DEF PartsInPlace, InStep
  <2>3. CopiedInOrder(u)'
    BY InOrderStays DEF CopiedInOrder, InStep
  <2>4. Held(u)'
    BY DEF Held, InStep
  <2>5. QuickOK(u)'
    <3> SUFFICES ASSUME ~file[u].slow
                 PROVE  (OwnSession(u) /\ OwnAnswer(u) /\ IsWhole(u) /\ Answered(u))'
      OBVIOUS
    <3>1. OwnSession(u)'
      BY DEF OwnSession, Over, InStep, Held
    <3>2. OwnAnswer(u)'
      BY FileStays DEF OwnAnswer, OwnSession, Over, InStep
    <3>3. IsWhole(u)'
      BY DEF IsWhole
    <3>4. Answered(u)'
      BY DEF Answered, OwnSession, OwnAnswer, Over, InStep, Held
    <3> QED BY <3>1, <3>2, <3>3, <3>4
  <2> QED BY <2>1, <2>2, <2>3, <2>4, <2>5
<1> QED BY <1>1, <1>2, <1>3, <1>6, OneKept

\* The browser is gone; its handlers stay at work.
LEMMA DisconnectKept ==
  ASSUME Inductive, NEW u \in Uploads, Disconnect(u)
  PROVE  Inductive'
<1>a. TypeOK /\ UploadOK(u)
  BY DEF Inductive
<1>1. TypeOK'
  <2>1. client' \in [Uploads -> ClientStates]
    BY <1>a, ClientFailed DEF Disconnect, TypeOK, Reasons
  <2>2. \A v \in Uploads : client'[v].next \in 0 .. NChunks(v)
    BY <1>a DEF Disconnect, TypeOK, ClientStates
  <2> QED BY <1>a, <2>1, <2>2, SizesStay
         DEF Disconnect, TypeOK, table, disk
<1>2. \A v \in Uploads \ {u} : Same(v)
  BY <1>a DEF Disconnect, Same, TypeOK, table, disk
<1>3. /\ file' = file /\ parts'[u] = parts[u] /\ writer'[u] = writer[u]
      /\ completer'[u] = completer[u] /\ clearing'[u] = clearing[u]
      /\ handed'[u] = handed[u] /\ client'[u].at = "failed"
      /\ client'[u].next = client[u].next /\ client'[u].why = "lost"
  BY <1>a DEF Disconnect, TypeOK, ClientStates, table, disk
<1>4. /\ client[u].at \in {"sending", "waiting", "finishing"}
      /\ UNCHANGED <<sessions, dirs, aged, purge>>
  BY <1>a, ConstantsOK DEF Disconnect, MoreToCome, TypeOK, FileRecord, WriterStates, UploadOK, InStep, table, disk
<1>5. client[u].next \in Nat /\ writer[u].size \in Nat /\ NChunks(u) \in Nat
  BY <1>a, Sizes DEF TypeOK, ClientStates, WriterStates
<1>6. UploadOK(u)'
  <2> USE <1>a, <1>3, <1>4, <1>5, SizesStay DEF UploadOK, QuickOK
  <2>1. InStep(u)'
    BY DEF InStep
  <2>2. PartsInPlace(u)'
    BY DEF PartsInPlace, InStep
  <2>3. CopiedInOrder(u)'
    BY InOrderStays DEF CopiedInOrder
  <2>4. Held(u)'
    BY DEF Held, InStep
  <2>5. QuickOK(u)'
    <3> SUFFICES ASSUME ~file[u].slow
                 PROVE  (OwnSession(u) /\ OwnAnswer(u) /\ IsWhole(u) /\ Answered(u))'
      OBVIOUS
    <3>1. OwnSession(u)'
      BY DEF OwnSession, Over, InStep, Held
    <3>2. OwnAnswer(u)'
      BY FileStays DEF OwnAnswer, OwnSession, Over, InStep
    <3>3. IsWhole(u)'
      BY DEF IsWhole
    <3>4. Answered(u)'
      BY DEF Answered, OwnSession, OwnAnswer, Over, InStep, Held
    <3> QED BY <3>1, <3>2, <3>3, <3>4
  <2> QED BY <2>1, <2>2, <2>3, <2>4, <2>5
<1> QED BY <1>1, <1>2, <1>3, <1>6, OneKept

\* A chunk arrives for a session that is in the table.
LEMMA BeginChunkFound ==
  ASSUME Inductive, NEW u \in Uploads, BeginChunk(u), u \in sessions
  PROVE  Inductive'
<1>a. TypeOK /\ UploadOK(u)
  BY DEF Inductive
<1>b. /\ Received(u) \in Nat
      /\ writer' = [writer EXCEPT ![u].at = "looked", ![u].already = Received(u)]
  BY <1>a, ReceivedNat DEF BeginChunk
<1>c. Received(u) = client[u].next * ChunkSize
  <2>1. client[u].next \in Nat /\ client[u].next < NChunks(u) /\ writer[u].at = "arrived"
    BY <1>a DEF BeginChunk, UploadOK, InStep, TypeOK, ClientStates
  <2>2. /\ DOMAIN parts[u] = 0 .. client[u].next - 1
        /\ \A i \in DOMAIN parts[u] : parts[u][i] = PartLen(u, i)
    <3>1. DOMAIN parts[u] \subseteq 0 .. NChunks(u) - 1 /\ NChunks(u) \in Nat
      BY <1>a, Sizes DEF TypeOK
    <3>2. \A i \in DOMAIN parts[u] : i \in 0 .. client[u].next - 1
      BY <1>a, <2>1, <3>1 DEF UploadOK, PartsInPlace
    <3>3. \A i \in 0 .. client[u].next - 1 : i \in DOMAIN parts[u]
      BY <1>a, <2>1 DEF UploadOK, Held
    <3>4. \A i \in DOMAIN parts[u] : parts[u][i] = PartLen(u, i)
      BY <1>a, <2>1, <3>2 DEF UploadOK, PartsInPlace
    <3> QED BY <3>2, <3>3, <3>4
  <2>3. NChunks(u) \in Nat
    BY <1>a, Sizes
  <2>4. client[u].next <= NChunks(u) /\ client[u].next # NChunks(u)
    BY ONLY <2>1, <2>3
  <2> QED BY ONLY <1>a, u \in Uploads, <2>1, <2>2, <2>4, ReceivedSoFar
<1>1. TypeOK'
  <2>1. writer' \in [Uploads -> WriterStates]
    BY ONLY <1>a, <1>b, WriterType, u \in Uploads DEF TypeOK
  <2> QED BY <1>a, <1>b, <2>1, SizesStay
         DEF BeginChunk, TypeOK, table, disk
<1>2. \A v \in Uploads \ {u} : Same(v)
  BY <1>a, <1>b DEF BeginChunk, Same, TypeOK, table, disk
<1>3. /\ file' = file /\ client'[u] = client[u] /\ parts'[u] = parts[u]
      /\ completer'[u] = completer[u] /\ clearing'[u] = clearing[u]
      /\ handed'[u] = handed[u] /\ writer'[u].at = "looked"
      /\ writer'[u].size = writer[u].size /\ writer'[u].already = Received(u)
  BY <1>a, <1>b DEF BeginChunk, TypeOK, WriterStates, table, disk
<1>4. /\ writer[u].at = "arrived" /\ u \in sessions
      /\ UNCHANGED <<sessions, dirs, aged, purge>>
  BY <1>a, <1>b, ConstantsOK DEF BeginChunk, MoreToCome, TypeOK, FileRecord, WriterStates, UploadOK, InStep, table, disk
<1>5. client[u].next \in Nat /\ writer[u].size \in Nat /\ NChunks(u) \in Nat
  BY <1>a, Sizes DEF TypeOK, ClientStates, WriterStates
<1>6. UploadOK(u)'
  <2> USE <1>a, <1>b, <1>3, <1>4, <1>5, SizesStay DEF UploadOK, QuickOK
  <2>1. InStep(u)'
    BY DEF InStep
  <2>2. PartsInPlace(u)'
    BY DEF PartsInPlace, InStep
  <2>3. CopiedInOrder(u)'
    BY InOrderStays DEF CopiedInOrder
  <2>4. Held(u)'
    BY DEF Held, InStep
  <2>5. QuickOK(u)'
    <3> SUFFICES ASSUME ~file[u].slow
                 PROVE  (OwnSession(u) /\ OwnAnswer(u) /\ IsWhole(u) /\ Answered(u))'
      OBVIOUS
    <3>1. OwnSession(u)'
      BY DEF OwnSession, Over, InStep, Held
    <3>2. OwnAnswer(u)'
      BY <1>c, FileStays DEF OwnAnswer, OwnSession, Over, InStep
    <3>3. IsWhole(u)'
      BY DEF IsWhole
    <3>4. Answered(u)'
      BY DEF Answered, OwnSession, OwnAnswer, Over, InStep, Held
    <3> QED BY <3>1, <3>2, <3>3, <3>4
  <2> QED BY <2>1, <2>2, <2>3, <2>4, <2>5
<1> QED BY <1>1, <1>2, <1>3, <1>6, OneKept

\* A chunk arrives for a session that is gone.
LEMMA BeginChunkGone ==
  ASSUME Inductive, NEW u \in Uploads, BeginChunk(u), u \notin sessions
  PROVE  Inductive'
<1>a. TypeOK /\ UploadOK(u)
  BY DEF Inductive
<1>b. /\ client' \in [Uploads -> ClientStates]
      /\ client'[u].next = client[u].next
      /\ client[u].at \in {"waiting", "finishing"} =>
           client'[u].at = "failed" /\ client'[u].why = "gone"
      /\ client[u].at \notin {"waiting", "finishing"} => client'[u] = client[u]
      /\ \A v \in Uploads \ {u} : client'[v] = client[v]
  <2>1. client' = Fails(u, "gone") /\ "gone" \in Reasons
    BY DEF BeginChunk, Reasons
  <2>2. client \in [Uploads -> ClientStates]
    BY <1>a DEF TypeOK
  <2> QED BY ONLY <2>1, <2>2, u \in Uploads, FailsEffect
<1>c. writer' = [writer EXCEPT ![u] = IdleWriter]
  BY DEF BeginChunk
<1>1. TypeOK'
  <2>1. writer' \in [Uploads -> WriterStates]
    BY <1>a, <1>c, WriterType DEF TypeOK
  <2>2. client' \in [Uploads -> ClientStates]
    BY <1>b
  <2>3. \A v \in Uploads : client'[v].next \in 0 .. NChunks(v)
    BY <1>a, <1>b DEF TypeOK
  <2> QED BY <1>a, <1>b, <2>1, <2>2, <2>3, SizesStay
         DEF BeginChunk, TypeOK, table, disk
<1>2. \A v \in Uploads \ {u} : Same(v)
  BY <1>a, <1>b DEF BeginChunk, Same, TypeOK, table, disk
<1>3. /\ file' = file /\ parts'[u] = parts[u] /\ completer'[u] = completer[u]
      /\ clearing'[u] = clearing[u] /\ handed'[u] = handed[u]
      /\ writer'[u].at = "idle" /\ writer'[u].size = 0 /\ writer'[u].already = 0
  BY <1>a, <1>b DEF BeginChunk, TypeOK, WriterStates, ClientStates, IdleWriter, table, disk
<1>4. /\ writer[u].at = "arrived" /\ u \notin sessions
      /\ UNCHANGED <<sessions, dirs, aged, purge>>
  BY <1>a, <1>b, ConstantsOK DEF BeginChunk, MoreToCome, TypeOK, FileRecord, WriterStates, UploadOK, InStep, table, disk
<1>5. client[u].next \in Nat /\ writer[u].size \in Nat /\ NChunks(u) \in Nat
  BY <1>a, Sizes DEF TypeOK, ClientStates, WriterStates
<1>6. UploadOK(u)'
  <2> USE <1>a, <1>b, <1>3, <1>4, <1>5, SizesStay DEF UploadOK, QuickOK
  <2>1. InStep(u)'
    BY DEF InStep
  <2>2. PartsInPlace(u)'
    BY DEF PartsInPlace, InStep
  <2>3. CopiedInOrder(u)'
    BY InOrderStays DEF CopiedInOrder
  <2>4. Held(u)'
    BY DEF Held, InStep
  <2>5. QuickOK(u)'
    <3> SUFFICES ASSUME ~file[u].slow
                 PROVE  (OwnSession(u) /\ OwnAnswer(u) /\ IsWhole(u) /\ Answered(u))'
      OBVIOUS
    <3>1. OwnSession(u)'
      BY DEF OwnSession, Over, InStep, Held
    <3>2. OwnAnswer(u)'
      BY FileStays DEF OwnAnswer, OwnSession, Over, InStep
    <3>3. IsWhole(u)'
      BY DEF IsWhole
    <3>4. Answered(u)'
      BY DEF Answered, OwnSession, OwnAnswer, Over, InStep, Held
    <3> QED BY <3>1, <3>2, <3>3, <3>4
  <2> QED BY <2>1, <2>2, <2>3, <2>4, <2>5
<1> QED BY <1>1, <1>2, <1>3, <1>6, OneKept

\* The part of a chunk cannot be created: the directory is gone.
LEMMA OpenPartFailsKept ==
  ASSUME Inductive, NEW u \in Uploads, OpenPartFails(u)
  PROVE  Inductive'
<1>a. TypeOK /\ UploadOK(u)
  BY DEF Inductive
<1>b. /\ client' \in [Uploads -> ClientStates]
      /\ client'[u].next = client[u].next
      /\ client[u].at \in {"waiting", "finishing"} =>
           client'[u].at = "failed" /\ client'[u].why = "error"
      /\ client[u].at \notin {"waiting", "finishing"} => client'[u] = client[u]
      /\ \A v \in Uploads \ {u} : client'[v] = client[v]
  <2>1. client' = Fails(u, "error") /\ "error" \in Reasons
    BY DEF OpenPartFails, Reasons
  <2>2. client \in [Uploads -> ClientStates]
    BY <1>a DEF TypeOK
  <2> QED BY ONLY <2>1, <2>2, u \in Uploads, FailsEffect
<1>c. writer' = [writer EXCEPT ![u] = IdleWriter]
  BY DEF OpenPartFails
<1>1. TypeOK'
  <2>1. writer' \in [Uploads -> WriterStates]
    BY <1>a, <1>c, WriterType DEF TypeOK
  <2>2. client' \in [Uploads -> ClientStates]
    BY <1>b
  <2>3. \A v \in Uploads : client'[v].next \in 0 .. NChunks(v)
    BY <1>a, <1>b DEF TypeOK
  <2> QED BY <1>a, <1>b, <2>1, <2>2, <2>3, SizesStay
         DEF OpenPartFails, TypeOK, table, disk
<1>2. \A v \in Uploads \ {u} : Same(v)
  BY <1>a, <1>b DEF OpenPartFails, Same, TypeOK, table, disk
<1>3. /\ file' = file /\ parts'[u] = parts[u] /\ completer'[u] = completer[u]
      /\ clearing'[u] = clearing[u] /\ handed'[u] = handed[u]
      /\ writer'[u].at = "idle" /\ writer'[u].size = 0 /\ writer'[u].already = 0
  BY <1>a, <1>b DEF OpenPartFails, TypeOK, WriterStates, ClientStates, IdleWriter, table, disk
<1>4. /\ writer[u].at = "looked" /\ u \notin dirs /\ u \notin sessions
      /\ UNCHANGED <<sessions, dirs, aged, purge>>
  BY <1>a, <1>b, ConstantsOK DEF OpenPartFails, MoreToCome, TypeOK, FileRecord, WriterStates, UploadOK, InStep, table, disk
<1>5. client[u].next \in Nat /\ writer[u].size \in Nat /\ NChunks(u) \in Nat
  BY <1>a, Sizes DEF TypeOK, ClientStates, WriterStates
<1>6. UploadOK(u)'
  <2> USE <1>a, <1>b, <1>3, <1>4, <1>5, SizesStay DEF UploadOK, QuickOK
  <2>1. InStep(u)'
    BY DEF InStep
  <2>2. PartsInPlace(u)'
    BY DEF PartsInPlace, InStep
  <2>3. CopiedInOrder(u)'
    BY InOrderStays DEF CopiedInOrder
  <2>4. Held(u)'
    BY DEF Held, InStep
  <2>5. QuickOK(u)'
    <3> SUFFICES ASSUME ~file[u].slow
                 PROVE  (OwnSession(u) /\ OwnAnswer(u) /\ IsWhole(u) /\ Answered(u))'
      OBVIOUS
    <3>1. OwnSession(u)'
      BY DEF OwnSession, Over, InStep, Held
    <3>2. OwnAnswer(u)'
      BY FileStays DEF OwnAnswer, OwnSession, Over, InStep
    <3>3. IsWhole(u)'
      BY DEF IsWhole
    <3>4. Answered(u)'
      BY DEF Answered, OwnSession, OwnAnswer, Over, InStep, Held
    <3> QED BY <3>1, <3>2, <3>3, <3>4
  <2> QED BY <2>1, <2>2, <2>3, <2>4, <2>5
<1> QED BY <1>1, <1>2, <1>3, <1>6, OneKept

\* The part of a chunk is created.
LEMMA OpenPartKept ==
  ASSUME Inductive, NEW u \in Uploads, OpenPart(u)
  PROVE  Inductive'
<1>a. TypeOK /\ UploadOK(u)
  BY DEF Inductive
<1>e. /\ client[u].next \in 0 .. NChunks(u) - 1 /\ 0 \in 0 .. ChunkSize
      /\ PartLen(u, client[u].next) \in 1 .. ChunkSize
  BY <1>a, ChunkInHand, ConstantsOK DEF OpenPart
<1>d. /\ DOMAIN parts' = Uploads /\ \A v \in Uploads \ {u} : parts'[v] = parts[v]
      /\ DOMAIN parts'[u] = DOMAIN parts[u] \cup {client[u].next}
      /\ parts'[u] \in [DOMAIN parts'[u] -> 0 .. ChunkSize]
      /\ parts'[u][client[u].next] = 0
      /\ \A j \in DOMAIN parts[u] : j # client[u].next => parts'[u][j] = parts[u][j]
  <2>1. /\ parts'[u] = WithPart(parts[u], client[u].next, 0)
        /\ DOMAIN parts' = Uploads /\ \A v \in Uploads \ {u} : parts'[v] = parts[v]
        /\ parts[u] \in [DOMAIN parts[u] -> 0 .. ChunkSize]
    BY <1>a DEF OpenPart, TypeOK
  <2> QED BY ONLY <1>e, <2>1 DEF WithPart
<1>1. TypeOK'
  <2>1. writer' \in [Uploads -> WriterStates]
    BY <1>a, <1>e, WriterType DEF OpenPart, TypeOK
  <2>2. DOMAIN parts' = Uploads
    BY <1>d
  <2>3. \A v \in Uploads : /\ DOMAIN parts'[v] \subseteq 0 .. NChunks(v) - 1
                         /\ parts'[v] \in [DOMAIN parts'[v] -> 0 .. ChunkSize]
    BY <1>a, <1>d, <1>e DEF TypeOK
  <2> QED BY <1>a, <1>d, <2>1, <2>2, <2>3, SizesStay
         DEF OpenPart, TypeOK, table, disk
<1>2. \A v \in Uploads \ {u} : Same(v)
  BY <1>a, <1>d DEF OpenPart, Same, TypeOK, table, disk
<1>3. /\ file' = file /\ client'[u] = client[u] /\ completer'[u] = completer[u]
      /\ clearing'[u] = clearing[u] /\ handed'[u] = handed[u]
      /\ writer'[u].at = "writing" /\ writer'[u].size = 0
      /\ writer'[u].already = writer[u].already
  BY <1>a, <1>d DEF OpenPart, TypeOK, WriterStates, table, disk
<1>4. /\ writer[u].at = "looked" /\ u \in dirs
      /\ UNCHANGED <<sessions, dirs, aged, purge>>
  BY <1>a, <1>d, ConstantsOK DEF OpenPart, MoreToCome, TypeOK, FileRecord, WriterStates, UploadOK, InStep, table, disk
<1>5. client[u].next \in Nat /\ writer[u].size \in Nat /\ NChunks(u) \in Nat
  BY <1>a, Sizes DEF TypeOK, ClientStates, WriterStates
<1>6. UploadOK(u)'
  <2> USE <1>a, <1>d, <1>e, <1>3, <1>4, <1>5, SizesStay DEF UploadOK, QuickOK
  <2>1. InStep(u)'
    BY DEF InStep
  <2>2. PartsInPlace(u)'
    BY DEF PartsInPlace, InStep
  <2>3. CopiedInOrder(u)'
    BY InOrderStays DEF CopiedInOrder
  <2>4. Held(u)'
    BY DEF Held, InStep
  <2>5. QuickOK(u)'
    <3> SUFFICES ASSUME ~file[u].slow
                 PROVE  (OwnSession(u) /\ OwnAnswer(u) /\ IsWhole(u) /\ Answered(u))'
      OBVIOUS
    <3>1. OwnSession(u)'
      BY DEF OwnSession, Over, InStep, Held
    <3>2. OwnAnswer(u)'
      BY FileStays DEF OwnAnswer, OwnSession, Over, InStep
    <3>3. IsWhole(u)'
      BY DEF IsWhole
    <3>4. Answered(u)'
      BY DEF Answered, OwnSession, OwnAnswer, Over, InStep, Held
    <3> QED BY <3>1, <3>2, <3>3, <3>4
  <2> QED BY <2>1, <2>2, <2>3, <2>4, <2>5
<1> QED BY <1>1, <1>2, <1>3, <1>6, OneKept

\* A piece is written to the part.
LEMMA WritePieceKept ==
  ASSUME Inductive, NEW u \in Uploads, WritePiece(u), client[u].next \in DOMAIN parts[u]
  PROVE  Inductive'
<1>a. TypeOK /\ UploadOK(u)
  BY DEF Inductive
<1>e. /\ client[u].next \in 0 .. NChunks(u) - 1 /\ writer[u].at = "writing"
      /\ writer[u].size + 1 \in 0 .. ChunkSize
      /\ writer[u].size + 1 <= PartLen(u, client[u].next)
  <2>1. writer[u].size \in Nat
    BY <1>a DEF TypeOK, WriterStates
  <2> QED BY <1>a, <2>1, ChunkInHand, ConstantsOK DEF WritePiece, MoreToCome
<1>d. /\ DOMAIN parts' = Uploads /\ \A v \in Uploads \ {u} : parts'[v] = parts[v]
      /\ DOMAIN parts'[u] = DOMAIN parts[u] \cup {client[u].next}
      /\ parts'[u] \in [DOMAIN parts'[u] -> 0 .. ChunkSize]
      /\ parts'[u][client[u].next] = writer[u].size + 1
      /\ \A j \in DOMAIN parts[u] : j # client[u].next => parts'[u][j] = parts[u][j]
  <2>1. /\ parts'[u] = WithPart(parts[u], client[u].next, writer[u].size + 1)
        /\ DOMAIN parts' = Uploads /\ \A v \in Uploads \ {u} : parts'[v] = parts[v]
        /\ parts[u] \in [DOMAIN parts[u] -> 0 .. ChunkSize]
    BY <1>a DEF WritePiece, TypeOK
  <2> QED BY ONLY <1>e, <2>1 DEF WithPart
<1>1. TypeOK'
  <2>1. writer' \in [Uploads -> WriterStates]
    <3>1. writer \in [Uploads -> WriterStates] /\ u \in Uploads
      BY <1>a DEF TypeOK
    <3>2. \A n \in 0 .. ChunkSize : [writer EXCEPT ![u].size = n] \in [Uploads -> WriterStates]
      BY ONLY <3>1, WriterType
    <3>3. writer' = [writer EXCEPT ![u].size = writer[u].size + 1]
      BY DEF WritePiece
    <3> QED BY ONLY <1>e, <3>2, <3>3
  <2>2. DOMAIN parts' = Uploads
    BY <1>d
  <2>3. \A v \in Uploads : /\ DOMAIN parts'[v] \subseteq 0 .. NChunks(v) - 1
                         /\ parts'[v] \in [DOMAIN parts'[v] -> 0 .. ChunkSize]
    <3>1. \A v \in Uploads : /\ DOMAIN parts[v] \subseteq 0 .. NChunks(v) - 1
                             /\ parts[v] \in [DOMAIN parts[v] -> 0 .. ChunkSize]
      BY <1>a DEF TypeOK
    <3> QED BY ONLY <1>d, <1>e, <3>1
  <2> QED BY <1>a, <1>d, <1>e, <2>1, <2>2, <2>3, SizesStay
         DEF WritePiece, TypeOK, table, disk
<1>2. \A v \in Uploads \ {u} : Same(v)
  BY <1>a, <1>d, <1>e DEF WritePiece, Same, TypeOK, table, disk
<1>3. /\ file' = file /\ client'[u] = client[u] /\ completer'[u] = completer[u]
      /\ clearing'[u] = clearing[u] /\ handed'[u] = handed[u]
      /\ writer'[u].at = writer[u].at /\ writer'[u].size = writer[u].size + 1
      /\ writer'[u].already = writer[u].already
  BY <1>a, <1>d, <1>e DEF WritePiece, TypeOK, WriterStates, table, disk
<1>4. /\ writer[u].at = "writing" /\ writer[u].size + 1 <= PartLen(u, client[u].next)
      /\ client[u].next \in DOMAIN parts[u]
      /\ UNCHANGED <<sessions, dirs, aged, purge>>
  BY <1>a, <1>d, <1>e, ConstantsOK DEF WritePiece, MoreToCome, TypeOK, FileRecord, WriterStates, UploadOK, InStep, table, disk
<1>5. client[u].next \in Nat /\ writer[u].size \in Nat /\ NChunks(u) \in Nat
  BY <1>a, Sizes DEF TypeOK, ClientStates, WriterStates
<1>6. UploadOK(u)'
  <2> USE <1>a, <1>d, <1>e, <1>3, <1>4, <1>5, SizesStay DEF UploadOK, QuickOK
  <2>1. InStep(u)'
    BY DEF InStep
  <2>2. PartsInPlace(u)'
    BY DEF PartsInPlace, InStep
  <2>3. CopiedInOrder(u)'
    BY InOrderStays DEF CopiedInOrder
  <2>4. Held(u)'
    BY DEF Held, InStep
  <2>5. QuickOK(u)'
    <3> SUFFICES ASSUME ~file[u].slow
                 PROVE  (OwnSession(u) /\ OwnAnswer(u) /\ IsWhole(u) /\ Answered(u))'
      OBVIOUS
    <3>1. OwnSession(u)'
      BY DEF OwnSession, Over, InStep, Held
    <3>2. OwnAnswer(u)'
      BY FileStays DEF OwnAnswer, OwnSession, Over, InStep
    <3>3. IsWhole(u)'
      BY DEF IsWhole
    <3>4. Answered(u)'
      BY DEF Answered, OwnSession, OwnAnswer, Over, InStep, Held
    <3> QED BY <3>1, <3>2, <3>3, <3>4
  <2> QED BY <2>1, <2>2, <2>3, <2>4, <2>5
<1> QED BY <1>1, <1>2, <1>3, <1>6, OneKept

\* A piece is written to a part whose name is gone.
LEMMA WritePieceUnlinked ==
  ASSUME Inductive, NEW u \in Uploads, WritePiece(u), client[u].next \notin DOMAIN parts[u]
  PROVE  Inductive'
<1>a. TypeOK /\ UploadOK(u)
  BY DEF Inductive
<1>e. /\ client[u].next \in 0 .. NChunks(u) - 1 /\ writer[u].at = "writing"
      /\ writer[u].size + 1 \in 0 .. ChunkSize
      /\ writer[u].size + 1 <= PartLen(u, client[u].next)
  <2>1. writer[u].size \in Nat
    BY <1>a DEF TypeOK, WriterStates
  <2> QED BY <1>a, <2>1, ChunkInHand, ConstantsOK DEF WritePiece, MoreToCome
<1>1. TypeOK'
  <2>1. writer' \in [Uploads -> WriterStates]
    <3>1. writer \in [Uploads -> WriterStates] /\ u \in Uploads
      BY <1>a DEF TypeOK
    <3>2. \A n \in 0 .. ChunkSize : [writer EXCEPT ![u].size = n] \in [Uploads -> WriterStates]
      BY ONLY <3>1, WriterType
    <3>3. writer' = [writer EXCEPT ![u].size = writer[u].size + 1]
      BY DEF WritePiece
    <3> QED BY ONLY <1>e, <3>2, <3>3
  <2> QED BY <1>a, <1>e, <2>1, SizesStay
         DEF WritePiece, TypeOK, table, disk
<1>2. \A v \in Uploads \ {u} : Same(v)
  BY <1>a, <1>e DEF WritePiece, Same, TypeOK, table, disk
<1>3. /\ file' = file /\ client'[u] = client[u] /\ parts'[u] = parts[u]
      /\ completer'[u] = completer[u] /\ clearing'[u] = clearing[u]
      /\ handed'[u] = handed[u] /\ writer'[u].at = writer[u].at
      /\ writer'[u].size = writer[u].size + 1
      /\ writer'[u].already = writer[u].already
  BY <1>a, <1>e DEF WritePiece, TypeOK, WriterStates, table, disk
<1>4. /\ writer[u].at = "writing" /\ writer[u].size + 1 <= PartLen(u, client[u].next)
      /\ client[u].next \notin DOMAIN parts[u]
      /\ UNCHANGED <<sessions, dirs, aged, purge>>
  BY <1>a, <1>e, ConstantsOK DEF WritePiece, MoreToCome, TypeOK, FileRecord, WriterStates, UploadOK, InStep, table, disk
<1>5. client[u].next \in Nat /\ writer[u].size \in Nat /\ NChunks(u) \in Nat
  BY <1>a, Sizes DEF TypeOK, ClientStates, WriterStates
<1>6. UploadOK(u)'
  <2> USE <1>a, <1>e, <1>3, <1>4, <1>5, SizesStay DEF UploadOK, QuickOK
  <2>1. InStep(u)'
    BY DEF InStep
  <2>2. PartsInPlace(u)'
    BY DEF PartsInPlace, InStep
  <2>3. CopiedInOrder(u)'
    BY InOrderStays DEF CopiedInOrder
  <2>4. Held(u)'
    BY DEF Held, InStep
  <2>5. QuickOK(u)'
    <3> SUFFICES ASSUME ~file[u].slow
                 PROVE  (OwnSession(u) /\ OwnAnswer(u) /\ IsWhole(u) /\ Answered(u))'
      OBVIOUS
    <3>1. OwnSession(u)'
      BY DEF OwnSession, Over, InStep, Held
    <3>2. OwnAnswer(u)'
      BY FileStays DEF OwnAnswer, OwnSession, Over, InStep
    <3>3. IsWhole(u)'
      BY DEF IsWhole
    <3>4. Answered(u)'
      BY DEF Answered, OwnSession, OwnAnswer, Over, InStep, Held
    <3> QED BY <3>1, <3>2, <3>3, <3>4
  <2> QED BY <2>1, <2>2, <2>3, <2>4, <2>5
<1> QED BY <1>1, <1>2, <1>3, <1>6, OneKept

\* A piece too many: the part is unlinked.
LEMMA RejectPieceKept ==
  ASSUME Inductive, NEW u \in Uploads, RejectPiece(u)
  PROVE  Inductive'
<1>a. TypeOK /\ UploadOK(u)
  BY DEF Inductive
<1>b. /\ client' \in [Uploads -> ClientStates]
      /\ client'[u].next = client[u].next
      /\ client[u].at \in {"waiting", "finishing"} =>
           client'[u].at = "failed" /\ client'[u].why = "limit"
      /\ client[u].at \notin {"waiting", "finishing"} => client'[u] = client[u]
      /\ \A v \in Uploads \ {u} : client'[v] = client[v]
  <2>1. client' = Fails(u, "limit") /\ "limit" \in Reasons
    BY DEF RejectPiece, Reasons
  <2>2. client \in [Uploads -> ClientStates]
    BY <1>a DEF TypeOK
  <2> QED BY ONLY <2>1, <2>2, u \in Uploads, FailsEffect
<1>c. writer' = [writer EXCEPT ![u] = IdleWriter]
  BY DEF RejectPiece
<1>d. /\ DOMAIN parts' = Uploads /\ \A v \in Uploads \ {u} : parts'[v] = parts[v]
      /\ DOMAIN parts'[u] = DOMAIN parts[u] \ {client[u].next}
      /\ parts'[u] \in [DOMAIN parts'[u] -> 0 .. ChunkSize]
      /\ \A j \in DOMAIN parts'[u] : parts'[u][j] = parts[u][j]
  BY <1>a, PartRemoved DEF RejectPiece
<1>e. ~file[u].slow /\ client[u].at = "waiting" => file[u].declared # file[u].size
  <2> SUFFICES ASSUME ~file[u].slow, client[u].at = "waiting"
               PROVE  file[u].declared # file[u].size
    OBVIOUS
  <2>1. /\ writer[u].at = "writing" /\ writer[u].size < PartLen(u, client[u].next)
        /\ writer[u].already + writer[u].size + 1 > MaxSize
    BY DEF RejectPiece, MoreToCome, OverLimit
  <2>2. writer[u].already = client[u].next * ChunkSize /\ file[u].declared <= MaxSize
    BY <1>a, <2>1 DEF UploadOK, QuickOK, OwnAnswer
  <2>3. /\ client[u].next * ChunkSize + PartLen(u, client[u].next) <= file[u].size
        /\ client[u].next \in Nat /\ PartLen(u, client[u].next) \in Nat
    BY <1>a, <2>1, ChunkInHand
  <2>4. file[u].size \in Nat /\ file[u].declared \in Nat
    BY <1>a, Sizes DEF FileRecord
  <2>5. client[u].next * ChunkSize \in Nat /\ writer[u].size \in Nat
    BY <1>a, <2>3, ConstantsOK DEF TypeOK, WriterStates
  <2> QED BY <2>1, <2>2, <2>3, <2>4, <2>5, ConstantsOK
<1>1. TypeOK'
  <2>1. writer' \in [Uploads -> WriterStates]
    BY <1>a, <1>c, WriterType DEF TypeOK
  <2>2. client' \in [Uploads -> ClientStates]
    BY <1>b
  <2>3. \A v \in Uploads : client'[v].next \in 0 .. NChunks(v)
    BY <1>a, <1>b DEF TypeOK
  <2>4. DOMAIN parts' = Uploads
    BY <1>d
  <2>5. \A v \in Uploads : /\ DOMAIN parts'[v] \subseteq 0 .. NChunks(v) - 1
                         /\ parts'[v] \in [DOMAIN parts'[v] -> 0 .. ChunkSize]
    BY <1>a, <1>d DEF TypeOK
  <2> QED BY <1>a, <1>b, <1>d, <2>1, <2>2, <2>3, <2>4, <2>5, SizesStay
         DEF RejectPiece, TypeOK, table, disk
<1>2. \A v \in Uploads \ {u} : Same(v)
  BY <1>a, <1>b, <1>d DEF RejectPiece, Same, TypeOK, table, disk
<1>3. /\ file' = file /\ completer'[u] = completer[u]
      /\ clearing'[u] = clearing[u] /\ handed'[u] = handed[u]
      /\ writer'[u].at = "idle" /\ writer'[u].size = 0 /\ writer'[u].already = 0
  BY <1>a, <1>b, <1>d DEF RejectPiece, TypeOK, WriterStates, ClientStates, IdleWriter, table, disk
<1>4. /\ writer[u].at = "writing" /\ OverLimit(u) /\ writer[u].size < PartLen(u, client[u].next)
      /\ UNCHANGED <<sessions, dirs, aged, purge>>
  BY <1>a, <1>b, <1>d, ConstantsOK DEF RejectPiece, MoreToCome, TypeOK, FileRecord, WriterStates, UploadOK, InStep, table, disk
<1>5. client[u].next \in Nat /\ writer[u].size \in Nat /\ NChunks(u) \in Nat
  BY <1>a, Sizes DEF TypeOK, ClientStates, WriterStates
<1>6. UploadOK(u)'
  <2> USE <1>a, <1>b, <1>d, <1>3, <1>4, <1>5, SizesStay DEF UploadOK, QuickOK
  <2>1. InStep(u)'
    BY DEF InStep
  <2>2. PartsInPlace(u)'
    BY DEF PartsInPlace, InStep
  <2>3. CopiedInOrder(u)'
    BY InOrderStays DEF CopiedInOrder
  <2>4. Held(u)'
    BY DEF Held, InStep
  <2>5. QuickOK(u)'
    <3> SUFFICES ASSUME ~file[u].slow
                 PROVE  (OwnSession(u) /\ OwnAnswer(u) /\ IsWhole(u) /\ Answered(u))'
      OBVIOUS
    <3>1. OwnSession(u)'
      BY DEF OwnSession, Over, InStep, Held
    <3>2. OwnAnswer(u)'
      BY FileStays DEF OwnAnswer, OwnSession, Over, InStep
    <3>3. IsWhole(u)'
      BY DEF IsWhole
    <3>4. Answered(u)'
      BY <1>e DEF Answered, OwnSession, Over, InStep, Held
    <3> QED BY <3>1, <3>2, <3>3, <3>4
  <2> QED BY <2>1, <2>2, <2>3, <2>4, <2>5
<1> QED BY <1>1, <1>2, <1>3, <1>6, OneKept

\* The body of a chunk ends early: the part is unlinked.
LEMMA LoseChunkKept ==
  ASSUME Inductive, NEW u \in Uploads, LoseChunk(u)
  PROVE  Inductive'
<1>a. TypeOK /\ UploadOK(u)
  BY DEF Inductive
<1>d. /\ DOMAIN parts' = Uploads /\ \A v \in Uploads \ {u} : parts'[v] = parts[v]
      /\ DOMAIN parts'[u] = DOMAIN parts[u] \ {client[u].next}
      /\ parts'[u] \in [DOMAIN parts'[u] -> 0 .. ChunkSize]
      /\ \A j \in DOMAIN parts'[u] : parts'[u][j] = parts[u][j]
  BY <1>a, PartRemoved DEF LoseChunk
<1>1. TypeOK'
  <2>1. writer' \in [Uploads -> WriterStates]
    BY <1>a, WriterType DEF LoseChunk, TypeOK
  <2>2. DOMAIN parts' = Uploads
    BY <1>d
  <2>3. \A v \in Uploads : /\ DOMAIN parts'[v] \subseteq 0 .. NChunks(v) - 1
                         /\ parts'[v] \in [DOMAIN parts'[v] -> 0 .. ChunkSize]
    BY <1>a, <1>d DEF TypeOK
  <2> QED BY <1>a, <1>d, <2>1, <2>2, <2>3, SizesStay
         DEF LoseChunk, TypeOK, table, disk
<1>2. \A v \in Uploads \ {u} : Same(v)
  BY <1>a, <1>d DEF LoseChunk, Same, TypeOK, table, disk
<1>3. /\ file' = file /\ client'[u] = client[u] /\ completer'[u] = completer[u]
      /\ clearing'[u] = clearing[u] /\ handed'[u] = handed[u]
      /\ writer'[u].at = "idle" /\ writer'[u].size = 0 /\ writer'[u].already = 0
  BY <1>a, <1>d DEF LoseChunk, TypeOK, WriterStates, IdleWriter, table, disk
<1>4. /\ writer[u].at = "writing" /\ client[u].at = "failed" 
      /\ UNCHANGED <<sessions, dirs, aged, purge>>
  BY <1>a, <1>d, ConstantsOK DEF LoseChunk, MoreToCome, TypeOK, FileRecord, WriterStates, UploadOK, InStep, table, disk
<1>5. client[u].next \in Nat /\ writer[u].size \in Nat /\ NChunks(u) \in Nat
  BY <1>a, Sizes DEF TypeOK, ClientStates, WriterStates
<1>6. UploadOK(u)'
  <2> USE <1>a, <1>d, <1>3, <1>4, <1>5, SizesStay DEF UploadOK, QuickOK
  <2>1. InStep(u)'
    BY DEF InStep
  <2>2. PartsInPlace(u)'
    BY DEF PartsInPlace, InStep
  <2>3. CopiedInOrder(u)'
    BY InOrderStays DEF CopiedInOrder
  <2>4. Held(u)'
    BY DEF Held, InStep
  <2>5. QuickOK(u)'
    <3> SUFFICES ASSUME ~file[u].slow
                 PROVE  (OwnSession(u) /\ OwnAnswer(u) /\ IsWhole(u) /\ Answered(u))'
      OBVIOUS
    <3>1. OwnSession(u)'
      BY DEF OwnSession, Over, InStep, Held
    <3>2. OwnAnswer(u)'
      BY FileStays DEF OwnAnswer, OwnSession, Over, InStep
    <3>3. IsWhole(u)'
      BY DEF IsWhole
    <3>4. Answered(u)'
      BY DEF Answered, OwnSession, OwnAnswer, Over, InStep, Held
    <3> QED BY <3>1, <3>2, <3>3, <3>4
  <2> QED BY <2>1, <2>2, <2>3, <2>4, <2>5
<1> QED BY <1>1, <1>2, <1>3, <1>6, OneKept

\* A chunk is complete and the browser goes on.
LEMMA EndChunkHeard ==
  ASSUME Inductive, NEW u \in Uploads, EndChunk(u), client[u].at = "waiting"
  PROVE  Inductive'
<1>a. TypeOK /\ UploadOK(u)
  BY DEF Inductive
<1>e. /\ client[u].next \in 0 .. NChunks(u) - 1
      /\ PartLen(u, client[u].next) \in 1 .. ChunkSize
  BY <1>a, ChunkInHand DEF EndChunk
<1>1. TypeOK'
  <2>1. writer' \in [Uploads -> WriterStates]
    BY <1>a, WriterType DEF EndChunk, TypeOK
  <2>2. client' \in [Uploads -> ClientStates]
    BY <1>a, ClientType DEF EndChunk, TypeOK
  <2>3. \A v \in Uploads : client'[v].next \in 0 .. NChunks(v)
    BY <1>a, <1>e DEF EndChunk, TypeOK, ClientStates
  <2> QED BY <1>a, <2>1, <2>2, <2>3, SizesStay
         DEF EndChunk, TypeOK, table, disk
<1>2. \A v \in Uploads \ {u} : Same(v)
  BY <1>a DEF EndChunk, Same, TypeOK, table, disk
<1>3. /\ file' = file /\ parts'[u] = parts[u] /\ completer'[u] = completer[u]
      /\ clearing'[u] = clearing[u] /\ handed'[u] = handed[u]
      /\ writer'[u].at = "idle" /\ writer'[u].size = 0 /\ writer'[u].already = 0
      /\ client'[u].at = "sending" /\ client'[u].next = client[u].next + 1
      /\ client'[u].why = client[u].why
  BY <1>a DEF EndChunk, TypeOK, WriterStates, ClientStates, IdleWriter, table, disk
<1>4. /\ writer[u].at = "writing" /\ client[u].at = "waiting"
      /\ writer[u].size >= PartLen(u, client[u].next)
      /\ UNCHANGED <<sessions, dirs, aged, purge>>
  BY <1>a, <1>e, ConstantsOK DEF EndChunk, MoreToCome, TypeOK, FileRecord, WriterStates, UploadOK, InStep, table, disk
<1>5. client[u].next \in Nat /\ writer[u].size \in Nat /\ NChunks(u) \in Nat
  BY <1>a, Sizes DEF TypeOK, ClientStates, WriterStates
<1>6. UploadOK(u)'
  <2> USE <1>a, <1>e, <1>3, <1>4, <1>5, SizesStay DEF UploadOK, QuickOK
  <2>1. InStep(u)'
    BY DEF InStep
  <2>2. PartsInPlace(u)'
    <3>1. writer[u].size = PartLen(u, client[u].next)
      BY DEF PartsInPlace
    <3>2. \A i \in DOMAIN parts[u] : i \in Nat /\ i <= client[u].next
      BY DEF PartsInPlace, TypeOK
    <3>3. \A i \in DOMAIN parts[u] : i < client'[u].next => parts[u][i] = PartLen(u, i)
      BY <3>1, <3>2 DEF PartsInPlace
    <3> QED BY <3>2, <3>3 DEF PartsInPlace
  <2>3. CopiedInOrder(u)'
    BY InOrderStays DEF CopiedInOrder
  <2>4. Held(u)'
    BY DEF Held, InStep
  <2>5. QuickOK(u)'
    <3> SUFFICES ASSUME ~file[u].slow
                 PROVE  (OwnSession(u) /\ OwnAnswer(u) /\ IsWhole(u) /\ Answered(u))'
      OBVIOUS
    <3>1. OwnSession(u)'
      BY DEF OwnSession, Over, InStep, Held
    <3>2. OwnAnswer(u)'
      BY FileStays DEF OwnAnswer, OwnSession, Over, InStep
    <3>3. IsWhole(u)'
      BY DEF IsWhole
    <3>4. Answered(u)'
      BY DEF Answered, OwnSession, OwnAnswer, Over, InStep, Held
    <3> QED BY <3>1, <3>2, <3>3, <3>4
  <2> QED BY <2>1, <2>2, <2>3, <2>4, <2>5
<1> QED BY <1>1, <1>2, <1>3, <1>6, OneKept

\* A chunk is complete and the browser is gone.
LEMMA EndChunkUnheard ==
  ASSUME Inductive, NEW u \in Uploads, EndChunk(u), client[u].at # "waiting"
  PROVE  Inductive'
<1>a. TypeOK /\ UploadOK(u)
  BY DEF Inductive
<1>1. TypeOK'
  <2>1. writer' \in [Uploads -> WriterStates]
    BY <1>a, WriterType DEF EndChunk, TypeOK
  <2> QED BY <1>a, <2>1, SizesStay
         DEF EndChunk, TypeOK, table, disk
<1>2. \A v \in Uploads \ {u} : Same(v)
  BY <1>a DEF EndChunk, Same, TypeOK, table, disk
<1>3. /\ file' = file /\ client'[u] = client[u] /\ parts'[u] = parts[u]
      /\ completer'[u] = completer[u] /\ clearing'[u] = clearing[u]
      /\ handed'[u] = handed[u] /\ writer'[u].at = "idle" /\ writer'[u].size = 0
      /\ writer'[u].already = 0
  BY <1>a DEF EndChunk, TypeOK, WriterStates, IdleWriter, table, disk
<1>4. /\ writer[u].at = "writing" /\ client[u].at = "failed" 
      /\ UNCHANGED <<sessions, dirs, aged, purge>>
  BY <1>a, ConstantsOK DEF EndChunk, MoreToCome, TypeOK, FileRecord, WriterStates, UploadOK, InStep, table, disk
<1>5. client[u].next \in Nat /\ writer[u].size \in Nat /\ NChunks(u) \in Nat
  BY <1>a, Sizes DEF TypeOK, ClientStates, WriterStates
<1>6. UploadOK(u)'
  <2> USE <1>a, <1>3, <1>4, <1>5, SizesStay DEF UploadOK, QuickOK
  <2>1. InStep(u)'
    BY DEF InStep
  <2>2. PartsInPlace(u)'
    BY DEF PartsInPlace, InStep
  <2>3. CopiedInOrder(u)'
    BY InOrderStays DEF CopiedInOrder
  <2>4. Held(u)'
    BY DEF Held, InStep
  <2>5. QuickOK(u)'
    <3> SUFFICES ASSUME ~file[u].slow
                 PROVE  (OwnSession(u) /\ OwnAnswer(u) /\ IsWhole(u) /\ Answered(u))'
      OBVIOUS
    <3>1. OwnSession(u)'
      BY DEF OwnSession, Over, InStep, Held
    <3>2. OwnAnswer(u)'
      BY FileStays DEF OwnAnswer, OwnSession, Over, InStep
    <3>3. IsWhole(u)'
      BY DEF IsWhole
    <3>4. Answered(u)'
      BY DEF Answered, OwnSession, OwnAnswer, Over, InStep, Held
    <3> QED BY <3>1, <3>2, <3>3, <3>4
  <2> QED BY <2>1, <2>2, <2>3, <2>4, <2>5
<1> QED BY <1>1, <1>2, <1>3, <1>6, OneKept

\* A session in the table whose browser asks for its file has all of it.
LEMMA AllReceived ==
  ASSUME TypeOK, NEW u \in Uploads, UploadOK(u), u \in sessions,
         completer[u].at # "idle"
  PROVE  /\ DOMAIN parts[u] = 0 .. NChunks(u) - 1
         /\ Received(u) = file[u].size
<1>1. client[u].next = NChunks(u) /\ NChunks(u) \in Nat
  BY Sizes DEF UploadOK, InStep
<1>2. DOMAIN parts[u] \subseteq 0 .. NChunks(u) - 1
  BY DEF TypeOK
<1>3. \A i \in 0 .. NChunks(u) - 1 : i \in DOMAIN parts[u]
  BY <1>1 DEF UploadOK, Held
<1>4. \A i \in DOMAIN parts[u] : parts[u][i] = PartLen(u, i)
  BY <1>1, <1>2 DEF UploadOK, PartsInPlace
<1>5. DOMAIN parts[u] = 0 .. NChunks(u) - 1
  BY <1>2, <1>3
<1> QED BY <1>1, <1>4, <1>5, ReceivedSoFar

\* The session is gone when its file is asked for.
LEMMA CheckCompleteGone ==
  ASSUME Inductive, NEW u \in Uploads, CheckComplete(u), u \notin sessions
  PROVE  Inductive'
<1>a. TypeOK /\ UploadOK(u)
  BY DEF Inductive
<1>c. completer' = [completer EXCEPT ![u].at = "ending", ![u].answer = "gone"]
  BY DEF CheckComplete
<1>1. TypeOK'
  <2>1. completer' \in [Uploads -> CompleterStates]
    BY <1>a, <1>c, CompleterType DEF Answers, TypeOK
  <2> QED BY <1>a, <2>1, SizesStay
         DEF CheckComplete, TypeOK, table, disk
<1>2. \A v \in Uploads \ {u} : Same(v)
  BY <1>a DEF CheckComplete, Same, TypeOK, table, disk
<1>3. /\ file' = file /\ client'[u] = client[u] /\ parts'[u] = parts[u]
      /\ writer'[u] = writer[u] /\ clearing'[u] = clearing[u]
      /\ handed'[u] = handed[u] /\ completer'[u].at = "ending"
      /\ completer'[u].todo = completer[u].todo
      /\ completer'[u].copied = completer[u].copied
      /\ completer'[u].answer = "gone"
  BY <1>a DEF CheckComplete, TypeOK, CompleterStates, table, disk
<1>4. /\ completer[u].at = "arrived" /\ u \notin sessions
      /\ UNCHANGED <<sessions, dirs, aged, purge>>
  BY <1>a, ConstantsOK DEF CheckComplete, MoreToCome, TypeOK, FileRecord, WriterStates, UploadOK, InStep, table, disk
<1>5. client[u].next \in Nat /\ writer[u].size \in Nat /\ NChunks(u) \in Nat
  BY <1>a, Sizes DEF TypeOK, ClientStates, WriterStates
<1>6. UploadOK(u)'
  <2> USE <1>a, <1>3, <1>4, <1>5, SizesStay DEF UploadOK, QuickOK
  <2>1. InStep(u)'
    BY DEF InStep
  <2>2. PartsInPlace(u)'
    BY DEF PartsInPlace, InStep
  <2>3. CopiedInOrder(u)'
    BY InOrderStays DEF CopiedInOrder, InStep
  <2>4. Held(u)'
    BY DEF Held, InStep
  <2>5. QuickOK(u)'
    <3> SUFFICES ASSUME ~file[u].slow
                 PROVE  (OwnSession(u) /\ OwnAnswer(u) /\ IsWhole(u) /\ Answered(u))'
      OBVIOUS
    <3>1. OwnSession(u)'
      BY DEF OwnSession, Over, InStep, Held
    <3>2. OwnAnswer(u)'
      BY FileStays DEF OwnAnswer, OwnSession, Over, InStep
    <3>3. IsWhole(u)'
      BY DEF IsWhole
    <3>4. Answered(u)'
      BY DEF Answered, OwnSession, OwnAnswer, Over, InStep, Held
    <3> QED BY <3>1, <3>2, <3>3, <3>4
  <2> QED BY <2>1, <2>2, <2>3, <2>4, <2>5
<1> QED BY <1>1, <1>2, <1>3, <1>6, OneKept

\* Its size is not the declared one.
LEMMA CheckCompleteShort ==
  ASSUME Inductive, NEW u \in Uploads, CheckComplete(u), u \in sessions,
         Received(u) # file[u].declared
  PROVE  Inductive'
<1>a. TypeOK /\ UploadOK(u)
  BY DEF Inductive
<1>b. Received(u) = file[u].size
  BY <1>a, AllReceived DEF CheckComplete
<1>c. completer' = [completer EXCEPT ![u].at = "aborting", ![u].answer = "incomplete"]
  BY DEF CheckComplete, Aborting
<1>1. TypeOK'
  <2>1. completer' \in [Uploads -> CompleterStates]
    BY <1>a, <1>c, CompleterType DEF Answers, TypeOK
  <2> QED BY <1>a, <1>b, <2>1, SizesStay
         DEF CheckComplete, Aborting, TypeOK, table, disk
<1>2. \A v \in Uploads \ {u} : Same(v)
  BY <1>a, <1>b DEF CheckComplete, Aborting, Same, TypeOK, table, disk
<1>3. /\ file' = file /\ client'[u] = client[u] /\ parts'[u] = parts[u]
      /\ writer'[u] = writer[u] /\ clearing'[u] = clearing[u]
      /\ handed'[u] = handed[u] /\ completer'[u].at = "aborting"
      /\ completer'[u].todo = completer[u].todo
      /\ completer'[u].copied = completer[u].copied
      /\ completer'[u].answer = "incomplete"
  BY <1>a, <1>b DEF CheckComplete, Aborting, TypeOK, CompleterStates, table, disk
<1>4. /\ completer[u].at = "arrived" /\ u \in sessions /\ file[u].declared # file[u].size
      /\ UNCHANGED <<sessions, dirs, aged, purge>>
  BY <1>a, <1>b, ConstantsOK DEF CheckComplete, Aborting, MoreToCome, TypeOK, FileRecord, WriterStates, UploadOK, InStep, table, disk
<1>5. client[u].next \in Nat /\ writer[u].size \in Nat /\ NChunks(u) \in Nat
  BY <1>a, Sizes DEF TypeOK, ClientStates, WriterStates
<1>6. UploadOK(u)'
  <2> USE <1>a, <1>b, <1>3, <1>4, <1>5, SizesStay DEF UploadOK, QuickOK
  <2>1. InStep(u)'
    BY DEF InStep
  <2>2. PartsInPlace(u)'
    BY DEF PartsInPlace, InStep
  <2>3. CopiedInOrder(u)'
    BY InOrderStays DEF CopiedInOrder
  <2>4. Held(u)'
    BY DEF Held, InStep
  <2>5. QuickOK(u)'
    <3> SUFFICES ASSUME ~file[u].slow
                 PROVE  (OwnSession(u) /\ OwnAnswer(u) /\ IsWhole(u) /\ Answered(u))'
      OBVIOUS
    <3>1. OwnSession(u)'
      BY DEF OwnSession, Over, InStep, Held
    <3>2. OwnAnswer(u)'
      BY FileStays DEF OwnAnswer, AnswerOK, OwnSession, Over, InStep
    <3>3. IsWhole(u)'
      BY DEF IsWhole
    <3>4. Answered(u)'
      BY DEF Answered, OwnSession, OwnAnswer, Over, InStep, Held
    <3> QED BY <3>1, <3>2, <3>3, <3>4
  <2> QED BY <2>1, <2>2, <2>3, <2>4, <2>5
<1> QED BY <1>1, <1>2, <1>3, <1>6, OneKept

\* Its size is the declared one.
LEMMA CheckCompleteMatched ==
  ASSUME Inductive, NEW u \in Uploads, CheckComplete(u), u \in sessions,
         Received(u) = file[u].declared
  PROVE  Inductive'
<1>a. TypeOK /\ UploadOK(u)
  BY DEF Inductive
<1>b. Received(u) = file[u].size
  BY <1>a, AllReceived DEF CheckComplete
<1>c. completer' = [completer EXCEPT ![u].at = "matched"]
  BY DEF CheckComplete
<1>1. TypeOK'
  <2>1. completer' \in [Uploads -> CompleterStates]
    BY <1>a, <1>c, CompleterType DEF Answers, TypeOK
  <2> QED BY <1>a, <1>b, <2>1, SizesStay
         DEF CheckComplete, TypeOK, table, disk
<1>2. \A v \in Uploads \ {u} : Same(v)
  BY <1>a, <1>b DEF CheckComplete, Same, TypeOK, table, disk
<1>3. /\ file' = file /\ client'[u] = client[u] /\ parts'[u] = parts[u]
      /\ writer'[u] = writer[u] /\ clearing'[u] = clearing[u]
      /\ handed'[u] = handed[u] /\ completer'[u].at = "matched"
      /\ completer'[u].todo = completer[u].todo
      /\ completer'[u].copied = completer[u].copied
      /\ completer'[u].answer = completer[u].answer
  BY <1>a, <1>b DEF CheckComplete, TypeOK, CompleterStates, table, disk
<1>4. /\ completer[u].at = "arrived" /\ u \in sessions /\ file[u].declared = file[u].size
      /\ UNCHANGED <<sessions, dirs, aged, purge>>
  BY <1>a, <1>b, ConstantsOK DEF CheckComplete, MoreToCome, TypeOK, FileRecord, WriterStates, UploadOK, InStep, table, disk
<1>5. client[u].next \in Nat /\ writer[u].size \in Nat /\ NChunks(u) \in Nat
  BY <1>a, Sizes DEF TypeOK, ClientStates, WriterStates
<1>6. UploadOK(u)'
  <2> USE <1>a, <1>b, <1>3, <1>4, <1>5, SizesStay DEF UploadOK, QuickOK
  <2>1. InStep(u)'
    BY DEF InStep
  <2>2. PartsInPlace(u)'
    BY DEF PartsInPlace, InStep
  <2>3. CopiedInOrder(u)'
    BY InOrderStays DEF CopiedInOrder
  <2>4. Held(u)'
    BY DEF Held, InStep
  <2>5. QuickOK(u)'
    <3> SUFFICES ASSUME ~file[u].slow
                 PROVE  (OwnSession(u) /\ OwnAnswer(u) /\ IsWhole(u) /\ Answered(u))'
      OBVIOUS
    <3>1. OwnSession(u)'
      BY DEF OwnSession, Over, InStep, Held
    <3>2. OwnAnswer(u)'
      BY FileStays DEF OwnAnswer, AnswerOK, OwnSession, Over, InStep
    <3>3. IsWhole(u)'
      BY DEF IsWhole
    <3>4. Answered(u)'
      BY DEF Answered, OwnSession, OwnAnswer, Over, InStep, Held
    <3> QED BY <3>1, <3>2, <3>3, <3>4
  <2> QED BY <2>1, <2>2, <2>3, <2>4, <2>5
<1> QED BY <1>1, <1>2, <1>3, <1>6, OneKept

\* The names in the directory are listed.
LEMMA ListPartsKept ==
  ASSUME Inductive, NEW u \in Uploads, ListParts(u)
  PROVE  Inductive'
<1>a. TypeOK /\ UploadOK(u)
  BY DEF Inductive
<1>b. completer[u].at = "matched" /\ completer[u].copied = <<>>
  BY <1>a DEF ListParts, UploadOK, CopiedInOrder
<1>c. DOMAIN parts[u] \in SUBSET Nat
  BY <1>a, Sizes DEF TypeOK
<1>1. TypeOK'
  <2>1. completer' \in [Uploads -> CompleterStates]
    <3>1. completer \in [Uploads -> CompleterStates] /\ u \in Uploads
      BY <1>a DEF TypeOK
    <3>2. \A t \in SUBSET Nat :
            [completer EXCEPT ![u].at = "copying", ![u].todo = t]
              \in [Uploads -> CompleterStates]
      BY ONLY <3>1, CompleterType
    <3>3. completer' = [completer EXCEPT ![u].at = "copying", ![u].todo = DOMAIN parts[u]]
      BY DEF ListParts
    <3> QED BY ONLY <1>c, <3>2, <3>3
  <2> QED BY <1>a, <1>b, <2>1, SizesStay
         DEF ListParts, TypeOK, table, disk
<1>2. \A v \in Uploads \ {u} : Same(v)
  BY <1>a, <1>b DEF ListParts, Same, TypeOK, table, disk
<1>3. /\ file' = file /\ client'[u] = client[u] /\ parts'[u] = parts[u]
      /\ writer'[u] = writer[u] /\ clearing'[u] = clearing[u]
      /\ handed'[u] = handed[u] /\ completer'[u].at = "copying"
      /\ completer'[u].todo = DOMAIN parts[u]
      /\ completer'[u].copied = completer[u].copied
      /\ completer'[u].answer = completer[u].answer
  BY <1>a, <1>b DEF ListParts, TypeOK, CompleterStates, table, disk
<1>4. /\ completer[u].at = "matched" /\ completer[u].copied = <<>>
      /\ Len(completer[u].copied) = 0 /\ DOMAIN completer[u].copied = {}
      /\ UNCHANGED <<sessions, dirs, aged, purge>>
  BY <1>a, <1>b, ConstantsOK DEF ListParts, MoreToCome, TypeOK, FileRecord, WriterStates, UploadOK, InStep, table, disk
<1>5. client[u].next \in Nat /\ writer[u].size \in Nat /\ NChunks(u) \in Nat
  BY <1>a, Sizes DEF TypeOK, ClientStates, WriterStates
<1>6. UploadOK(u)'
  <2> USE <1>a, <1>b, <1>3, <1>4, <1>5, SizesStay DEF UploadOK, QuickOK
  <2>1. InStep(u)'
    BY DEF InStep
  <2>2. PartsInPlace(u)'
    BY DEF PartsInPlace, InStep
  <2>3. CopiedInOrder(u)'
    BY InOrderStays DEF CopiedInOrder
  <2>4. Held(u)'
    BY DEF Held, InStep
  <2>5. QuickOK(u)'
    <3> SUFFICES ASSUME ~file[u].slow
                 PROVE  (OwnSession(u) /\ OwnAnswer(u) /\ IsWhole(u) /\ Answered(u))'
      OBVIOUS
    <3>1. OwnSession(u)'
      BY DEF OwnSession, Over, InStep, Held
    <3>2. OwnAnswer(u)'
      <4>1. u \in sessions
        BY DEF OwnSession, Over, InStep
      <4>2. DOMAIN parts[u] = 0 .. NChunks(u) - 1
        BY <4>1, AllReceived
      <4>3. ReadSoFar(u)'
        BY <4>2 DEF ReadSoFar
      <4> QED BY <4>3 DEF OwnAnswer
    <3>3. IsWhole(u)'
      BY DEF IsWhole
    <3>4. Answered(u)'
      BY DEF Answered, OwnSession, OwnAnswer, Over, InStep, Held
    <3> QED BY <3>1, <3>2, <3>3, <3>4
  <2> QED BY <2>1, <2>2, <2>3, <2>4, <2>5
<1> QED BY <1>1, <1>2, <1>3, <1>6, OneKept

\* A part that was listed is gone.
LEMMA CopyPartGone ==
  ASSUME Inductive, NEW u \in Uploads, completer[u].at = "copying",
         Aborting(u, "error"), NEW i \in completer[u].todo, i \notin DOMAIN parts[u],
         UNCHANGED <<file, client, table, disk, writer, clearing, purge, handed, restarted>>
  PROVE  Inductive'
<1>a. TypeOK /\ UploadOK(u)
  BY DEF Inductive
<1>1. TypeOK'
  <2>1. completer' \in [Uploads -> CompleterStates]
    <3>1. completer \in [Uploads -> CompleterStates] /\ u \in Uploads
      BY <1>a DEF TypeOK
    <3>2. \A w \in Answers :
            [completer EXCEPT ![u].at = "aborting", ![u].answer = w]
              \in [Uploads -> CompleterStates]
      BY ONLY <3>1, CompleterType
    <3>3. "error" \in Answers
      BY DEF Answers
    <3>4. completer' = [completer EXCEPT ![u].at = "aborting", ![u].answer = "error"]
      BY DEF Aborting
    <3> QED BY ONLY <3>2, <3>3, <3>4
  <2> QED BY <1>a, <2>1, SizesStay
         DEF Aborting, TypeOK, table, disk
<1>2. \A v \in Uploads \ {u} : Same(v)
  BY <1>a DEF Aborting, Same, TypeOK, table, disk
<1>3. /\ file' = file /\ client'[u] = client[u] /\ parts'[u] = parts[u]
      /\ writer'[u] = writer[u] /\ clearing'[u] = clearing[u]
      /\ handed'[u] = handed[u] /\ completer'[u].at = "aborting"
      /\ completer'[u].todo = completer[u].todo
      /\ completer'[u].copied = completer[u].copied
      /\ completer'[u].answer = "error"
  BY <1>a DEF Aborting, TypeOK, CompleterStates, table, disk
<1>4. /\ completer[u].at = "copying" /\ i \in completer[u].todo /\ i \notin DOMAIN parts[u]
      /\ UNCHANGED <<sessions, dirs, aged, purge>>
  BY <1>a, ConstantsOK DEF Aborting, MoreToCome, TypeOK, FileRecord, WriterStates, UploadOK, InStep, table, disk
<1>5. client[u].next \in Nat /\ writer[u].size \in Nat /\ NChunks(u) \in Nat
  BY <1>a, Sizes DEF TypeOK, ClientStates, WriterStates
<1>6. UploadOK(u)'
  <2> USE <1>a, <1>3, <1>4, <1>5, SizesStay DEF UploadOK, QuickOK
  <2>1. InStep(u)'
    BY DEF InStep
  <2>2. PartsInPlace(u)'
    BY DEF PartsInPlace, InStep
  <2>3. CopiedInOrder(u)'
    BY InOrderStays DEF CopiedInOrder
  <2>4. Held(u)'
    BY DEF Held, InStep
  <2>5. QuickOK(u)'
    <3> SUFFICES ASSUME ~file[u].slow
                 PROVE  (OwnSession(u) /\ OwnAnswer(u) /\ IsWhole(u) /\ Answered(u))'
      OBVIOUS
    <3>1. OwnSession(u)'
      BY DEF OwnSession, Over, InStep, Held
    <3>2. OwnAnswer(u)'
      <4>1. u \in sessions
        BY DEF OwnSession, Over, InStep
      <4>2. DOMAIN parts[u] = 0 .. NChunks(u) - 1
        BY <4>1, AllReceived
      <4>3. completer[u].todo = Len(completer[u].copied) .. NChunks(u) - 1
        BY DEF OwnAnswer, ReadSoFar
      <4>4. Len(completer[u].copied) \in Nat
        BY DEF TypeOK, CompleterStates
      <4> QED BY <4>2, <4>3, <4>4
    <3>3. IsWhole(u)'
      BY DEF IsWhole
    <3>4. Answered(u)'
      BY DEF Answered, OwnSession, OwnAnswer, Over, InStep, Held
    <3> QED BY <3>1, <3>2, <3>3, <3>4
  <2> QED BY <2>1, <2>2, <2>3, <2>4, <2>5
<1> QED BY <1>1, <1>2, <1>3, <1>6, OneKept

\* The file is accepted.
LEMMA VerifyOk ==
  ASSUME Inductive, NEW u \in Uploads, completer[u].at = "copying",
         completer[u].todo = {}, Aborting(u, "ok"),
         UNCHANGED <<file, client, table, disk, writer, clearing, purge, handed, restarted>>
  PROVE  Inductive'
<1>a. TypeOK /\ UploadOK(u)
  BY DEF Inductive
<1>1. TypeOK'
  <2>1. completer' \in [Uploads -> CompleterStates]
    BY <1>a, CompleterType DEF Aborting, Answers, TypeOK
  <2> QED BY <1>a, <2>1, SizesStay
         DEF Aborting, TypeOK, table, disk
<1>2. \A v \in Uploads \ {u} : Same(v)
  BY <1>a DEF Aborting, Same, TypeOK, table, disk
<1>3. /\ file' = file /\ client'[u] = client[u] /\ parts'[u] = parts[u]
      /\ writer'[u] = writer[u] /\ clearing'[u] = clearing[u]
      /\ handed'[u] = handed[u] /\ completer'[u].at = "aborting"
      /\ completer'[u].todo = completer[u].todo
      /\ completer'[u].copied = completer[u].copied
      /\ completer'[u].answer = "ok"
  BY <1>a DEF Aborting, TypeOK, CompleterStates, table, disk
<1>4. /\ completer[u].at = "copying" /\ completer[u].todo = {}
      /\ UNCHANGED <<sessions, dirs, aged, purge>>
  BY <1>a, ConstantsOK DEF Aborting, MoreToCome, TypeOK, FileRecord, WriterStates, UploadOK, InStep, table, disk
<1>5. client[u].next \in Nat /\ writer[u].size \in Nat /\ NChunks(u) \in Nat
  BY <1>a, Sizes DEF TypeOK, ClientStates, WriterStates
<1>6. UploadOK(u)'
  <2> USE <1>a, <1>3, <1>4, <1>5, SizesStay DEF UploadOK, QuickOK
  <2>1. InStep(u)'
    BY DEF InStep
  <2>2. PartsInPlace(u)'
    BY DEF PartsInPlace, InStep
  <2>3. CopiedInOrder(u)'
    BY InOrderStays DEF CopiedInOrder
  <2>4. Held(u)'
    BY DEF Held, InStep
  <2>5. QuickOK(u)'
    <3> SUFFICES ASSUME ~file[u].slow
                 PROVE  (OwnSession(u) /\ OwnAnswer(u) /\ IsWhole(u) /\ Answered(u))'
      OBVIOUS
    <3>1. OwnSession(u)'
      BY DEF OwnSession, Over, InStep, Held
    <3>2. OwnAnswer(u)'
      <4> DEFINE c == completer[u].copied
      <4>1. /\ Len(c) \in Nat /\ c \in Seq(Nat \X Nat)
        BY DEF TypeOK, CompleterStates
      <4>2. /\ Len(c) <= NChunks(u) /\ {} = Len(c) .. NChunks(u) - 1
            /\ \A k \in 1 .. Len(c) : c[k] = WholeFile(u)[k]
            /\ file[u].declared = file[u].size
        BY DEF OwnAnswer, ReadSoFar
      <4>3. Len(c) = NChunks(u)
        <5>1. Len(c) \notin Len(c) .. NChunks(u) - 1
          BY <4>2
        <5> HIDE DEF c
        <5> QED BY <4>1, <4>2, <5>1
      <4>4. c = WholeFile(u)
        <5>1. c = [k \in 1 .. NChunks(u) |-> c[k]]
          BY <4>1, <4>3
        <5>2. WholeFile(u) = [k \in 1 .. NChunks(u) |-> WholeFile(u)[k]]
          BY DEF WholeFile
        <5> HIDE DEF c
        <5> QED BY <4>2, <4>3, <5>1, <5>2
      <4> HIDE DEF c
      <4> QED BY <4>2, <4>4 DEF OwnAnswer, AnswerOK, c
    <3>3. IsWhole(u)'
      BY DEF IsWhole
    <3>4. Answered(u)'
      BY DEF Answered, OwnSession, OwnAnswer, Over, InStep, Held
    <3> QED BY <3>1, <3>2, <3>3, <3>4
  <2> QED BY <2>1, <2>2, <2>3, <2>4, <2>5
<1> QED BY <1>1, <1>2, <1>3, <1>6, OneKept

\* The file is not what its name says.
LEMMA VerifySignature ==
  ASSUME Inductive, NEW u \in Uploads, completer[u].at = "copying",
         completer[u].copied # <<>>, HeadIsKnown(u) => file[u].kind = "mismatched",
         Aborting(u, "signature"),
         UNCHANGED <<file, client, table, disk, writer, clearing, purge, handed, restarted>>
  PROVE  Inductive'
<1>a. TypeOK /\ UploadOK(u)
  BY DEF Inductive
<1>1. TypeOK'
  <2>1. completer' \in [Uploads -> CompleterStates]
    BY <1>a, CompleterType DEF Aborting, Answers, TypeOK
  <2> QED BY <1>a, <2>1, SizesStay
         DEF Aborting, TypeOK, table, disk
<1>2. \A v \in Uploads \ {u} : Same(v)
  BY <1>a DEF Aborting, Same, TypeOK, table, disk
<1>3. /\ file' = file /\ client'[u] = client[u] /\ parts'[u] = parts[u]
      /\ writer'[u] = writer[u] /\ clearing'[u] = clearing[u]
      /\ handed'[u] = handed[u] /\ completer'[u].at = "aborting"
      /\ completer'[u].todo = completer[u].todo
      /\ completer'[u].copied = completer[u].copied
      /\ completer'[u].answer = "signature"
  BY <1>a DEF Aborting, TypeOK, CompleterStates, table, disk
<1>4. /\ completer[u].at = "copying" /\ completer[u].copied # <<>>
      /\ HeadIsKnown(u) => file[u].kind = "mismatched"
      /\ UNCHANGED <<sessions, dirs, aged, purge>>
  BY <1>a, ConstantsOK DEF Aborting, MoreToCome, TypeOK, FileRecord, WriterStates, UploadOK, InStep, table, disk
<1>5. client[u].next \in Nat /\ writer[u].size \in Nat /\ NChunks(u) \in Nat
  BY <1>a, Sizes DEF TypeOK, ClientStates, WriterStates
<1>6. UploadOK(u)'
  <2> USE <1>a, <1>3, <1>4, <1>5, SizesStay DEF UploadOK, QuickOK
  <2>1. InStep(u)'
    BY DEF InStep
  <2>2. PartsInPlace(u)'
    BY DEF PartsInPlace, InStep
  <2>3. CopiedInOrder(u)'
    BY InOrderStays DEF CopiedInOrder
  <2>4. Held(u)'
    BY DEF Held, InStep
  <2>5. QuickOK(u)'
    <3> SUFFICES ASSUME ~file[u].slow
                 PROVE  (OwnSession(u) /\ OwnAnswer(u) /\ IsWhole(u) /\ Answered(u))'
      OBVIOUS
    <3>1. OwnSession(u)'
      BY DEF OwnSession, Over, InStep, Held
    <3>2. OwnAnswer(u)'
      <4> DEFINE c == completer[u].copied
      <4>1. c \in Seq(Nat \X Nat) /\ c # <<>>
        BY DEF TypeOK, CompleterStates
      <4>2. Len(c) <= NChunks(u) /\ \A k \in 1 .. Len(c) : c[k] = WholeFile(u)[k]
        BY DEF OwnAnswer, ReadSoFar
      <4>3. 1 \in 1 .. Len(c) /\ 1 \in 1 .. NChunks(u)
        BY <4>1, <4>2
      <4>4. c[1][1] = 0
        <5>1. WholeFile(u)[1] = <<0, PartLen(u, 0)>>
          BY <4>3 DEF WholeFile
        <5> QED BY <4>2, <4>3, <5>1
      <4>5. file[u].kind = "mismatched"
        BY <4>1, <4>4 DEF HeadIsKnown
      <4> QED BY <4>5 DEF OwnAnswer, AnswerOK
    <3>3. IsWhole(u)'
      BY DEF IsWhole
    <3>4. Answered(u)'
      BY DEF Answered, OwnSession, OwnAnswer, Over, InStep, Held
    <3> QED BY <3>1, <3>2, <3>3, <3>4
  <2> QED BY <2>1, <2>2, <2>3, <2>4, <2>5
<1> QED BY <1>1, <1>2, <1>3, <1>6, OneKept

\* The chunk number k of a file.
LEMMA WholeFileAt ==
  ASSUME NEW u, NEW k \in 1 .. NChunks(u)
  PROVE  WholeFile(u)[k] = <<k - 1, PartLen(u, k - 1)>>
  BY DEF WholeFile

\* The next part is read.
LEMMA CopyPartFound ==
  ASSUME Inductive, NEW u \in Uploads, completer[u].at = "copying",
         NEW i \in completer[u].todo, i \in DOMAIN parts[u],
         \A j \in completer[u].todo : i <= j,
         completer' = [completer EXCEPT
                         ![u].todo = @ \ {i},
                         ![u].copied = Append(@, <<i, parts[u][i]>>)],
         UNCHANGED <<file, client, table, disk, writer, clearing, purge, handed, restarted>>
  PROVE  Inductive'
<1>a. TypeOK /\ UploadOK(u)
  BY DEF Inductive
<1> DEFINE c == completer[u].copied
           d == Append(c, <<i, parts[u][i]>>)
<1>b. /\ c \in Seq(Nat \X Nat) /\ i \in Nat /\ parts[u][i] = PartLen(u, i)
      /\ <<i, parts[u][i]>> \in Nat \X Nat /\ completer[u].todo \in SUBSET Nat
  <2>1. c \in Seq(Nat \X Nat) /\ completer[u].todo \in SUBSET Nat
    BY <1>a DEF TypeOK, CompleterStates
  <2>2. i \in Nat /\ parts[u][i] \in 0 .. ChunkSize
    BY <1>a, <2>1 DEF TypeOK
  <2>3. client[u].next = NChunks(u) /\ NChunks(u) \in Nat
    BY <1>a, Sizes DEF UploadOK, InStep
  <2>4. i < client[u].next
    BY <1>a, <2>2, <2>3 DEF TypeOK
  <2> QED BY <1>a, <2>1, <2>2, <2>4, ConstantsOK DEF UploadOK, PartsInPlace
<1>c. /\ d \in Seq(Nat \X Nat) /\ Len(d) = Len(c) + 1 /\ Len(c) \in Nat
      /\ DOMAIN d = 1 .. Len(c) + 1 /\ DOMAIN c = 1 .. Len(c)
      /\ \A k \in 1 .. Len(c) : d[k] = c[k]
      /\ d[Len(c) + 1] = <<i, parts[u][i]>>
      /\ InOrder(u, c) /\ (\A k \in DOMAIN c : c[k][1] < i) => InOrder(u, d)
  <2> DEFINE n == parts[u][i]
  <2>1. /\ c \in Seq(Nat \X Nat) /\ i \in Nat /\ n \in Nat /\ n = PartLen(u, i)
        /\ d = Append(c, <<i, n>>)
    BY <1>b
  <2> HIDE DEF c, n, d
  <2>2. /\ d \in Seq(Nat \X Nat) /\ Len(c) \in Nat /\ Len(d) = Len(c) + 1
        /\ \A k \in 1 .. Len(c) : d[k] = c[k]
        /\ d[Len(c) + 1] = <<i, n>>
        /\ DOMAIN c = 1 .. Len(c) /\ DOMAIN d = 1 .. Len(c) + 1
        /\ InOrder(u, c) /\ (\A k \in DOMAIN c : c[k][1] < i) => InOrder(u, d)
    <3> DEFINE T == Nat \X Nat
             e == <<i, n>>
  <3>1. /\ d \in Seq(T) /\ Len(c) \in Nat /\ Len(d) = Len(c) + 1
        /\ \A k \in 1 .. Len(c) : d[k] = c[k]
        /\ d[Len(c) + 1] = e /\ DOMAIN c = 1 .. Len(c) /\ DOMAIN d = 1 .. Len(c) + 1
    <4>1. c \in Seq(T) /\ e \in T /\ d = Append(c, e)
      BY <2>1
    <4> HIDE DEF T, e
    <4> QED BY ONLY <4>1
  <3>2. ASSUME InOrder(u, c), \A k \in DOMAIN c : c[k][1] < i
        PROVE  InOrder(u, d)
    <4>1. ASSUME NEW k \in DOMAIN d PROVE d[k][2] = PartLen(u, d[k][1])
      <5>1. CASE k \in 1 .. Len(c)
        BY <3>1, <3>2, <5>1 DEF InOrder
      <5>2. CASE k = Len(c) + 1
        BY <2>1, <3>1, <5>2
      <5> QED BY <3>1, <5>1, <5>2
    <4>2. ASSUME NEW k \in DOMAIN d, NEW l \in DOMAIN d, k < l PROVE d[k][1] < d[l][1]
      <5>1. k \in 1 .. Len(c) /\ d[k] = c[k]
        <6> DEFINE n1 == Len(c)
        <6>1. n1 \in Nat /\ k \in 1 .. n1 + 1 /\ l \in 1 .. n1 + 1 /\ k < l
          BY ONLY <3>1, <4>2
        <6> HIDE DEF n1
        <6>2. k \in 1 .. n1
          BY ONLY <6>1
        <6> QED BY ONLY <3>1, <6>2 DEF n1
      <5>2. CASE l \in 1 .. Len(c)
        BY <3>1, <3>2, <4>2, <5>1, <5>2 DEF InOrder
      <5>3. CASE l = Len(c) + 1
        BY <3>1, <3>2, <5>1, <5>3
      <5> QED BY <3>1, <5>2, <5>3
    <4> QED BY <4>1, <4>2 DEF InOrder
    <3> QED BY ONLY <3>1, <3>2 DEF e
  <2> QED BY ONLY <2>2 DEF n
<1>d. completer' \in [Uploads -> CompleterStates]
  <2>1. ASSUME NEW r \in CompleterStates, NEW x \in SUBSET Nat, NEW y \in Seq(Nat \X Nat)
        PROVE  [r EXCEPT !.todo = x, !.copied = y] \in CompleterStates
    BY DEF CompleterStates
  <2>2. completer[u] \in CompleterStates /\ completer[u].todo \ {i} \in SUBSET Nat
    BY <1>a, <1>b DEF TypeOK
  <2>3. [completer[u] EXCEPT !.todo = completer[u].todo \ {i}, !.copied = d] \in CompleterStates
    BY <1>c, <2>1, <2>2
  <2> HIDE DEF d
  <2> QED BY <1>a, <2>3 DEF TypeOK, d
<1>1. TypeOK'
  <2>1. completer' \in [Uploads -> CompleterStates]
    BY <1>d
  <2> QED BY <1>a, <2>1, SizesStay
         DEF TypeOK, table, disk
<1>2. \A v \in Uploads \ {u} : Same(v)
  BY <1>a DEF Same, TypeOK, table, disk
<1>3. /\ file' = file /\ client'[u] = client[u] /\ parts'[u] = parts[u]
      /\ writer'[u] = writer[u] /\ clearing'[u] = clearing[u]
      /\ handed'[u] = handed[u] /\ completer'[u].at = completer[u].at
      /\ completer'[u].todo = completer[u].todo \ {i}
      /\ completer'[u].copied = Append(completer[u].copied, <<i, parts[u][i]>>)
      /\ completer'[u].answer = completer[u].answer
  BY <1>a DEF TypeOK, CompleterStates, table, disk
<1>4. /\ completer[u].at = "copying" /\ i \in completer[u].todo /\ i \in DOMAIN parts[u]
      /\ \A j \in completer[u].todo : i <= j
      /\ UNCHANGED <<sessions, dirs, aged, purge>>
  BY <1>a, ConstantsOK DEF MoreToCome, TypeOK, FileRecord, WriterStates, UploadOK, InStep, table, disk
<1>5. client[u].next \in Nat /\ writer[u].size \in Nat /\ NChunks(u) \in Nat
  BY <1>a, Sizes DEF TypeOK, ClientStates, WriterStates
<1>6. UploadOK(u)'
  <2> USE <1>a, <1>3, <1>4, <1>5, SizesStay DEF UploadOK, QuickOK
  <2>1. InStep(u)'
    BY DEF InStep
  <2>2. PartsInPlace(u)'
    BY DEF PartsInPlace, InStep
  <2>3. CopiedInOrder(u)'
    <3>1. completer'[u].copied = d /\ completer'[u].todo = completer[u].todo \ {i}
      OBVIOUS
    <3>2. InOrder(u, c) /\ \A k \in DOMAIN c : \A j \in completer[u].todo : c[k][1] < j
      BY DEF CopiedInOrder
    <3>3. InOrder(u, completer[u].copied)'
      <4>1. InOrder(u, d)
        BY <1>c, <3>2
      <4> HIDE DEF d
      <4> QED BY ONLY <3>1, <4>1, <1>3 DEF InOrder, PartLen
    <3>4. ASSUME NEW k \in DOMAIN d, NEW j \in completer'[u].todo PROVE d[k][1] < j
      <4>1. j \in completer[u].todo /\ i < j
        <5>1. j \in completer[u].todo /\ j # i /\ i <= j
          BY ONLY <3>1, <1>4, <3>4
        <5> QED BY ONLY <1>b, <5>1
      <4>2. CASE k \in 1 .. Len(c)
        BY ONLY <1>c, <3>2, <4>1, <4>2
      <4>3. CASE k = Len(c) + 1
        <5>1. d[k][1] = i
          BY <1>c, <4>3
        <5> QED BY <4>1, <5>1
      <4>4. k \in 1 .. Len(c) + 1
        BY ONLY <1>c, <3>4
      <4> QED BY ONLY <1>c, <4>2, <4>3, <4>4
    <3> HIDE DEF c, d
    <3> QED BY <3>1, <3>3, <3>4, InOrderStays DEF CopiedInOrder
  <2>4. Held(u)'
    BY DEF Held, InStep
  <2>5. QuickOK(u)'
    <3> SUFFICES ASSUME ~file[u].slow
                 PROVE  (OwnSession(u) /\ OwnAnswer(u) /\ IsWhole(u) /\ Answered(u))'
      OBVIOUS
    <3>1. OwnSession(u)'
      BY DEF OwnSession, Over, InStep, Held
    <3>2. OwnAnswer(u)'
      <4>1. /\ Len(c) <= NChunks(u) /\ completer[u].todo = Len(c) .. NChunks(u) - 1
            /\ \A k \in 1 .. Len(c) : c[k] = WholeFile(u)[k]
        BY DEF OwnAnswer, ReadSoFar
      <4>2. i = Len(c) /\ i < NChunks(u)
        <5>1. i \in Len(c) .. NChunks(u) - 1 /\ \A j \in Len(c) .. NChunks(u) - 1 : i <= j
          BY <4>1
        <5>2. Len(c) \in Len(c) .. NChunks(u) - 1
          BY <1>b, <1>c, <5>1
        <5> DEFINE n == Len(c)
                   m == NChunks(u)
        <5>3. i \in Nat /\ n \in Nat /\ m \in Nat
          BY ONLY <1>b, <1>c, <1>5
        <5>4. i \in n .. m - 1 /\ i <= n
          BY ONLY <5>1, <5>2
        <5> HIDE DEF n, m
        <5>5. i = n /\ i < m
          BY ONLY <5>3, <5>4
        <5> QED BY ONLY <5>5 DEF n, m
      <4>3. WholeFile(u)[i + 1] = <<i, PartLen(u, i)>>
        <5>1. i + 1 \in 1 .. NChunks(u) /\ i + 1 - 1 = i
          BY <1>b, <4>2
        <5> DEFINE k == i + 1
        <5>2. k \in 1 .. NChunks(u) /\ k - 1 = i
          BY <1>b, <4>2
        <5> HIDE DEF k
        <5>3. WholeFile(u)[k] = <<k - 1, PartLen(u, k - 1)>>
          BY ONLY <5>2, WholeFileAt
        <5> QED BY ONLY <5>2, <5>3 DEF k
      <4>4. completer'[u].copied = d /\ completer'[u].todo = completer[u].todo \ {i}
        OBVIOUS
      <4> HIDE DEF c, d
      <4>5. ASSUME NEW k \in 1 .. Len(d) PROVE d[k] = WholeFile(u)[k]
        <5>1. CASE k \in 1 .. Len(c)
          BY ONLY <1>c, <4>1, <5>1
        <5>2. CASE k = i + 1
          BY ONLY <1>b, <1>c, <4>2, <4>3, <5>2
        <5> QED BY ONLY <1>c, <4>2, <5>1, <5>2
      <4>6. completer'[u].todo = Len(d) .. NChunks(u) - 1 /\ Len(d) <= NChunks(u)
        <5> DEFINE n == Len(c)
                   m == NChunks(u)
        <5>3. n \in Nat /\ m \in Nat /\ completer'[u].todo = (n .. m - 1) \ {n}
          BY ONLY <1>c, <1>5, <4>1, <4>2, <4>4
        <5> HIDE DEF n, m
        <5>4. (n .. m - 1) \ {n} = n + 1 .. m - 1
          BY ONLY <5>3
        <5>1. \A x : x \in completer'[u].todo <=> x \in Len(c) + 1 .. NChunks(u) - 1
          BY ONLY <5>3, <5>4 DEF n, m
        <5> HIDE DEF c
        <5>2. completer'[u].todo = Len(c) + 1 .. NChunks(u) - 1
          BY ONLY <5>1
        <5> QED BY ONLY <1>c, <4>2, <5>2, <1>5
      <4>7. ReadSoFar(u)'
        BY ONLY <4>4, <4>5, <4>6, <1>3, SizesStay DEF ReadSoFar
      <4> QED BY <4>7 DEF OwnAnswer
    <3>3. IsWhole(u)'
      BY DEF IsWhole
    <3>4. Answered(u)'
      BY DEF Answered, OwnSession, OwnAnswer, Over, InStep, Held
    <3> QED BY <3>1, <3>2, <3>3, <3>4
  <2> QED BY <2>1, <2>2, <2>3, <2>4, <2>5
<1> QED BY <1>1, <1>2, <1>3, <1>6, OneKept

\* The handler of /complete takes the session from the table.
LEMMA AbortSessionFound ==
  ASSUME Inductive, NEW u \in Uploads, AbortSession(u), u \in sessions
  PROVE  Inductive'
<1>a. TypeOK /\ UploadOK(u)
  BY DEF Inductive
<1>c. /\ completer' = [completer EXCEPT ![u].at = "clearing"]
      /\ clearing' = [clearing EXCEPT ![u].at = "popped"]
  BY DEF AbortSession
<1>1. TypeOK'
  <2>1. completer' \in [Uploads -> CompleterStates]
    BY <1>a, <1>c, CompleterType DEF TypeOK
  <2>2. clearing' \in [Uploads -> ClearingStates]
    BY <1>a, <1>c, ClearingType DEF TypeOK
  <2> QED BY <1>a, <2>1, <2>2, SizesStay
         DEF AbortSession, TypeOK, table, disk
<1>2. \A v \in Uploads \ {u} : Same(v)
  BY <1>a DEF AbortSession, Same, TypeOK, table, disk
<1>3. /\ file' = file /\ client'[u] = client[u] /\ parts'[u] = parts[u]
      /\ writer'[u] = writer[u] /\ handed'[u] = handed[u]
      /\ completer'[u].at = "clearing" /\ completer'[u].todo = completer[u].todo
      /\ completer'[u].copied = completer[u].copied
      /\ completer'[u].answer = completer[u].answer /\ clearing'[u].at = "popped"
      /\ clearing'[u].todo = clearing[u].todo
  BY <1>a DEF AbortSession, TypeOK, CompleterStates, ClearingStates, table, disk
<1>4. /\ completer[u].at = "aborting" /\ u \in sessions
      /\ sessions' = sessions \ {u} /\ aged' = aged \ {u} /\ dirs' = dirs
      /\ purge' = purge
  BY <1>a, ConstantsOK DEF AbortSession, MoreToCome, TypeOK, FileRecord, WriterStates, UploadOK, InStep, table, disk
<1>5. client[u].next \in Nat /\ writer[u].size \in Nat /\ NChunks(u) \in Nat
  BY <1>a, Sizes DEF TypeOK, ClientStates, WriterStates
<1>6. UploadOK(u)'
  <2> USE <1>a, <1>3, <1>4, <1>5, SizesStay DEF UploadOK, QuickOK
  <2>1. InStep(u)'
    BY DEF InStep
  <2>2. PartsInPlace(u)'
    BY DEF PartsInPlace, InStep
  <2>3. CopiedInOrder(u)'
    BY InOrderStays DEF CopiedInOrder
  <2>4. Held(u)'
    BY DEF Held, InStep
  <2>5. QuickOK(u)'
    <3> SUFFICES ASSUME ~file[u].slow
                 PROVE  (OwnSession(u) /\ OwnAnswer(u) /\ IsWhole(u) /\ Answered(u))'
      OBVIOUS
    <3>1. OwnSession(u)'
      BY DEF OwnSession, Over, InStep, Held
    <3>2. OwnAnswer(u)'
      BY FileStays DEF OwnAnswer, AnswerOK, OwnSession, Over, InStep
    <3>3. IsWhole(u)'
      BY DEF IsWhole
    <3>4. Answered(u)'
      BY DEF Answered, OwnSession, OwnAnswer, Over, InStep, Held
    <3> QED BY <3>1, <3>2, <3>3, <3>4
  <2> QED BY <2>1, <2>2, <2>3, <2>4, <2>5
<1> QED BY <1>1, <1>2, <1>3, <1>6, OneKept

\* Somebody else has taken it.
LEMMA AbortSessionGone ==
  ASSUME Inductive, NEW u \in Uploads, AbortSession(u), u \notin sessions
  PROVE  Inductive'
<1>a. TypeOK /\ UploadOK(u)
  BY DEF Inductive
<1>c. completer' = [completer EXCEPT ![u].at = "ending"]
  BY DEF AbortSession
<1>1. TypeOK'
  <2>1. completer' \in [Uploads -> CompleterStates]
    BY <1>a, <1>c, CompleterType DEF TypeOK
  <2> QED BY <1>a, <2>1, SizesStay
         DEF AbortSession, TypeOK, table, disk
<1>2. \A v \in Uploads \ {u} : Same(v)
  BY <1>a DEF AbortSession, Same, TypeOK, table, disk
<1>3. /\ file' = file /\ client'[u] = client[u] /\ parts'[u] = parts[u]
      /\ writer'[u] = writer[u] /\ clearing'[u] = clearing[u]
      /\ handed'[u] = handed[u] /\ completer'[u].at = "ending"
      /\ completer'[u].todo = completer[u].todo
      /\ completer'[u].copied = completer[u].copied
      /\ completer'[u].answer = completer[u].answer
  BY <1>a DEF AbortSession, TypeOK, CompleterStates, table, disk
<1>4. /\ completer[u].at = "aborting" /\ u \notin sessions
      /\ UNCHANGED <<sessions, dirs, aged, purge>>
  BY <1>a, ConstantsOK DEF AbortSession, MoreToCome, TypeOK, FileRecord, WriterStates, UploadOK, InStep, table, disk
<1>5. client[u].next \in Nat /\ writer[u].size \in Nat /\ NChunks(u) \in Nat
  BY <1>a, Sizes DEF TypeOK, ClientStates, WriterStates
<1>6. UploadOK(u)'
  <2> USE <1>a, <1>3, <1>4, <1>5, SizesStay DEF UploadOK, QuickOK
  <2>1. InStep(u)'
    BY DEF InStep
  <2>2. PartsInPlace(u)'
    BY DEF PartsInPlace, InStep
  <2>3. CopiedInOrder(u)'
    BY InOrderStays DEF CopiedInOrder
  <2>4. Held(u)'
    BY DEF Held, InStep
  <2>5. QuickOK(u)'
    <3> SUFFICES ASSUME ~file[u].slow
                 PROVE  (OwnSession(u) /\ OwnAnswer(u) /\ IsWhole(u) /\ Answered(u))'
      OBVIOUS
    <3>1. OwnSession(u)'
      BY DEF OwnSession, Over, InStep, Held
    <3>2. OwnAnswer(u)'
      BY FileStays DEF OwnAnswer, AnswerOK, OwnSession, Over, InStep
    <3>3. IsWhole(u)'
      BY DEF IsWhole
    <3>4. Answered(u)'
      BY DEF Answered, OwnSession, OwnAnswer, Over, InStep, Held
    <3> QED BY <3>1, <3>2, <3>3, <3>4
  <2> QED BY <2>1, <2>2, <2>3, <2>4, <2>5
<1> QED BY <1>1, <1>2, <1>3, <1>6, OneKept

\* The upload is refused.
LEMMA EndCompleteFails ==
  ASSUME Inductive, NEW u \in Uploads, EndComplete(u), completer[u].answer # "ok"
  PROVE  Inductive'
<1>a. TypeOK /\ UploadOK(u)
  BY DEF Inductive
<1>b. /\ client' \in [Uploads -> ClientStates]
      /\ client'[u].next = client[u].next
      /\ client[u].at \in {"waiting", "finishing"} =>
           client'[u].at = "failed" /\ client'[u].why = completer[u].answer
      /\ client[u].at \notin {"waiting", "finishing"} => client'[u] = client[u]
      /\ \A v \in Uploads \ {u} : client'[v] = client[v]
  <2>1. client' = Fails(u, completer[u].answer) /\ completer[u].answer \in Reasons
    BY <1>a DEF EndComplete, TypeOK, CompleterStates, Reasons, Answers
  <2>2. client \in [Uploads -> ClientStates]
    BY <1>a DEF TypeOK
  <2> QED BY ONLY <2>1, <2>2, u \in Uploads, FailsEffect
<1>c. completer' = [completer EXCEPT ![u] = IdleMaker] /\ handed' = handed
  BY DEF EndComplete
<1>1. TypeOK'
  <2>1. completer' \in [Uploads -> CompleterStates]
    BY ONLY <1>a, <1>c, u \in Uploads, CompleterType DEF TypeOK
  <2>2. client' \in [Uploads -> ClientStates]
    BY <1>b
  <2>3. \A v \in Uploads : client'[v].next \in 0 .. NChunks(v)
    BY <1>a, <1>b DEF TypeOK
  <2> QED BY <1>a, <1>b, <1>c, <2>1, <2>2, <2>3, SizesStay
         DEF EndComplete, TypeOK, table, disk
<1>2. \A v \in Uploads \ {u} : Same(v)
  BY <1>a, <1>b, <1>c DEF EndComplete, Same, TypeOK, table, disk
<1>3. /\ file' = file /\ parts'[u] = parts[u] /\ writer'[u] = writer[u]
      /\ clearing'[u] = clearing[u] /\ handed'[u] = handed[u]
      /\ completer'[u].at = "idle" /\ completer'[u].todo = {}
      /\ completer'[u].copied = <<>> /\ completer'[u].answer = "none"
  BY <1>a, <1>b, <1>c DEF EndComplete, TypeOK, CompleterStates, ClientStates, IdleMaker, table, disk
<1>4. /\ completer[u].answer # "ok"
      /\ completer[u].at = "ending" \/ (completer[u].at = "clearing" /\ clearing[u].at = "done")
      /\ UNCHANGED <<sessions, dirs, aged, purge>>
  BY <1>a, <1>b, <1>c, ConstantsOK DEF EndComplete, MoreToCome, TypeOK, FileRecord, WriterStates, UploadOK, InStep, table, disk
<1>5. client[u].next \in Nat /\ writer[u].size \in Nat /\ NChunks(u) \in Nat
  BY <1>a, Sizes DEF TypeOK, ClientStates, WriterStates
<1>6. UploadOK(u)'
  <2> USE <1>a, <1>b, <1>c, <1>3, <1>4, <1>5, SizesStay DEF UploadOK, QuickOK
  <2>1. InStep(u)'
    BY DEF InStep
  <2>2. PartsInPlace(u)'
    BY DEF PartsInPlace, InStep
  <2>3. CopiedInOrder(u)'
    <3>1. InOrder(u, <<>>)'
      BY DEF InOrder
    <3>2. completer'[u].copied = <<>> /\ completer'[u].todo = {}
      OBVIOUS
    <3> QED BY <3>1, <3>2, InOrderStays DEF CopiedInOrder
  <2>4. Held(u)'
    BY DEF Held, InStep
  <2>5. QuickOK(u)'
    <3> SUFFICES ASSUME ~file[u].slow
                 PROVE  (OwnSession(u) /\ OwnAnswer(u) /\ IsWhole(u) /\ Answered(u))'
      OBVIOUS
    <3>1. OwnSession(u)'
      BY DEF OwnSession, Over, InStep, Held
    <3>2. OwnAnswer(u)'
      BY FileStays DEF OwnAnswer, AnswerOK, OwnSession, Over, InStep
    <3>3. IsWhole(u)'
      BY DEF IsWhole
    <3>4. Answered(u)'
      BY DEF Answered, OwnSession, OwnAnswer, AnswerOK, Over, InStep, Held
    <3> QED BY <3>1, <3>2, <3>3, <3>4
  <2> QED BY <2>1, <2>2, <2>3, <2>4, <2>5
<1> QED BY <1>1, <1>2, <1>3, <1>6, OneKept

\* The file is handed over.
LEMMA EndCompleteOk ==
  ASSUME Inductive, NEW u \in Uploads, EndComplete(u), completer[u].answer = "ok"
  PROVE  Inductive'
<1>a. TypeOK /\ UploadOK(u)
  BY DEF Inductive
<1>b. /\ client' \in [Uploads -> ClientStates]
      /\ client'[u].next = client[u].next /\ client'[u].why = client[u].why
      /\ client[u].at = "finishing" => client'[u].at = "done"
      /\ client[u].at # "finishing" => client'[u] = client[u]
      /\ \A v \in Uploads \ {u} : client'[v] = client[v]
  <2>1. client \in [Uploads -> ClientStates]
    BY <1>a DEF TypeOK
  <2>2. CASE client[u].at = "finishing"
    <3>1. client' = [client EXCEPT ![u].at = "done"]
      BY <2>2 DEF EndComplete
    <3>2. client' \in [Uploads -> ClientStates]
      BY <2>1, <3>1, ClientType
    <3> QED BY <2>1, <2>2, <3>1, <3>2 DEF ClientStates
  <2>3. CASE client[u].at # "finishing"
    BY <2>1, <2>3 DEF EndComplete
  <2> QED BY <2>2, <2>3
<1>c. /\ completer' = [completer EXCEPT ![u] = IdleMaker]
      /\ handed' = [handed EXCEPT ![u] = <<completer[u].copied>>]
  BY DEF EndComplete
<1>d. handed'[u] = <<completer[u].copied>> /\ handed'[u][1] = completer[u].copied
  BY <1>a, <1>c DEF TypeOK
<1>1. TypeOK'
  <2>1. completer' \in [Uploads -> CompleterStates]
    BY ONLY <1>a, <1>c, u \in Uploads, CompleterType DEF TypeOK
  <2>2. client' \in [Uploads -> ClientStates]
    BY <1>b
  <2>3. \A v \in Uploads : client'[v].next \in 0 .. NChunks(v)
    BY <1>a, <1>b DEF TypeOK
  <2>4. handed' \in [Uploads -> Seq(Seq(Nat \X Nat))]
    BY <1>a, <1>b, <1>c, <1>d DEF EndComplete, TypeOK, CompleterStates
  <2> QED BY <1>a, <1>b, <1>c, <1>d, <2>1, <2>2, <2>3, <2>4, SizesStay
         DEF EndComplete, TypeOK, table, disk
<1>2. \A v \in Uploads \ {u} : Same(v)
  BY <1>a, <1>b, <1>c, <1>d DEF EndComplete, Same, TypeOK, table, disk
<1>3. /\ file' = file /\ parts'[u] = parts[u] /\ writer'[u] = writer[u]
      /\ clearing'[u] = clearing[u] /\ completer'[u].at = "idle"
      /\ completer'[u].todo = {} /\ completer'[u].copied = <<>>
      /\ completer'[u].answer = "none"
  BY <1>a, <1>b, <1>c, <1>d DEF EndComplete, TypeOK, CompleterStates, ClientStates, IdleMaker, table, disk
<1>4. /\ completer[u].answer = "ok"
      /\ completer[u].at = "ending" \/ (completer[u].at = "clearing" /\ clearing[u].at = "done")
      /\ UNCHANGED <<sessions, dirs, aged, purge>>
  BY <1>a, <1>b, <1>c, <1>d, ConstantsOK DEF EndComplete, MoreToCome, TypeOK, FileRecord, WriterStates, UploadOK, InStep, table, disk
<1>5. client[u].next \in Nat /\ writer[u].size \in Nat /\ NChunks(u) \in Nat
  BY <1>a, Sizes DEF TypeOK, ClientStates, WriterStates
<1>6. UploadOK(u)'
  <2> USE <1>a, <1>b, <1>c, <1>d, <1>3, <1>4, <1>5, SizesStay DEF UploadOK, QuickOK
  <2>1. InStep(u)'
    BY DEF InStep
  <2>2. PartsInPlace(u)'
    BY DEF PartsInPlace, InStep
  <2>3. CopiedInOrder(u)'
    <3>1. InOrder(u, <<>>)'
      BY DEF InOrder
    <3>2. completer'[u].copied = <<>> /\ completer'[u].todo = {}
      OBVIOUS
    <3>3. InOrder(u, handed[u][1])'
      <4>1. InOrder(u, completer[u].copied)
        BY DEF CopiedInOrder
      <4> QED BY <4>1 DEF InOrder, PartLen
    <3> QED BY <3>1, <3>2, <3>3 DEF CopiedInOrder
  <2>4. Held(u)'
    BY DEF Held, InStep
  <2>5. QuickOK(u)'
    <3> SUFFICES ASSUME ~file[u].slow
                 PROVE  (OwnSession(u) /\ OwnAnswer(u) /\ IsWhole(u) /\ Answered(u))'
      OBVIOUS
    <3>1. OwnSession(u)'
      BY DEF OwnSession, Over, InStep, Held
    <3>2. OwnAnswer(u)'
      BY FileStays DEF OwnAnswer, AnswerOK, OwnSession, Over, InStep
    <3>3. IsWhole(u)'
      BY DEF IsWhole, OwnAnswer, AnswerOK
    <3>4. Answered(u)'
      BY DEF Answered, OwnSession, OwnAnswer, AnswerOK, Over, InStep, Held
    <3> QED BY <3>1, <3>2, <3>3, <3>4
  <2> QED BY <2>1, <2>2, <2>3, <2>4, <2>5
<1> QED BY <1>1, <1>2, <1>3, <1>6, OneKept

\* rmtree lists the directory.
LEMMA ListDirKept ==
  ASSUME Inductive, NEW u \in Uploads, ListDir(u)
  PROVE  Inductive'
<1>a. TypeOK /\ UploadOK(u)
  BY DEF Inductive
<1>c. clearing' = [clearing EXCEPT ![u] = [at |-> "deleting", todo |-> DOMAIN parts[u]]]
  BY DEF ListDir
<1>1. TypeOK'
  <2>1. clearing' \in [Uploads -> ClearingStates]
    BY <1>a, <1>c, Sizes DEF TypeOK, ClearingStates
  <2> QED BY <1>a, <2>1, SizesStay
         DEF ListDir, TypeOK, table, disk
<1>2. \A v \in Uploads \ {u} : Same(v)
  BY <1>a DEF ListDir, Same, TypeOK, table, disk
<1>3. /\ file' = file /\ client'[u] = client[u] /\ parts'[u] = parts[u]
      /\ writer'[u] = writer[u] /\ completer'[u] = completer[u]
      /\ handed'[u] = handed[u] /\ clearing'[u].at = "deleting"
      /\ clearing'[u].todo = DOMAIN parts[u]
  BY <1>a DEF ListDir, TypeOK, ClearingStates, table, disk
<1>4. /\ clearing[u].at = "popped"
      /\ UNCHANGED <<sessions, dirs, aged, purge>>
  BY <1>a, ConstantsOK DEF ListDir, MoreToCome, TypeOK, FileRecord, WriterStates, UploadOK, InStep, table, disk
<1>5. client[u].next \in Nat /\ writer[u].size \in Nat /\ NChunks(u) \in Nat
  BY <1>a, Sizes DEF TypeOK, ClientStates, WriterStates
<1>6. UploadOK(u)'
  <2> USE <1>a, <1>3, <1>4, <1>5, SizesStay DEF UploadOK, QuickOK
  <2>1. InStep(u)'
    BY DEF InStep
  <2>2. PartsInPlace(u)'
    BY DEF PartsInPlace, InStep
  <2>3. CopiedInOrder(u)'
    BY InOrderStays DEF CopiedInOrder
  <2>4. Held(u)'
    BY DEF Held, InStep
  <2>5. QuickOK(u)'
    <3> SUFFICES ASSUME ~file[u].slow
                 PROVE  (OwnSession(u) /\ OwnAnswer(u) /\ IsWhole(u) /\ Answered(u))'
      OBVIOUS
    <3>1. OwnSession(u)'
      BY DEF OwnSession, Over, InStep, Held
    <3>2. OwnAnswer(u)'
      BY FileStays DEF OwnAnswer, OwnSession, Over, InStep
    <3>3. IsWhole(u)'
      BY DEF IsWhole
    <3>4. Answered(u)'
      BY DEF Answered, OwnSession, OwnAnswer, Over, InStep, Held
    <3> QED BY <3>1, <3>2, <3>3, <3>4
  <2> QED BY <2>1, <2>2, <2>3, <2>4, <2>5
<1> QED BY <1>1, <1>2, <1>3, <1>6, OneKept

\* One of the listed parts is unlinked.
LEMMA RemovePartKept ==
  ASSUME Inductive, NEW u \in Uploads, clearing[u].at = "deleting",
         NEW i \in clearing[u].todo,
         clearing' = [clearing EXCEPT ![u].todo = @ \ {i}],
         parts' = [parts EXCEPT ![u] = WithoutPart(@, i)],
         UNCHANGED <<file, client, table, dirs, writer, completer, purge, handed,
                     restarted>>
  PROVE  Inductive'
<1>a. TypeOK /\ UploadOK(u)
  BY DEF Inductive
<1>d. /\ DOMAIN parts' = Uploads /\ \A v \in Uploads \ {u} : parts'[v] = parts[v]
      /\ DOMAIN parts'[u] = DOMAIN parts[u] \ {i}
      /\ parts'[u] \in [DOMAIN parts'[u] -> 0 .. ChunkSize]
      /\ \A j \in DOMAIN parts'[u] : parts'[u][j] = parts[u][j]
  BY <1>a, PartRemoved
<1>1. TypeOK'
  <2>1. clearing' \in [Uploads -> ClearingStates]
    BY <1>a DEF TypeOK, ClearingStates
  <2>2. DOMAIN parts' = Uploads
    BY <1>d
  <2>3. \A v \in Uploads : /\ DOMAIN parts'[v] \subseteq 0 .. NChunks(v) - 1
                         /\ parts'[v] \in [DOMAIN parts'[v] -> 0 .. ChunkSize]
    BY <1>a, <1>d DEF TypeOK
  <2> QED BY <1>a, <1>d, <2>1, <2>2, <2>3, SizesStay
         DEF ClearingStates, TypeOK, table, disk
<1>2. \A v \in Uploads \ {u} : Same(v)
  BY <1>a, <1>d DEF ClearingStates, Same, TypeOK, table, disk
<1>3. /\ file' = file /\ client'[u] = client[u] /\ writer'[u] = writer[u]
      /\ completer'[u] = completer[u] /\ handed'[u] = handed[u]
      /\ clearing'[u].at = clearing[u].at
      /\ clearing'[u].todo = clearing[u].todo \ {i}
  BY <1>a, <1>d DEF ClearingStates, TypeOK, ClearingStates, table, disk
<1>4. /\ clearing[u].at = "deleting"
      /\ UNCHANGED <<sessions, dirs, aged, purge>>
  BY <1>a, <1>d, ConstantsOK DEF ClearingStates, MoreToCome, TypeOK, FileRecord, WriterStates, UploadOK, InStep, table, disk
<1>5. client[u].next \in Nat /\ writer[u].size \in Nat /\ NChunks(u) \in Nat
  BY <1>a, Sizes DEF TypeOK, ClientStates, WriterStates
<1>6. UploadOK(u)'
  <2> USE <1>a, <1>d, <1>3, <1>4, <1>5, SizesStay DEF UploadOK, QuickOK
  <2>1. InStep(u)'
    BY DEF InStep
  <2>2. PartsInPlace(u)'
    BY DEF PartsInPlace, InStep
  <2>3. CopiedInOrder(u)'
    BY InOrderStays DEF CopiedInOrder
  <2>4. Held(u)'
    BY DEF Held, InStep
  <2>5. QuickOK(u)'
    <3> SUFFICES ASSUME ~file[u].slow
                 PROVE  (OwnSession(u) /\ OwnAnswer(u) /\ IsWhole(u) /\ Answered(u))'
      OBVIOUS
    <3>1. OwnSession(u)'
      BY DEF OwnSession, Over, InStep, Held
    <3>2. OwnAnswer(u)'
      BY FileStays DEF OwnAnswer, OwnSession, Over, InStep
    <3>3. IsWhole(u)'
      BY DEF IsWhole
    <3>4. Answered(u)'
      BY DEF Answered, OwnSession, OwnAnswer, Over, InStep, Held
    <3> QED BY <3>1, <3>2, <3>3, <3>4
  <2> QED BY <2>1, <2>2, <2>3, <2>4, <2>5
<1> QED BY <1>1, <1>2, <1>3, <1>6, OneKept

\* The directory is removed if it is empty.
LEMMA RemoveDirKept ==
  ASSUME Inductive, NEW u \in Uploads, RemoveDir(u)
  PROVE  Inductive'
<1>a. TypeOK /\ UploadOK(u)
  BY DEF Inductive
<1>c. clearing' = [clearing EXCEPT ![u].at = "done"] /\ u \notin sessions
  BY <1>a DEF RemoveDir, UploadOK, Held
<1>d. /\ dirs' \in {dirs, dirs \ {u}}
      /\ DOMAIN parts[u] = {} => dirs' = dirs \ {u}
  <2>1. DOMAIN parts[u] = {} => parts[u] = NoParts
    BY <1>a DEF TypeOK, NoParts
  <2> QED BY <2>1 DEF RemoveDir
<1>1. TypeOK'
  <2>1. clearing' \in [Uploads -> ClearingStates]
    BY <1>a, <1>c, ClearingType DEF TypeOK
  <2> QED BY <1>a, <1>c, <1>d, <2>1, SizesStay
         DEF RemoveDir, TypeOK, table, disk
<1>2. \A v \in Uploads \ {u} : Same(v)
  BY <1>a, <1>c, <1>d DEF RemoveDir, Same, TypeOK, table, disk
<1>3. /\ file' = file /\ client'[u] = client[u] /\ parts'[u] = parts[u]
      /\ writer'[u] = writer[u] /\ completer'[u] = completer[u]
      /\ handed'[u] = handed[u] /\ clearing'[u].at = "done"
      /\ clearing'[u].todo = clearing[u].todo
  BY <1>a, <1>c, <1>d DEF RemoveDir, TypeOK, ClearingStates, table, disk
<1>4. /\ clearing[u].at = "deleting" /\ clearing[u].todo = {} /\ u \notin sessions
      /\ dirs' \in {dirs, dirs \ {u}}
      /\ DOMAIN parts[u] = {} => dirs' = dirs \ {u}
      /\ UNCHANGED <<sessions, aged, purge>>
  BY <1>a, <1>c, <1>d, ConstantsOK DEF RemoveDir, MoreToCome, TypeOK, FileRecord, WriterStates, UploadOK, InStep, table, disk
<1>5. client[u].next \in Nat /\ writer[u].size \in Nat /\ NChunks(u) \in Nat
  BY <1>a, Sizes DEF TypeOK, ClientStates, WriterStates
<1>6. UploadOK(u)'
  <2> USE <1>a, <1>c, <1>d, <1>3, <1>4, <1>5, SizesStay DEF UploadOK, QuickOK
  <2>1. InStep(u)'
    BY DEF InStep
  <2>2. PartsInPlace(u)'
    BY DEF PartsInPlace, InStep
  <2>3. CopiedInOrder(u)'
    BY InOrderStays DEF CopiedInOrder
  <2>4. Held(u)'
    BY DEF Held, InStep
  <2>5. QuickOK(u)'
    <3> SUFFICES ASSUME ~file[u].slow
                 PROVE  (OwnSession(u) /\ OwnAnswer(u) /\ IsWhole(u) /\ Answered(u))'
      OBVIOUS
    <3>1. OwnSession(u)'
      BY DEF OwnSession, Over, InStep, Held
    <3>2. OwnAnswer(u)'
      BY FileStays DEF OwnAnswer, OwnSession, Over, InStep
    <3>3. IsWhole(u)'
      BY DEF IsWhole
    <3>4. Answered(u)'
      BY DEF Answered, OwnSession, OwnAnswer, Over, InStep, Held
    <3> QED BY <3>1, <3>2, <3>3, <3>4
  <2> QED BY <2>1, <2>2, <2>3, <2>4, <2>5
<1> QED BY <1>1, <1>2, <1>3, <1>6, OneKept

\* The TTL of a session passes: a quick upload is over by then.
LEMMA ExpireKept ==
  ASSUME Inductive, NEW u \in Uploads, Expire(u)
  PROVE  Inductive'
<1>a. TypeOK /\ UploadOK(u)
  BY DEF Inductive
<1>c. ~file[u].slow => Over(u)
  BY DEF Expire, Quiet, Over, IdleWriter, IdleMaker
<1>1. TypeOK'
  <2> QED BY <1>a, <1>c, SizesStay
         DEF Expire, TypeOK, table, disk
<1>2. \A v \in Uploads \ {u} : Same(v)
  BY <1>a, <1>c DEF Expire, Same, TypeOK, table, disk
<1>3. /\ file' = file /\ client'[u] = client[u] /\ parts'[u] = parts[u]
      /\ writer'[u] = writer[u] /\ completer'[u] = completer[u]
      /\ clearing'[u] = clearing[u] /\ handed'[u] = handed[u]
  BY <1>a, <1>c DEF Expire, TypeOK, table, disk
<1>4. /\ u \in sessions \ aged /\ aged' = aged \cup {u}
      /\ ~file[u].slow => Over(u)
      /\ UNCHANGED <<sessions, dirs, purge>>
  BY <1>a, <1>c, ConstantsOK DEF Expire, MoreToCome, TypeOK, FileRecord, WriterStates, UploadOK, InStep, table, disk
<1>5. client[u].next \in Nat /\ writer[u].size \in Nat /\ NChunks(u) \in Nat
  BY <1>a, Sizes DEF TypeOK, ClientStates, WriterStates
<1>6. UploadOK(u)'
  <2> USE <1>a, <1>c, <1>3, <1>4, <1>5, SizesStay DEF UploadOK, QuickOK
  <2>1. InStep(u)'
    BY DEF InStep
  <2>2. PartsInPlace(u)'
    BY DEF PartsInPlace, InStep
  <2>3. CopiedInOrder(u)'
    BY InOrderStays DEF CopiedInOrder
  <2>4. Held(u)'
    BY DEF Held, InStep
  <2>5. QuickOK(u)'
    <3> SUFFICES ASSUME ~file[u].slow
                 PROVE  (OwnSession(u) /\ OwnAnswer(u) /\ IsWhole(u) /\ Answered(u))'
      OBVIOUS
    <3>1. OwnSession(u)'
      BY DEF OwnSession, Over, InStep, Held
    <3>2. OwnAnswer(u)'
      BY FileStays DEF OwnAnswer, OwnSession, Over, InStep
    <3>3. IsWhole(u)'
      BY DEF IsWhole
    <3>4. Answered(u)'
      BY DEF Answered, OwnSession, OwnAnswer, Over, InStep, Held
    <3> QED BY <3>1, <3>2, <3>3, <3>4
  <2> QED BY <2>1, <2>2, <2>3, <2>4, <2>5
<1> QED BY <1>1, <1>2, <1>3, <1>6, OneKept

\* The purge takes a session from the table.
LEMMA PurgeSessionFound ==
  ASSUME Inductive, NEW u \in Uploads, PurgeSession(u), u \in sessions
  PROVE  Inductive'
<1>a. TypeOK /\ UploadOK(u)
  BY DEF Inductive
<1>c. /\ clearing' = [clearing EXCEPT ![u].at = "popped"]
      /\ purge' = [todo |-> purge.todo \ {u}, at |-> u]
  BY DEF PurgeSession
<1>1. TypeOK'
  <2>1. clearing' \in [Uploads -> ClearingStates]
    BY <1>a, <1>c, ClearingType DEF TypeOK
  <2> QED BY <1>a, <2>1, SizesStay
         DEF PurgeSession, TypeOK, table, disk
<1>2. \A v \in Uploads \ {u} : Same(v)
  BY <1>a DEF PurgeSession, Same, TypeOK, table, disk
<1>3. /\ file' = file /\ client'[u] = client[u] /\ parts'[u] = parts[u]
      /\ writer'[u] = writer[u] /\ completer'[u] = completer[u]
      /\ handed'[u] = handed[u] /\ clearing'[u].at = "popped"
      /\ clearing'[u].todo = clearing[u].todo
  BY <1>a DEF PurgeSession, TypeOK, ClearingStates, table, disk
<1>4. /\ u \in purge.todo /\ u \in sessions
      /\ sessions' = sessions \ {u} /\ aged' = aged \ {u} /\ dirs' = dirs
      /\ purge'.todo = purge.todo \ {u}
  BY <1>a, ConstantsOK DEF PurgeSession, MoreToCome, TypeOK, FileRecord, WriterStates, UploadOK, InStep, table, disk
<1>5. client[u].next \in Nat /\ writer[u].size \in Nat /\ NChunks(u) \in Nat
  BY <1>a, Sizes DEF TypeOK, ClientStates, WriterStates
<1>6. UploadOK(u)'
  <2> USE <1>a, <1>3, <1>4, <1>5, SizesStay DEF UploadOK, QuickOK
  <2>1. InStep(u)'
    BY DEF InStep
  <2>2. PartsInPlace(u)'
    BY DEF PartsInPlace, InStep
  <2>3. CopiedInOrder(u)'
    BY InOrderStays DEF CopiedInOrder
  <2>4. Held(u)'
    BY DEF Held, InStep
  <2>5. QuickOK(u)'
    <3> SUFFICES ASSUME ~file[u].slow
                 PROVE  (OwnSession(u) /\ OwnAnswer(u) /\ IsWhole(u) /\ Answered(u))'
      OBVIOUS
    <3>1. OwnSession(u)'
      BY DEF OwnSession, Over, InStep, Held
    <3>2. OwnAnswer(u)'
      BY FileStays DEF OwnAnswer, OwnSession, Over, InStep
    <3>3. IsWhole(u)'
      BY DEF IsWhole
    <3>4. Answered(u)'
      BY DEF Answered, OwnSession, OwnAnswer, Over, InStep, Held
    <3> QED BY <3>1, <3>2, <3>3, <3>4
  <2> QED BY <2>1, <2>2, <2>3, <2>4, <2>5
<1> QED BY <1>1, <1>2, <1>3, <1>6, OneKept

\* Its own /complete took it first.
LEMMA PurgeSessionGone ==
  ASSUME Inductive, NEW u \in Uploads, PurgeSession(u), u \notin sessions
  PROVE  Inductive'
<1>a. TypeOK /\ UploadOK(u)
  BY DEF Inductive
<1>c. purge' = [todo |-> purge.todo \ {u}, at |-> purge.at]
  BY <1>a DEF PurgeSession, TypeOK
<1>1. TypeOK'
  <2> QED BY <1>a, <1>c, SizesStay
         DEF PurgeSession, TypeOK, table, disk
<1>2. \A v \in Uploads \ {u} : Same(v)
  BY <1>a, <1>c DEF PurgeSession, Same, TypeOK, table, disk
<1>3. /\ file' = file /\ client'[u] = client[u] /\ parts'[u] = parts[u]
      /\ writer'[u] = writer[u] /\ completer'[u] = completer[u]
      /\ clearing'[u] = clearing[u] /\ handed'[u] = handed[u]
  BY <1>a, <1>c DEF PurgeSession, TypeOK, table, disk
<1>4. /\ u \in purge.todo /\ u \notin sessions
      /\ purge'.todo = purge.todo \ {u}
      /\ UNCHANGED <<sessions, dirs, aged>>
  BY <1>a, <1>c, ConstantsOK DEF PurgeSession, MoreToCome, TypeOK, FileRecord, WriterStates, UploadOK, InStep, table, disk
<1>5. client[u].next \in Nat /\ writer[u].size \in Nat /\ NChunks(u) \in Nat
  BY <1>a, Sizes DEF TypeOK, ClientStates, WriterStates
<1>6. UploadOK(u)'
  <2> USE <1>a, <1>c, <1>3, <1>4, <1>5, SizesStay DEF UploadOK, QuickOK
  <2>1. InStep(u)'
    BY DEF InStep
  <2>2. PartsInPlace(u)'
    BY DEF PartsInPlace, InStep
  <2>3. CopiedInOrder(u)'
    BY InOrderStays DEF CopiedInOrder
  <2>4. Held(u)'
    BY DEF Held, InStep
  <2>5. QuickOK(u)'
    <3> SUFFICES ASSUME ~file[u].slow
                 PROVE  (OwnSession(u) /\ OwnAnswer(u) /\ IsWhole(u) /\ Answered(u))'
      OBVIOUS
    <3>1. OwnSession(u)'
      BY DEF OwnSession, Over, InStep, Held
    <3>2. OwnAnswer(u)'
      BY FileStays DEF OwnAnswer, OwnSession, Over, InStep
    <3>3. IsWhole(u)'
      BY DEF IsWhole
    <3>4. Answered(u)'
      BY DEF Answered, OwnSession, OwnAnswer, Over, InStep, Held
    <3> QED BY <3>1, <3>2, <3>3, <3>4
  <2> QED BY <2>1, <2>2, <2>3, <2>4, <2>5
<1> QED BY <1>1, <1>2, <1>3, <1>6, OneKept

\* The purge looks for the sessions that are old enough.
LEMMA StartPurgeKept ==
  ASSUME Inductive, StartPurge
  PROVE  Inductive'
<1>a. TypeOK /\ \A u \in Uploads : UploadOK(u)
  BY DEF Inductive
<1>1. /\ UNCHANGED <<file, client, parts, writer, completer, clearing, handed,
                     sessions, aged, dirs, restarted>>
      /\ purge' = [todo |-> sessions \cap aged, at |-> NoUpload]
  BY DEF StartPurge, table, disk
<1>2. TypeOK'
  BY <1>a, <1>1, SizesStay DEF TypeOK
<1>3. ASSUME NEW u \in Uploads
      PROVE  UploadOK(u)'
  <2> USE <1>1, SizesStay
  <2>a. InStep(u) /\ PartsInPlace(u) /\ CopiedInOrder(u) /\ Held(u) /\ QuickOK(u)
    BY <1>a DEF UploadOK
  <2>b. u \in purge'.todo => u \in sessions /\ u \in aged
    OBVIOUS
  <2>1. InStep(u)'
    BY <2>a, <2>b DEF InStep, Held
  <2>2. PartsInPlace(u)'
    BY <2>a DEF PartsInPlace
  <2>3. CopiedInOrder(u)'
    BY <2>a, InOrderStays DEF CopiedInOrder
  <2>4. Held(u)'
    BY <2>a DEF Held
  <2>5. QuickOK(u)'
    <3> SUFFICES ASSUME ~file[u].slow
                 PROVE  (OwnSession(u) /\ OwnAnswer(u) /\ IsWhole(u) /\ Answered(u))'
      BY DEF QuickOK
    <3>1. OwnSession(u)'
      BY <2>a, <2>b DEF QuickOK, OwnSession, Over
    <3>2. OwnAnswer(u)'
      BY <2>a, FileStays DEF QuickOK, OwnAnswer
    <3>3. IsWhole(u)' /\ Answered(u)'
      BY <2>a DEF QuickOK, IsWhole, Answered
    <3> QED BY <3>1, <3>2, <3>3
  <2> QED BY <2>1, <2>2, <2>3, <2>4, <2>5 DEF UploadOK
<1> QED BY <1>2, <1>3 DEF Inductive

\* It goes on to the next one.
LEMMA PurgeNextKept ==
  ASSUME Inductive, PurgeNext
  PROVE  Inductive'
<1>a. TypeOK /\ \A u \in Uploads : UploadOK(u)
  BY DEF Inductive
<1>1. /\ UNCHANGED <<file, client, parts, writer, completer, clearing, handed,
                     sessions, aged, dirs, restarted>>
      /\ purge' = [todo |-> purge.todo, at |-> NoUpload]
  BY <1>a DEF PurgeNext, table, disk, TypeOK
<1>2. TypeOK'
  BY <1>a, <1>1, SizesStay DEF TypeOK
<1>3. ASSUME NEW u \in Uploads
      PROVE  UploadOK(u)'
  <2>1. Same(u) /\ file' = file
    BY <1>1 DEF Same
  <2> QED BY <1>a, <2>1, OthersKept
<1> QED BY <1>2, <1>3 DEF Inductive

\* A restart: every upload is a slow one, and no handler is left.
LEMMA RestartKept ==
  ASSUME Inductive, Restart
  PROVE  Inductive'
<1>a. TypeOK /\ \A u \in Uploads : UploadOK(u)
  BY DEF Inductive
<1>1. /\ UNCHANGED <<file, parts, dirs, handed>>
      /\ sessions' = {} /\ aged' = {} /\ purge' = IdlePurge /\ restarted' = TRUE
      /\ writer' = [u \in Uploads |-> IdleWriter]
      /\ completer' = [u \in Uploads |-> IdleMaker]
      /\ clearing' = [u \in Uploads |-> NotClearing]
      /\ \A u \in Uploads : file[u].slow
  BY DEF Restart, disk
<1>2. /\ client' \in [Uploads -> ClientStates]
      /\ \A u \in Uploads :
           /\ client'[u].next = client[u].next
           /\ client[u].at \in {"sending", "waiting", "finishing"} =>
                client'[u].at = "failed"
           /\ client[u].at \notin {"sending", "waiting", "finishing"} =>
                client'[u] = client[u]
  <2>1. ASSUME NEW r \in ClientStates
        PROVE  /\ [r EXCEPT !.at = "failed", !.why = "restart"] \in ClientStates
               /\ [r EXCEPT !.at = "failed", !.why = "restart"].at = "failed"
               /\ [r EXCEPT !.at = "failed", !.why = "restart"].next = r.next
    BY DEF ClientStates, Reasons
  <2>2. \A u \in Uploads : client[u] \in ClientStates
    BY <1>a DEF TypeOK
  <2>3. client' = [u \in Uploads |->
                     IF client[u].at \in {"sending", "waiting", "finishing"}
                       THEN [client[u] EXCEPT !.at = "failed", !.why = "restart"]
                       ELSE client[u]]
    BY DEF Restart
  <2> QED BY <2>1, <2>2, <2>3
<1>3. TypeOK'
  <2>1. writer' \in [Uploads -> WriterStates]
    BY <1>1, ConstantsOK DEF WriterStates, IdleWriter
  <2>2. completer' \in [Uploads -> CompleterStates]
    <3>1. IdleMaker \in CompleterStates
      <4>1. <<>> \in Seq(Nat \X Nat)
        OBVIOUS
      <4> QED BY <4>1 DEF IdleMaker, CompleterStates, Answers
    <3> QED BY <1>1, <3>1
  <2>3. clearing' \in [Uploads -> ClearingStates]
    BY <1>1 DEF NotClearing, ClearingStates
  <2> QED BY <1>a, <1>1, <1>2, <2>1, <2>2, <2>3, SizesStay DEF TypeOK, IdlePurge
<1>4. ASSUME NEW u \in Uploads
      PROVE  UploadOK(u)'
  <2> USE <1>1, <1>2, SizesStay
  <2>a. InStep(u) /\ PartsInPlace(u) /\ CopiedInOrder(u)
    BY <1>a DEF UploadOK
  <2>b. /\ writer'[u].at = "idle" /\ completer'[u].at = "idle"
        /\ completer'[u].copied = <<>> /\ completer'[u].todo = {}
        /\ clearing'[u].at = "no" /\ purge'.todo = {}
    BY DEF IdleWriter, IdleMaker, NotClearing, IdlePurge
  <2>1. InStep(u)'
    BY <2>a, <2>b DEF InStep
  <2>2. PartsInPlace(u)'
    <3>1. /\ client'[u].next = client[u].next /\ client'[u].at # "sending"
          /\ parts' = parts /\ writer'[u].at = "idle" /\ file' = file
      BY <2>b
    <3>2. \A i \in DOMAIN parts[u] :
            /\ i <= client[u].next
            /\ i < client[u].next => parts[u][i] = PartLen(u, i)
      BY <2>a DEF PartsInPlace
    <3> QED BY ONLY <3>1, <3>2, SizesStay DEF PartsInPlace
  <2>3. CopiedInOrder(u)'
    <3>1. InOrder(u, <<>>)'
      BY DEF InOrder
    <3> QED BY <2>a, <2>b, <3>1, InOrderStays DEF CopiedInOrder
  <2>4. Held(u)' /\ QuickOK(u)'
    BY DEF Held, QuickOK
  <2> QED BY <2>1, <2>2, <2>3, <2>4 DEF UploadOK
<1> QED BY <1>3, <1>4 DEF Inductive

-----------------------------------------------------------------------------
(* The invariant, and what follows from it. *)

\* Uploads that have not begun satisfy the invariant.
LEMMA InitInductive == Init => Inductive
<1> SUFFICES ASSUME Init PROVE Inductive
  OBVIOUS
<1>1. TypeOK
  <2>1. /\ client \in [Uploads -> ClientStates]
        /\ clearing \in [Uploads -> ClearingStates]
    BY DEF Init, ClientStates, Reasons, ClearingStates, NotClearing
  <2>2. writer \in [Uploads -> WriterStates]
    BY ConstantsOK DEF Init, WriterStates, IdleWriter
  <2>3. completer \in [Uploads -> CompleterStates]
    <3>1. <<>> \in Seq(Nat \X Nat)
      OBVIOUS
    <3> QED BY <3>1 DEF Init, IdleMaker, CompleterStates, Answers
  <2>4. handed \in [Uploads -> Seq(Seq(Nat \X Nat))]
    <3>1. <<>> \in Seq(Seq(Nat \X Nat))
      OBVIOUS
    <3> QED BY <3>1 DEF Init, Nothing
  <2>5. ASSUME NEW u \in Uploads
        PROVE  /\ client[u].next \in 0 .. NChunks(u)
               /\ DOMAIN parts[u] \subseteq 0 .. NChunks(u) - 1
               /\ parts[u] \in [DOMAIN parts[u] -> 0 .. ChunkSize]
    <3>1. NChunks(u) \in Nat
      <4>1. file[u].size \in Nat /\ ChunkSize \in Nat \ {0}
        BY ConstantsOK DEF Init, FileRecord
      <4> QED BY <4>1, Rounding DEF NChunks
    <3> QED BY <3>1 DEF Init, NoParts
  <2> QED BY <2>1, <2>2, <2>3, <2>4, <2>5 DEF Init, TypeOK, IdlePurge
<1>2. ASSUME NEW u \in Uploads
      PROVE  UploadOK(u)
  <2>1. /\ client[u].at = "start" /\ client[u].next = 0 /\ client[u].why = "none"
        /\ writer[u].at = "idle" /\ completer[u].at = "idle" /\ clearing[u].at = "no"
        /\ completer[u].copied = <<>> /\ completer[u].todo = {}
        /\ sessions = {} /\ aged = {} /\ dirs = {} /\ purge.todo = {}
        /\ DOMAIN parts[u] = {} /\ handed[u] = Nothing
    BY DEF Init, IdleWriter, IdleMaker, NotClearing, IdlePurge, NoParts
  <2>2. InStep(u) /\ PartsInPlace(u) /\ Held(u) /\ QuickOK(u)
    BY <2>1 DEF InStep, PartsInPlace, Held, QuickOK, OwnSession, OwnAnswer,
                IsWhole, Answered
  <2>3. CopiedInOrder(u)
    BY <2>1 DEF CopiedInOrder, InOrder
  <2> QED BY <2>2, <2>3 DEF UploadOK
<1> QED BY <1>1, <1>2 DEF Inductive

\* Every step keeps the invariant; there is a lemma above for each.
LEMMA NextInductive == Inductive /\ [Next]_vars => Inductive'
<1> SUFFICES ASSUME Inductive, [Next]_vars PROVE Inductive'
  OBVIOUS
<1>a. TypeOK /\ \A u \in Uploads : UploadOK(u)
  BY DEF Inductive
<1>1. ASSUME NEW u \in Uploads, Browser(u) PROVE Inductive'
  BY <1>1, InitSessionKept, RefuseInitKept, SendChunkKept, SendCompleteKept
     DEF Browser
<1>2. ASSUME NEW u \in Uploads, Disconnect(u) \/ Expire(u) \/ LoseChunk(u)
      PROVE  Inductive'
  BY <1>2, DisconnectKept, ExpireKept, LoseChunkKept
<1>3. ASSUME NEW u \in Uploads, WriteChunk(u) PROVE Inductive'
  <2>1. CASE BeginChunk(u)
    BY <2>1, BeginChunkFound, BeginChunkGone
  <2>2. CASE OpenPart(u) \/ OpenPartFails(u) \/ RejectPiece(u)
    BY <2>2, OpenPartKept, OpenPartFailsKept, RejectPieceKept
  <2>3. CASE WritePiece(u)
    BY <2>3, WritePieceKept, WritePieceUnlinked
  <2>4. CASE EndChunk(u)
    BY <2>4, EndChunkHeard, EndChunkUnheard
  <2> QED BY <1>3, <2>1, <2>2, <2>3, <2>4 DEF WriteChunk
<1>4. ASSUME NEW u \in Uploads, CompleteSession(u) PROVE Inductive'
  <2>1. CASE CheckComplete(u)
    BY <2>1, CheckCompleteGone, CheckCompleteShort, CheckCompleteMatched
  <2>2. CASE ListParts(u)
    BY <2>2, ListPartsKept
  <2>3. CASE CopyPart(u)
    <3>1. PICK i \in completer[u].todo :
            /\ \A j \in completer[u].todo : i <= j
            /\ IF i \in DOMAIN parts[u]
                 THEN completer' = [completer EXCEPT
                                      ![u].todo = @ \ {i},
                                      ![u].copied = Append(@, <<i, parts[u][i]>>)]
                 ELSE Aborting(u, "error")
      BY <2>3 DEF CopyPart
    <3>2. /\ completer[u].at = "copying"
          /\ UNCHANGED <<file, client, table, disk, writer, clearing, purge,
                         handed, restarted>>
      BY <2>3 DEF CopyPart
    <3>3. CASE i \in DOMAIN parts[u]
      BY <3>1, <3>2, <3>3, CopyPartFound
    <3>4. CASE i \notin DOMAIN parts[u]
      BY <3>1, <3>2, <3>4, CopyPartGone
    <3> QED BY <3>3, <3>4
  <2>4. CASE Verify(u)
    BY <2>4, VerifyOk, VerifySignature DEF Verify
  <2>5. CASE AbortSession(u)
    BY <2>5, AbortSessionFound, AbortSessionGone
  <2>6. CASE EndComplete(u)
    BY <2>6, EndCompleteOk, EndCompleteFails
  <2> QED BY <1>4, <2>1, <2>2, <2>3, <2>4, <2>5, <2>6 DEF CompleteSession
<1>5. ASSUME NEW u \in Uploads, Rmtree(u) PROVE Inductive'
  <2>1. CASE RemovePart(u)
    <3>1. PICK i \in clearing[u].todo :
            /\ clearing' = [clearing EXCEPT ![u].todo = @ \ {i}]
            /\ parts' = [parts EXCEPT ![u] = WithoutPart(@, i)]
      BY <2>1 DEF RemovePart
    <3>2. /\ clearing[u].at = "deleting"
          /\ UNCHANGED <<file, client, table, dirs, writer, completer, purge, handed,
                         restarted>>
      BY <2>1 DEF RemovePart
    <3> QED BY <3>1, <3>2, RemovePartKept
  <2> QED BY <1>5, <2>1, ListDirKept, RemoveDirKept DEF Rmtree
<1>6. CASE Purge
  BY <1>6, StartPurgeKept, PurgeNextKept, PurgeSessionFound, PurgeSessionGone
     DEF Purge
<1>7. CASE Restart
  BY <1>7, RestartKept
<1>8. CASE UNCHANGED vars
  <2>1. /\ UNCHANGED <<file, client, sessions, aged, dirs, parts, writer, completer,
                       clearing, purge, handed, restarted>>
    BY <1>8 DEF vars, table, disk
  <2>2. TypeOK'
    BY <1>a, <2>1, SizesStay DEF TypeOK
  <2>3. ASSUME NEW u \in Uploads PROVE UploadOK(u)'
    <3>1. Same(u) /\ file' = file
      BY <2>1 DEF Same
    <3> QED BY <1>a, <3>1, OthersKept
  <2> QED BY <2>2, <2>3 DEF Inductive
<1> QED BY <1>1, <1>2, <1>3, <1>4, <1>5, <1>6, <1>7, <1>8 DEF Next

\* Every state is one the inductive invariant describes.
THEOREM ChunkedInvariant == Spec => []Inductive
<1> QED BY InitInductive, NextInductive, PTL DEF Spec

\* The records of the uploads stay well typed, and a session in the table has
\* its directory.
THEOREM ChunkedTypeCorrect == Spec => []TypeOK
<1>1. Inductive => TypeOK
  BY DEF Inductive
<1> QED BY <1>1, ChunkedInvariant, PTL

\* Whatever the threads of /complete and of the purge do to one another, what
\* is handed over is made of whole chunks in the order of the file.
THEOREM WholeChunksInOrder == Spec => []HandedPartsAreWhole
<1>1. Inductive => HandedPartsAreWhole
  BY DEF Inductive, UploadOK, CopiedInOrder, InOrder, HandedPartsAreWhole
<1> QED BY <1>1, ChunkedInvariant, PTL

\* An upload that stays within the TTL hands over its file, byte for byte.
THEOREM TheFileIsHandedOver == Spec => []HandedOverIsWhole
<1>1. Inductive => HandedOverIsWhole
  BY DEF Inductive, UploadOK, QuickOK, HandedOverIsWhole
<1> QED BY <1>1, ChunkedInvariant, PTL

\* The routes' answers are true: "done" means handed over and cleaned up, and a
\* refusal after /init is for the contents or a wrong declared size.
THEOREM TrueAnswers == Spec => []AnswersAreTrue
<1>1. Inductive => AnswersAreTrue
  BY DEF Inductive, UploadOK, QuickOK, Answered, AnswersAreTrue, DoneMeansDone,
         NoUndeservedFailure
<1> QED BY <1>1, ChunkedInvariant, PTL

\* The parts of a session within the TTL go only when it is over: when the
\* browser gave up, or its own /complete is through with them.
THEOREM PartsStay == Spec => OpenPartsStay
<1> DEFINE Open(u) == client[u].at \in {"sending", "waiting", "finishing"}
           Stays(u) == \/ DOMAIN parts[u] \subseteq DOMAIN parts'[u]
                       \/ completer[u].at = "clearing"
           Kept(u) == Open(u)' /\ ~file[u].slow => Stays(u)
<1>1. Inductive /\ [Next]_vars =>
        [\A u \in Uploads :
           (client'[u].at \in {"sending", "waiting", "finishing"} /\ ~file[u].slow) =>
             \/ DOMAIN parts[u] \subseteq DOMAIN parts'[u]
             \/ completer[u].at = "clearing"]_vars
  <2> SUFFICES ASSUME Inductive, Next, NEW v \in Uploads
               PROVE  Kept(v)
    OBVIOUS
  <2>a. TypeOK /\ \A u \in Uploads : UploadOK(u)
    BY DEF Inductive
  <2>1. CASE parts' = parts
    BY <2>1
  <2>2. ASSUME NEW u \in Uploads, OpenPart(u) PROVE Kept(v)
    <3>1. parts' = [parts EXCEPT ![u] = WithPart(@, client[u].next, 0)]
      BY <2>2 DEF OpenPart
    <3> QED BY <2>a, <3>1 DEF TypeOK, WithPart
  <2>3. ASSUME NEW u \in Uploads, WritePiece(u) PROVE Kept(v)
    <3>1. \/ parts' = parts
          \/ parts' = [parts EXCEPT ![u] = WithPart(@, client[u].next, writer[u].size + 1)]
      BY <2>3 DEF WritePiece
    <3>2. CASE parts' = parts
      BY <2>1, <3>2
    <3>3. CASE parts' = [parts EXCEPT ![u] = WithPart(@, client[u].next, writer[u].size + 1)]
      BY <2>a, <3>3 DEF TypeOK, WithPart
    <3> QED BY <3>1, <3>2, <3>3
  <2>4. ASSUME NEW u \in Uploads, RejectPiece(u) PROVE Kept(v)
    <3>1. /\ parts' = [parts EXCEPT ![u] = WithoutPart(@, client[u].next)]
          /\ client' = Fails(u, "limit")
          /\ writer[u].at = "writing"
      BY <2>4 DEF RejectPiece, MoreToCome
    <3>2. client[u].at \in {"waiting", "failed"}
      BY <2>a, <3>1 DEF UploadOK, InStep
    <3>3. client'[u].at = "failed"
      <4>1. client \in [Uploads -> ClientStates] /\ "limit" \in Reasons
        BY <2>a DEF TypeOK, Reasons
      <4> QED BY ONLY <3>1, <3>2, <4>1, u \in Uploads, FailsEffect
    <3>4. v # u => parts'[v] = parts[v]
      BY <2>a, <3>1 DEF TypeOK
    <3> QED BY <3>3, <3>4
  <2>5. ASSUME NEW u \in Uploads, LoseChunk(u) PROVE Kept(v)
    <3>1. /\ parts' = [parts EXCEPT ![u] = WithoutPart(@, client[u].next)]
          /\ client' = client /\ client[u].at = "failed"
      BY <2>5 DEF LoseChunk
    <3>2. v # u => parts'[v] = parts[v]
      BY <2>a, <3>1 DEF TypeOK
    <3> QED BY <3>1, <3>2
  <2>6. ASSUME NEW u \in Uploads, RemovePart(u) PROVE Kept(v)
    <3>1. PICK i \in clearing[u].todo : parts' = [parts EXCEPT ![u] = WithoutPart(@, i)]
      BY <2>6 DEF RemovePart
    <3>2. clearing[u].at = "deleting" /\ client' = client
      BY <2>6 DEF RemovePart
    <3>3. u \notin sessions /\ client[u].at # "start"
      BY <2>a, <3>2 DEF UploadOK, Held, InStep
    <3>4. ~file[u].slow =>
            client[u].at \in {"failed", "done"} \/ completer[u].at = "clearing"
      BY <2>a, <3>3 DEF UploadOK, QuickOK, OwnSession, Over
    <3>5. v # u => parts'[v] = parts[v]
      BY <2>a, <3>1 DEF TypeOK
    <3> QED BY <3>2, <3>4, <3>5
  <2>7. ASSUME NEW u \in Uploads,
               Browser(u) \/ Disconnect(u) \/ Expire(u) \/ BeginChunk(u)
                 \/ OpenPartFails(u) \/ EndChunk(u) \/ CompleteSession(u)
                 \/ ListDir(u) \/ RemoveDir(u)
        PROVE  parts' = parts
    <3>1. CASE Browser(u) \/ Disconnect(u) \/ Expire(u)
      BY <3>1 DEF Browser, InitSession, RefuseInit, SendChunk, SendComplete,
                  Disconnect, Expire, disk
    <3>2. CASE BeginChunk(u) \/ OpenPartFails(u) \/ EndChunk(u)
      BY <3>2 DEF BeginChunk, OpenPartFails, EndChunk, disk
    <3>3. CASE CompleteSession(u)
      BY <3>3 DEF CompleteSession, CheckComplete, ListParts, CopyPart, Verify,
                  AbortSession, EndComplete, disk
    <3>4. CASE ListDir(u) \/ RemoveDir(u)
      BY <3>4 DEF ListDir, RemoveDir, disk
    <3> QED BY <2>7, <3>1, <3>2, <3>3, <3>4
  <2>8. CASE Purge \/ Restart
    <3>1. parts' = parts
      BY <2>8 DEF Purge, StartPurge, PurgeNext, PurgeSession, Restart, disk
    <3> QED BY <2>1, <3>1
  <2> HIDE DEF Kept
  <2> QED BY <2>1, <2>2, <2>3, <2>4, <2>5, <2>6, <2>7, <2>8
          DEF Next, WriteChunk, Rmtree
<1> QED BY <1>1, ChunkedInvariant, PTL DEF Spec, OpenPartsStay

=============================================================================
