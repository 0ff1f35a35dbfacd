---------------------------- MODULE BoothLibrary ----------------------------
(***************************************************************************)
(* The copy of the user's BOOTH library that file names are matched with   *)
(* (booth_library_service.py and its route in web/fragments/settings.py).  *)
(* A sync reads the purchases page by page, then the free downloads and    *)
(* the product page of each, and replaces the table.  The user goes on     *)
(* shopping meanwhile: BOOTH lists the newest product first, so a purchase *)
(* moves every later page by one.                                          *)
(*                                                                         *)
(* before, blind and lost of a sync are history variables; lost has the    *)
(* products that failed or were past the last page that is read.           *)
(***************************************************************************)
EXTENDS Naturals, Sequences, FiniteSets, Functions

CONSTANTS
  Products,
  Free,        \* the products that are free
  Syncs,       \* threads that serve the sync button
  MaxPages     \* _MAX_PAGES

ASSUME LibraryAssumption == Free \subseteq Products /\ MaxPages \in Nat

Listings == {"purchases", "free"}

VARIABLES
  shelf,  \* listing -> what BOOTH lists, the newest first (external)
  table,  \* the products whose files booth_library_files has
  sync    \* thread -> the listing and page it is at, what it has got

boothVars == <<shelf, table, sync>>

NoSync == [pc |-> "idle", page |-> 1, got |-> {}, before |-> {}, blind |-> FALSE,
           lost |-> {}]
Listed == Range(shelf["purchases"]) \cup Range(shelf["free"])

BoothTypeOK ==
  /\ shelf \in [Listings -> Seq(Products)]
  /\ Range(shelf["free"]) \subseteq Free
  /\ table \subseteq Products
  /\ sync \in [Syncs -> [pc : {"idle", "ask", "purchases", "askFree", "free", "replace"},
                         page : 1 .. MaxPages + 1, got : SUBSET Products,
                         before : SUBSET Products, blind : BOOLEAN,
                         lost : SUBSET Products]]

BoothInit ==
  /\ shelf = [l \in Listings |-> <<>>]
  /\ table = {}
  /\ sync = [s \in Syncs |-> NoSync]

\* The user acquires a product.
Acquire(p) ==
  LET l == IF p \in Free THEN "free" ELSE "purchases" IN
  /\ p \notin Listed
  /\ shelf' = [shelf EXCEPT ![l] = <<p>> \o @]
  /\ UNCHANGED <<table, sync>>

\* The button is refused while no cookie is stored; that changes nothing.
StartSync(s) ==
  /\ sync[s].pc = "idle"
  /\ sync' = [sync EXCEPT ![s] = [NoSync EXCEPT !.pc = "ask", !.before = Listed]]
  /\ UNCHANGED <<shelf, table>>

After(listing) == IF listing = "purchases" THEN "askFree" ELSE "replace"

\* robots_allow before each of the two fetches: what it forbids, or cannot
\* read, is skipped as if it were an empty listing.
AskRobots(s) ==
  /\ sync[s].pc \in {"ask", "askFree"}
  /\ \E allowed \in BOOLEAN :
       LET here == IF sync[s].pc = "ask" THEN "purchases" ELSE "free" IN
       sync' = [sync EXCEPT ![s] =
         [sync[s] EXCEPT !.pc = IF allowed THEN here ELSE After(here), !.page = 1,
                         !.blind = sync[s].blind \/ ~allowed]]
  /\ UNCHANGED <<shelf, table>>

\* Mutant: the first page is page zero, which BOOTH answers like page one.
FetchPageFromZero(s) ==
  LET l == sync[s].pc
      k == sync[s].page
      at == IF k = 1 THEN 1 ELSE k - 1
      end == k > MaxPages \/ k > Len(shelf[l])
  IN /\ l \in Listings
     /\ sync' = [sync EXCEPT ![s] =
          IF end THEN [@ EXCEPT !.pc = After(l)]
          ELSE [@ EXCEPT !.page = k + 1, !.got = @ \cup {shelf[l][at]}]]
     /\ UNCHANGED <<shelf, table>>

\* _paginate: pages (of one product here) until one is empty.  The files of a
\* free product are read from its own page, which may fail: none are known then.
FetchPage(s) ==
  LET u == sync[s]
      l == u.pc
      k == u.page
      end == k > MaxPages \/ k > Len(shelf[l])
      unread == {shelf[l][j] : j \in k .. Len(shelf[l])}
  IN /\ l \in Listings
     /\ \E fails \in BOOLEAN :
          /\ fails => l = "free" /\ ~end
          /\ sync' = [sync EXCEPT ![s] =
               IF end THEN [u EXCEPT !.pc = After(l), !.lost = u.lost \cup unread]
               ELSE IF fails
                 THEN [u EXCEPT !.page = k + 1, !.lost = u.lost \cup {shelf[l][k]}]
                 ELSE [u EXCEPT !.page = k + 1, !.got = u.got \cup {shelf[l][k]}]]
     /\ UNCHANGED <<shelf, table>>

\* A page answers with an error, or with the login page.
FetchRaises(s) ==
  /\ sync[s].pc \in Listings
  /\ sync' = [sync EXCEPT ![s] = NoSync]
  /\ UNCHANGED <<shelf, table>>

\* Under db_write_lock: delete, insert, commit.
Replace(s) ==
  /\ sync[s].pc = "replace"
  /\ table' = sync[s].got
  /\ sync' = [sync EXCEPT ![s] = NoSync]
  /\ UNCHANGED shelf

BoothNext ==
  \/ \E p \in Products : Acquire(p)
  \/ \E s \in Syncs : StartSync(s) \/ AskRobots(s) \/ FetchPage(s) \/ FetchRaises(s)
                      \/ Replace(s)

BoothSpec == BoothInit /\ [][BoothNext]_boothVars

-----------------------------------------------------------------------------
(* Properties. *)

\* Purchases made while the pages are read do not hide older ones: a sync that
\* was not kept out by robots.txt stores every product that was listed when it
\* began, but for free ones whose own page failed and for what _MAX_PAGES cut
\* off; and what fails on the way leaves the table alone (docstring of sync_library).
SyncComplete ==
  [][table' # table =>
       \E s \in Syncs :
         /\ sync[s].pc = "replace" /\ sync'[s].pc = "idle"
         /\ sync[s].blind \/ (sync[s].before \ sync[s].lost) \subseteq table']_boothVars
=============================================================================
