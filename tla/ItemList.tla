------------------------------ MODULE ItemList ------------------------------
(***************************************************************************)
(* The item list: the rows that match the filters, newest first, those of  *)
(* one product nested under the first of them (search_items and            *)
(* _group_by_product_url of item_service.py).  The loop over the rows is a *)
(* state machine here, so that its result can be compared with what the    *)
(* docstring says of it.                                                   *)
(***************************************************************************)
EXTENDS Naturals, Sequences, Functions

CONSTANTS
  Urls,     \* product urls
  NoUrl,    \* an item without one
  MaxRows   \* bound: items in the library

ASSUME ListAssumption == NoUrl \notin Urls /\ MaxRows \in Nat

VARIABLES
  library,  \* the items, newest first: url, and whether the filters match
  rest,     \* rows the loop has yet to visit, as indices of library
  grouped,  \* the anchors it has listed, each with its siblings
  anchors   \* anchor_by_url: url -> its place in grouped, or 0

listVars == <<library, rest, grouped, anchors>>

Url(k) == library[k].url

\* The rows that the filters match.
Matching == {k \in DOMAIN library : library[k].matches}

\* s has the rows of S, in the order of the library.
Lists(s, S) ==
  /\ Range(s) = S
  /\ \A m, n \in DOMAIN s : m < n => s[m] < s[n]

Indices == DOMAIN library
ListTypeOK ==
  /\ library \in Seq([url : Urls \cup {NoUrl}, matches : BOOLEAN])
  /\ rest \in Seq(Indices)
  /\ grouped \in Seq([row : Indices, siblings : Seq(Indices)])
  /\ anchors \in [Urls -> 0 .. Len(grouped)]

\* search_items: the filters are conditions of one query, which is ordered.
ListInit ==
  /\ \E n \in 0 .. MaxRows :
       library \in [1 .. n -> [url : Urls \cup {NoUrl}, matches : BOOLEAN]]
  /\ \E n \in 0 .. Len(library) : rest \in [1 .. n -> Indices]
  /\ Lists(rest, Matching)
  /\ grouped = <<>>
  /\ anchors = [u \in Urls |-> 0]

\* Mutant: items without a product url count as one product.
NestWithoutUrl ==
  /\ rest # <<>>
  /\ \/ Url(Head(rest)) \in Urls /\ anchors[Url(Head(rest))] # 0
     \/ Url(Head(rest)) = NoUrl /\ grouped # <<>>
  /\ LET at == IF Url(Head(rest)) = NoUrl THEN Len(grouped) ELSE anchors[Url(Head(rest))]
     IN grouped' = [grouped EXCEPT ![at].siblings = Append(@, Head(rest))]
  /\ rest' = Tail(rest)
  /\ UNCHANGED <<library, anchors>>

\* A row whose url has an anchor is nested under it.
Nest ==
  LET k == Head(rest)
      at == anchors[Url(k)]
  IN /\ rest # <<>>
     /\ Url(k) \in Urls
     /\ at # 0
     /\ grouped' = [grouped EXCEPT ![at] =
          [row |-> grouped[at].row, siblings |-> Append(grouped[at].siblings, k)]]
     /\ rest' = Tail(rest)
     /\ UNCHANGED <<library, anchors>>

\* Any other row is listed, and is the anchor of its url.
List ==
  LET k == Head(rest) IN
  /\ rest # <<>>
  /\ Url(k) \in Urls => anchors[Url(k)] = 0
  /\ grouped' = Append(grouped, [row |-> k, siblings |-> <<>>])
  /\ anchors' = [u \in Urls |-> IF u = Url(k) THEN Len(grouped) + 1 ELSE anchors[u]]
  /\ rest' = Tail(rest)
  /\ UNCHANGED library

ListNext == Nest \/ List
ListSpec == ListInit /\ [][ListNext]_listVars

-----------------------------------------------------------------------------
(* Properties. *)

\* The first row of each product, and every row without one.
IsAnchor(k) == Url(k) = NoUrl \/ \A j \in Matching : j < k => Url(j) # Url(k)
Siblings(k) == {j \in Matching : Url(k) # NoUrl /\ Url(j) = Url(k) /\ j > k}

\* Items that share a url are clustered under whichever sorts first, in order;
\* items without one are never grouped, and no item is reached that did not
\* itself match (docstring of _group_by_product_url).  README.md:32 of the
\* repository still lists this grouping as not implemented.
ListIsGrouped ==
  rest = <<>> =>
    /\ Lists([n \in DOMAIN grouped |-> grouped[n].row], {k \in Matching : IsAnchor(k)})
    /\ \A n \in DOMAIN grouped : Lists(grouped[n].siblings, Siblings(grouped[n].row))
=============================================================================
