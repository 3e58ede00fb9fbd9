------------------------------ MODULE ListIter ------------------------------
(***************************************************************************)
(* The list iterators IterFiles, IterParseJobs, IterDatasets and           *)
(* IterDatasetData, four copies of one loop around a paged list call, here *)
(* under the names of src/file_list.go, while other clients insert and     *)
(* delete items between two pages.                                         *)
(*                                                                         *)
(* An item is its position in the order of the list, fixed for its         *)
(* lifetime; a cursor is the position of the last item of a page, 0 for    *)
(* the empty cursor.  A page is the set of its items still to be yielded,  *)
(* least first.                                                            *)
(***************************************************************************)
EXTENDS Naturals, Sequences, FiniteSets, FiniteSetsExt

CONSTANTS
  N,             \* positions 1 .. N
  BatchSizes,    \* values of batchSize; 0 leaves the size to the service
  DefaultSize    \* the service's page size

ASSUME ListAssumption ==
  /\ N \in Nat /\ BatchSizes \subseteq 0 .. N
  /\ DefaultSize \in Nat \ {0}

VARIABLES
  listed,   \* the items in the service's list
  fresh,    \* the items that have not been created yet
  batch,    \* batchSize
  ipc,      \* the iterator: "fetch", "items", "done"
  cursor,   \* cursor
  page,     \* what is left of listResp.Items
  next,     \* listResp.NextCursor
  more,     \* listResp.HasMore
  got,      \* what the consumer got, 0 for an error
  left,     \* the consumer has left its loop
  stable    \* the items listed during the whole iteration so far

service  == <<listed, fresh, stable>>
response == <<page, next, more>>
vars == <<service, batch, ipc, cursor, response, got, left>>

Init ==
  /\ listed \in SUBSET (1 .. N) /\ fresh = 1 .. N \ listed
  /\ stable = listed
  /\ batch \in BatchSizes
  /\ ipc = "fetch" /\ cursor = 0
  /\ page = {} /\ next = 0 /\ more = FALSE
  /\ got = <<>> /\ left = FALSE

-----------------------------------------------------------------------------
(* Other clients of the service (external).                                *)

Insert(i) ==
  /\ i \in fresh
  /\ listed' = listed \cup {i} /\ fresh' = fresh \ {i}
  /\ UNCHANGED <<stable, batch, ipc, cursor, response, got, left>>

Delete(i) ==
  /\ i \in listed
  /\ listed' = listed \ {i} /\ stable' = stable \ {i}
  /\ UNCHANGED <<fresh, batch, ipc, cursor, response, got, left>>

-----------------------------------------------------------------------------
\* The query of ListFiles: parameters with their zero value are left out.
Query == {<<"direction", "next">>}
         \cup (IF cursor # 0 THEN {<<"cursor", cursor>>} ELSE {})
         \cup (IF batch # 0 THEN {<<"limit", batch>>} ELSE {})

Param(q, name, default) ==
  IF \E v \in 1 .. N : <<name, v>> \in q
  THEN CHOOSE v \in 1 .. N : <<name, v>> \in q ELSE default

\* The page a query gets (external): the first items after the cursor.
After(q) == {i \in listed : i > Param(q, "cursor", 0)}
PageOf(q) ==
  {i \in After(q) : Cardinality({j \in After(q) : j <= i})
                      <= Param(q, "limit", DefaultSize)}

MutLastPageDropped ==
  /\ ipc = "fetch"
  /\ page' = PageOf(Query)
  /\ more' = (PageOf(Query) # After(Query))
  /\ next' = IF more' THEN Max(page') ELSE 0
  /\ ipc' = IF more' THEN "items" ELSE "done"
  /\ UNCHANGED <<service, batch, cursor, got, left>>

\* The list call answers with a page; the cursor is null on the last one.
Fetch ==
  /\ ipc = "fetch"
  /\ page' = PageOf(Query)
  /\ more' = (PageOf(Query) # After(Query))
  /\ next' = IF more' THEN Max(page') ELSE 0
  /\ ipc' = "items"
  /\ UNCHANGED <<service, batch, cursor, got, left>>

\* The list call fails: the error is yielded and the answer ignored.
FetchFails ==
  /\ ipc = "fetch"
  /\ got' = Append(got, 0)
  /\ left' \in BOOLEAN
  /\ ipc' = "done"
  /\ UNCHANGED <<service, batch, cursor, response>>

\* yield(file, nil), and the consumer's answer.
Item ==
  /\ ipc = "items" /\ page # {}
  /\ got' = Append(got, Min(page))
  /\ page' = page \ {Min(page)}
  /\ left' \in BOOLEAN
  /\ ipc' = IF left' THEN "done" ELSE "items"
  /\ UNCHANGED <<service, batch, cursor, next, more>>

MutCursorNotKept ==
  /\ ipc = "items" /\ page = {}
  /\ UNCHANGED cursor
  /\ ipc' = IF more THEN "fetch" ELSE "done"
  /\ UNCHANGED <<service, batch, response, got, left>>

MutOffset ==
  /\ ipc = "items" /\ page = {}
  /\ cursor' = cursor + IF batch = 0 THEN DefaultSize ELSE batch
  /\ ipc' = IF more THEN "fetch" ELSE "done"
  /\ UNCHANGED <<service, batch, response, got, left>>

MutWaitsForItems ==
  /\ ipc = "items" /\ page = {}
  /\ cursor' = next
  /\ ipc' = IF more \/ got = <<>> THEN "fetch" ELSE "done"
  /\ UNCHANGED <<service, batch, response, got, left>>

\* The page is used up: fetch the next one if there is one.
EndOfPage ==
  /\ ipc = "items" /\ page = {}
  /\ cursor' = next
  /\ ipc' = IF more THEN "fetch" ELSE "done"
  /\ UNCHANGED <<service, batch, response, got, left>>

-----------------------------------------------------------------------------
Iterator == Fetch \/ FetchFails \/ Item \/ EndOfPage
Others   == \E i \in 1 .. N : Insert(i) \/ Delete(i)

Next == Iterator \/ Others \/ (ipc = "done" /\ UNCHANGED vars)

Spec == Init /\ [][Next]_vars

\* The list call returns and the consumer answers; the others owe nothing.
FairSpec == Spec /\ WF_vars(Iterator)

-----------------------------------------------------------------------------
Items == {i \in 1 .. Len(got) : got[i] # 0}

TypeOK ==
  /\ listed \subseteq 1 .. N /\ fresh \subseteq 1 .. N
  /\ listed \cap fresh = {} /\ stable \subseteq listed
  /\ batch \in BatchSizes /\ ipc \in {"fetch", "items", "done"}
  /\ cursor \in 0 .. N /\ page \subseteq 1 .. N
  /\ next \in 0 .. N /\ more \in BOOLEAN
  /\ got \in Seq(0 .. N) /\ left \in BOOLEAN

\* Items come in the order of the list, each at most once, whatever others
\* insert and delete meanwhile, and an error comes last (file_list.go:37-48).
InOrderOnce ==
  /\ \A i, j \in Items : i < j => got[i] < got[j]
  /\ \A i \in 1 .. Len(got) : got[i] = 0 => i = Len(got)

\* An iteration that ends by itself, without an error, has yielded every item
\* that was listed all the time: concurrent deletions make it skip nothing.
NothingSkipped ==
  ipc = "done" /\ ~left /\ (\A i \in 1 .. Len(got) : got[i] # 0)
  => stable \subseteq {got[i] : i \in Items}

\* The inductive invariant of ListIterProofs: what is left of a page lies beyond
\* what was yielded, the cursor to come beyond both, and no item that was listed
\* all the time is missing below it.
Yielded(i) == \E k \in 1 .. Len(got) : got[k] = i

ListInv ==
  /\ \A k \in 1 .. Len(got) : got[k] = 0 => ipc = "done" /\ k = Len(got)
  /\ \A j, k \in 1 .. Len(got) : j < k /\ got[k] # 0 => got[j] < got[k]
  /\ ipc # "done" => ~left
  /\ ipc = "fetch" =>
       /\ \A k \in 1 .. Len(got) : got[k] <= cursor
       /\ \A i \in stable : i <= cursor => Yielded(i)
  /\ ipc = "items" =>
       /\ \A k \in 1 .. Len(got), i \in page : got[k] < i
       /\ more => /\ \A i \in page : i <= next
                  /\ \A k \in 1 .. Len(got) : got[k] <= next
       /\ \A i \in stable : (more => i <= next) => i \in page \/ Yielded(i)
  /\ NothingSkipped

\* Every iteration ends: each page moves the cursor on.
Ends == <>(ipc = "done")
=============================================================================
