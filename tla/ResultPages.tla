------------------------------- MODULE ResultPages -------------------------------
(***************************************************************************)
(* The pages of the results table of the enterprise map: the features      *)
(* inside an area, sorted and paged by the server, a page at a time.       *)
(*                                                                         *)
(*   apps/geo-web/src/features/spatial/ResultsTable.tsx, hooks.ts          *)
(*   (usePagedFeatures); services/geo-api/internal/features/repo.go        *)
(*   (PageByGeometry and its cursor)                                       *)
(*                                                                         *)
(* Of a row its id and its value in the sorted column are kept; 0 is NULL. *)
(* The rows do not change while they are paged.  The pages of each sort    *)
(* are kept under a key of their own.                                      *)
(***************************************************************************)
EXTENDS Naturals, Sequences, FiniteSets

CONSTANTS
  Routes,
  Ids,           \* rows inside the area, numbered from 1
  Values,        \* values of the column, numbers above 0
  PageLimit      \* rows of a page (100)

VARIABLES
  route,
  value,         \* value[i]: the column of row i, 0 for NULL
  order,         \* the sort that is chosen
  pages          \* pages[s]: rows loaded, cursor of the next page, what is under way

pageVars == <<value, order, pages>>
vars == <<route, pageVars>>

Orders == {"none", "asc", "desc"}
NULL == 0
NoCursor == [id |-> 0, v |-> NULL]
NotLoaded == [stage |-> "none", loaded |-> << >>, cursor |-> NoCursor]

Init ==
  /\ route \in Routes
  /\ value \in [Ids -> Values \union {NULL}]
  /\ order = "none"
  /\ pages = [s \in Orders |-> NotLoaded]

-----------------------------------------------------------------------------
(* The server's page: buildOrderBy, buildCursorPredicate, buildNextCursor. *)

(* NULLs are greater than every value; ties are in the order of the ids,   *)
(* whichever way the column is sorted.                                     *)
Above(i, j) == value[i] # value[j] /\ (value[i] = NULL \/ (value[j] # NULL /\ value[i] > value[j]))
Before(s, i, j) ==
  CASE s = "none" -> i < j
    [] s = "asc"  -> Above(j, i) \/ (value[i] = value[j] /\ i < j)
    [] s = "desc" -> Above(i, j) \/ (value[i] = value[j] /\ i < j)

(* The row comparison (column, id) > (v, id): of SQL, so that it holds of  *)
(* no row when one of the columns is NULL.                                 *)
Follows(s, c, i) ==
  \/ c.id = 0
  \/ CASE s = "none" -> i > c.id
       [] s = "asc"  -> value[i] # NULL /\ c.v # NULL
                          /\ (value[i] > c.v \/ (value[i] = c.v /\ i > c.id))
       [] s = "desc" -> value[i] # NULL /\ c.v # NULL
                          /\ (value[i] < c.v \/ (value[i] = c.v /\ i < c.id))

RowsAfter(s, c) ==
  LET rows == {i \in Ids : Follows(s, c, i)}
  IN CHOOSE rs \in [1..Cardinality(rows) -> rows] :
       \A m, n \in DOMAIN rs : m < n => Before(s, rs[m], rs[n])

Take(rs) == SubSeq(rs, 1, IF Len(rs) < PageLimit THEN Len(rs) ELSE PageLimit)

(* One row more than a page is read: it tells whether there is another.    *)
NextCursor_OfTheProbe(rs) ==
  IF Len(rs) <= PageLimit THEN NoCursor
  ELSE [id |-> rs[PageLimit + 1], v |-> value[rs[PageLimit + 1]]]
NextCursor(rs) ==
  IF Len(rs) <= PageLimit THEN NoCursor
  ELSE [id |-> rs[PageLimit], v |-> value[rs[PageLimit]]]

-----------------------------------------------------------------------------
(* ResultsTable. *)

HasNextPage(s) == pages[s].stage = "idle" /\ pages[s].cursor # NoCursor
AtEnd(s) == pages[s].stage = "idle" /\ pages[s].cursor = NoCursor

(* A header that is clicked three times is unsorted again. *)
ToggleSort ==
  /\ pages[order].loaded # << >>
  /\ order' = CASE order = "none" -> "asc" [] order = "asc" -> "desc" [] order = "desc" -> "none"
  /\ UNCHANGED <<value, pages>>

AskFirst ==
  /\ pages[order].stage = "none"
  /\ pages' = [pages EXCEPT ![order].stage = "first"]
  /\ UNCHANGED <<value, order>>

AskNext ==
  /\ HasNextPage(order)
  /\ pages' = [pages EXCEPT ![order].stage = "next"]
  /\ UNCHANGED <<value, order>>

PageReturns(s) ==
  /\ pages[s].stage \in {"first", "next"}
  /\ LET rs == RowsAfter(s, pages[s].cursor)
     IN pages' = [pages EXCEPT ![s] = [stage |-> "idle", loaded |-> @.loaded \o Take(rs),
                                       cursor |-> NextCursor(rs)]]
  /\ UNCHANGED <<value, order>>

(* After one retry: the rows that were loaded stay. *)
PageFails(s) ==
  /\ pages[s].stage \in {"first", "next"}
  /\ pages' = [pages EXCEPT ![s].stage = IF @ = "first" THEN "none" ELSE "idle"]
  /\ UNCHANGED <<value, order>>

(* The pages of a sort that is not on screen leave the cache. *)
Expire(s) ==
  /\ s # order /\ pages[s].stage = "idle"
  /\ pages' = [pages EXCEPT ![s] = NotLoaded]
  /\ UNCHANGED <<value, order>>

(* The tab shows this page, and goes on showing it. *)
Here == route = "pages" /\ UNCHANGED route

Next ==
  /\ Here
  /\ \/ ToggleSort \/ AskFirst \/ AskNext
     \/ \E s \in Orders : PageReturns(s) \/ PageFails(s) \/ Expire(s)

Spec == Init /\ [][Next]_vars

-----------------------------------------------------------------------------
TypeOK ==
  /\ route \in Routes
  /\ value \in [Ids -> Values \union {NULL}] /\ order \in Orders
  /\ pages \in [Orders -> [stage : {"none", "first", "next", "idle"},
                           loaded : Seq(Ids),
                           cursor : [id : Ids \union {0}, v : Values \union {NULL}]]]

(* Sorts whose cursor tells where a page ended: a descending one is not,   *)
(* when rows share a value, for the ids of a tie ascend.  And those whose  *)
(* cursor tells every row that is left: of a column without NULLs.         *)
Tells(s) ==
  s = "desc" => \A i, j \in Ids : value[i] = value[j] /\ value[i] # NULL => i = j
Tellable(s) == s = "none" \/ (Tells(s) /\ \A i \in Ids : value[i] # NULL)

(* Where the cursor tells where a page ended, the rows come in the order   *)
(* that was asked for and none comes twice, however failures, retries and  *)
(* changes of the sort were mixed; where it tells all that is left, no row *)
(* is skipped (PageByGeometry of repo.go, usePagedFeatures of hooks.ts).   *)
PagesInOrder ==
  \A s \in Orders :
    LET rs == pages[s].loaded
    IN /\ Tells(s) => \A m, n \in DOMAIN rs : m < n => Before(s, rs[m], rs[n])
       /\ Tellable(s) /\ AtEnd(s) => Len(rs) = Cardinality(Ids)
=============================================================================
