---------------------------- MODULE QueueBrowse ----------------------------
(***************************************************************************)
(* A consumer reads the validation queue page by page                      *)
(* (validation_queue_api.py) while others change its records.  Every page  *)
(* is a call of list_validation_queue on the records as they are then, so  *)
(* the pages of one reading may come from different queues.                *)
(***************************************************************************)
EXTENDS ValidationQueue, FiniteSets

CONSTANTS Rank,     \* the order of item identifiers, as texts
          NameRank, \* the order of owner identifiers, owner_id or "" when None
          Loads     \* bound: how much happens in a behaviour, and what is asked once

(***************************************************************************)
(* ValidationQueueQuery, without the offset.  An empty filter is no        *)
(* filter; owner is Unowned for none.  items are those whose package and   *)
(* reason the query asks for; after and before default to ends of time.    *)
(***************************************************************************)
Query == [states : SUBSET States, roles : SUBSET Roles, owner : People \cup {Unowned},
          items : SUBSET Items, after : Int, before : Int,
          by : {"updated_at", "state", "owner_id"}, descending : BOOLEAN,
          limit : 1..500]

\* The items that are created, the length of their histories, the last instant.
Load == [items : SUBSET Items, events : Nat, until : Nat, queries : SUBSET Query]

ASSUME LoadsAreLoads == \A l \in Loads : l \in Load

ASSUME RanksAreOrders ==
  /\ IsFiniteSet(Items)
  /\ Rank \in [Items -> Nat] /\ \A i, j \in Items : Rank[i] = Rank[j] => i = j
  /\ NameRank \in [People \cup {Unowned} -> Nat]

\* ValidationQueueQuery().
DefaultQuery ==
  [states |-> {}, roles |-> {}, owner |-> Unowned, items |-> Items, after |-> 0,
   before |-> MaxTime, by |-> "updated_at", descending |-> TRUE, limit |-> 50]

VARIABLES load,
          query,
          offset,
          reading,  \* a page is still to be read
          shown,    \* how many pages of this reading each item was on
          steady    \* the items there when the reading began, and unchanged since

reader == <<query, offset, reading, shown, steady>>

browseVars == <<queue, now, load, reader>>

BrowseInit ==
  /\ Init /\ load \in Loads /\ query = DefaultQuery
  /\ offset = 0 /\ reading = FALSE /\ shown = [i \in Items |-> 0] /\ steady = {}

-----------------------------------------------------------------------------
\* _matches_query.
Matches(i) ==
  LET row == queue[i] IN
    /\ Live(i) /\ i \in query.items
    /\ query.states = {} \/ row.state \in query.states
    /\ query.roles = {} \/ row.role \in query.roles
    /\ query.owner = Unowned \/ row.owner = query.owner
    /\ query.after <= row.updated /\ row.updated <= query.before

Matching == {i \in Items : Matches(i)}

\* States as texts.
StateRank ==
  [awaiting_manager_response |-> 0, completed |-> 1, in_validation |-> 2,
   ops_review |-> 3, pending_triage |-> 4, rejected |-> 5]

\* _sort_key, whose second part is the identifier.
Major(row) ==
  CASE query.by = "updated_at" -> row.updated
    [] query.by = "state" -> StateRank[row.state]
    [] query.by = "owner_id" -> NameRank[row.owner]

\* reverse is not passed to sorted.
Precedes_slip(i, j) ==
  LET a == Major(queue[i])
      b == Major(queue[j])
  IN a < b \/ (a = b /\ Rank[i] < Rank[j])

Precedes(i, j) ==
  LET a == Major(queue[i])
      b == Major(queue[j])
      less(x, y) == IF query.descending THEN x > y ELSE x < y
  IN less(a, b) \/ (a = b /\ less(Rank[i], Rank[j]))

Ahead(i) == {j \in Matching : Precedes(j, i)}

Position(i) == Cardinality(Ahead(i))

\* The items of list_validation_queue from this offset.
Page(from) ==
  {i \in Matching : from <= Position(i) /\ Position(i) < from + query.limit}

-----------------------------------------------------------------------------
\* A consumer asks for the first page of something.
StartReading ==
  /\ ~reading /\ offset = 0
  /\ query' \in load.queries
  /\ reading' = TRUE /\ steady' = {i \in Items : Live(i)}
  /\ UNCHANGED <<queue, now, load, offset, shown>>

\* It reads on while the page read does not reach the total.
ReadPage ==
  /\ reading
  /\ shown' = [i \in Items |-> IF i \in Page(offset) THEN shown[i] + 1 ELSE shown[i]]
  /\ offset' = offset + query.limit
  /\ reading' = (offset + query.limit < Cardinality(Matching))
  /\ UNCHANGED <<queue, now, load, query, steady>>

Changed == {i \in Items : queue'[i] # queue[i]}

\* A function of workflow_validation.py changes a record, or the clock moves.
ChangeRecord ==
  /\ Next
  /\ \A i \in Changed :
       i \in load.items /\ Len(queue'[i].events) <= load.events
  /\ now' <= load.until
  /\ steady' = steady \ Changed
  /\ UNCHANGED <<load, query, offset, reading, shown>>

BrowseNext == StartReading \/ ReadPage \/ ChangeRecord

BrowseSpec == BrowseInit /\ [][BrowseNext]_browseVars

-----------------------------------------------------------------------------
(***************************************************************************)
(* Once a reading has reached the end, a consumer who asked for the latest *)
(* changes first, whatever package, reason or starting time, has seen      *)
(* every matching row that was there all the time and did not change,      *)
(* however many others changed between two pages: a change only ever moves *)
(* a row to the front, also within one second.  (With another order or     *)
(* filter a change can pull an unread row into a page already read.)       *)
(***************************************************************************)
LatestFirst ==
  /\ query.by = "updated_at" /\ query.descending
  /\ query.states = {} /\ query.roles = {} /\ query.owner = Unowned
  /\ query.before >= MaxTime

Done == ~reading /\ offset > 0

NoSteadyRowMissed ==
  (Done /\ LatestFirst) => \A i \in steady : Matches(i) => shown[i] >= 1

(***************************************************************************)
(* While no record has changed, the pages read so far show each matching   *)
(* row once or not yet, and no other, in any order and under any filter.   *)
(***************************************************************************)
Calm == offset > 0 /\ steady = {i \in Items : Live(i)}

CalmPagesDivideQueue ==
  Calm => \A i \in Items :
            shown[i] = IF Matches(i) /\ (Done \/ Position(i) < offset) THEN 1 ELSE 0

\* The two together (docs/PRODUCT_CONTRACT.md, IMI-6).
ReadingIsComplete == NoSteadyRowMissed /\ CalmPagesDivideQueue
=============================================================================
