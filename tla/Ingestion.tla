----------------------------- MODULE Ingestion -----------------------------
(***************************************************************************)
(* IngestionService (intake/service.py): the in-memory lifecycle of intake *)
(* packages.  Three dictionaries are kept in step by hand: the record of a *)
(* package, its list of events and the owner of every document.  Callers   *)
(* may call anything, on anything, with any timestamp: the service         *)
(* compares no timestamps.                                                 *)
(***************************************************************************)
EXTENDS Integers, Sequences

CONSTANTS Packages, DocIds, Times,
          MintedId(_, _),  \* the id of the k-th file of a package that names none
          None,            \* no id supplied; no record; no owner
          MaxFiles         \* bound: files of one package

ASSUME MaxFilesIsNatural == MaxFiles \in Nat

ASSUME MintedIdsAreIds == \A p \in Packages, k \in 0..MaxFiles : MintedId(p, k) \in DocIds

ASSUME NoneIsNothing == None \notin Packages /\ None \notin DocIds

VARIABLES records,             \* _records
          events,              \* _events
          document_to_package  \* _document_to_package

vars == <<records, events, document_to_package>>

Statuses == {"received", "processing", "completed", "escalated"}

\* A completed package may still be escalated.
AllowedTransitions_slip ==
  [received   |-> {"processing", "escalated"}, processing |-> {"completed", "escalated"},
   completed  |-> {"escalated"},               escalated  |-> {}]

AllowedTransitions ==
  [received   |-> {"processing", "escalated"}, processing |-> {"completed", "escalated"},
   completed  |-> {},                          escalated  |-> {}]

IngestRecord == [status : Statuses, document_ids : Seq(DocIds), created : Times, updated : Times]

IngestEvent == [from : Statuses \cup {"none"}, to : Statuses, at : Times]

ASSUME NoneIsNoRecord == None \notin IngestRecord

\* The ids a package's files may carry, in order.
Files == UNION {[1..n -> DocIds \cup {None}] : n \in 0..MaxFiles}

Init ==
  /\ records = [p \in Packages |-> None]
  /\ events = [p \in Packages |-> <<>>]
  /\ document_to_package = [d \in DocIds |-> None]

ResolvedIds(p, files) ==
  [k \in 1..Len(files) |-> IF files[k] = None THEN MintedId(p, k - 1) ELSE files[k]]

ElementsOf(s) == {s[k] : k \in 1..Len(s)}

\* Ids are not compared with the other packages'.
Receivable_slip(p, ids) ==
  records[p] = None /\ \A j, k \in 1..Len(ids) : ids[j] = ids[k] => j = k

\* A package id that exists, an id used twice in the package and an id some
\* package owns are refused, before anything is written.
Receivable(p, ids) ==
  /\ records[p] = None
  /\ \A j, k \in 1..Len(ids) : ids[j] = ids[k] => j = k
  /\ \A d \in ElementsOf(ids) : document_to_package[d] = None

\* The note's word is taken for the status.
receive_package_slip(p, files, at) ==
  LET ids == ResolvedIds(p, files) IN
    /\ Receivable(p, ids)
    /\ records' = [records EXCEPT ![p] = [status |-> "accepted", document_ids |-> ids,
                                          created |-> at, updated |-> at]]
    /\ document_to_package' =
         [d \in DocIds |-> IF d \in ElementsOf(ids) THEN p ELSE document_to_package[d]]
    /\ events' = [events EXCEPT ![p] = <<[from |-> "none", to |-> "received", at |-> at]>>]

receive_package(p, files, at) ==
  LET ids == ResolvedIds(p, files) IN
    /\ Receivable(p, ids)
    /\ records' = [records EXCEPT ![p] = [status |-> "received", document_ids |-> ids,
                                          created |-> at, updated |-> at]]
    /\ document_to_package' =
         [d \in DocIds |-> IF d \in ElementsOf(ids) THEN p ELSE document_to_package[d]]
    /\ events' = [events EXCEPT ![p] = <<[from |-> "none", to |-> "received", at |-> at]>>]

\* The event names the state before and the state after, the wrong way round.
Transition_slip(p, to, at) ==
  /\ records[p] # None
  /\ to \in AllowedTransitions[records[p].status]
  /\ records' = [records EXCEPT ![p].status = to, ![p].updated = at]
  /\ events' = [events EXCEPT ![p] = Append(@, [from |-> to, to |-> records[p].status,
                                                at |-> at])]
  /\ UNCHANGED document_to_package

\* _transition, the whole of mark_processing, mark_completed and escalate.
Transition(p, to, at) ==
  /\ records[p] # None
  /\ to \in AllowedTransitions[records[p].status]
  /\ records' = [records EXCEPT ![p].status = to, ![p].updated = at]
  /\ events' = [events EXCEPT ![p] = Append(@, [from |-> records[p].status, to |-> to,
                                                at |-> at])]
  /\ UNCHANGED document_to_package

mark_processing(p, at) == Transition(p, "processing", at)

mark_completed(p, at) == Transition(p, "completed", at)

escalate(p, at) == Transition(p, "escalated", at)

Next ==
  \E p \in Packages, at \in Times :
    \/ \E files \in Files : receive_package(p, files, at)
    \/ mark_processing(p, at)
    \/ mark_completed(p, at)
    \/ escalate(p, at)

Spec == Init /\ [][Next]_vars

-----------------------------------------------------------------------------
TypeOK ==
  /\ records \in [Packages -> IngestRecord \cup {None}]
  /\ events \in [Packages -> Seq(IngestEvent)]
  /\ document_to_package \in [DocIds -> Packages \cup {None}]

Known(p) == records[p] # None

(***************************************************************************)
(* A document belongs to the package whose record lists it, and to that    *)
(* one only: get_record_by_document and get_events_by_document never       *)
(* answer for another package, and a refused package leaves no document    *)
(* behind (every check of receive_package precedes every write).           *)
(***************************************************************************)
DocumentsHaveOneOwner ==
  \A d \in DocIds, p \in Packages :
    (document_to_package[d] = p) <=> (Known(p) /\ d \in ElementsOf(records[p].document_ids))

(***************************************************************************)
(* The events of a package are a path through the lifecycle that starts    *)
(* with its receipt and ends at its record: no gap, no event for a refused *)
(* call, the record's timestamps those of the first and the last event.    *)
(***************************************************************************)
EventsTellTheRecord ==
  \A p \in Packages :
    LET es == events[p]
        n  == Len(es)
    IN IF Known(p)
         THEN /\ n >= 1
              /\ es[1].from = "none" /\ es[1].to = "received"
              /\ \A k \in 1..(n - 1) : /\ es[k + 1].from = es[k].to
                                       /\ es[k + 1].to \in AllowedTransitions[es[k].to]
              /\ es[n].to = records[p].status
              /\ es[1].at = records[p].created /\ es[n].at = records[p].updated
         ELSE n = 0

(***************************************************************************)
(* Once completed or escalated a package is left alone for good, and at no *)
(* time does a call change the history or the documents of a package it    *)
(* has received (ingestion_lifecycle.md, "Terminal states").               *)
(***************************************************************************)
LifecycleOnlyAdvances ==
  [][\A p \in Packages : Known(p) =>
       /\ records'[p] # None /\ records'[p].document_ids = records[p].document_ids
       /\ Len(events'[p]) >= Len(events[p])
       /\ \A k \in 1..Len(events[p]) : events'[p][k] = events[p][k]
       /\ records[p].status \in {"completed", "escalated"}
            => records'[p] = records[p] /\ events'[p] = events[p]]_vars
=============================================================================
