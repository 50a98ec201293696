-------------------------- MODULE IngestionProofs --------------------------
(***************************************************************************)
(* Type correctness, one owner per document, the agreement of events and   *)
(* records, and the finality of the lifecycle, for any packages, documents *)
(* and timestamps.                                                         *)
(***************************************************************************)
EXTENDS Ingestion, TLAPS

\* The path of EventsTellTheRecord, for one package.
Tells(r, es) ==
  IF r = None THEN Len(es) = 0
  ELSE /\ Len(es) >= 1
       /\ es[1].from = "none" /\ es[1].to = "received"
       /\ \A k \in 1..(Len(es) - 1) : /\ es[k + 1].from = es[k].to
                                      /\ es[k + 1].to \in AllowedTransitions[es[k].to]
       /\ es[Len(es)].to = r.status
       /\ es[1].at = r.created /\ es[Len(es)].at = r.updated

AllTell == \A p \in Packages : Tells(records[p], events[p])

IInv == TypeOK /\ DocumentsHaveOneOwner /\ AllTell

LEMMA TellsIsEvents == AllTell => EventsTellTheRecord
  BY DEF AllTell, Tells, EventsTellTheRecord, Known

\* The ids a package ends up with are document ids.
LEMMA IdsAreIds ==
  ASSUME NEW p \in Packages, NEW files \in Files
  PROVE  ResolvedIds(p, files) \in Seq(DocIds)
<1>1. PICK n \in 0..MaxFiles : files \in [1..n -> DocIds \cup {None}]
  BY DEF Files
<1>2. n \in Nat /\ Len(files) = n
  BY <1>1, MaxFilesIsNatural
<1>3. \A k \in 1..n : k - 1 \in 0..MaxFiles
  BY <1>2, MaxFilesIsNatural
<1>4. ResolvedIds(p, files) \in [1..n -> DocIds]
  BY <1>1, <1>2, <1>3, MintedIdsAreIds DEF ResolvedIds
<1> QED  BY <1>2, <1>4

LEMMA TellsInit ==
  Init => IInv
<1> SUFFICES ASSUME Init PROVE IInv
  OBVIOUS
<1>1. TypeOK
  BY DEF Init, TypeOK
<1>2. DocumentsHaveOneOwner
  BY NoneIsNothing DEF Init, DocumentsHaveOneOwner, Known
<1>3. AllTell
  BY DEF Init, AllTell, Tells
<1> QED  BY <1>1, <1>2, <1>3 DEF IInv

\* A package is received.
LEMMA ReceivePreserves ==
  ASSUME IInv, NEW p \in Packages, NEW files \in Files, NEW at \in Times,
         receive_package(p, files, at)
  PROVE  IInv'
<1> DEFINE ids == ResolvedIds(p, files)
           rec == [status |-> "received", document_ids |-> ids, created |-> at, updated |-> at]
           ev  == [from |-> "none", to |-> "received", at |-> at]
<1>1. ids \in Seq(DocIds)
  BY IdsAreIds
<1>2. rec \in IngestRecord /\ ev \in IngestEvent /\ rec # None
  BY <1>1, NoneIsNoRecord DEF IngestRecord, IngestEvent, Statuses
<1>3. /\ records[p] = None
      /\ \A d \in ElementsOf(ids) : document_to_package[d] = None
      /\ records' = [records EXCEPT ![p] = rec]
      /\ events' = [events EXCEPT ![p] = <<ev>>]
      /\ document_to_package' =
           [d \in DocIds |-> IF d \in ElementsOf(ids) THEN p ELSE document_to_package[d]]
  BY DEF receive_package, Receivable
<1>4. records'[p] = rec /\ events'[p] = <<ev>>
  BY <1>3 DEF IInv, TypeOK
<1>5. \A q \in Packages : q # p => records'[q] = records[q] /\ events'[q] = events[q]
  BY <1>3 DEF IInv, TypeOK
<1>6. TypeOK'
  BY <1>2, <1>3 DEF IInv, TypeOK
<1>7. DocumentsHaveOneOwner'
  <2> SUFFICES ASSUME NEW d \in DocIds, NEW q \in Packages
               PROVE  (document_to_package'[d] = q)
                        <=> (records'[q] # None /\ d \in ElementsOf(records'[q].document_ids))
    BY DEF DocumentsHaveOneOwner, Known
  <2>1. (document_to_package[d] = q)
          <=> (records[q] # None /\ d \in ElementsOf(records[q].document_ids))
    BY DEF IInv, DocumentsHaveOneOwner, Known
  <2>2. CASE q = p
    BY <1>2, <1>3, <1>4, <2>1, <2>2
  <2>3. CASE q # p
    BY <1>3, <1>5, <2>1, <2>3, NoneIsNothing
  <2> QED  BY <2>2, <2>3
<1>8. AllTell'
  <2>1. Tells(rec, <<ev>>)
    BY <1>2 DEF Tells
  <2> QED  BY <1>4, <1>5, <2>1 DEF IInv, AllTell
<1> QED  BY <1>6, <1>7, <1>8 DEF IInv

\* A package advances: the history grows by one legal event.
LEMMA HistoryGrows ==
  ASSUME NEW r \in IngestRecord, NEW es \in Seq(IngestEvent), NEW at \in Times,
         NEW to \in Statuses, to \in AllowedTransitions[r.status], Tells(r, es)
  PROVE  Tells([r EXCEPT !.status = to, !.updated = at],
               Append(es, [from |-> r.status, to |-> to, at |-> at]))
<1> DEFINE nr == [r EXCEPT !.status = to, !.updated = at]
           ev == [from |-> r.status, to |-> to, at |-> at]
           ns == Append(es, ev)
<1>1. r # None /\ nr \in IngestRecord /\ nr # None
  BY NoneIsNoRecord DEF IngestRecord
<1>2. nr.status = to /\ nr.updated = at /\ nr.created = r.created
  BY DEF IngestRecord
<1>3. /\ Len(es) >= 1 /\ es[1].from = "none" /\ es[1].to = "received"
      /\ \A k \in 1..(Len(es) - 1) : /\ es[k + 1].from = es[k].to
                                     /\ es[k + 1].to \in AllowedTransitions[es[k].to]
      /\ es[Len(es)].to = r.status /\ es[1].at = r.created
  BY <1>1 DEF Tells
<1>4. ev \in IngestEvent
  BY DEF IngestEvent, IngestRecord
<1>5. /\ Len(ns) = Len(es) + 1 /\ ns[Len(es) + 1] = ev
      /\ \A k \in 1..Len(es) : ns[k] = es[k]
  BY <1>4
<1>6. Len(es) \in Nat
  OBVIOUS
<1>7. \A k \in 1..(Len(ns) - 1) : /\ ns[k + 1].from = ns[k].to
                                  /\ ns[k + 1].to \in AllowedTransitions[ns[k].to]
  <2> SUFFICES ASSUME NEW k \in 1..Len(es)
               PROVE  /\ ns[k + 1].from = ns[k].to
                      /\ ns[k + 1].to \in AllowedTransitions[ns[k].to]
    BY <1>5, <1>6
  <2>1. CASE k = Len(es)
    BY <2>1, <1>3, <1>5
  <2>2. CASE k # Len(es)
    <3>1. k \in 1..(Len(es) - 1) /\ k + 1 \in 1..Len(es)
      BY <2>2, <1>6
    <3> QED  BY <3>1, <1>3, <1>5
  <2> QED  BY <2>1, <2>2
<1>8. Len(ns) >= 1 /\ ns[1] = es[1] /\ ns[Len(ns)] = ev
  BY <1>3, <1>5, <1>6
<1> QED  BY <1>1, <1>2, <1>3, <1>7, <1>8 DEF Tells

LEMMA TransitionPreserves ==
  ASSUME IInv, NEW p \in Packages, NEW at \in Times, NEW to \in Statuses,
         Transition(p, to, at)
  PROVE  IInv'
<1> DEFINE r  == records[p]
           nr == [r EXCEPT !.status = to, !.updated = at]
           ev == [from |-> r.status, to |-> to, at |-> at]
<1>1. /\ r # None /\ to \in AllowedTransitions[r.status]
      /\ records' = [records EXCEPT ![p].status = to, ![p].updated = at]
      /\ events' = [events EXCEPT ![p] = Append(@, ev)]
      /\ document_to_package' = document_to_package
  BY DEF Transition
<1>2. r \in IngestRecord /\ events[p] \in Seq(IngestEvent)
  BY <1>1 DEF IInv, TypeOK
<1>3. nr \in IngestRecord /\ nr.document_ids = r.document_ids /\ nr # None
  BY <1>2, NoneIsNoRecord DEF IngestRecord
<1>4. records' = [records EXCEPT ![p] = nr]
  BY <1>1 DEF IInv, TypeOK
<1>5. ev \in IngestEvent
  BY <1>2 DEF IngestEvent, IngestRecord
<1>6. records'[p] = nr /\ events'[p] = Append(events[p], ev)
  BY <1>1, <1>4 DEF IInv, TypeOK
<1>7. \A q \in Packages : q # p => records'[q] = records[q] /\ events'[q] = events[q]
  BY <1>1, <1>4 DEF IInv, TypeOK
<1>8. TypeOK'
  BY <1>1, <1>2, <1>3, <1>4, <1>5 DEF IInv, TypeOK
<1>9. DocumentsHaveOneOwner'
  <2> SUFFICES ASSUME NEW d \in DocIds, NEW q \in Packages
               PROVE  (document_to_package'[d] = q)
                        <=> (records'[q] # None /\ d \in ElementsOf(records'[q].document_ids))
    BY DEF DocumentsHaveOneOwner, Known
  <2>1. (document_to_package[d] = q)
          <=> (records[q] # None /\ d \in ElementsOf(records[q].document_ids))
    BY DEF IInv, DocumentsHaveOneOwner, Known
  <2>2. CASE q = p
    <3>1. records'[q].document_ids = records[q].document_ids /\ records'[q] # None
      BY <1>3, <1>6, <2>2
    <3> HIDE DEF r, nr, ev
    <3> QED  BY <1>1, <2>1, <2>2, <3>1 DEF r
  <2>3. CASE q # p
    BY <1>1, <1>7, <2>1, <2>3
  <2> QED  BY <2>2, <2>3
<1>10. AllTell'
  <2>1. Tells(r, events[p])
    BY DEF IInv, AllTell
  <2>2. Tells(nr, Append(events[p], ev))
    BY <1>1, <1>2, <2>1, HistoryGrows
  <2> QED  BY <1>6, <1>7, <2>2 DEF IInv, AllTell
<1> QED  BY <1>8, <1>9, <1>10 DEF IInv

LEMMA StepPreserves == IInv /\ [Next]_vars => IInv'
<1> SUFFICES ASSUME IInv, [Next]_vars PROVE IInv'
  OBVIOUS
<1>1. CASE UNCHANGED vars
  BY <1>1 DEF vars, IInv, TypeOK, DocumentsHaveOneOwner, AllTell, Tells, Known
<1>2. CASE Next
  <2>1. PICK p \in Packages, at \in Times :
          \/ \E files \in Files : receive_package(p, files, at)
          \/ \E to \in Statuses : Transition(p, to, at)
    BY <1>2 DEF Next, mark_processing, mark_completed, escalate, Statuses
  <2> QED  BY <2>1, ReceivePreserves, TransitionPreserves
<1> QED  BY <1>1, <1>2

LEMMA Inductive == Spec => []IInv
  BY TellsInit, StepPreserves, PTL DEF Spec

(***************************************************************************)
(* The three dictionaries always hold what their annotations say.          *)
(***************************************************************************)
THEOREM IngestionTypeCorrect == Spec => []TypeOK
<1>1. IInv => TypeOK  BY DEF IInv
<1> QED  BY <1>1, Inductive, PTL

(***************************************************************************)
(* receive_package never gives a document a second owner, and never leaves *)
(* one without the package that lists it.                                  *)
(***************************************************************************)
THEOREM OneOwnerPerDocument == Spec => []DocumentsHaveOneOwner
<1>1. IInv => DocumentsHaveOneOwner  BY DEF IInv
<1> QED  BY <1>1, Inductive, PTL

(***************************************************************************)
(* The events of a package are always the lawful path to its record.       *)
(***************************************************************************)
THEOREM EventsAgreeWithRecords == Spec => []EventsTellTheRecord
<1>1. IInv => EventsTellTheRecord  BY TellsIsEvents DEF IInv
<1> QED  BY <1>1, Inductive, PTL

(***************************************************************************)
(* No call rewrites history, and a finished package is final.              *)
(***************************************************************************)
THEOREM LifecycleIsFinal == Spec => LifecycleOnlyAdvances
<1> DEFINE Kept(p) ==
       /\ records'[p] # None /\ records'[p].document_ids = records[p].document_ids
       /\ Len(events'[p]) >= Len(events[p])
       /\ \A k \in 1..Len(events[p]) : events'[p][k] = events[p][k]
       /\ records[p].status \in {"completed", "escalated"}
            => records'[p] = records[p] /\ events'[p] = events[p]
<1>1. IInv /\ [Next]_vars => [\A p \in Packages : Known(p) => Kept(p)]_vars
  <2> SUFFICES ASSUME IInv, Next, NEW p \in Packages, Known(p)
               PROVE  Kept(p)
    BY DEF vars
  <2>0. records[p] \in IngestRecord /\ records[p] # None /\ events[p] \in Seq(IngestEvent)
    BY DEF IInv, TypeOK, Known
  <2>1. CASE records'[p] = records[p] /\ events'[p] = events[p]
    BY <2>0, <2>1
  <2>2. ASSUME NEW q \in Packages, NEW at \in Times, NEW files \in Files,
               receive_package(q, files, at)
        PROVE  records'[p] = records[p] /\ events'[p] = events[p]
    BY <2>0, <2>2 DEF receive_package, Receivable, IInv, TypeOK
  <2>3. ASSUME NEW q \in Packages, NEW at \in Times, NEW to \in Statuses,
               Transition(q, to, at)
        PROVE  Kept(p)
    <3>1. CASE q # p
      <4>1. records'[p] = records[p] /\ events'[p] = events[p]
        BY <3>1, <2>3 DEF Transition, IInv, TypeOK
      <4> QED  BY <4>1, <2>1
    <3>2. CASE q = p
      <4> DEFINE ev == [from |-> records[p].status, to |-> to, at |-> at]
      <4>1. /\ to \in AllowedTransitions[records[p].status]
            /\ records'[p] = [records[p] EXCEPT !.status = to, !.updated = at]
            /\ events'[p] = Append(events[p], ev)
        BY <3>2, <2>3 DEF Transition, IInv, TypeOK
      <4>2. ev \in IngestEvent
        BY <2>0 DEF IngestEvent, IngestRecord
      <4>3. records'[p] \in IngestRecord /\ records'[p].document_ids = records[p].document_ids
        BY <2>0, <4>1 DEF IngestRecord
      <4>4. records[p].status \notin {"completed", "escalated"}
        BY <4>1 DEF AllowedTransitions
      <4>5. /\ Len(events'[p]) = Len(events[p]) + 1
            /\ \A k \in 1..Len(events[p]) : events'[p][k] = events[p][k]
        BY <2>0, <4>1, <4>2
      <4>6. Len(events'[p]) >= Len(events[p])
        BY <2>0, <4>5
      <4> QED  BY <4>3, <4>4, <4>5, <4>6, NoneIsNoRecord
    <3> QED  BY <3>1, <3>2
  <2>4. PICK q \in Packages, at \in Times :
          \/ \E files \in Files : receive_package(q, files, at)
          \/ \E to \in Statuses : Transition(q, to, at)
    BY DEF Next, mark_processing, mark_completed, escalate, Statuses
  <2> QED  BY <2>1, <2>2, <2>3, <2>4
<1> QED  BY <1>1, Inductive, PTL DEF Spec, LifecycleOnlyAdvances
=============================================================================
