----------------------- MODULE ValidationQueueProofs -----------------------
(***************************************************************************)
(* The safety of ValidationQueue for every set of people and items and     *)
(* every bound.  The work is done on one record: the four functions of the *)
(* source take a good record to a good record, and authorise and audit     *)
(* every change; the queue's theorems then follow action by action.        *)
(*                                                                         *)
(* The second part is about QueueBrowse, the same queue with a reader.     *)
(***************************************************************************)
EXTENDS QueueBrowse, FiniteSetTheorems, TLAPS

(***************************************************************************)
(* A record is good at time t when it is well typed, the decoder accepts   *)
(* it, its history tells the analyst-first story, and it was last updated  *)
(* no later than t.  The last conjunct is what makes the next timestamp a  *)
(* legal one; none of the properties is inductive without it.              *)
(***************************************************************************)
FirstIsClaim(it) ==
  /\ (it.events = <<>>) <=> (it.state = "pending_triage")
  /\ \A k \in 1..Len(it.events) : (it.events[k].action = "claim") <=> (k = 1)
  /\ it.events # <<>> => it.events[1].role = "analyst"

LastEventCloses(it) ==
  it.state \in Terminal =>
    /\ Len(it.events) >= 2
    /\ it.events[Len(it.events)].action = "state_transition"
    /\ it.events[Len(it.events)].at = it.updated

Good(it, t) ==
  /\ it \in ValidationQueueItem
  /\ Decodable(it)
  /\ FirstIsClaim(it)
  /\ LastEventCloses(it)
  /\ it.updated <= t

IInv == TypeOK /\ \A i \in Items : Live(i) => Good(queue[i], now)

(***************************************************************************)
(* Stamp appends one event and leaves the ownership and state alone.       *)
(***************************************************************************)
LEMMA StampTyped ==
  ASSUME NEW it \in ValidationQueueItem, NEW actor \in People, NEW role \in Roles,
         NEW action \in {"claim", "transfer", "state_transition"}, NEW t \in Int
  PROVE  LET e == [action |-> action, at |-> t, actor |-> actor, role |-> role]
             st == Stamp(it, action, actor, role, t)
         IN /\ e \in QueueEvent
            /\ st \in ValidationQueueItem
            /\ st.events = Append(it.events, e)
            /\ st.updated = t
            /\ st.state = it.state /\ st.owner = it.owner
            /\ st.role = it.role /\ st.created = it.created
<1> DEFINE e == [action |-> action, at |-> t, actor |-> actor, role |-> role]
<1>1. e \in QueueEvent
  BY DEF QueueEvent
<1>2. it.events \in Seq(QueueEvent) /\ Append(it.events, e) \in Seq(QueueEvent)
  BY <1>1 DEF ValidationQueueItem
<1>3. QED
  BY <1>1, <1>2 DEF Stamp, ValidationQueueItem

(***************************************************************************)
(* The history after Append: old events in place, the new one last.        *)
(***************************************************************************)
LEMMA HistoryGrows ==
  ASSUME NEW s \in Seq(QueueEvent), NEW e \in QueueEvent
  PROVE  /\ Len(Append(s, e)) = Len(s) + 1
         /\ Len(s) \in Nat
         /\ Append(s, e) # <<>>
         /\ \A k \in 1..Len(s) : Append(s, e)[k] = s[k]
         /\ Append(s, e)[Len(s) + 1] = e
OBVIOUS

(***************************************************************************)
(* The history stays ordered and the claim stays first when a record is    *)
(* stamped at or after its last update: by any action when it has a        *)
(* history, by a claim when it has none.                                   *)
(***************************************************************************)
LEMMA StampedHistory ==
  ASSUME NEW it, NEW t \in Int, Good(it, t),
         NEW actor \in People, NEW role \in Roles,
         NEW action \in {"claim", "transfer", "state_transition"},
         (action = "claim") <=> (it.events = <<>>),
         action = "claim" => role = "analyst"
  PROVE  LET st == Stamp(it, action, actor, role, t)
         IN /\ TimestampsOrdered(st)
            /\ \A k \in 1..Len(st.events) : (st.events[k].action = "claim") <=> (k = 1)
            /\ st.events # <<>>
            /\ st.events[1].role = "analyst"
            /\ st.events[Len(st.events)].action = action
            /\ st.events[Len(st.events)].at = t
<1> DEFINE e == [action |-> action, at |-> t, actor |-> actor, role |-> role]
           st == Stamp(it, action, actor, role, t)
           n == Len(it.events)
<1>1. it \in ValidationQueueItem
  BY DEF Good
<1>2. /\ e \in QueueEvent
      /\ st.events = Append(it.events, e)
      /\ st.updated = t
      /\ st.created = it.created
  BY <1>1, StampTyped
<1>e. e.at = t /\ e.action = action /\ e.role = role
  OBVIOUS
<1> HIDE DEF e, st
<1>3. it.events \in Seq(QueueEvent) /\ it.created \in Int /\ it.updated \in Int
  BY <1>1 DEF ValidationQueueItem
<1>4. /\ Len(st.events) = n + 1
      /\ n \in Nat
      /\ st.events # <<>>
      /\ \A k \in 1..n : st.events[k] = it.events[k]
      /\ st.events[n + 1] = e
  BY <1>2, <1>3, HistoryGrows
<1>5. \A k \in 1..n : it.events[k].at \in Int
  <2>1. \A k \in 1..n : it.events[k] \in QueueEvent
    BY <1>3
  <2>2. QED
    BY <2>1 DEF QueueEvent
<1>6. (it.events = <<>>) <=> (n = 0)
  BY <1>3
<1>7. /\ it.updated <= t /\ it.created <= it.updated
      /\ \A k \in 1..n : it.created <= it.events[k].at /\ it.events[k].at <= it.updated
      /\ \A k \in 1..(n - 1) : it.events[k].at <= it.events[k + 1].at
  BY DEF Good, Decodable, TimestampsOrdered
<1> HIDE DEF n
<1>8. TimestampsOrdered(st)
  <2>1. \A k \in 1..(n + 1) : it.created <= st.events[k].at /\ st.events[k].at <= t
    <3> TAKE k \in 1..(n + 1)
    <3>1. CASE k = n + 1
      BY <3>1, <1>3, <1>4, <1>7, <1>e
    <3>2. CASE k \in 1..n
      <4>1. st.events[k] = it.events[k] /\ it.events[k].at \in Int
        BY <3>2, <1>4, <1>5
      <4>2. it.created <= it.events[k].at /\ it.events[k].at <= it.updated
        BY <3>2, <1>7
      <4>3. QED
        BY <4>1, <4>2, <1>3, <1>7
    <3>3. QED
      BY <3>1, <3>2, <1>4
  <2>2. \A k \in 1..n : st.events[k].at <= st.events[k + 1].at
    <3> TAKE k \in 1..n
    <3>1. CASE k = n
      BY <3>1, <1>3, <1>4, <1>5, <1>7, <1>e
    <3>2. CASE k \in 1..(n - 1)
      <4>1. k \in 1..n /\ k + 1 \in 1..n
        BY <3>2, <1>4
      <4>2. st.events[k] = it.events[k] /\ st.events[k + 1] = it.events[k + 1]
        BY <4>1, <1>4
      <4>3. it.events[k].at <= it.events[k + 1].at
        BY <3>2, <1>7
      <4>4. QED
        BY <4>2, <4>3
    <3>3. QED
      BY <3>1, <3>2, <1>4
  <2>3. QED
    BY <2>1, <2>2, <1>2, <1>3, <1>4, <1>7, SMTT(30) DEF TimestampsOrdered
<1>9. \A k \in 1..(n + 1) : (st.events[k].action = "claim") <=> (k = 1)
  BY <1>4, <1>6, <1>e DEF Good, FirstIsClaim, n
<1>10. st.events[1].role = "analyst"
  BY <1>4, <1>6, <1>e DEF Good, FirstIsClaim, n
<1>11. QED
  BY <1>4, <1>8, <1>9, <1>10, <1>e DEF st

-----------------------------------------------------------------------------
(***************************************************************************)
(* The four functions keep a record good.                                  *)
(***************************************************************************)
LEMMA CreatedIsGood ==
  ASSUME NEW t \in Int
  PROVE  Good(NewItem(t), t)
BY UnownedIsNobody DEF Good, NewItem, ValidationQueueItem, States, Open, Terminal, Roles,
     Decodable, OwnershipAgrees, TimestampsOrdered, FirstIsClaim, LastEventCloses

LEMMA ClaimedIsGood ==
  ASSUME NEW it, NEW t \in Int, Good(it, t), NEW analyst \in People, MayClaim(it)
  PROVE  Good(Claimed(it, analyst, t), t)
<1> DEFINE st == Stamp(it, "claim", analyst, "analyst", t)
           new == Claimed(it, analyst, t)
<1>1. it \in ValidationQueueItem /\ it.events = <<>> /\ "analyst" \in Roles
  BY DEF Good, FirstIsClaim, MayClaim, Roles
<1>2. st \in ValidationQueueItem /\ st.updated = t
  BY <1>1, StampTyped
<1>3. /\ TimestampsOrdered(st)
      /\ \A k \in 1..Len(st.events) : (st.events[k].action = "claim") <=> (k = 1)
      /\ st.events # <<>>
      /\ st.events[1].role = "analyst"
  <2>1. /\ "claim" \in {"claim", "transfer", "state_transition"}
        /\ ("claim" = "claim") <=> (it.events = <<>>)
        /\ "claim" = "claim" => "analyst" = "analyst"
    BY <1>1
  <2>2. QED
    BY <1>1, <2>1, StampedHistory, SMTT(60)
<1>4. new = [st EXCEPT !.state = "in_validation", !.owner = analyst, !.role = "analyst"]
  BY DEF Claimed
<1> HIDE DEF st, new
<1>5. /\ new \in ValidationQueueItem
      /\ new.state = "in_validation" /\ new.owner = analyst /\ new.role = "analyst"
      /\ new.events = st.events /\ new.updated = t /\ new.created = st.created
  BY <1>2, <1>4 DEF ValidationQueueItem, States, Open, Roles
<1>6. Decodable(new)
  BY <1>2, <1>3, <1>5, UnownedIsNobody DEF Decodable, OwnershipAgrees, TimestampsOrdered
<1>7. FirstIsClaim(new) /\ LastEventCloses(new)
  BY <1>3, <1>5 DEF FirstIsClaim, LastEventCloses, Terminal
<1>8. QED
  BY <1>5, <1>6, <1>7 DEF Good, new

LEMMA StampedTransfer ==
  ASSUME NEW it \in ValidationQueueItem, NEW actor \in People, NEW role \in Roles, NEW t \in Int
  PROVE  LET st == Stamp(it, "transfer", actor, role, t)
         IN st \in ValidationQueueItem /\ st.updated = t /\ st.state = it.state
BY StampTyped, ZenonT(60)

LEMMA TransferredIsGood ==
  ASSUME NEW it, NEW t \in Int, Good(it, t),
         NEW actor \in People, NEW role \in Roles,
         NEW newOwner \in People, NEW newRole \in Roles,
         MayTransfer(it, actor, role)
  PROVE  Good(Transferred(it, actor, role, newOwner, newRole, t), t)
<1> DEFINE st == Stamp(it, "transfer", actor, role, t)
           new == Transferred(it, actor, role, newOwner, newRole, t)
<1>1. /\ it \in ValidationQueueItem
      /\ it.state # "pending_triage" /\ it.state \notin Terminal
      /\ it.events # <<>>
  BY DEF Good, FirstIsClaim, Decodable, OwnershipAgrees, MayTransfer, HasAuthority
<1>2. st \in ValidationQueueItem /\ st.updated = t /\ st.state = it.state
  BY <1>1, StampedTransfer
<1>3. /\ TimestampsOrdered(st)
      /\ \A k \in 1..Len(st.events) : (st.events[k].action = "claim") <=> (k = 1)
      /\ st.events # <<>>
      /\ st.events[1].role = "analyst"
  <2>1. /\ "transfer" \in {"claim", "transfer", "state_transition"}
        /\ ("transfer" = "claim") <=> (it.events = <<>>)
        /\ "transfer" = "claim" => role = "analyst"
    BY <1>1
  <2>2. QED
    BY <2>1, StampedHistory, SMTT(60)
<1>4. new = [st EXCEPT !.owner = newOwner, !.role = newRole]
  BY DEF Transferred
<1> HIDE DEF st, new
<1>5. /\ new \in ValidationQueueItem
      /\ new.state = it.state /\ new.owner = newOwner /\ new.role = newRole
      /\ new.events = st.events /\ new.updated = t /\ new.created = st.created
  BY <1>2, <1>4 DEF ValidationQueueItem
<1>6. Decodable(new)
  BY <1>1, <1>2, <1>3, <1>5, UnownedIsNobody
     DEF Decodable, OwnershipAgrees, TimestampsOrdered, Roles
<1>7. FirstIsClaim(new) /\ LastEventCloses(new)
  BY <1>1, <1>3, <1>5 DEF FirstIsClaim, LastEventCloses
<1>8. QED
  BY <1>5, <1>6, <1>7 DEF Good, new

LEMMA TransitionedIsGood ==
  ASSUME NEW it, NEW t \in Int, Good(it, t),
         NEW actor \in People, NEW role \in Roles, NEW to \in States,
         MayTransition(it, actor, role, to)
  PROVE  Good(Transitioned(it, actor, role, to, t), t)
<1> DEFINE st == Stamp(it, "state_transition", actor, role, t)
           new == Transitioned(it, actor, role, to, t)
<1>1. /\ it \in ValidationQueueItem
      /\ it.owner # Unowned
      /\ it.events # <<>>
  BY DEF Good, FirstIsClaim, Decodable, OwnershipAgrees, MayTransition, HasAuthority
<1>2. to # "pending_triage"
  BY <1>1 DEF MayTransition, AllowedTransitions, ValidationQueueItem, States, Open, Terminal
<1>3. /\ st \in ValidationQueueItem /\ st.updated = t
      /\ st.owner = it.owner /\ st.role = it.role
  BY <1>1, StampTyped, ZenonT(60)
<1>4. /\ TimestampsOrdered(st)
      /\ \A k \in 1..Len(st.events) : (st.events[k].action = "claim") <=> (k = 1)
      /\ st.events # <<>>
      /\ st.events[1].role = "analyst"
      /\ st.events[Len(st.events)].action = "state_transition"
      /\ st.events[Len(st.events)].at = t
  <2>1. /\ "state_transition" \in {"claim", "transfer", "state_transition"}
        /\ ("state_transition" = "claim") <=> (it.events = <<>>)
        /\ "state_transition" = "claim" => role = "analyst"
    BY <1>1
  <2>2. QED
    BY <2>1, StampedHistory, SMTT(60)
<1>5. new = [st EXCEPT !.state = to]
  BY DEF Transitioned
<1>6. it.role # "none"
  BY <1>1 DEF Good, Decodable, OwnershipAgrees
<1> HIDE DEF st, new
<1>7. /\ new \in ValidationQueueItem
      /\ new.state = to /\ new.owner = it.owner /\ new.role = it.role
      /\ new.events = st.events /\ new.updated = t /\ new.created = st.created
  BY <1>3, <1>5 DEF ValidationQueueItem
<1>8. Decodable(new)
  BY <1>1, <1>2, <1>3, <1>4, <1>6, <1>7 DEF Decodable, OwnershipAgrees, TimestampsOrdered
<1>9. FirstIsClaim(new)
  BY <1>2, <1>4, <1>7 DEF FirstIsClaim
<1>10. Len(st.events) >= 2
  <2>1. st.events = Append(it.events, [action |-> "state_transition", at |-> t,
                                       actor |-> actor, role |-> role])
    BY <1>1, StampTyped DEF st
  <2>2. it.events \in Seq(QueueEvent)
    BY <1>1 DEF ValidationQueueItem
  <2>3. Len(it.events) >= 1
    BY <1>1, <2>2
  <2>4. QED
    BY <2>1, <2>2, <2>3
<1>11. LastEventCloses(new)
  BY <1>4, <1>7, <1>10 DEF LastEventCloses
<1>12. QED
  BY <1>7, <1>8, <1>9, <1>11 DEF Good, new

-----------------------------------------------------------------------------
(***************************************************************************)
(* The invariant is inductive, one step per action.                        *)
(***************************************************************************)
LEMMA InitGood == Init => IInv
BY BoundsAreNaturals DEF Init, IInv, TypeOK, Live

\* Replacing one record by a good one keeps the invariant.
LEMMA RecordReplaced ==
  ASSUME IInv, NEW i \in Items, NEW it, Good(it, now),
         queue' = [queue EXCEPT ![i] = it], UNCHANGED now
  PROVE  IInv'
<1>1. it \in ValidationQueueItem
  BY DEF Good
<1>2. TypeOK'
  BY <1>1 DEF IInv, TypeOK
<1>3. ASSUME NEW j \in Items, Live(j)'
      PROVE  Good(queue[j], now)'
  <2>1. CASE j = i
    BY <2>1 DEF IInv, TypeOK
  <2>2. CASE j # i
    <3>1. queue'[j] = queue[j]
      BY <2>2 DEF IInv, TypeOK
    <3>2. QED
      BY <3>1, <1>3 DEF IInv, Live
  <2>3. QED
    BY <2>1, <2>2
<1>4. QED
  BY <1>2, <1>3 DEF IInv

LEMMA StepKeepsGood == IInv /\ [Next]_vars => IInv'
<1> SUFFICES ASSUME IInv, [Next]_vars
             PROVE  IInv'
  OBVIOUS
<1>0. now \in Int
  BY BoundsAreNaturals DEF IInv, TypeOK
<1>1. CASE Tick
  <2>1. TypeOK'
    BY <1>1, BoundsAreNaturals DEF Tick, IInv, TypeOK
  <2>2. ASSUME NEW i \in Items, Live(i)'
        PROVE  Good(queue[i], now)'
    <3>1. Good(queue[i], now) /\ queue' = queue /\ now' = now + 1
      BY <1>1, <2>2 DEF Tick, IInv, Live
    <3>2. queue[i].updated \in Int
      BY <3>1 DEF Good, ValidationQueueItem
    <3>3. queue[i].updated <= now + 1
      BY <1>0, <3>1, <3>2 DEF Good
    <3>4. QED
      BY <3>1, <3>3 DEF Good
  <2>3. QED
    BY <2>1, <2>2 DEF IInv
<1>2. ASSUME NEW i \in Items, create_queue_item(i)
      PROVE  IInv'
  BY <1>0, <1>2, CreatedIsGood, RecordReplaced DEF create_queue_item
<1>3. ASSUME NEW i \in Items, NEW analyst \in People, claim_for_analyst_triage(i, analyst)
      PROVE  IInv'
  <2>1. Good(queue[i], now) /\ MayClaim(queue[i])
    BY <1>3 DEF claim_for_analyst_triage, Changeable, IInv, Live
  <2>2. Good(Claimed(queue[i], analyst, now), now)
    BY <1>0, <2>1, ClaimedIsGood
  <2>3. QED
    BY <1>3, <2>2, RecordReplaced DEF claim_for_analyst_triage
<1>4. ASSUME NEW i \in Items, NEW actor \in People, NEW role \in Roles,
             NEW newOwner \in People, NEW newRole \in Roles,
             transfer_owner(i, actor, role, newOwner, newRole)
      PROVE  IInv'
  <2>1. Good(queue[i], now) /\ MayTransfer(queue[i], actor, role)
    BY <1>4 DEF transfer_owner, Changeable, IInv, Live
  <2>2. Good(Transferred(queue[i], actor, role, newOwner, newRole, now), now)
    BY <1>0, <2>1, TransferredIsGood
  <2>3. QED
    BY <1>4, <2>2, RecordReplaced DEF transfer_owner
<1>5. ASSUME NEW i \in Items, NEW actor \in People, NEW role \in Roles, NEW to \in States,
             transition_state(i, actor, role, to)
      PROVE  IInv'
  <2>1. Good(queue[i], now) /\ MayTransition(queue[i], actor, role, to)
    BY <1>5 DEF transition_state, Changeable, IInv, Live
  <2>2. Good(Transitioned(queue[i], actor, role, to, now), now)
    BY <1>0, <2>1, TransitionedIsGood
  <2>3. QED
    BY <1>5, <2>2, RecordReplaced DEF transition_state
<1>6. CASE UNCHANGED vars
  BY <1>6 DEF vars, IInv, TypeOK, Live
<1>7. QED
  BY <1>1, <1>2, <1>3, <1>4, <1>5, <1>6 DEF Next, Act

LEMMA AlwaysGood == Spec => []IInv
BY InitGood, StepKeepsGood, PTL DEF Spec

(***************************************************************************)
(* Every record is well typed, whatever the people do (ValidationQueueItem *)
(* in workflow_validation.py).                                             *)
(***************************************************************************)
THEOREM TypeCorrect == Spec => []TypeOK
<1>1. IInv => TypeOK
  BY DEF IInv
<1>2. QED
  BY <1>1, AlwaysGood, PTL

(***************************************************************************)
(* The writer's decoder never refuses a record the four functions built,   *)
(* as long as the clock does not go back.                                  *)
(***************************************************************************)
THEOREM WriterNeverRefuses == Spec => []HandoffWritable
<1>1. IInv => HandoffWritable
  BY DEF IInv, HandoffWritable, Good
<1>2. QED
  BY <1>1, AlwaysGood, PTL

(***************************************************************************)
(* Every history opens with the one claim by an analyst, and a closed      *)
(* record was closed by the last event of its history.                     *)
(***************************************************************************)
THEOREM HistoryTellsTheState == Spec => []HistoryTellsState
<1>1. IInv => AnalystFirst
  BY DEF IInv, AnalystFirst, Good, FirstIsClaim
<1>2. IInv => ClosedByLastEvent
  BY DEF IInv, ClosedByLastEvent, Good, LastEventCloses
<1>3. IInv => HistoryTellsState
  BY <1>1, <1>2 DEF HistoryTellsState
<1>4. QED
  BY <1>3, AlwaysGood, PTL

-----------------------------------------------------------------------------
(***************************************************************************)
(* What one applied function does to the record it is given.               *)
(***************************************************************************)
LEMMA ClaimIsAudited ==
  ASSUME NEW it \in ValidationQueueItem, NEW t \in Int, NEW analyst \in People, MayClaim(it)
  PROVE  ChangeIsAudited(it, Claimed(it, analyst, t))
<1> DEFINE e == [action |-> "claim", at |-> t, actor |-> analyst, role |-> "analyst"]
           new == Claimed(it, analyst, t)
<1>1. e \in QueueEvent /\ it.events \in Seq(QueueEvent)
  BY DEF QueueEvent, ValidationQueueItem, Roles
<1>2. new.events = Append(it.events, e) /\ new.owner = analyst
  BY DEF Claimed, Stamp, ValidationQueueItem
<1>3. e.action = "claim" /\ e.actor = analyst
  OBVIOUS
<1> HIDE DEF e, new
<1>4. /\ Len(new.events) = Len(it.events) + 1
      /\ \A k \in 1..Len(it.events) : new.events[k] = it.events[k]
      /\ new.events[Len(it.events) + 1] = e
  BY <1>1, <1>2, HistoryGrows
<1>5. it.owner = Unowned /\ it.state \notin Terminal
  BY DEF MayClaim, Terminal
<1>6. QED
  BY <1>2, <1>3, <1>4, <1>5 DEF ChangeIsAudited, new

LEMMA AuthorisedIsAudited ==
  ASSUME NEW it \in ValidationQueueItem, NEW t \in Int,
         NEW actor \in People, NEW role \in Roles, HasAuthority(it, actor, role),
         it.state \notin Terminal,
         NEW action \in {"transfer", "state_transition"}, NEW new,
         new.events = Stamp(it, action, actor, role, t).events
  PROVE  ChangeIsAudited(it, new)
<1> DEFINE e == [action |-> action, at |-> t, actor |-> actor, role |-> role]
<1>1. e \in QueueEvent /\ it.events \in Seq(QueueEvent)
  BY DEF QueueEvent, ValidationQueueItem
<1>2. new.events = Append(it.events, e)
  BY DEF Stamp, ValidationQueueItem
<1>3. e.role = role /\ e.actor = actor
  OBVIOUS
<1> HIDE DEF e
<1>4. /\ Len(new.events) = Len(it.events) + 1
      /\ \A k \in 1..Len(it.events) : new.events[k] = it.events[k]
      /\ new.events[Len(it.events) + 1] = e
  BY <1>1, <1>2, HistoryGrows
<1>5. QED
  BY <1>3, <1>4 DEF ChangeIsAudited, HasAuthority

(***************************************************************************)
(* Every step leaves each live record as it was, or changes it with one    *)
(* authorised event while it is still open.                                *)
(***************************************************************************)
LEMMA StepChanges ==
  ASSUME TypeOK, [Next]_vars, NEW i \in Items, Live(i), queue'[i] # queue[i]
  PROVE  ChangeIsAudited(queue[i], queue'[i])
<1>0. queue \in [Items -> ValidationQueueItem \cup {Absent}] /\ now \in Int
      /\ queue[i] \in ValidationQueueItem
  BY BoundsAreNaturals DEF TypeOK, Live
<1>1. CASE Tick \/ UNCHANGED vars
  BY <1>1 DEF Tick, vars
<1>2. ASSUME NEW j \in Items, create_queue_item(j)
      PROVE  FALSE
  BY <1>0, <1>2 DEF create_queue_item, Live
<1>3. ASSUME NEW j \in Items, NEW analyst \in People, claim_for_analyst_triage(j, analyst)
      PROVE  ChangeIsAudited(queue[i], queue'[i])
  <2>1. j = i /\ queue'[i] = Claimed(queue[i], analyst, now) /\ MayClaim(queue[i])
    BY <1>0, <1>3 DEF claim_for_analyst_triage
  <2>2. QED
    BY <1>0, <2>1, ClaimIsAudited
<1>4. ASSUME NEW j \in Items, NEW actor \in People, NEW role \in Roles,
             NEW newOwner \in People, NEW newRole \in Roles,
             transfer_owner(j, actor, role, newOwner, newRole)
      PROVE  ChangeIsAudited(queue[i], queue'[i])
  <2>1. /\ queue'[i] = Transferred(queue[i], actor, role, newOwner, newRole, now)
        /\ MayTransfer(queue[i], actor, role)
    BY <1>0, <1>4 DEF transfer_owner
  <2>2. queue'[i].events = Stamp(queue[i], "transfer", actor, role, now).events
    BY <1>0, <2>1 DEF Transferred, Stamp, ValidationQueueItem
  <2>3. QED
    BY <1>0, <2>1, <2>2, AuthorisedIsAudited DEF MayTransfer
<1>5. ASSUME NEW j \in Items, NEW actor \in People, NEW role \in Roles, NEW to \in States,
             transition_state(j, actor, role, to)
      PROVE  ChangeIsAudited(queue[i], queue'[i])
  <2>1. /\ queue'[i] = Transitioned(queue[i], actor, role, to, now)
        /\ MayTransition(queue[i], actor, role, to)
    BY <1>0, <1>5 DEF transition_state
  <2>2. queue'[i].events = Stamp(queue[i], "state_transition", actor, role, now).events
    BY <1>0, <2>1 DEF Transitioned, Stamp, ValidationQueueItem
  <2>3. queue[i].state \notin Terminal
    BY <1>0, <2>1 DEF MayTransition, AllowedTransitions, ValidationQueueItem, States, Open, Terminal
  <2>4. QED
    BY <1>0, <2>1, <2>2, <2>3, AuthorisedIsAudited DEF MayTransition
<1>6. QED
  BY <1>1, <1>2, <1>3, <1>4, <1>5 DEF Next, Act

(***************************************************************************)
(* No change without its event, no event without authority over the record *)
(* as it was before the change, and none at all once the record is closed. *)
(***************************************************************************)
THEOREM ChangesAreAudited == Spec => EveryChangeAudited
<1>1. TypeOK /\ [Next]_vars =>
        [\A i \in Items : (Live(i) /\ queue'[i] # queue[i])
            => ChangeIsAudited(queue[i], queue'[i])]_vars
  BY StepChanges
<1>2. QED
  BY <1>1, TypeCorrect, PTL DEF Spec, EveryChangeAudited

-----------------------------------------------------------------------------
(***************************************************************************)
(* A reading of the queue is complete, for any number of records, people   *)
(* and pages.  What the pages show is told from the position of a row, the *)
(* number of rows ahead of it; the heart is that a change never takes a    *)
(* row away from those ahead of one that stays as it is.                   *)
(***************************************************************************)
ReaderTypeOK ==
  /\ load \in Load /\ query \in Query /\ offset \in Nat /\ reading \in BOOLEAN
  /\ shown \in [Items -> Nat] /\ steady \subseteq Items

(***************************************************************************)
(* A row that stays as it is has been shown, or is still to come: that is  *)
(* what NoSteadyRowMissed needs before the end of a reading.               *)
(***************************************************************************)
SteadyRowsToCome ==
  LatestFirst =>
    \A i \in steady :
      Matches(i) => shown[i] >= 1 \/ (reading /\ offset <= Position(i))

BeforeFirstPage ==
  offset = 0 => /\ \A i \in Items : shown[i] = 0
                /\ ~reading => steady = {}

BInv ==
  /\ IInv /\ ReaderTypeOK
  /\ \A i \in steady : Live(i)
  /\ BeforeFirstPage /\ SteadyRowsToCome /\ CalmPagesDivideQueue

-----------------------------------------------------------------------------
(***************************************************************************)
(* Sort keys are numbers, so that no row precedes itself and the rows      *)
(* ahead of a matching row are fewer than all.                             *)
(***************************************************************************)
LEMMA KeysAreNumbers ==
  ASSUME TypeOK, ReaderTypeOK, NEW i \in Items, Live(i)
  PROVE  Major(queue[i]) \in Int
<1>1. /\ queue[i].updated \in Int /\ queue[i].state \in States
      /\ queue[i].owner \in People \cup {Unowned}
  BY DEF TypeOK, Live, ValidationQueueItem
<1>2. StateRank[queue[i].state] \in Int
  BY <1>1 DEF StateRank, States, Open, Terminal
<1>3. NameRank[queue[i].owner] \in Int
  BY <1>1, RanksAreOrders
<1>4. query.by \in {"updated_at", "state", "owner_id"}
  BY DEF ReaderTypeOK, Query
<1>5. QED
  BY <1>1, <1>2, <1>3, <1>4 DEF Major

LEMMA NoRowPrecedesItself ==
  ASSUME TypeOK, ReaderTypeOK, NEW i \in Items, Live(i)
  PROVE  ~Precedes(i, i)
<1>1. Major(queue[i]) \in Int /\ Rank[i] \in Int
  BY KeysAreNumbers, RanksAreOrders
<1>2. QED
  BY <1>1 DEF Precedes

LEMMA Positions ==
  ASSUME TypeOK, ReaderTypeOK
  PROVE  /\ IsFiniteSet(Matching) /\ Cardinality(Matching) \in Nat
         /\ \A i \in Items :
              /\ IsFiniteSet(Ahead(i)) /\ Position(i) \in Nat
              /\ Matches(i) => Position(i) < Cardinality(Matching)
<1>1. IsFiniteSet(Matching) /\ Cardinality(Matching) \in Nat
  BY RanksAreOrders, FS_Subset, FS_CardinalityType, Matching \subseteq Items DEF Matching
<1>2. ASSUME NEW i \in Items
      PROVE  IsFiniteSet(Ahead(i)) /\ Position(i) \in Nat
  <2>1. Ahead(i) \subseteq Matching
    BY DEF Ahead
  <2>2. QED
    BY <1>1, <2>1, FS_Subset, FS_CardinalityType DEF Position
<1>3. ASSUME NEW i \in Items, Matches(i)
      PROVE  Position(i) < Cardinality(Matching)
  <2>1. i \in Matching /\ Live(i)
    BY <1>3 DEF Matching, Matches
  <2>2. Ahead(i) \subseteq Matching \ {i}
    BY <2>1, NoRowPrecedesItself DEF Ahead
  <2>3. /\ IsFiniteSet(Matching \ {i})
        /\ Cardinality(Matching \ {i}) = Cardinality(Matching) - 1
    BY <1>1, <2>1, FS_RemoveElement
  <2>4. Cardinality(Ahead(i)) <= Cardinality(Matching \ {i})
    BY <2>2, <2>3, FS_Subset
  <2>5. QED
    BY <1>1, <1>2, <2>3, <2>4 DEF Position
<1>4. QED
  BY <1>1, <1>2, <1>3

-----------------------------------------------------------------------------
(***************************************************************************)
(* A changed record is stamped with the time: it goes to the front, or, in *)
(* the second of the row in question, stays where it was.                  *)
(***************************************************************************)
LEMMA ChangedIsLatest ==
  ASSUME IInv, Next, NEW j \in Items, Live(j), queue'[j] # queue[j]
  PROVE  queue'[j] \in ValidationQueueItem /\ queue'[j].updated = now
<1>0. /\ queue \in [Items -> ValidationQueueItem \cup {Absent}]
      /\ queue[j] \in ValidationQueueItem
      /\ now \in Int
      /\ Good(queue[j], now)
  BY BoundsAreNaturals DEF IInv, TypeOK, Live
<1>1. CASE Tick
  BY <1>1 DEF Tick
<1>2. ASSUME NEW i \in Items, create_queue_item(i)
      PROVE  FALSE
  BY <1>0, <1>2 DEF create_queue_item, Live
<1>3. ASSUME NEW i \in Items, NEW analyst \in People, claim_for_analyst_triage(i, analyst)
      PROVE  queue'[j] \in ValidationQueueItem /\ queue'[j].updated = now
  <2>1. i = j /\ MayClaim(queue[j]) /\ queue'[j] = Claimed(queue[j], analyst, now)
    BY <1>0, <1>3 DEF claim_for_analyst_triage
  <2>2. LET st == Stamp(queue[j], "claim", analyst, "analyst", now)
        IN st \in ValidationQueueItem /\ st.updated = now
    BY <1>0, StampTyped DEF Roles
  <2>3. Claimed(queue[j], analyst, now).updated = now
    BY <2>2 DEF Claimed, ValidationQueueItem
  <2>4. Good(Claimed(queue[j], analyst, now), now)
    BY <1>0, <2>1, ClaimedIsGood
  <2>5. QED
    BY <2>1, <2>3, <2>4 DEF Good
<1>4. ASSUME NEW i \in Items, NEW actor \in People, NEW role \in Roles,
             NEW newOwner \in People, NEW newRole \in Roles,
             transfer_owner(i, actor, role, newOwner, newRole)
      PROVE  queue'[j] \in ValidationQueueItem /\ queue'[j].updated = now
  <2>1. /\ i = j /\ MayTransfer(queue[j], actor, role)
        /\ queue'[j] = Transferred(queue[j], actor, role, newOwner, newRole, now)
    BY <1>0, <1>4 DEF transfer_owner
  <2>2. LET st == Stamp(queue[j], "transfer", actor, role, now)
        IN st \in ValidationQueueItem /\ st.updated = now
    BY <1>0, StampTyped, ZenonT(60)
  <2>3. Transferred(queue[j], actor, role, newOwner, newRole, now).updated = now
    BY <2>2 DEF Transferred, ValidationQueueItem
  <2>4. Good(Transferred(queue[j], actor, role, newOwner, newRole, now), now)
    BY <1>0, <2>1, TransferredIsGood
  <2>5. QED
    BY <2>1, <2>3, <2>4 DEF Good
<1>5. ASSUME NEW i \in Items, NEW actor \in People, NEW role \in Roles, NEW to \in States,
             transition_state(i, actor, role, to)
      PROVE  queue'[j] \in ValidationQueueItem /\ queue'[j].updated = now
  <2>1. /\ i = j /\ MayTransition(queue[j], actor, role, to)
        /\ queue'[j] = Transitioned(queue[j], actor, role, to, now)
    BY <1>0, <1>5 DEF transition_state
  <2>2. LET st == Stamp(queue[j], "state_transition", actor, role, now)
        IN st \in ValidationQueueItem /\ st.updated = now
    BY <1>0, StampTyped
  <2>3. Transitioned(queue[j], actor, role, to, now).updated = now
    BY <2>2 DEF Transitioned, ValidationQueueItem
  <2>4. Good(Transitioned(queue[j], actor, role, to, now), now)
    BY <1>0, <2>1, TransitionedIsGood
  <2>5. QED
    BY <2>1, <2>3, <2>4 DEF Good
<1>6. QED
  BY <1>1, <1>2, <1>3, <1>4, <1>5 DEF Next, Act

(***************************************************************************)
(* The heart: a row that stays as it is keeps those ahead of it.           *)
(***************************************************************************)
LEMMA ChangeKeepsAhead ==
  ASSUME BInv, ChangeRecord, LatestFirst,
         NEW i \in Items, Live(i), queue'[i] = queue[i]
  PROVE  Ahead(i) \subseteq Ahead(i)'
<1> SUFFICES ASSUME NEW j \in Items, Matches(j), Precedes(j, i)
             PROVE  Matches(j)' /\ Precedes(j, i)'
  BY DEF Ahead, Matching
<1>0. /\ query' = query /\ query \in Query /\ now \in 0..MaxTime /\ MaxTime \in Nat
      /\ query.by = "updated_at" /\ query.descending /\ query.before >= MaxTime
      /\ query.states = {} /\ query.roles = {} /\ query.owner = Unowned
  BY BoundsAreNaturals DEF ChangeRecord, LatestFirst, BInv, ReaderTypeOK, IInv, TypeOK
<1>1. /\ queue[i].updated \in Int /\ queue[j].updated \in Int
      /\ queue[i].updated <= now /\ queue[j].updated <= now
  BY DEF BInv, IInv, TypeOK, Live, Good, Matches, ValidationQueueItem
<1>2. CASE queue'[j] = queue[j]
  BY <1>0, <1>2 DEF Matches, Live, Precedes, Major
<1>3. CASE queue'[j] # queue[j]
  <2>1. queue'[j] # Absent /\ queue'[j].updated = now
    BY <1>3, ChangedIsLatest, AbsentIsNoRecord DEF BInv, Matches, ChangeRecord
  <2>2. Matches(j)'
    <3>1. query.after \in Int /\ query.before \in Int
      BY <1>0 DEF Query
    <3>2. query.after <= queue[j].updated /\ j \in query.items
      BY DEF Matches
    <3>3. query.after <= now /\ now <= query.before
      BY <1>0, <1>1, <3>1, <3>2
    <3>4. QED
      BY <1>0, <2>1, <3>2, <3>3 DEF Matches, Live
  <2>3. /\ Rank[i] \in Nat /\ Rank[j] \in Nat
        /\ \/ queue[j].updated > queue[i].updated
           \/ queue[j].updated = queue[i].updated /\ Rank[j] > Rank[i]
    BY <1>0, RanksAreOrders DEF Precedes, Major
  <2>4. \/ now > queue[i].updated
        \/ now = queue[i].updated /\ Rank[j] > Rank[i]
    BY <1>0, <1>1, <2>3
  <2>5. Precedes(j, i)'
    BY <1>0, <2>1, <2>4 DEF Precedes, Major
  <2>6. QED
    BY <2>2, <2>5
<1>4. QED
  BY <1>2, <1>3

\* Those ahead of a row are finitely many, before and after any step.
LEMMA AheadIsFinite ==
  \A i \in Items : /\ IsFiniteSet(Ahead(i)) /\ Position(i) \in Nat
                   /\ IsFiniteSet(Ahead(i)') /\ Position(i)' \in Nat
<1> SUFFICES ASSUME NEW i \in Items
             PROVE  /\ IsFiniteSet(Ahead(i)) /\ Position(i) \in Nat
                    /\ IsFiniteSet(Ahead(i)') /\ Position(i)' \in Nat
  OBVIOUS
<1>1. IsFiniteSet(Items)
  BY RanksAreOrders
<1>2. Ahead(i) \subseteq Items /\ Ahead(i)' \subseteq Items
  BY DEF Ahead, Matching
<1>3. IsFiniteSet(Ahead(i)) /\ IsFiniteSet(Ahead(i)')
  BY <1>1, <1>2, FS_Subset
<1>4. QED
  BY <1>3, FS_CardinalityType DEF Position

\* What a page shows depends on the records and the query alone.
LEMMA SameQueueSamePages ==
  ASSUME UNCHANGED <<queue, query>>
  PROVE  \A i \in Items : (Matches(i)' <=> Matches(i)) /\ Position(i)' = Position(i)
<1>1. \A i \in Items : Matches(i)' <=> Matches(i)
  BY DEF Matches, Live
<1>2. \A i, j \in Items : Precedes(i, j)' <=> Precedes(i, j)
  BY DEF Precedes, Major
<1>3. \A i \in Items : Ahead(i)' = Ahead(i)
  BY <1>1, <1>2 DEF Ahead, Matching
<1>4. QED
  BY <1>1, <1>3 DEF Position

-----------------------------------------------------------------------------
(***************************************************************************)
(* The invariant is inductive, one step per action.                        *)
(***************************************************************************)
LEMMA ReaderStarts == BrowseInit => BInv
<1> SUFFICES ASSUME BrowseInit
             PROVE  BInv
  OBVIOUS
<1>1. IInv
  BY InitGood DEF BrowseInit
<1>2. ReaderTypeOK
  <2>1. DefaultQuery \in Query
    BY BoundsAreNaturals DEF DefaultQuery, Query
  <2>2. QED
    BY <2>1, LoadsAreLoads DEF BrowseInit, ReaderTypeOK
<1>3. QED
  BY <1>1, <1>2 DEF BrowseInit, BInv, BeforeFirstPage, SteadyRowsToCome,
     CalmPagesDivideQueue, Calm

LEMMA StartKeeps == BInv /\ StartReading => BInv'
<1> SUFFICES ASSUME BInv, StartReading
             PROVE  BInv'
  OBVIOUS
<1>1. IInv'
  BY StepKeepsGood DEF BInv, StartReading, vars
<1>2. ReaderTypeOK'
  BY DEF BInv, ReaderTypeOK, StartReading, Load
<1>3. /\ offset' = 0 /\ reading' /\ \A i \in steady' : i \in Items /\ Live(i)'
      /\ \A i \in Items : shown'[i] = 0
  BY DEF BInv, BeforeFirstPage, StartReading, Live
<1>4. SteadyRowsToCome'
  BY <1>3, AheadIsFinite DEF SteadyRowsToCome
<1>5. BeforeFirstPage' /\ CalmPagesDivideQueue'
  BY <1>3 DEF BeforeFirstPage, CalmPagesDivideQueue, Calm
<1>6. QED
  BY <1>1, <1>2, <1>3, <1>4, <1>5 DEF BInv

LEMMA PageKeeps == BInv /\ ReadPage => BInv'
<1> SUFFICES ASSUME BInv, ReadPage
             PROVE  BInv'
  OBVIOUS
<1> USE DEF ReadPage
<1>1. IInv'
  BY StepKeepsGood DEF BInv, vars
<1>2. /\ offset \in Nat /\ query.limit \in Nat /\ query.limit > 0
      /\ shown \in [Items -> Nat] /\ steady \subseteq Items
  BY DEF BInv, ReaderTypeOK, Query
<1>3. ReaderTypeOK'
  BY <1>2 DEF BInv, ReaderTypeOK
<1>4. \A i \in steady' : Live(i)'
  BY DEF BInv, Live
<1>5. \A i \in Items : (Matches(i)' <=> Matches(i)) /\ Position(i)' = Position(i)
  BY SameQueueSamePages
<1>6. /\ Cardinality(Matching) \in Nat
      /\ \A i \in Items : /\ Position(i) \in Nat
                          /\ Matches(i) => Position(i) < Cardinality(Matching)
  BY Positions DEF BInv, IInv
<1>7. \A i \in Items :
        shown'[i] = IF Matches(i) /\ offset <= Position(i) /\ Position(i) < offset + query.limit
                      THEN shown[i] + 1 ELSE shown[i]
  BY <1>2 DEF Page, Matching
<1>8. offset' = offset + query.limit /\ offset' \in Nat /\ offset' > 0
      /\ (reading' <=> offset' < Cardinality(Matching))
  <2>1. offset' = offset + query.limit
    OBVIOUS
  <2>2. reading' <=> offset' < Cardinality(Matching)
    BY <2>1, Zenon
  <2>3. offset + query.limit \in Nat /\ offset + query.limit > 0
    BY <1>2
  <2>4. QED
    BY <2>1, <2>2, <2>3
<1>9. BeforeFirstPage'
  BY <1>8 DEF BeforeFirstPage
<1>10. SteadyRowsToCome'
  <2> SUFFICES ASSUME LatestFirst, NEW i \in steady, Matches(i)
               PROVE  shown'[i] >= 1 \/ (reading' /\ offset' <= Position(i))
    BY <1>5, <1>2 DEF SteadyRowsToCome, LatestFirst
  <2>1. shown[i] >= 1 \/ offset <= Position(i)
    BY DEF BInv, SteadyRowsToCome
  <2>2. i \in Items /\ shown[i] \in Nat
    BY <1>2
  <2>3. QED
    BY <2>1, <2>2, <1>2, <1>6, <1>7, <1>8
<1>11. CalmPagesDivideQueue'
  <2> SUFFICES ASSUME Calm', NEW i \in Items
               PROVE  shown'[i] = IF Matches(i) /\ (Done' \/ Position(i) < offset') THEN 1 ELSE 0
    BY <1>5 DEF CalmPagesDivideQueue
  <2>1. shown[i] = IF Matches(i) /\ Position(i) < offset THEN 1 ELSE 0
    <3>1. CASE offset = 0
      BY <3>1, <1>6 DEF BInv, BeforeFirstPage
    <3>2. CASE offset > 0
      BY <3>2 DEF BInv, CalmPagesDivideQueue, Calm, Done, Live
    <3>3. QED
      BY <3>1, <3>2, <1>2
  <2>2. Done' <=> offset' >= Cardinality(Matching)
    BY <1>6, <1>8 DEF Done
  <2>3. QED
    BY <2>1, <2>2, <1>2, <1>6, <1>7, <1>8
<1>12. QED
  BY <1>1, <1>3, <1>4, <1>9, <1>10, <1>11 DEF BInv

LEMMA ChangeKeeps == BInv /\ ChangeRecord => BInv'
<1> SUFFICES ASSUME BInv, ChangeRecord
             PROVE  BInv'
  OBVIOUS
<1>1. IInv'
  BY StepKeepsGood DEF BInv, ChangeRecord
<1>2. /\ Next /\ steady' = steady \ Changed
      /\ load' = load /\ query' = query /\ offset' = offset
      /\ reading' = reading /\ shown' = shown
  BY DEF ChangeRecord
<1>3. ReaderTypeOK'
  BY <1>2 DEF BInv, ReaderTypeOK
<1>4. \A i \in steady' : i \in steady /\ i \in Items /\ queue'[i] = queue[i] /\ Live(i)
  BY <1>2 DEF Changed, BInv, ReaderTypeOK
<1>5. \A i \in steady' : Live(i)'
  BY <1>4 DEF Live
<1>6. BeforeFirstPage'
  BY <1>2 DEF BInv, BeforeFirstPage
<1>7. SteadyRowsToCome'
  <2> SUFFICES ASSUME LatestFirst, NEW i \in steady', Matches(i)
               PROVE  shown[i] >= 1 \/ (reading /\ offset <= Position(i)')
    BY <1>2, <1>4 DEF SteadyRowsToCome, LatestFirst, Matches, Live
  <2>1. shown[i] >= 1 \/ (reading /\ offset <= Position(i))
    BY <1>4 DEF BInv, SteadyRowsToCome
  <2>2. Ahead(i) \subseteq Ahead(i)'
    BY <1>4, ChangeKeepsAhead
  <2>3. Position(i) <= Position(i)'
    BY <1>4, <2>2, AheadIsFinite, FS_Subset DEF Position
  <2>4. Position(i) \in Nat /\ Position(i)' \in Nat /\ offset \in Nat
    BY <1>4, AheadIsFinite DEF BInv, ReaderTypeOK
  <2>5. QED
    BY <2>1, <2>3, <2>4
<1>8. CalmPagesDivideQueue'
  <2> SUFFICES ASSUME Calm'
               PROVE  CalmPagesDivideQueue'
    BY DEF CalmPagesDivideQueue
  <2>1. Changed = {}
    <3> SUFFICES ASSUME NEW i \in Items, queue'[i] # queue[i]
                 PROVE  FALSE
      BY DEF Changed
    <3>1. queue'[i] # Absent
      BY ChangedIsLatest, AbsentIsNoRecord, <1>2 DEF BInv, Live
    <3>2. i \in steady'
      BY <3>1 DEF Calm, Live
    <3>3. QED
      BY <3>2, <1>4
  <2>2. queue' = queue
    BY <1>1, <2>1 DEF Changed, BInv, IInv, TypeOK
  <2>3. \A i \in Items : (Matches(i)' <=> Matches(i)) /\ Position(i)' = Position(i)
    BY <1>2, <2>2, SameQueueSamePages
  <2>4. Calm /\ (Done' <=> Done)
    BY <1>2, <2>1, <2>2 DEF Calm, Done, Live
  <2>5. QED
    BY <1>2, <2>3, <2>4 DEF BInv, CalmPagesDivideQueue
<1>9. QED
  BY <1>1, <1>3, <1>5, <1>6, <1>7, <1>8 DEF BInv

LEMMA StutterKeeps == BInv /\ UNCHANGED browseVars => BInv'
<1> SUFFICES ASSUME BInv, UNCHANGED browseVars
             PROVE  BInv'
  OBVIOUS
<1>1. /\ queue' = queue /\ now' = now /\ load' = load /\ query' = query /\ offset' = offset
      /\ reading' = reading /\ shown' = shown /\ steady' = steady
  BY DEF browseVars, reader
<1>2. IInv' /\ ReaderTypeOK' /\ BeforeFirstPage' /\ \A i \in steady' : Live(i)'
  BY <1>1, StepKeepsGood DEF BInv, ReaderTypeOK, BeforeFirstPage, Live, vars
<1>3. \A i \in Items : (Matches(i)' <=> Matches(i)) /\ Position(i)' = Position(i)
  BY <1>1, SameQueueSamePages
<1>4. SteadyRowsToCome'
  BY <1>1, <1>3 DEF BInv, ReaderTypeOK, SteadyRowsToCome, LatestFirst
<1>5. CalmPagesDivideQueue'
  <2>1. (Calm' <=> Calm) /\ (Done' <=> Done)
    BY <1>1 DEF Calm, Done, Live
  <2>2. QED
    BY <1>1, <1>3, <2>1 DEF BInv, CalmPagesDivideQueue
<1>6. QED
  BY <1>2, <1>4, <1>5 DEF BInv

LEMMA AlwaysReading == BrowseSpec => []BInv
<1>1. BInv /\ [BrowseNext]_browseVars => BInv'
  BY StartKeeps, PageKeeps, ChangeKeeps, StutterKeeps DEF BrowseNext
<1>2. QED
  BY <1>1, ReaderStarts, PTL DEF BrowseSpec

(***************************************************************************)
(* Reading between changes is a use of the queue: what ValidationQueue     *)
(* promises holds of it.                                                   *)
(***************************************************************************)
LEMMA BrowsingIsUse == BrowseSpec => Spec
<1>1. BrowseInit => Init
  BY DEF BrowseInit
<1>2. [BrowseNext]_browseVars => [Next]_vars
  BY DEF BrowseNext, StartReading, ReadPage, ChangeRecord, browseVars, vars
<1>3. QED
  BY <1>1, <1>2, PTL DEF BrowseSpec, Spec

(***************************************************************************)
(* A reading misses no steady row, and divides a queue that does not       *)
(* change, whatever the number of records, people, pages and changes       *)
(* (list_validation_queue).                                                *)
(***************************************************************************)
THEOREM ReadingsAreComplete == BrowseSpec => []ReadingIsComplete
<1>1. BInv => ReadingIsComplete
  <2> SUFFICES ASSUME BInv
               PROVE  NoSteadyRowMissed /\ CalmPagesDivideQueue
    BY DEF ReadingIsComplete
  <2>1. CalmPagesDivideQueue
    BY DEF BInv
  <2>2. NoSteadyRowMissed
    BY DEF BInv, SteadyRowsToCome, NoSteadyRowMissed, Done
  <2>3. QED
    BY <2>1, <2>2
<1>2. QED
  BY <1>1, AlwaysReading, PTL
=============================================================================
