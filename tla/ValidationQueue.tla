-------------------------- MODULE ValidationQueue --------------------------
(***************************************************************************)
(* The life of the validation queue's records when every change is applied *)
(* to the latest record: create_queue_item, claim_for_analyst_triage,      *)
(* transfer_owner and transition_state, called by any person, in any role, *)
(* in any order, under a wall clock of one-second precision (_utc_now).    *)
(* QueueHandoff puts a file between the callers and the records.           *)
(***************************************************************************)
EXTENDS QueueItem

CONSTANTS Items,      \* item identities
          Absent,     \* the item has not been created
          MaxTime,    \* bound: the last instant of the clock
          MaxEvents   \* bound: length of a record's event history

ASSUME AbsentIsNoRecord == Absent \notin ValidationQueueItem

ASSUME BoundsAreNaturals == MaxTime \in Nat /\ MaxEvents \in Nat

VARIABLES queue,   \* Items -> record or Absent
          now      \* the wall clock, in seconds

vars == <<queue, now>>

Init == queue = [i \in Items |-> Absent] /\ now = 0

\* The wall clock moves on.
Tick == now < MaxTime /\ now' = now + 1 /\ UNCHANGED queue

create_queue_item(i) ==
  /\ queue[i] = Absent
  /\ queue' = [queue EXCEPT ![i] = NewItem(now)]
  /\ UNCHANGED now

\* The records a caller can pass to the three functions that change one.
Changeable(i) == queue[i] # Absent /\ Len(queue[i].events) < MaxEvents

claim_for_analyst_triage(i, analyst) ==
  /\ Changeable(i)
  /\ MayClaim(queue[i])
  /\ queue' = [queue EXCEPT ![i] = Claimed(@, analyst, now)]
  /\ UNCHANGED now

transfer_owner(i, actor, role, newOwner, newRole) ==
  /\ Changeable(i)
  /\ MayTransfer(queue[i], actor, role)
  /\ queue' = [queue EXCEPT ![i] = Transferred(@, actor, role, newOwner, newRole, now)]
  /\ UNCHANGED now

transition_state(i, actor, role, to) ==
  /\ Changeable(i)
  /\ MayTransition(queue[i], actor, role, to)
  /\ queue' = [queue EXCEPT ![i] = Transitioned(@, actor, role, to, now)]
  /\ UNCHANGED now

Act(i, actor) ==
  \/ claim_for_analyst_triage(i, actor)
  \/ \E role \in Roles :
       \/ \E newOwner \in People, newRole \in Roles :
            transfer_owner(i, actor, role, newOwner, newRole)
       \/ \E to \in States : transition_state(i, actor, role, to)

Next ==
  \/ Tick
  \/ \E i \in Items : create_queue_item(i)
  \/ \E i \in Items, actor \in People : Act(i, actor)

Spec == Init /\ [][Next]_vars

-----------------------------------------------------------------------------
TypeOK ==
  /\ queue \in [Items -> ValidationQueueItem \cup {Absent}]
  /\ now \in 0..MaxTime

Live(i) == queue[i] # Absent

(***************************************************************************)
(* Whatever the functions build, the decoder accepts: write_validation_    *)
(* queue validates with the decoder before it publishes, so a record that  *)
(* broke this could never be saved and the review of it would be stuck     *)
(* (workflow_validation.py:280).                                           *)
(***************************************************************************)
HandoffWritable == \A i \in Items : Live(i) => Decodable(queue[i])

(***************************************************************************)
(* Analyst-first triage: the first event of a record is an analyst's claim *)
(* and no later one is, whoever transferred the record in between; and the *)
(* history is empty exactly while the record waits in pending_triage       *)
(* (queue_states.md "Ownership and Permissions").                          *)
(***************************************************************************)
AnalystFirst ==
  \A i \in Items : Live(i) =>
    LET it == queue[i] IN
      /\ (it.events = <<>>) <=> (it.state = "pending_triage")
      /\ \A k \in 1..Len(it.events) :
           (it.events[k].action = "claim") <=> (k = 1)
      /\ it.events # <<>> => it.events[1].role = "analyst"

(***************************************************************************)
(* A record that is completed or rejected was closed by its last event,    *)
(* which is a state transition: no transfer slips in after closing.        *)
(***************************************************************************)
ClosedByLastEvent ==
  \A i \in Items : (Live(i) /\ queue[i].state \in Terminal) =>
    LET it == queue[i] IN
      /\ Len(it.events) >= 2
      /\ it.events[Len(it.events)].action = "state_transition"
      /\ it.events[Len(it.events)].at = it.updated

\* The two together: the state a record is in can be told from its history.
HistoryTellsState == AnalystFirst /\ ClosedByLastEvent

(***************************************************************************)
(* Every applied change leaves exactly one event behind the old history,   *)
(* by someone who was entitled to it BEFORE the change: the owner of the   *)
(* old record, or ops, or the analyst who claims an unowned one.  No change*)
(* applies to a completed or rejected record, whoever asks.                *)
(***************************************************************************)
ChangeIsAudited(old, new) ==
  LET n == Len(old.events) IN
    /\ old.state \notin Terminal
    /\ Len(new.events) = n + 1
    /\ \A k \in 1..n : new.events[k] = old.events[k]
    /\ LET e == new.events[n + 1] IN
         IF old.owner = Unowned
           THEN e.action = "claim" /\ e.actor = new.owner
           ELSE e.actor = old.owner \/ e.role = "ops"

EveryChangeAudited ==
  [][\A i \in Items : (Live(i) /\ queue'[i] # queue[i])
        => ChangeIsAudited(queue[i], queue'[i])]_vars
=============================================================================
