----------------------------- MODULE QueueItem -----------------------------
(***************************************************************************)
(* One record of the validation queue and the pure functions that rewrite  *)
(* it (workflow_validation.py).  Every function of the source takes a      *)
(* frozen ValidationQueueItem and returns a new one or raises; here a      *)
(* function is a pair of operators, the condition under which it does not  *)
(* raise and the record it returns.  Who calls them, and on which copy of  *)
(* the record, is the business of the modules that extend this one.        *)
(***************************************************************************)
EXTENDS Integers, Sequences

CONSTANTS People,   \* the non-empty owner and actor identifiers
          Unowned   \* owner_id = None

ASSUME UnownedIsNobody == Unowned \notin People

(***************************************************************************)
(* An operator whose name ends in _slip is a mistake one could make in the *)
(* definition that follows it.  No specification uses a slip; PROJECT.json *)
(* names the property that would notice it.                                *)
(***************************************************************************)
Terminal == {"completed", "rejected"}

Open == {"pending_triage", "in_validation", "awaiting_manager_response", "ops_review"}

States == Open \cup Terminal

Roles == {"analyst", "ops"}

AllowedTransitions ==
  [pending_triage            |-> {"in_validation"},
   in_validation             |-> {"awaiting_manager_response", "ops_review",
                                  "completed", "rejected"},
   awaiting_manager_response |-> {"in_validation", "ops_review", "rejected"},
   ops_review                |-> {"in_validation", "completed", "rejected"},
   completed                 |-> {},
   rejected                  |-> {}]

QueueEvent == [action : {"claim", "transfer", "state_transition"},
               at : Int, actor : People, role : Roles]

ValidationQueueItem == [state : States,
                        owner : People \cup {Unowned},
                        role : Roles \cup {"none"},
                        created : Int, updated : Int,
                        events : Seq(QueueEvent)]

\* The state name of the contract that queue_states.md says was removed.
NewItem_slip(t) == [state |-> "new", owner |-> Unowned, role |-> "none",
                    created |-> t, updated |-> t, events |-> <<>>]

\* The record create_queue_item returns at wall-clock time t.
NewItem(t) == [state |-> "pending_triage", owner |-> Unowned, role |-> "none",
               created |-> t, updated |-> t, events |-> <<>>]

\* updated_at is forgotten in the call of replace.
Stamp_slip(it, action, actor, role, t) ==
  [it EXCEPT !.events = Append(@, [action |-> action, at |-> t,
                                   actor |-> actor, role |-> role])]

\* What replace(item, ..., updated_at, events + (event,)) does in all three
\* functions: the same timestamp goes into updated_at and into the new event.
Stamp(it, action, actor, role, t) ==
  [it EXCEPT !.updated = t,
             !.events = Append(@, [action |-> action, at |-> t,
                                   actor |-> actor, role |-> role])]

\* The owner and state checks are dropped for items still open.
MayClaim_slip(it) == it.state \in Open

MayClaim(it) == it.owner = Unowned /\ it.state = "pending_triage"

Claimed(it, analyst, t) ==
  [Stamp(it, "claim", analyst, "analyst", t) EXCEPT
     !.state = "in_validation", !.owner = analyst, !.role = "analyst"]

\* Any analyst may act on any claimed item.
HasAuthority_slip(it, actor, role) == it.owner # Unowned

\* The permission transfer_owner and transition_state share: actor_role is
\* whatever the caller says it is.
HasAuthority(it, actor, role) == it.owner # Unowned /\ (actor = it.owner \/ role = "ops")

MayTransfer(it, actor, role) == it.state \notin Terminal /\ HasAuthority(it, actor, role)

Transferred(it, actor, role, newOwner, newRole, t) ==
  [Stamp(it, "transfer", actor, role, t) EXCEPT !.owner = newOwner, !.role = newRole]

\* transition_state to the state the item is in returns the item untouched,
\* before any permission is looked at; MayTransition is the other branch.
MayTransition(it, actor, role, to) ==
  /\ to # it.state
  /\ HasAuthority(it, actor, role)
  /\ to \in AllowedTransitions[it.state]

Transitioned(it, actor, role, to, t) ==
  [Stamp(it, "state_transition", actor, role, t) EXCEPT !.state = to]

-----------------------------------------------------------------------------
(***************************************************************************)
(* The per-record checks of _decode_validation_queue, which the writer     *)
(* also runs on what it is about to publish.  The checks that hold of any  *)
(* value of the types above (field names, known states, string types) are  *)
(* left to ValidationQueueItem.                                            *)
(***************************************************************************)
OwnershipAgrees(it) ==
  /\ (it.owner = Unowned) <=> (it.role = "none")
  /\ (it.owner = Unowned) <=> (it.state = "pending_triage")

TimestampsOrdered(it) ==
  /\ it.created <= it.updated
  /\ \A k \in 1..Len(it.events) :
       /\ it.created <= it.events[k].at
       /\ it.events[k].at <= it.updated
  /\ \A k \in 1..(Len(it.events) - 1) : it.events[k].at <= it.events[k + 1].at

Decodable(it) == OwnershipAgrees(it) /\ TimestampsOrdered(it)
=============================================================================
