-------------------------- MODULE AuthorityDispatch --------------------------
(***************************************************************************)
(* The authority challenge of one pull request: a licence for one          *)
(* privileged agent run.  .github/scripts/keepalive_authority_state.js     *)
(* keeps it in a ledger file that it writes only on condition of the       *)
(* content read before; scripts/runner_lib/core.py keeps the dispatch      *)
(* record (RunnerDispatch).  Three parties use them: the workflow attempts *)
(* that prepare, finalize or release the challenge; the reporter that      *)
(* reconciles attempts whose run is over; and the keepalive loop that      *)
(* opens challenges and reaps expired preparations.                        *)
(*                                                                         *)
(* Neither store knows of the other and every request is a step.  A        *)
(* request may fail, and its effect is then there or not by the time the   *)
(* failure is seen.  A generation stands for the whole claim (nonce,       *)
(* fingerprint, due and expiry times).                                     *)
(***************************************************************************)
EXTENDS Integers, FiniteSets

CONSTANTS Attempt,    \* workflow attempts, "repository:run:attempt"
          MaxGen,     \* bound: generations minted
          MaxHead,    \* bound: head commits of the pull request
          MaxFaults   \* bound: requests that fail

ASSUME AttemptAssumption == {"nobody", "loop", "other"} \cap Attempt = {}
ASSUME BoundAssumption == /\ MaxGen \in Nat \ {0} /\ MaxHead \in Nat \ {0}
                          /\ MaxFaults \in Nat

VARIABLES ledger,    \* the ledger file
          record,    \* the dispatch record: who reserved, in what status
          read,      \* what each party still holds of its last read of the ledger
          phase,     \* where each attempt is
          claim,     \* the generation and head each attempt was dispatched for
          loop,      \* the head the loop is about to write a ledger for, or 0
          world,     \* head commit, routing label; generations minted, faults
          history    \* attempts whose agent started

vars == <<ledger, record, read, phase, claim, loop, world, history>>

Party == Attempt \cup {"loop"}
Owner == Attempt \cup {"nobody"}
Heads == 1..MaxHead
Ledger == [status : {"available", "prepared", "consumed", "confirmed"},
           gen : 1..MaxGen, head : Heads, expired : BOOLEAN, owner : Owner,
           released : Owner, refunded : 0..MaxGen, recovered : Owner]
Record == [owner : Attempt \cup {"nobody", "other"},
           status : {"none", "pending", "failed", "done"}, live : BOOLEAN]
Phases == {"idle", "preparing", "binding", "prepared", "reserving", "rereading",
           "reserved", "consuming", "consumed", "granted", "running", "escalated",
           "confirming", "cleaning", "releasing", "refunding", "over", "reconciling"}

\* validState: a ledger is available or carries the receipt of its owner, and the
\* receipt it has given back names the generation it was for.
ValidLedger(l) == /\ (l.status = "available") = (l.owner = "nobody")
                  /\ l.released # "nobody" => l.refunded # 0

\* Every state the program keeps has one of these shapes.
TypeOK ==
    /\ ledger \in Ledger /\ ValidLedger(ledger)
    /\ record \in Record
    /\ read \in [Party -> {"stale", "open", "expired"}]
    /\ phase \in [Attempt -> Phases]
    /\ claim \in [Attempt -> [gen : 0..MaxGen, head : Heads]]
    /\ loop \in 0..MaxHead
    /\ world \in [head : Heads, label : {"attention", "human"}, minted : 1..MaxGen,
                  faults : 0..MaxFaults]
    /\ history \subseteq Attempt

-----------------------------------------------------------------------------
(* The ledger                                                               *)

\* prMatches(..., 'agent:needs-attention', 'needs-human')
Eligible(head) == world.head = head /\ world.label = "attention"
CanMint == world.minted < MaxGen
Minted == world.minted + 1

\* claimMatchesState, and no receipt of this attempt has been given back.
MayPrepare(a) ==
    /\ ledger.status = "available" /\ ~ledger.expired
    /\ ledger.gen = claim[a].gen /\ ledger.head = claim[a].head
    /\ a \notin {ledger.released, ledger.recovered}

PreparedBy(a) == /\ ledger.status = "prepared" /\ ledger.owner = a
                 /\ ledger.gen = claim[a].gen /\ ledger.head = claim[a].head

\* An exact retry of a release that was carried out.
ReleasedBy(a) == /\ ledger.status = "available" /\ ledger.head = claim[a].head
                 /\ ledger.released = a /\ ledger.refunded = claim[a].gen

Opened(gen, head, released, refunded) ==
    [status |-> "available", gen |-> gen, head |-> head, expired |-> FALSE,
     owner |-> "nobody", released |-> released, refunded |-> refunded,
     recovered |-> "nobody"]
Prepared(a) == [ledger EXCEPT !.status = "prepared", !.owner = a,
                   !.released = "nobody", !.refunded = 0, !.recovered = "nobody"]
Consumed == [ledger EXCEPT !.status = "consumed"]
Confirmed == [ledger EXCEPT !.status = "confirmed"]

\* The receipt stays in the ledger.
Released_slip(p) ==
    LET next == [ledger EXCEPT !.status = "available",
                    !.released = ledger.owner, !.refunded = ledger.gen]
    IN IF read[p] = "expired"
       THEN [next EXCEPT !.gen = Minted, !.expired = FALSE] ELSE next

\* p gives the preparation back; one it saw expired gets a window of its own.
Released(p) ==
    LET next == [ledger EXCEPT !.status = "available", !.owner = "nobody",
                    !.released = ledger.owner, !.refunded = ledger.gen]
    IN IF read[p] = "expired"
       THEN [next EXCEPT !.gen = Minted, !.expired = FALSE] ELSE next

Refreshed == [ledger EXCEPT !.gen = Minted, !.expired = FALSE]
Reopened == [ledger EXCEPT !.status = "available", !.gen = Minted, !.expired = FALSE,
                !.owner = "nobody", !.recovered = ledger.owner]

-----------------------------------------------------------------------------
Init ==
    /\ ledger = Opened(1, 1, "nobody", 0)
    /\ record = [owner |-> "nobody", status |-> "none", live |-> FALSE]
    /\ read = [p \in Party |-> "stale"]
    /\ phase = [a \in Attempt |-> "idle"]
    /\ claim = [a \in Attempt |-> [gen |-> 0, head |-> 1]]
    /\ loop = 0
    /\ world = [head |-> 1, label |-> "attention", minted |-> 1, faults |-> 0]
    /\ history = {}

Goto(a, p) == phase' = [phase EXCEPT ![a] = p]
Failing == /\ world.faults < MaxFaults
           /\ world' = [world EXCEPT !.faults = @ + 1]

\* A request of a fails and changes nothing.
Fault(a, next) ==
    /\ Failing
    /\ Goto(a, next)
    /\ UNCHANGED <<ledger, record, read, claim, loop, history>>

\* p has read the ledger and goes on to write it.
Hold(p) == read' = [read EXCEPT ![p] = IF ledger.expired THEN "expired" ELSE "open"]

\* Any write is accepted.
Put_slip(p, next) ==
    /\ ledger' = next
    /\ read' = [q \in Party |-> "stale"]
    /\ world' = IF next.gen > world.minted THEN [world EXCEPT !.minted = next.gen] ELSE world

\* The conditional write of p: nobody has written since it read the ledger.
Put(p, next) ==
    /\ read[p] # "stale"
    /\ ledger' = next
    /\ read' = [q \in Party |-> "stale"]
    /\ world' = IF next.gen > world.minted THEN [world EXCEPT !.minted = next.gen] ELSE world

\* The write is carried out but its answer is lost.
PutLost(p, next) ==
    /\ read[p] # "stale" /\ world.faults < MaxFaults
    /\ ledger' = next
    /\ read' = [q \in Party |-> "stale"]
    /\ world' = [world EXCEPT !.faults = @ + 1,
                    !.minted = IF next.gen > @ THEN next.gen ELSE @]

\* The write is refused, or fails.
Refused(p) ==
    /\ \/ read[p] = "stale" /\ UNCHANGED world
       \/ Failing
    /\ read' = [read EXCEPT ![p] = "stale"]
    /\ UNCHANGED ledger

\* a writes next: answered it goes to "done", else to "failed".
Write(a, next, done, failed) ==
    /\ \/ Put(a, next) /\ Goto(a, done)
       \/ PutLost(a, next) /\ Goto(a, failed)
       \/ Refused(a) /\ Goto(a, failed)
    /\ UNCHANGED <<record, claim, loop, history>>

\* a reads the ledger and goes on to write it if "may", else somewhere else.
Look(a, may, next, otherwise) ==
    /\ \/ may /\ Hold(a) /\ Goto(a, next) /\ UNCHANGED world
       \/ ~may /\ Goto(a, otherwise) /\ UNCHANGED <<read, world>>
    /\ UNCHANGED <<ledger, record, claim, loop, history>>

\* A step of a that changes none of the two stores.
Step(a, next) ==
    /\ Goto(a, next)
    /\ UNCHANGED <<ledger, record, read, claim, loop, world, history>>

-----------------------------------------------------------------------------
(* should_dispatch with a challenge, in the job that evaluates              *)

OwnPending(a) == record.owner = a /\ record.status = "pending"
Live == record.status = "pending" /\ record.live
Ended(status) == [record EXCEPT !.status = status, !.live = FALSE]

\* The sweep dispatches a run with the claim of the challenge that is due; the run
\* goes on unless somebody's reservation is live.
Dispatch(a) ==
    /\ phase[a] = "idle"
    /\ ledger.status = "available" /\ ~ledger.expired /\ ~Live
    /\ claim' = [claim EXCEPT ![a] = [gen |-> ledger.gen, head |-> ledger.head]]
    /\ Goto(a, "preparing")
    /\ UNCHANGED <<ledger, record, read, loop, world, history>>

\* prepareChallenge, behind the check of the pull request by the command line
Prepare(a) ==
    \/ /\ phase[a] = "preparing"
       /\ \/ Look(a, Eligible(claim[a].head) /\ MayPrepare(a), "binding", "over")
          \/ Fault(a, "over")
    \/ phase[a] = "binding" /\ Write(a, Prepared(a), "prepared", "over")

\* Preparation does not lock the reservation: the record is read again.
RecheckRecord(a) ==
    /\ phase[a] = "prepared"
    /\ Step(a, IF Live THEN "releasing" ELSE "reserving") \/ Fault(a, "over")

Reserve(a) ==
    /\ phase[a] = "reserving"
    /\ LET Posted == record' = [owner |-> a, status |-> "pending", live |-> TRUE]
       IN \/ Posted /\ Goto(a, "reserved") /\ UNCHANGED world
          \/ Failing /\ Goto(a, "rereading") /\ (Posted \/ UNCHANGED record)
    /\ UNCHANGED <<ledger, read, claim, loop, history>>

\* A reservation that could not be written is refunded like one that failed.
Reread_slip(a) ==
    /\ phase[a] = "rereading"
    /\ \/ Step(a, "releasing")
       \/ Fault(a, "over")

\* After an ambiguous write only a confirmed absence permits the refund.
Reread(a) ==
    /\ phase[a] = "rereading"
    /\ \/ Step(a, CASE record.status = "none" -> "releasing"
                    [] OwnPending(a) -> "reserved"
                    [] OTHER -> "over")
       \/ Fault(a, "over")

-----------------------------------------------------------------------------
(* The later jobs of the run                                                *)

\* The preflight fails, or finalizeChallenge consumes what this attempt prepared.
Consume(a) ==
    \/ /\ phase[a] = "reserved"
       /\ \/ Step(a, "cleaning")
          \/ Look(a, Eligible(claim[a].head) /\ PreparedBy(a), "consuming", "cleaning")
    \/ phase[a] = "consuming" /\ Write(a, Consumed, "consumed", "cleaning")

\* Before the grant is given, the pull request must still be the one read before
\* the write, and the reservation this attempt's.
Grant(a) ==
    /\ phase[a] = "consumed"
    /\ \/ Step(a, IF Eligible(claim[a].head) /\ OwnPending(a)
                  THEN "granted" ELSE "cleaning")
       \/ Fault(a, "cleaning")

\* release_authority_challenge: the reservation becomes terminal, and only then
\* is the preparation given back.
Clean(a) ==
    /\ phase[a] = "cleaning"
    /\ LET Closed == record' = Ended("failed")
       IN \/ OwnPending(a) /\ Closed /\ Goto(a, "releasing") /\ UNCHANGED world
          \/ /\ ~OwnPending(a) /\ UNCHANGED <<record, world>>
             /\ Goto(a, IF record.owner = a /\ record.status = "failed"
                        THEN "releasing" ELSE "over")
          \/ Failing /\ Goto(a, "over") /\ ((OwnPending(a) /\ Closed) \/ UNCHANGED record)
    /\ UNCHANGED <<ledger, read, claim, loop, history>>

\* releasePreparedChallenge by the attempt itself: what it prepared is given
\* back; what was given back already gets a new window if it expired.
Release(a) ==
    \/ /\ phase[a] = "releasing"
       /\ \/ Look(a, /\ Eligible(claim[a].head)
                     /\ PreparedBy(a) \/ (ReleasedBy(a) /\ ledger.expired)
                     /\ ledger.expired => CanMint,
                  "refunding", "over")
          \/ Fault(a, "over")
    \/ /\ phase[a] = "refunding"
       /\ Write(a, IF ledger.status = "prepared" THEN Released(a) ELSE Refreshed,
                "over", "over")

\* The agent's job starts; it works on the pull request and completes its
\* record; a run that meets the boundary again asks for a human.
Start(a) ==
    /\ phase[a] = "granted"
    /\ Goto(a, "running")
    /\ history' = history \cup {a}
    /\ UNCHANGED <<ledger, record, read, claim, loop, world>>

Finish(a) ==
    /\ phase[a] = "running"
    /\ record' = IF OwnPending(a) THEN Ended("done") ELSE record
    /\ \/ Goto(a, "over") /\ UNCHANGED world
       \/ Goto(a, "escalated") /\ world' = [world EXCEPT !.label = "human"]
    /\ UNCHANGED <<ledger, read, claim, loop, history>>

\* confirmChallenge, tried again after a failure
Confirm(a) ==
    \/ /\ phase[a] = "escalated"
       /\ \/ Look(a, /\ ledger.status = "consumed" /\ ledger.owner = a /\ ~ledger.expired
                     /\ ledger.gen = claim[a].gen /\ ledger.head = claim[a].head
                     /\ world.head = ledger.head /\ world.label = "human",
                  "confirming", "over")
          \/ Fault(a, "escalated")
    \/ phase[a] = "confirming" /\ Write(a, Confirmed, "over", "escalated")

\* The run is cancelled or its machine is lost.
Die(a) ==
    /\ phase[a] \notin {"idle", "over", "reconciling"}
    /\ Goto(a, "over")
    /\ read' = [read EXCEPT ![a] = "stale"]
    /\ UNCHANGED <<ledger, record, claim, loop, world, history>>

-----------------------------------------------------------------------------
(* The reporter and the loop                                                *)

\* What the API's answer about a's jobs shows of the agent: that it started, that
\* it did not, or, whenever something is missing from it, nothing.
Evidence(a) == {"unknown", IF a \in history THEN "started" ELSE "not-started"}

\* Whatever does not show that the agent started permits the recovery.
Disproves_slip(evidence) == evidence # "started"

Disproves(evidence) == evidence = "not-started"

\* What reconcileFailedAuthorityAttempt can give back of an attempt whose run is
\* over and whose agent never started.
Recoverable(a) ==
    \/ /\ ledger.status = "available" /\ a \in {ledger.released, ledger.recovered}
       /\ ledger.expired /\ Eligible(ledger.head) /\ CanMint
    \/ /\ ledger.status = "prepared" /\ ledger.owner = a
       /\ ledger.expired => Eligible(ledger.head) /\ CanMint
    \/ /\ ledger.status = "consumed" /\ ledger.owner = a
       /\ Eligible(ledger.head) /\ CanMint

\* The reporter forgets to ask whether the agent had started.
Reconcile_slip(a) ==
    \/ /\ phase[a] = "over"
       /\ Recoverable(a)
       /\ Look(a, TRUE, "reconciling", "over")
    \/ /\ phase[a] = "reconciling"
       /\ Write(a, CASE ledger.status = "prepared" -> Released(a)
                     [] ledger.status = "consumed" -> Reopened
                     [] OTHER -> Refreshed, "over", "over")

\* The reporter, on a run that is over, or the hourly sweep's replay of it.  It
\* need not come to it: the event reports only some conclusions and once
\* (keepalive-loop-reporter.yml:24-26), and the replay stops where the run's head
\* is not the receipt's (keepalive_reporter_applicability.js:227).
Reconcile(a) ==
    \/ /\ phase[a] = "over"
       /\ \E evidence \in Evidence(a) : Disproves(evidence)
       /\ Recoverable(a)
       /\ Look(a, TRUE, "reconciling", "over")
    \/ /\ phase[a] = "reconciling"
       /\ Write(a, CASE ledger.status = "prepared" -> Released(a)
                     [] ledger.status = "consumed" -> Reopened
                     [] OTHER -> Refreshed, "over", "over")

\* beginChallenge: a head without a challenge gets one, an available challenge is
\* replaced when it expired or the boundary is another one, an expired preparation
\* is reaped.  Runs of one pull request are serialised, so that none opens a
\* challenge for a head older than the ledger's.  The reporter updates the summary
\* outside of that order, but opens no challenge: it passes no agent output and no
\* reason, so that the category is never the 'auth' that a challenge is due for
\* (keepalive_loop.js:1451-1460, 384-398, 4879).
BeginRead(h) ==
    /\ loop = 0
    /\ h \in ledger.head..world.head
    /\ CanMint
    /\ \/ ledger.head # h
       \/ ledger.status = "available"
       \/ ledger.status = "prepared" /\ ledger.expired /\ Eligible(ledger.head)
    /\ Hold("loop")
    /\ loop' = h
    /\ UNCHANGED <<ledger, record, phase, claim, world, history>>

\* The receipt that was given back stays known on its head.
BeginNext ==
    CASE ledger.head # loop -> Opened(Minted, loop, "nobody", 0)
      [] ledger.head = loop /\ ledger.status = "prepared" -> Released("loop")
      [] OTHER -> Opened(Minted, loop, ledger.released, ledger.refunded)

BeginWrite ==
    /\ loop # 0
    /\ Put("loop", BeginNext) \/ PutLost("loop", BeginNext) \/ Refused("loop")
    /\ loop' = 0
    /\ UNCHANGED <<record, phase, claim, history>>

-----------------------------------------------------------------------------
(* What else happens to the pull request                                    *)

Expire ==
    /\ ~ledger.expired
    /\ ledger' = [ledger EXCEPT !.expired = TRUE]
    /\ UNCHANGED <<record, read, phase, claim, loop, world, history>>

Push ==
    /\ world.head < MaxHead
    /\ world' = [world EXCEPT !.head = @ + 1]
    /\ UNCHANGED <<ledger, record, read, phase, claim, loop, history>>

\* Somebody sets or removes needs-human.
Relabel ==
    /\ world' = [world EXCEPT !.label = IF @ = "human" THEN "attention" ELSE "human"]
    /\ UNCHANGED <<ledger, record, read, phase, claim, loop, history>>

\* Dispatches without a challenge use the same record, and a reservation ages.
Others ==
    /\ \/ ~Live /\ record' = [owner |-> "other", status |-> "pending", live |-> TRUE]
       \/ record.owner = "other" /\ record' = Ended("done")
       \/ Live /\ record' = [record EXCEPT !.live = FALSE]
    /\ record' # record
    /\ UNCHANGED <<ledger, read, phase, claim, loop, world, history>>

Act(a) == \/ Dispatch(a) \/ Prepare(a) \/ RecheckRecord(a) \/ Reserve(a)
          \/ Reread(a) \/ Consume(a) \/ Grant(a) \/ Clean(a) \/ Release(a)
          \/ Start(a) \/ Finish(a) \/ Confirm(a) \/ Die(a) \/ Reconcile(a)

Next == \/ \E a \in Attempt : Act(a)
        \/ \E h \in Heads : BeginRead(h)
        \/ BeginWrite \/ Expire \/ Push \/ Relabel \/ Others

Spec == Init /\ [][Next]_vars

-----------------------------------------------------------------------------
(* What the challenge promises                                              *)

\* One privileged run per head: two attempts never start their agents for the
\* same head commit, whatever was released, reaped, reopened or minted in between
\* (beginChallenge, keepalive_authority_state.js:484-551; reopenUnconfirmed-
\* Challenge, 877-927).
OneRunPerHead ==
    \A a, b \in history : a # b => claim[a].head # claim[b].head

\* An attempt that gives its preparation back leaves no reservation of its own
\* ("could leave a live primary reservation and a reusable authority
\* generation", core.py:1598-1604).
ReleaseLeavesNoReservation ==
    [][\A a \in Attempt : (phase[a] = "refunding" /\ ledger.status = "prepared"
                             /\ ledger'.released = a) => ~OwnPending(a)]_vars

\* A licence comes back only unspent: an attempt whose agent has started, or is
\* about to, keeps its receipt on the ledger for as long as the ledger is for that
\* head.  Whoever gives receipts back (the attempt, the loop's reaping, the
\* reporter), and however old what it read or was told, it cannot take this one
\* ("A missing or incomplete jobs response is unknown, never a safe refund",
\* keepalive_worker_evidence.js:7).
LicenceStaysSpent ==
    \A a \in Attempt :
        (a \in history \/ phase[a] = "granted") /\ ledger.head = claim[a].head
            => ledger.owner = a /\ ledger.status \in {"consumed", "confirmed"}
=============================================================================
