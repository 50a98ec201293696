---------------------------- MODULE AgentProofs ----------------------------
(***************************************************************************)
(* What the two modules about agents keep: AuthorityDispatch, who starts   *)
(* an agent on a pull request, and PrVerifier, what the review of its      *)
(* result is worth.                                                        *)
(*                                                                         *)
(* What the ledger of AuthorityDispatch keeps, for any number of attempts, *)
(* generations, head commits and failing requests, rests on the            *)
(* conditional write: while a party's read is not stale, what it saw when  *)
(* it decided to write is still so.  Held and LoopHeld say what that is,   *)
(* at each place where a write is pending.  An attempt that consumed the   *)
(* ledger is then backed by it until its head is left behind               *)
(* (SecuredAreBacked), because whoever could give the receipt back has     *)
(* either seen another status or knows that no agent started.              *)
(*                                                                         *)
(* What PrVerifier keeps, for any change, division into requests, answers  *)
(* and judges, is in PlanInv, of the partition of the input, and           *)
(* ReviewInv.  The heart of the latter is ReviewsTell: the result kept of  *)
(* each request says what its answer said, or that there was none; then    *)
(* the verdict on all of them cannot say less.  How a change is divided    *)
(* into requests is a recursion over its files: the first file after which *)
(* Packed fails, were there one, has it of the files before and so cannot  *)
(* break it.                                                               *)
(***************************************************************************)
EXTENDS AuthorityDispatch, PrVerifier, FiniteSetTheorems, WellFoundedInduction, TLAPS

Fresh(p) == read[p] # "stale"

\* The phases after the start of the agent, and those an attempt whose agent
\* started may be in.
Working == {"running", "escalated", "confirming"}

Licensed(a) == a \in history \/ phase[a] = "granted"
Secured(a) == Licensed(a) \/ phase[a] = "consumed"

Backed(a) ==
    \/ ledger.head > claim[a].head
    \/ /\ ledger.head = claim[a].head /\ ledger.owner = a
       /\ ledger.status \in {"consumed", "confirmed"}

\* The ledger is never ahead of the pull request.
LedgerFollows == ledger.head <= world.head /\ loop <= world.head

StartedAreHistory ==
    \A a \in Attempt : /\ a \in history => phase[a] \in Working \cup {"over"}
                       /\ phase[a] \in Working => a \in history

SecuredAreBacked == \A a \in Attempt : Secured(a) => Backed(a)

LicensedApart ==
    \A a, b \in Attempt : a # b /\ Licensed(a) /\ Licensed(b)
                             => claim[a].head # claim[b].head

\* What a still knows of the ledger when it is about to write it.
HeldBy(a) ==
    /\ phase[a] = "binding" => ledger.status = "available"
    /\ phase[a] = "consuming" => /\ ledger.status = "prepared" /\ ledger.owner = a
                                 /\ ledger.head = claim[a].head
    /\ phase[a] = "refunding" => /\ ledger.status \in {"available", "prepared"}
                                 /\ read[a] = "expired" \/ ledger.status = "available"
                                       => CanMint
    /\ phase[a] = "confirming" => ledger.status = "consumed" /\ ledger.owner = a
    /\ phase[a] = "reconciling" =>
          /\ a \notin history
          /\ \/ ledger.status = "available"
             \/ ledger.status \in {"prepared", "consumed"} /\ ledger.owner = a
          /\ read[a] = "expired" \/ ledger.status # "prepared" => CanMint

Held == \A a \in Attempt : Fresh(a) => HeldBy(a)

LoopHeld ==
    loop # 0 /\ Fresh("loop") =>
        /\ ledger.head <= loop /\ CanMint
        /\ ledger.head = loop => ledger.status \in {"available", "prepared"}

IInv == /\ TypeOK /\ LedgerFollows /\ StartedAreHistory /\ SecuredAreBacked
        /\ LicensedApart /\ Held /\ LoopHeld

\* The side of the dispatch record: who has not reserved yet owns no record, and
\* who gives the preparation back has no reservation left.
RInv ==
    \A a \in Attempt :
        /\ phase[a] \in {"idle", "preparing", "binding", "prepared", "reserving"}
              => record.owner # a
        /\ phase[a] \in {"releasing", "refunding"} => ~OwnPending(a)

World == [head : Heads, label : {"attention", "human"}, minted : 1..MaxGen,
          faults : 0..MaxFaults]
Holding == {"binding", "consuming", "refunding", "confirming", "reconciling"}

-----------------------------------------------------------------------------
(***************************************************************************)
(* The initial states.                                                     *)
(***************************************************************************)
LEMMA InitKeeps == Init => IInv /\ RInv
<1> SUFFICES ASSUME Init
             PROVE  IInv /\ RInv
  OBVIOUS
<1>1. TypeOK
  BY BoundAssumption DEF Init, TypeOK, Opened, Ledger, ValidLedger, Record, Party, Owner,
                         Heads, Phases
<1>2. LedgerFollows /\ LoopHeld
  BY BoundAssumption DEF Init, LedgerFollows, LoopHeld, Opened
<1>3. StartedAreHistory /\ SecuredAreBacked /\ LicensedApart /\ Held
  BY DEF Init, StartedAreHistory, SecuredAreBacked, LicensedApart, Held, HeldBy, Secured,
         Licensed, Working, Fresh, Party
<1>4. RInv
  BY AttemptAssumption DEF Init, RInv, OwnPending
<1>5. QED
  BY <1>1, <1>2, <1>3, <1>4 DEF IInv

-----------------------------------------------------------------------------
(***************************************************************************)
(* A step that leaves the ledger alone and takes an attempt to a phase in  *)
(* which it neither writes the ledger nor holds it consumed.               *)
(***************************************************************************)
LEMMA CalmStep ==
  ASSUME IInv, NEW a \in Attempt, NEW ph \in Phases \ (Holding \cup {"consumed", "granted"}),
         phase' = [phase EXCEPT ![a] = ph],
         UNCHANGED <<ledger, claim, loop, history>>,
         read' \in [Party -> {"stale", "open", "expired"}],
         \A p \in Party : read'[p] \in {read[p], "stale"},
         record' \in Record,
         world' \in World, world'.head = world.head, world'.minted = world.minted,
         a \in history => ph \in Working \cup {"over"},
         ph \in Working => a \in history
  PROVE  IInv'
<1>1. phase \in [Attempt -> Phases] /\ ph \in Phases
  BY DEF IInv, TypeOK
<1>2. \A b \in Attempt : phase'[b] = IF b = a THEN ph ELSE phase[b]
  BY <1>1
<1>3. TypeOK'
  BY <1>1 DEF IInv, TypeOK, World, ValidLedger
<1>4. LedgerFollows'
  BY DEF IInv, LedgerFollows
<1>5. StartedAreHistory'
  BY <1>2 DEF IInv, StartedAreHistory
<1>6. \A b \in Attempt : (Licensed(b)' => Licensed(b)) /\ (Secured(b)' => Secured(b))
  BY <1>2 DEF Licensed, Secured
<1>7. SecuredAreBacked'
  BY <1>6 DEF IInv, SecuredAreBacked, Backed
<1>8. LicensedApart'
  BY <1>6 DEF IInv, LicensedApart
<1>9. Held'
  <2> SUFFICES ASSUME NEW b \in Attempt, Fresh(b)'
               PROVE  HeldBy(b)'
    BY DEF Held
  <2>1. read'[b] = read[b] /\ Fresh(b)
    BY DEF Fresh, Party
  <2>2. HeldBy(b)
    BY <2>1 DEF IInv, Held
  <2>3. CASE b = a
    BY <1>2, <2>3 DEF HeldBy, Holding
  <2>4. CASE b # a
    BY <1>2, <2>1, <2>2, <2>4 DEF HeldBy, CanMint
  <2>5. QED
    BY <2>3, <2>4
<1>10. LoopHeld'
  BY DEF IInv, LoopHeld, Fresh, Party, CanMint
<1>11. QED
  BY <1>3, <1>4, <1>5, <1>7, <1>8, <1>9, <1>10 DEF IInv

(***************************************************************************)
(* A conditional write that was accepted: nobody's read is fresh any more. *)
(***************************************************************************)
LEMMA WriteStep ==
  ASSUME IInv, NEW next \in Ledger, ValidLedger(next),
         ledger' = next, read' = [q \in Party |-> "stale"],
         phase' \in [Attempt -> Phases],
         UNCHANGED <<record, claim, history>>, loop' \in {0, loop},
         world' \in World, world'.head = world.head,
         ledger.head <= next.head, next.head <= world.head,
         \A b \in Attempt : /\ b \in history => phase'[b] \in Working \cup {"over"}
                            /\ phase'[b] \in Working => b \in history
                            /\ phase'[b] = "granted" => phase[b] = "granted",
         \A b \in Attempt : Secured(b)' => Backed(b)'
  PROVE  IInv'
<1>0. ValidLedger(ledger')
  OBVIOUS
<1>t. /\ ledger' \in Ledger /\ record' \in Record
      /\ read' \in [Party -> {"stale", "open", "expired"}]
      /\ claim' \in [Attempt -> [gen : 0..MaxGen, head : Heads]]
      /\ loop' \in 0..MaxHead /\ history' \subseteq Attempt
  BY BoundAssumption DEF IInv, TypeOK
<1>1. TypeOK'
  BY <1>0, <1>t DEF TypeOK, World
<1>2. LedgerFollows'
  BY BoundAssumption DEF IInv, TypeOK, LedgerFollows, Ledger, World, Heads
<1>3. StartedAreHistory' /\ SecuredAreBacked'
  BY DEF StartedAreHistory, SecuredAreBacked
<1>4. LicensedApart'
  BY DEF IInv, LicensedApart, Licensed
<1>5. Held' /\ LoopHeld'
  BY DEF Held, LoopHeld, Fresh, Party
<1>6. QED
  BY <1>1, <1>2, <1>3, <1>4, <1>5 DEF IInv

(***************************************************************************)
(* An attempt that reads the ledger to write it later.                     *)
(***************************************************************************)
LEMMA HoldStep ==
  ASSUME IInv, NEW a \in Attempt, NEW ph \in Holding,
         phase' = [phase EXCEPT ![a] = ph], Hold(a),
         UNCHANGED <<ledger, record, claim, loop, world, history>>,
         HeldBy(a)',
         a \in history => ph = "confirming",
         ph = "confirming" => a \in history
  PROVE  IInv'
<1>1. phase \in [Attempt -> Phases] /\ ph \in Phases /\ a \in Party
  BY DEF IInv, TypeOK, Holding, Phases, Party
<1>2. \A b \in Attempt : phase'[b] = IF b = a THEN ph ELSE phase[b]
  BY <1>1
<1>3. /\ read' \in [Party -> {"stale", "open", "expired"}]
      /\ \A p \in Party : p # a => read'[p] = read[p]
  BY <1>1 DEF IInv, TypeOK, Hold
<1>4. TypeOK'
  BY <1>1, <1>3 DEF IInv, TypeOK, ValidLedger
<1>5. StartedAreHistory'
  BY <1>2 DEF IInv, StartedAreHistory, Holding, Working
<1>6. \A b \in Attempt : (Licensed(b)' => Licensed(b)) /\ (Secured(b)' => Secured(b))
  BY <1>2 DEF Licensed, Secured, Holding
<1>7. SecuredAreBacked' /\ LicensedApart' /\ LedgerFollows'
  BY <1>6 DEF IInv, SecuredAreBacked, Backed, LicensedApart, LedgerFollows
<1>8. Held'
  <2> SUFFICES ASSUME NEW b \in Attempt, Fresh(b)', b # a
               PROVE  HeldBy(b)'
    BY DEF Held
  <2>1. read'[b] = read[b] /\ HeldBy(b)
    BY <1>3 DEF IInv, Held, Fresh, Party
  <2>2. QED
    BY <1>2, <2>1 DEF HeldBy, CanMint
<1>9. LoopHeld'
  BY <1>3, AttemptAssumption DEF IInv, LoopHeld, Fresh, Party, CanMint
<1>10. QED
  BY <1>4, <1>5, <1>7, <1>8, <1>9 DEF IInv

-----------------------------------------------------------------------------
(***************************************************************************)
(* The operators from which the actions are built.                         *)
(***************************************************************************)
Calm == Phases \ (Holding \cup {"consumed", "granted"})

LEMMA FailingTyped ==
  ASSUME world \in World, Failing
  PROVE  world' \in World /\ world'.head = world.head /\ world'.minted = world.minted
BY BoundAssumption DEF Failing, World

LEMMA FaultKeeps ==
  ASSUME IInv, NEW a \in Attempt, NEW ph \in Calm, Fault(a, ph),
         a \in history => ph \in Working \cup {"over"},
         ph \in Working => a \in history
  PROVE  IInv'
<1>1. world \in World /\ record \in Record /\ read \in [Party -> {"stale", "open", "expired"}]
  BY DEF IInv, TypeOK, World
<1>2. Failing /\ phase' = [phase EXCEPT ![a] = ph]
      /\ UNCHANGED <<ledger, record, read, claim, loop, history>>
  BY DEF Fault, Goto
<1>3. world' \in World /\ world'.head = world.head /\ world'.minted = world.minted
  BY <1>1, <1>2, FailingTyped
<1>4. ph \in Phases \ (Holding \cup {"consumed", "granted"})
  BY DEF Calm
<1>5. QED
  BY <1>1, <1>2, <1>3, <1>4, CalmStep

LEMMA StepKeeps ==
  ASSUME IInv, NEW a \in Attempt, NEW ph \in Calm, Step(a, ph),
         a \in history => ph \in Working \cup {"over"},
         ph \in Working => a \in history
  PROVE  IInv'
<1>1. world \in World /\ record \in Record /\ read \in [Party -> {"stale", "open", "expired"}]
  BY DEF IInv, TypeOK, World
<1>2. phase' = [phase EXCEPT ![a] = ph]
      /\ UNCHANGED <<ledger, record, read, claim, loop, world, history>>
  BY DEF Step, Goto
<1>3. ph \in Phases \ (Holding \cup {"consumed", "granted"})
  BY DEF Calm
<1>4. QED
  BY <1>1, <1>2, <1>3, CalmStep

\* A write that was carried out, with or without an answer.
LEMMA Accepted ==
  ASSUME world \in World, NEW p \in Party, NEW next,
         Put(p, next) \/ PutLost(p, next)
  PROVE  /\ Fresh(p) /\ ledger' = next /\ read' = [q \in Party |-> "stale"]
         /\ world'.head = world.head
         /\ next \in Ledger => world' \in World
<1>1. Fresh(p) /\ ledger' = next /\ read' = [q \in Party |-> "stale"]
  BY DEF Put, PutLost, Fresh
<1>2. world'.head = world.head /\ (next \in Ledger => world' \in World)
  <2>1. CASE Put(p, next)
    BY <2>1 DEF Put, World, Ledger
  <2>2. CASE PutLost(p, next)
    <3> DEFINE minted == IF next.gen > world.minted THEN next.gen ELSE world.minted
    <3>1. world' = [world EXCEPT !.faults = world.faults + 1, !.minted = minted]
      BY <2>2 DEF PutLost
    <3>2. next \in Ledger => minted \in 1..MaxGen
      BY DEF World, Ledger
    <3>3. world.faults + 1 \in 0..MaxFaults
      BY <2>2, BoundAssumption DEF PutLost, World
    <3> HIDE DEF minted
    <3>4. QED
      BY <3>1, <3>2, <3>3 DEF World
  <2>3. QED
    BY <2>1, <2>2
<1>3. QED
  BY <1>1, <1>2

LEMMA WriteKeeps ==
  ASSUME IInv, NEW a \in Attempt, NEW next,
         NEW done \in Calm \cup {"consumed"}, NEW failed \in Calm,
         Write(a, next, done, failed),
         Fresh(a) =>
           /\ next \in Ledger /\ ValidLedger(next) /\ next.head = ledger.head
           /\ \A b \in Attempt : Secured(b) =>
                \/ ledger.head > claim[b].head
                \/ next.owner = ledger.owner /\ next.status \in {"consumed", "confirmed"}
           /\ done = "consumed" =>
                next.owner = a /\ next.status = "consumed" /\ next.head = claim[a].head,
         a \in history => {done, failed} \subseteq Working \cup {"over"},
         a \notin history => {done, failed} \cap Working = {}
  PROVE  IInv'
<1>1. /\ world \in World /\ record \in Record /\ phase \in [Attempt -> Phases] /\ a \in Party
      /\ read \in [Party -> {"stale", "open", "expired"}]
  BY DEF IInv, TypeOK, World, Party
<1>2. UNCHANGED <<record, claim, loop, history>>
  BY DEF Write
<1>3. CASE Refused(a) /\ Goto(a, failed)
  <2>1. /\ ledger' = ledger /\ read' = [read EXCEPT ![a] = "stale"]
        /\ Failing \/ world' = world
    BY <1>3 DEF Refused
  <2>2. world' \in World /\ world'.head = world.head /\ world'.minted = world.minted
    BY <1>1, <2>1, FailingTyped
  <2>3. phase' = [phase EXCEPT ![a] = failed]
    BY <1>3 DEF Goto
  <2>4. /\ read' \in [Party -> {"stale", "open", "expired"}]
        /\ \A p \in Party : read'[p] \in {read[p], "stale"}
    BY <1>1, <2>1
  <2>5. failed \in Phases \ (Holding \cup {"consumed", "granted"})
    BY DEF Calm
  <2>6. QED
    BY <1>1, <1>2, <2>1, <2>2, <2>3, <2>4, <2>5, CalmStep
<1>4. ASSUME NEW ph \in {done, failed}, Goto(a, ph), Put(a, next) \/ PutLost(a, next),
             ph = "consumed" => done = "consumed"
      PROVE  IInv'
  <2>1. /\ Fresh(a) /\ ledger' = next /\ read' = [q \in Party |-> "stale"]
        /\ world'.head = world.head /\ (next \in Ledger => world' \in World)
    BY <1>1, <1>4, Accepted
  <2>2. \A b \in Attempt : phase'[b] = IF b = a THEN ph ELSE phase[b]
    BY <1>1, <1>4 DEF Goto
  <2>3. ph \in Phases /\ ph # "granted" /\ phase' \in [Attempt -> Phases]
    BY <1>1, <1>4 DEF Goto, Calm, Phases
  <2>4. \A b \in Attempt : /\ b \in history => phase'[b] \in Working \cup {"over"}
                           /\ phase'[b] \in Working => b \in history
                           /\ phase'[b] = "granted" => phase[b] = "granted"
    BY <2>2, <2>3 DEF IInv, StartedAreHistory
  <2>5. ASSUME NEW b \in Attempt, Secured(b)'
        PROVE  Backed(b)'
    <3>1. CASE Secured(b)
      BY <1>2, <2>1, <3>1 DEF IInv, SecuredAreBacked, Backed
    <3>2. CASE ~Secured(b)
      <4>1. b = a /\ ph = "consumed"
        BY <1>2, <2>2, <2>3, <2>5, <3>2 DEF Secured, Licensed
      <4>2. QED
        BY <1>2, <1>4, <2>1, <4>1 DEF Backed
    <3>3. QED
      BY <3>1, <3>2
  <2>6. ledger.head <= next.head /\ next.head <= world.head
    BY <2>1, BoundAssumption DEF IInv, LedgerFollows, TypeOK, Ledger, Heads
  <2>7. QED
    BY <1>2, <2>1, <2>3, <2>4, <2>5, <2>6, WriteStep
<1>5. QED
  BY <1>3, <1>4 DEF Write, Calm

\* What each write of the ledger leaves: a ledger of the right shape on the same
\* head, in a known status, owned as before or by nobody.
LEMMA LedgerWrites ==
  ASSUME IInv
  PROVE  /\ \A a \in Attempt : /\ Prepared(a) \in Ledger /\ ValidLedger(Prepared(a))
                              /\ Prepared(a).head = ledger.head
         /\ \A p \in Party :
              (ledger.status = "prepared" /\ (read[p] = "expired" => CanMint)) =>
                /\ Released(p) \in Ledger /\ ValidLedger(Released(p))
                /\ Released(p).head = ledger.head
         /\ CanMint =>
              /\ Refreshed \in Ledger /\ ValidLedger(Refreshed)
              /\ Refreshed.head = ledger.head /\ Refreshed.owner = ledger.owner
              /\ Refreshed.status = ledger.status
              /\ Reopened \in Ledger /\ ValidLedger(Reopened)
              /\ Reopened.head = ledger.head
         /\ ledger.status = "consumed" =>
              /\ Confirmed \in Ledger /\ ValidLedger(Confirmed)
              /\ Confirmed.head = ledger.head /\ Confirmed.owner = ledger.owner
              /\ Confirmed.status = "confirmed"
<1>1. /\ ledger \in Ledger /\ ValidLedger(ledger)
      /\ MaxGen \in Nat /\ 0 \in 0..MaxGen /\ ledger.gen \in 0..MaxGen
      /\ "nobody" \notin Attempt /\ ledger.head \in Heads
  BY BoundAssumption, AttemptAssumption DEF IInv, TypeOK, Ledger
<1>2. CanMint => Minted \in 1..MaxGen
  BY <1>1 DEF IInv, TypeOK, CanMint, Minted
<1>3. ASSUME NEW a \in Attempt
      PROVE  /\ Prepared(a) \in Ledger /\ ValidLedger(Prepared(a))
             /\ Prepared(a).head = ledger.head
  <2>1. /\ Prepared(a).status = "prepared" /\ Prepared(a).owner = a
        /\ Prepared(a).released = "nobody" /\ Prepared(a).head = ledger.head
    BY <1>1 DEF Prepared, Ledger
  <2>2. Prepared(a) \in Ledger
    BY <1>1 DEF Prepared, Ledger, Owner
  <2>3. QED
    BY <1>1, <2>1, <2>2 DEF ValidLedger
<1>4. ASSUME NEW p \in Party, ledger.status = "prepared", read[p] = "expired" => CanMint
      PROVE  /\ Released(p) \in Ledger /\ ValidLedger(Released(p))
             /\ Released(p).head = ledger.head
  <2>1. /\ Released(p).status = "available" /\ Released(p).owner = "nobody"
        /\ Released(p).refunded = ledger.gen /\ Released(p).head = ledger.head
    BY <1>1 DEF Released, Ledger
  <2>2. Released(p) \in Ledger
    BY <1>1, <1>2, <1>4 DEF Released, Ledger, Owner
  <2>3. ledger.gen # 0
    BY <1>1 DEF Ledger
  <2>4. QED
    BY <2>1, <2>2, <2>3 DEF ValidLedger
<1>5. ASSUME CanMint
      PROVE  /\ Refreshed \in Ledger /\ ValidLedger(Refreshed)
             /\ Refreshed.head = ledger.head /\ Refreshed.owner = ledger.owner
             /\ Refreshed.status = ledger.status
  <2>1. Minted \in 1..MaxGen
    BY <1>2, <1>5
  <2>2. QED
    BY <1>1, <2>1 DEF Refreshed, Ledger, ValidLedger
<1>6. ASSUME CanMint
      PROVE  /\ Reopened \in Ledger /\ ValidLedger(Reopened)
             /\ Reopened.head = ledger.head
  <2>1. Minted \in 1..MaxGen
    BY <1>2, <1>6
  <2>2. QED
    BY <1>1, <2>1 DEF Reopened, Ledger, ValidLedger, Owner
<1>7. ASSUME ledger.status = "consumed"
      PROVE  /\ Confirmed \in Ledger /\ ValidLedger(Confirmed)
             /\ Confirmed.head = ledger.head /\ Confirmed.owner = ledger.owner
             /\ Confirmed.status = "confirmed"
  BY <1>1, <1>7 DEF Confirmed, Ledger, ValidLedger
<1>8. QED
  BY <1>3, <1>4, <1>5, <1>6, <1>7

-----------------------------------------------------------------------------
(***************************************************************************)
(* The actions of an attempt, one lemma each.                              *)
(***************************************************************************)
LEMMA DispatchKeeps ==
  ASSUME IInv, NEW a \in Attempt, Dispatch(a)
  PROVE  IInv'
<1>1. /\ phase[a] = "idle" /\ a \notin history
      /\ phase' = [phase EXCEPT ![a] = "preparing"]
      /\ claim' = [claim EXCEPT ![a] = [gen |-> ledger.gen, head |-> ledger.head]]
      /\ UNCHANGED <<ledger, record, read, loop, world, history>>
  BY DEF Dispatch, Goto, IInv, StartedAreHistory, Working
<1>2. \A b \in Attempt : /\ phase'[b] = IF b = a THEN "preparing" ELSE phase[b]
                         /\ b # a => claim'[b] = claim[b]
  BY <1>1 DEF IInv, TypeOK
<1>3. TypeOK'
  <2>1. [gen |-> ledger.gen, head |-> ledger.head] \in [gen : 0..MaxGen, head : Heads]
    BY DEF IInv, TypeOK, Ledger
  <2>2. "preparing" \in Phases
    BY DEF Phases
  <2>3. phase' \in [Attempt -> Phases] /\ claim' \in [Attempt -> [gen : 0..MaxGen, head : Heads]]
    BY <1>1, <2>1, <2>2 DEF IInv, TypeOK
  <2>4. QED
    BY <1>1, <2>3 DEF IInv, TypeOK, ValidLedger
<1>4. StartedAreHistory' /\ LedgerFollows' /\ LoopHeld'
  BY <1>1, <1>2 DEF IInv, StartedAreHistory, LedgerFollows, LoopHeld, Fresh, CanMint, Working
<1>5. \A b \in Attempt : Secured(b)' => Secured(b) /\ b # a
  BY <1>1, <1>2 DEF Secured, Licensed
<1>6. SecuredAreBacked'
  BY <1>1, <1>2, <1>5 DEF IInv, SecuredAreBacked, Backed
<1>7. LicensedApart'
  <2>1. \A b \in Attempt : Licensed(b)' => Licensed(b) /\ b # a
    BY <1>1, <1>2 DEF Licensed
  <2>2. QED
    BY <1>2, <2>1 DEF IInv, LicensedApart
<1>8. Held'
  BY <1>1, <1>2 DEF IInv, Held, HeldBy, Fresh, CanMint
<1>9. QED
  BY <1>3, <1>4, <1>6, <1>7, <1>8 DEF IInv

LEMMA PrepareKeeps ==
  ASSUME IInv, NEW a \in Attempt, Prepare(a)
  PROVE  IInv'
<1>1. a \notin history /\ phase[a] \in {"preparing", "binding"}
  BY DEF Prepare, IInv, StartedAreHistory, Working
<1>2. "over" \in Calm /\ "over" \notin Working
  BY DEF Calm, Phases, Holding, Working
<1>3. CASE Fault(a, "over")
  BY <1>1, <1>2, <1>3, FaultKeeps
<1>4. CASE Look(a, Eligible(claim[a].head) /\ MayPrepare(a), "binding", "over")
  <2>1. CASE Step(a, "over")
    BY <1>1, <1>2, <2>1, StepKeeps
  <2>2. CASE MayPrepare(a) /\ Hold(a) /\ Goto(a, "binding")
             /\ UNCHANGED <<ledger, record, claim, loop, world, history>>
    <3>1. HeldBy(a)'
      BY <2>2 DEF HeldBy, MayPrepare, Goto, IInv, TypeOK
    <3>2. QED
      BY <1>1, <2>2, <3>1, HoldStep DEF Goto, Holding
  <2>3. QED
    BY <1>4, <2>1, <2>2 DEF Look, Step
<1>5. CASE phase[a] = "binding" /\ Write(a, Prepared(a), "prepared", "over")
  <2>1. "prepared" \in Calm /\ "prepared" \notin Working
    BY DEF Calm, Phases, Holding, Working
  <2>2. ASSUME Fresh(a)
        PROVE  /\ Prepared(a) \in Ledger /\ ValidLedger(Prepared(a))
               /\ Prepared(a).head = ledger.head
               /\ \A b \in Attempt : Secured(b) => ledger.head > claim[b].head
    <3>1. ledger.status = "available"
      BY <1>5, <2>2 DEF IInv, Held, HeldBy
    <3>2. QED
      BY <3>1, LedgerWrites DEF IInv, SecuredAreBacked, Backed
  <2>3. QED
    BY <1>1, <1>2, <1>5, <2>1, <2>2, WriteKeeps
<1>6. QED
  BY <1>3, <1>4, <1>5 DEF Prepare

LEMMA ReserveKeeps ==
  ASSUME IInv, NEW a \in Attempt, RecheckRecord(a) \/ Reserve(a) \/ Reread(a)
  PROVE  IInv'
<1>1. a \notin history
  BY DEF RecheckRecord, Reserve, Reread, IInv, StartedAreHistory, Working
<1>2. {"over", "releasing", "reserving", "reserved", "rereading"} \subseteq Calm \ Working
  BY DEF Calm, Phases, Holding, Working
<1>3. CASE \E ph \in {"over", "releasing", "reserving", "reserved"} : Step(a, ph)
  BY <1>1, <1>2, <1>3, StepKeeps
<1>4. CASE Fault(a, "over")
  BY <1>1, <1>2, <1>4, FaultKeeps
<1>5. CASE Reserve(a)
  <2>1. PICK ph \in {"reserved", "rereading"} :
          /\ phase' = [phase EXCEPT ![a] = ph]
          /\ UNCHANGED <<ledger, read, claim, loop, history>>
          /\ record' \in {record, [owner |-> a, status |-> "pending", live |-> TRUE]}
          /\ Failing \/ UNCHANGED world
    BY <1>5 DEF Reserve, Goto
  <2>2. record' \in Record /\ read' \in [Party -> {"stale", "open", "expired"}]
    <3>1. [owner |-> a, status |-> "pending", live |-> TRUE] \in Record
      BY DEF Record
    <3>2. QED
      BY <2>1, <3>1 DEF IInv, TypeOK
  <2>3. world' \in World /\ world'.head = world.head /\ world'.minted = world.minted
    BY <2>1, FailingTyped DEF IInv, TypeOK, World
  <2>4. ph \in Phases \ (Holding \cup {"consumed", "granted"}) /\ ph \notin Working
    BY <1>2 DEF Calm
  <2>5. QED
    BY <1>1, <2>1, <2>2, <2>3, <2>4, CalmStep
<1>6. QED
  BY <1>3, <1>4, <1>5 DEF RecheckRecord, Reread

LEMMA ConsumeKeeps ==
  ASSUME IInv, NEW a \in Attempt, Consume(a)
  PROVE  IInv'
<1>1. a \notin history /\ phase[a] \in {"reserved", "consuming"}
  BY DEF Consume, IInv, StartedAreHistory, Working
<1>2. "cleaning" \in Calm /\ "cleaning" \notin Working
  BY DEF Calm, Phases, Holding, Working
<1>3. CASE Step(a, "cleaning")
  BY <1>1, <1>2, <1>3, StepKeeps
<1>4. CASE PreparedBy(a) /\ Hold(a) /\ Goto(a, "consuming")
             /\ UNCHANGED <<ledger, record, claim, loop, world, history>>
  <2>1. HeldBy(a)'
    BY <1>4 DEF HeldBy, PreparedBy, Goto, IInv, TypeOK
  <2>2. QED
    BY <1>1, <1>4, <2>1, HoldStep DEF Goto, Holding
<1>5. CASE phase[a] = "consuming" /\ Write(a, Consumed, "consumed", "cleaning")
  <2>1. "consumed" \notin Working
    BY DEF Working
  <2>2. ASSUME Fresh(a)
        PROVE  /\ Consumed \in Ledger /\ ValidLedger(Consumed)
               /\ Consumed.head = ledger.head
               /\ \A b \in Attempt : Secured(b) => ledger.head > claim[b].head
               /\ Consumed.owner = a /\ Consumed.status = "consumed"
               /\ Consumed.head = claim[a].head
    <3>1. ledger.status = "prepared" /\ ledger.owner = a /\ ledger.head = claim[a].head
      BY <1>5, <2>2 DEF IInv, Held, HeldBy
    <3>2. ledger \in Ledger /\ ValidLedger(ledger)
      BY DEF IInv, TypeOK
    <3>3. /\ Consumed \in Ledger /\ ValidLedger(Consumed) /\ Consumed.head = ledger.head
          /\ Consumed.owner = ledger.owner /\ Consumed.status = "consumed"
      BY <3>1, <3>2 DEF Consumed, Ledger, ValidLedger
    <3>4. QED
      BY <3>1, <3>3 DEF IInv, SecuredAreBacked, Backed
  <2>3. QED
    BY <1>1, <1>2, <1>5, <2>1, <2>2, WriteKeeps
<1>6. QED
  BY <1>3, <1>4, <1>5 DEF Consume, Look, Step

\* The heart of the argument: the pull request read after the write is still on the
\* head of the claim, so no other attempt is licensed there.
LEMMA GrantKeeps ==
  ASSUME IInv, NEW a \in Attempt, Grant(a)
  PROVE  IInv'
<1>1. phase[a] = "consumed" /\ a \notin history
  BY DEF Grant, IInv, StartedAreHistory, Working
<1>2. "cleaning" \in Calm /\ "cleaning" \notin Working
  BY DEF Calm, Phases, Holding, Working
<1>3. CASE Step(a, "cleaning") \/ Fault(a, "cleaning")
  BY <1>1, <1>2, <1>3, StepKeeps, FaultKeeps
<1>4. CASE Eligible(claim[a].head) /\ Step(a, "granted")
  <2>1. /\ phase' = [phase EXCEPT ![a] = "granted"]
        /\ UNCHANGED <<ledger, record, read, claim, loop, world, history>>
    BY <1>4 DEF Step, Goto
  <2>2. phase \in [Attempt -> Phases] /\ "granted" \in Phases
    BY DEF IInv, TypeOK, Phases
  <2>3. \A b \in Attempt : phase'[b] = IF b = a THEN "granted" ELSE phase[b]
    BY <2>1, <2>2
  <2>4. TypeOK'
    BY <2>1, <2>2 DEF IInv, TypeOK, ValidLedger
  <2>5. StartedAreHistory' /\ LedgerFollows' /\ LoopHeld'
    BY <1>1, <2>1, <2>3 DEF IInv, StartedAreHistory, LedgerFollows, LoopHeld, Fresh, CanMint,
                            Working
  <2>6. SecuredAreBacked'
    BY <1>1, <2>1, <2>3 DEF IInv, SecuredAreBacked, Backed, Secured, Licensed
  <2>7. ASSUME NEW b \in Attempt, b # a, Licensed(b)
        PROVE  claim[b].head # claim[a].head
    <3>1. Backed(a) /\ Backed(b)
      BY <1>1, <2>7 DEF IInv, SecuredAreBacked, Secured
    <3>2. ledger.head <= claim[a].head
      BY <1>4 DEF Eligible, IInv, LedgerFollows
    <3>3. ledger.head \in Int /\ claim[a].head \in Int
      BY DEF IInv, TypeOK, Ledger, Heads
    <3>4. QED
      BY <2>7, <3>1, <3>2, <3>3 DEF Backed
  <2>8. LicensedApart'
    BY <2>1, <2>3, <2>7 DEF IInv, LicensedApart, Licensed
  <2>9. Held'
    BY <2>1, <2>3 DEF IInv, Held, HeldBy, Fresh, CanMint
  <2>10. QED
    BY <2>4, <2>5, <2>6, <2>8, <2>9 DEF IInv
<1>5. QED
  BY <1>3, <1>4 DEF Grant

LEMMA CleanKeeps ==
  ASSUME IInv, NEW a \in Attempt, Clean(a)
  PROVE  IInv'
<1>1. a \notin history
  BY DEF Clean, IInv, StartedAreHistory, Working
<1>2. PICK ph \in {"releasing", "over"} :
        /\ phase' = [phase EXCEPT ![a] = ph]
        /\ UNCHANGED <<ledger, read, claim, loop, history>>
        /\ record' \in {record, Ended("failed")}
        /\ Failing \/ UNCHANGED world
  BY DEF Clean, Goto
<1>3. record' \in Record /\ read' \in [Party -> {"stale", "open", "expired"}]
  <2>1. Ended("failed") \in Record
    BY DEF IInv, TypeOK, Record, Ended
  <2>2. QED
    BY <1>2, <2>1 DEF IInv, TypeOK
<1>4. world' \in World /\ world'.head = world.head /\ world'.minted = world.minted
  BY <1>2, FailingTyped DEF IInv, TypeOK, World
<1>5. ph \in Phases \ (Holding \cup {"consumed", "granted"}) /\ ph \notin Working
  BY DEF Phases, Holding, Working
<1>6. QED
  BY <1>1, <1>2, <1>3, <1>4, <1>5, CalmStep

LEMMA ReleaseKeeps ==
  ASSUME IInv, NEW a \in Attempt, Release(a)
  PROVE  IInv'
<1>1. a \notin history /\ phase[a] \in {"releasing", "refunding"}
  BY DEF Release, IInv, StartedAreHistory, Working
<1>2. "over" \in Calm /\ "over" \notin Working
  BY DEF Calm, Phases, Holding, Working
<1>3. CASE Step(a, "over") \/ Fault(a, "over")
  BY <1>1, <1>2, <1>3, StepKeeps, FaultKeeps
<1>4. CASE /\ PreparedBy(a) \/ (ReleasedBy(a) /\ ledger.expired)
           /\ ledger.expired => CanMint
           /\ Hold(a) /\ Goto(a, "refunding")
           /\ UNCHANGED <<ledger, record, claim, loop, world, history>>
  <2>1. phase'[a] = "refunding" /\ read'[a] = IF ledger.expired THEN "expired" ELSE "open"
    BY <1>4 DEF Goto, Hold, IInv, TypeOK, Party
  <2>2. HeldBy(a)'
    BY <1>4, <2>1 DEF HeldBy, PreparedBy, ReleasedBy, CanMint
  <2>3. QED
    BY <1>1, <1>4, <2>2, HoldStep DEF Goto, Holding
<1>5. CASE phase[a] = "refunding"
           /\ Write(a, IF ledger.status = "prepared" THEN Released(a) ELSE Refreshed,
                    "over", "over")
  <2> DEFINE next == IF ledger.status = "prepared" THEN Released(a) ELSE Refreshed
  <2>1. ASSUME Fresh(a)
        PROVE  /\ next \in Ledger /\ ValidLedger(next) /\ next.head = ledger.head
               /\ \A b \in Attempt : Secured(b) => ledger.head > claim[b].head
    <3>1. /\ ledger.status \in {"available", "prepared"}
          /\ read[a] = "expired" \/ ledger.status = "available" => CanMint
      BY <1>5, <2>1 DEF IInv, Held, HeldBy
    <3>2. next \in Ledger /\ ValidLedger(next) /\ next.head = ledger.head
      BY <3>1, LedgerWrites DEF Party
    <3>3. QED
      BY <3>1, <3>2 DEF IInv, SecuredAreBacked, Backed
  <2>2. Write(a, next, "over", "over")
    BY <1>5
  <2> HIDE DEF next
  <2>3. QED
    BY <1>1, <1>2, <2>1, <2>2, WriteKeeps
<1>6. QED
  BY <1>3, <1>4, <1>5 DEF Release, Look, Step

LEMMA StartKeeps ==
  ASSUME IInv, NEW a \in Attempt, Start(a)
  PROVE  IInv'
<1>1. /\ phase[a] = "granted" /\ phase' = [phase EXCEPT ![a] = "running"]
      /\ history' = history \cup {a}
      /\ UNCHANGED <<ledger, record, read, claim, loop, world>>
  BY DEF Start, Goto
<1>2. phase \in [Attempt -> Phases] /\ "running" \in Phases
  BY DEF IInv, TypeOK, Phases
<1>3. \A b \in Attempt : phase'[b] = IF b = a THEN "running" ELSE phase[b]
  BY <1>1, <1>2
<1>4. TypeOK'
  BY <1>1, <1>2 DEF IInv, TypeOK, ValidLedger
<1>5. StartedAreHistory' /\ LedgerFollows' /\ LoopHeld'
  BY <1>1, <1>3 DEF IInv, StartedAreHistory, LedgerFollows, LoopHeld, Fresh, CanMint, Working
<1>6. \A b \in Attempt : (Licensed(b)' => Licensed(b)) /\ (Secured(b)' => Secured(b))
  BY <1>1, <1>3 DEF Licensed, Secured
<1>7. SecuredAreBacked' /\ LicensedApart'
  BY <1>1, <1>6 DEF IInv, SecuredAreBacked, Backed, LicensedApart
<1>8. Held'
  BY <1>1, <1>3 DEF IInv, Held, HeldBy, Fresh, CanMint
<1>9. QED
  BY <1>4, <1>5, <1>7, <1>8 DEF IInv

LEMMA FinishKeeps ==
  ASSUME IInv, NEW a \in Attempt, Finish(a)
  PROVE  IInv'
<1>1. a \in history
  BY DEF Finish, IInv, StartedAreHistory, Working
<1>2. PICK ph \in {"over", "escalated"} :
        /\ phase' = [phase EXCEPT ![a] = ph]
        /\ UNCHANGED <<ledger, read, claim, loop, history>>
        /\ record' \in {record, Ended("done")}
        /\ world' \in {world, [world EXCEPT !.label = "human"]}
  BY DEF Finish, Goto
<1>3. record' \in Record /\ read' \in [Party -> {"stale", "open", "expired"}]
  <2>1. Ended("done") \in Record
    BY DEF IInv, TypeOK, Record, Ended
  <2>2. QED
    BY <1>2, <2>1 DEF IInv, TypeOK
<1>4. world' \in World /\ world'.head = world.head /\ world'.minted = world.minted
  BY <1>2 DEF IInv, TypeOK, World
<1>5. ph \in Phases \ (Holding \cup {"consumed", "granted"}) /\ ph \in Working \cup {"over"}
  BY DEF Phases, Holding, Working
<1>6. QED
  BY <1>1, <1>2, <1>3, <1>4, <1>5, CalmStep

LEMMA ConfirmKeeps ==
  ASSUME IInv, NEW a \in Attempt, Confirm(a)
  PROVE  IInv'
<1>1. a \in history /\ phase[a] \in {"escalated", "confirming"}
  BY DEF Confirm, IInv, StartedAreHistory, Working
<1>2. /\ {"over", "escalated"} \subseteq Calm
      /\ {"over", "escalated"} \subseteq Working \cup {"over"}
  BY DEF Calm, Phases, Holding, Working
<1>3. CASE Step(a, "over") \/ Fault(a, "escalated")
  BY <1>1, <1>2, <1>3, StepKeeps, FaultKeeps
<1>4. CASE /\ ledger.status = "consumed" /\ ledger.owner = a
           /\ Hold(a) /\ Goto(a, "confirming")
           /\ UNCHANGED <<ledger, record, claim, loop, world, history>>
  <2>1. HeldBy(a)'
    BY <1>4 DEF HeldBy, Goto, IInv, TypeOK
  <2>2. QED
    BY <1>1, <1>4, <2>1, HoldStep DEF Goto, Holding
<1>5. CASE phase[a] = "confirming" /\ Write(a, Confirmed, "over", "escalated")
  <2>1. ASSUME Fresh(a)
        PROVE  /\ Confirmed \in Ledger /\ ValidLedger(Confirmed)
               /\ Confirmed.head = ledger.head
               /\ Confirmed.owner = ledger.owner /\ Confirmed.status = "confirmed"
    BY <1>5, <2>1, LedgerWrites DEF IInv, Held, HeldBy
  <2>2. QED
    BY <1>1, <1>2, <1>5, <2>1, WriteKeeps
<1>6. QED
  BY <1>3, <1>4, <1>5 DEF Confirm, Look, Step

LEMMA DieKeeps ==
  ASSUME IInv, NEW a \in Attempt, Die(a)
  PROVE  IInv'
<1>1. /\ phase' = [phase EXCEPT ![a] = "over"]
      /\ read' = [read EXCEPT ![a] = "stale"]
      /\ UNCHANGED <<ledger, record, claim, loop, world, history>>
  BY DEF Die, Goto
<1>2. /\ read' \in [Party -> {"stale", "open", "expired"}]
      /\ \A p \in Party : read'[p] \in {read[p], "stale"}
  BY <1>1 DEF IInv, TypeOK, Party
<1>3. "over" \in Phases \ (Holding \cup {"consumed", "granted"}) /\ "over" \notin Working
  BY DEF Phases, Holding, Working
<1>4. record' \in Record /\ world' \in World /\ world'.head = world.head
      /\ world'.minted = world.minted
  BY <1>1 DEF IInv, TypeOK, World
<1>5. QED
  BY <1>1, <1>2, <1>3, <1>4, CalmStep

\* A consumed receipt is reopened only for an owner whose agent never started: no
\* other attempt can be backed by it.
LEMMA ReconcileKeeps ==
  ASSUME IInv, NEW a \in Attempt, Reconcile(a)
  PROVE  IInv'
<1>1. a \notin history
  <2>1. CASE phase[a] = "over"
    BY <2>1 DEF Reconcile, Evidence, Disproves
  <2>2. CASE phase[a] = "reconciling"
    BY <2>2 DEF IInv, StartedAreHistory, Working
  <2>3. QED
    BY <2>1, <2>2 DEF Reconcile
<1>2. "over" \in Calm /\ "over" \notin Working
  BY DEF Calm, Phases, Holding, Working
<1>3. CASE /\ Recoverable(a) /\ Hold(a) /\ Goto(a, "reconciling")
           /\ UNCHANGED <<ledger, record, claim, loop, world, history>>
  <2>1. phase'[a] = "reconciling" /\ read'[a] = IF ledger.expired THEN "expired" ELSE "open"
    BY <1>3 DEF Goto, Hold, IInv, TypeOK, Party
  <2>2. HeldBy(a)'
    BY <1>1, <1>3, <2>1 DEF HeldBy, Recoverable, CanMint
  <2>3. QED
    BY <1>1, <1>3, <2>2, HoldStep DEF Goto, Holding
<1>4. CASE phase[a] = "reconciling"
           /\ Write(a, CASE ledger.status = "prepared" -> Released(a)
                         [] ledger.status = "consumed" -> Reopened
                         [] OTHER -> Refreshed, "over", "over")
  <2> DEFINE next == CASE ledger.status = "prepared" -> Released(a)
                       [] ledger.status = "consumed" -> Reopened
                       [] OTHER -> Refreshed
  <2>1. ASSUME Fresh(a)
        PROVE  /\ next \in Ledger /\ ValidLedger(next) /\ next.head = ledger.head
               /\ \A b \in Attempt : Secured(b) => ledger.head > claim[b].head
    <3>1. /\ \/ ledger.status = "available"
             \/ ledger.status \in {"prepared", "consumed"} /\ ledger.owner = a
          /\ read[a] = "expired" \/ ledger.status # "prepared" => CanMint
      BY <1>4, <2>1 DEF IInv, Held, HeldBy
    <3>2. next \in Ledger /\ ValidLedger(next) /\ next.head = ledger.head
      <4>1. CASE ledger.status = "prepared"
        BY <3>1, <4>1, LedgerWrites DEF Party
      <4>2. CASE ledger.status # "prepared"
        BY <3>1, <4>2, LedgerWrites
      <4>3. QED
        BY <4>1, <4>2
    <3>3. ~Secured(a)
      BY <1>1, <1>4 DEF Secured, Licensed
    <3>4. QED
      BY <3>1, <3>2, <3>3 DEF IInv, SecuredAreBacked, Backed
  <2>2. Write(a, next, "over", "over")
    BY <1>4
  <2> HIDE DEF next
  <2>3. QED
    BY <1>1, <1>2, <2>1, <2>2, WriteKeeps
<1>5. QED
  BY <1>3, <1>4 DEF Reconcile, Look

-----------------------------------------------------------------------------
(***************************************************************************)
(* The loop, and what happens to the pull request.                         *)
(***************************************************************************)
LEMMA QuietStep ==
  ASSUME IInv, UNCHANGED <<ledger, phase, claim, history>>, loop' \in {0, loop},
         record' \in Record,
         read' \in [Party -> {"stale", "open", "expired"}],
         \A p \in Party : read'[p] \in {read[p], "stale"},
         world' \in World, world'.head >= world.head, world'.minted = world.minted
  PROVE  IInv'
<1>1. TypeOK'
  BY BoundAssumption DEF IInv, TypeOK, World, ValidLedger
<1>2. LedgerFollows'
  BY BoundAssumption DEF IInv, TypeOK, Ledger, World, Heads, LedgerFollows
<1>3. StartedAreHistory' /\ SecuredAreBacked' /\ LicensedApart'
  BY DEF IInv, StartedAreHistory, SecuredAreBacked, Backed, Secured, LicensedApart, Licensed
<1>4. Held' /\ LoopHeld'
  BY DEF IInv, Held, HeldBy, LoopHeld, Fresh, Party, CanMint
<1>5. QED
  BY <1>1, <1>2, <1>3, <1>4 DEF IInv

LEMMA BeginReadKeeps ==
  ASSUME IInv, NEW h \in Heads, BeginRead(h)
  PROVE  IInv'
<1>1. /\ loop' = h /\ ledger.head <= h /\ h <= world.head /\ CanMint
      /\ ledger.head = h => ledger.status \in {"available", "prepared"}
      /\ UNCHANGED <<ledger, record, phase, claim, world, history>>
  BY DEF BeginRead, IInv, TypeOK, Ledger, Heads
<1>2. /\ read' \in [Party -> {"stale", "open", "expired"}]
      /\ \A a \in Attempt : read'[a] = read[a]
  BY AttemptAssumption DEF BeginRead, Hold, IInv, TypeOK, Party
<1>3. TypeOK'
  BY <1>1, <1>2, BoundAssumption DEF IInv, TypeOK, ValidLedger, Heads
<1>4. LedgerFollows' /\ LoopHeld'
  BY <1>1 DEF IInv, LedgerFollows, LoopHeld, CanMint
<1>5. StartedAreHistory' /\ SecuredAreBacked' /\ LicensedApart'
  BY <1>1 DEF IInv, StartedAreHistory, SecuredAreBacked, Backed, Secured, LicensedApart,
              Licensed
<1>6. Held'
  BY <1>1, <1>2 DEF IInv, Held, HeldBy, Fresh, CanMint
<1>7. QED
  BY <1>3, <1>4, <1>5, <1>6 DEF IInv

LEMMA BeginWriteKeeps ==
  ASSUME IInv, BeginWrite
  PROVE  IInv'
<1>1. /\ loop # 0 /\ loop' = 0 /\ loop \in Heads
      /\ UNCHANGED <<record, phase, claim, history>>
      /\ world \in World /\ "loop" \in Party
  BY BoundAssumption DEF BeginWrite, IInv, TypeOK, World, Heads, Party
<1>2. CASE Refused("loop")
  <2>1. world' \in World /\ world'.head = world.head /\ world'.minted = world.minted
    BY <1>1, <1>2, FailingTyped DEF Refused
  <2>2. /\ ledger' = ledger /\ read' = [read EXCEPT !["loop"] = "stale"]
        /\ record' \in Record /\ world.head \in Int
    BY <1>1, <1>2 DEF Refused, IInv, TypeOK, Heads
  <2>3. /\ read' \in [Party -> {"stale", "open", "expired"}]
        /\ \A p \in Party : read'[p] \in {read[p], "stale"}
    BY <2>2 DEF IInv, TypeOK
  <2>4. QED
    BY <1>1, <2>1, <2>2, <2>3, QuietStep
<1>3. CASE Put("loop", BeginNext) \/ PutLost("loop", BeginNext)
  <2>1. /\ Fresh("loop") /\ ledger' = BeginNext /\ read' = [q \in Party |-> "stale"]
        /\ world'.head = world.head /\ (BeginNext \in Ledger => world' \in World)
    BY <1>1, <1>3, Accepted
  <2>2. /\ ledger.head <= loop /\ loop <= world.head /\ CanMint
        /\ ledger.head = loop => ledger.status \in {"available", "prepared"}
    BY <1>1, <2>1 DEF IInv, LoopHeld, LedgerFollows
  <2>3. ledger \in Ledger /\ ValidLedger(ledger) /\ Minted \in 1..MaxGen
    BY <2>2, BoundAssumption DEF IInv, TypeOK, CanMint, Minted
  <2>4. BeginNext \in Ledger /\ ValidLedger(BeginNext) /\ BeginNext.head = loop
    <3>1. ASSUME NEW o \in Owner, NEW r \in 0..MaxGen, o # "nobody" => r # 0
          PROVE  /\ Opened(Minted, loop, o, r) \in Ledger
                 /\ ValidLedger(Opened(Minted, loop, o, r))
                 /\ Opened(Minted, loop, o, r).head = loop
      BY <1>1, <2>3, <3>1 DEF Opened, Ledger, ValidLedger, Owner
    <3>2. "nobody" \in Owner /\ 0 \in 0..MaxGen
      BY BoundAssumption DEF Owner
    <3>3. CASE ledger.head # loop
      BY <3>1, <3>2, <3>3 DEF BeginNext
    <3>4. CASE ledger.head = loop /\ ledger.status = "prepared"
      BY <1>1, <2>2, <3>4, LedgerWrites DEF BeginNext
    <3>5. CASE ledger.head = loop /\ ledger.status # "prepared"
      <4>1. /\ ledger.released \in Owner /\ ledger.refunded \in 0..MaxGen
            /\ ledger.released # "nobody" => ledger.refunded # 0
        BY <2>3 DEF Ledger, ValidLedger
      <4>2. QED
        BY <3>1, <3>5, <4>1 DEF BeginNext
    <3>6. QED
      BY <3>3, <3>4, <3>5
  <2>5. ASSUME NEW b \in Attempt, Secured(b)'
        PROVE  Backed(b)'
    <3>1. Secured(b) /\ Backed(b)
      BY <1>1, <2>5 DEF IInv, SecuredAreBacked, Secured, Licensed
    <3>2. ledger.head \in Int /\ loop \in Int /\ claim[b].head \in Int
      BY <1>1 DEF IInv, TypeOK, Ledger, Heads
    <3>3. loop > claim[b].head
      BY <2>2, <3>1, <3>2 DEF Backed
    <3>4. QED
      BY <1>1, <2>1, <2>4, <3>3 DEF Backed
  <2>6. phase' \in [Attempt -> Phases] /\ loop' \in {0, loop} /\ world' \in World
    BY <1>1, <2>1, <2>4 DEF IInv, TypeOK
  <2>7. \A b \in Attempt : /\ b \in history => phase'[b] \in Working \cup {"over"}
                           /\ phase'[b] \in Working => b \in history
                           /\ phase'[b] = "granted" => phase[b] = "granted"
    BY <1>1 DEF IInv, StartedAreHistory
  <2>8. QED
    BY <1>1, <2>1, <2>2, <2>4, <2>5, <2>6, <2>7, WriteStep
<1>4. QED
  BY <1>2, <1>3 DEF BeginWrite

LEMMA ExpireKeeps ==
  ASSUME IInv, Expire
  PROVE  IInv'
<1>1. /\ ledger' \in Ledger /\ ledger'.status = ledger.status /\ ledger'.head = ledger.head
      /\ ledger'.owner = ledger.owner /\ ledger'.released = ledger.released
      /\ ledger'.refunded = ledger.refunded
      /\ UNCHANGED <<record, read, phase, claim, loop, world, history>>
  BY DEF Expire, IInv, TypeOK, Ledger
<1>2. TypeOK'
  BY <1>1 DEF IInv, TypeOK, ValidLedger
<1>3. LedgerFollows' /\ StartedAreHistory' /\ SecuredAreBacked' /\ LicensedApart'
  BY <1>1 DEF IInv, LedgerFollows, StartedAreHistory, SecuredAreBacked, Backed, Secured,
              LicensedApart, Licensed
<1>4. Held' /\ LoopHeld'
  BY <1>1 DEF IInv, Held, HeldBy, LoopHeld, Fresh, CanMint
<1>5. QED
  BY <1>2, <1>3, <1>4 DEF IInv

LEMMA OutsideKeeps ==
  ASSUME IInv, Push \/ Relabel \/ Others \/ UNCHANGED vars
  PROVE  IInv'
<1>1. /\ UNCHANGED <<ledger, read, phase, claim, loop, history>>
      /\ read \in [Party -> {"stale", "open", "expired"}]
      /\ world \in World /\ record \in Record
  BY DEF Push, Relabel, Others, vars, IInv, TypeOK, World
<1>2. world' \in World /\ world'.head >= world.head /\ world'.minted = world.minted
  <2>1. CASE Push
    BY <1>1, <2>1, BoundAssumption DEF Push, World, Heads
  <2>2. CASE Relabel
    BY <1>1, <2>2, BoundAssumption DEF Relabel, World, Heads
  <2>3. CASE Others \/ UNCHANGED vars
    BY <1>1, <2>3, BoundAssumption DEF Others, vars, World, Heads
  <2>4. QED
    BY <2>1, <2>2, <2>3
<1>3. record' \in Record
  <2>1. /\ [owner |-> "other", status |-> "pending", live |-> TRUE] \in Record
        /\ Ended("done") \in Record /\ [record EXCEPT !.live = FALSE] \in Record
    BY <1>1 DEF Record, Ended
  <2>2. QED
    BY <1>1, <2>1 DEF Push, Relabel, Others, vars
<1>4. QED
  BY <1>1, <1>2, <1>3, QuietStep

-----------------------------------------------------------------------------
(***************************************************************************)
(* The dispatch record.                                                    *)
(***************************************************************************)
LEMMA InvariantStep == IInv /\ [Next]_vars => IInv'
<1> SUFFICES ASSUME IInv, [Next]_vars
             PROVE  IInv'
  OBVIOUS
<1>1. CASE \E a \in Attempt : Act(a)
  BY <1>1, DispatchKeeps, PrepareKeeps, ReserveKeeps, ConsumeKeeps, GrantKeeps, CleanKeeps,
     ReleaseKeeps, StartKeeps, FinishKeeps, ConfirmKeeps, DieKeeps, ReconcileKeeps DEF Act
<1>2. CASE \E h \in Heads : BeginRead(h)
  BY <1>2, BeginReadKeeps
<1>3. CASE BeginWrite \/ Expire
  BY <1>3, BeginWriteKeeps, ExpireKeeps
<1>4. CASE Push \/ Relabel \/ Others \/ UNCHANGED vars
  BY <1>4, OutsideKeeps
<1>5. QED
  BY <1>1, <1>2, <1>3, <1>4 DEF Next

\* An attempt moves to a phase that says no more of the record than the one before.
LEMMA RecordKept ==
  ASSUME IInv, RInv, NEW a \in Attempt, NEW ph, Goto(a, ph), record' = record,
         ph \in {"idle", "preparing", "binding", "prepared", "reserving"} =>
            phase[a] \in {"idle", "preparing", "binding", "prepared", "reserving"},
         ph \in {"releasing", "refunding"} => ~OwnPending(a)
  PROVE  RInv'
<1>1. \A b \in Attempt : phase'[b] = IF b = a THEN ph ELSE phase[b]
  BY DEF Goto, IInv, TypeOK
<1>2. QED
  BY <1>1 DEF RInv, OwnPending

LEMMA RecordWritten ==
  ASSUME IInv, RInv, NEW a \in Attempt, NEW ph, Goto(a, ph),
         ph \notin {"idle", "preparing", "binding", "prepared", "reserving"},
         \/ record' = [owner |-> a, status |-> "pending", live |-> TRUE]
              /\ ph \notin {"releasing", "refunding"}
         \/ \E st \in {"failed", "done"} : record' = Ended(st)
  PROVE  RInv'
<1>1. \A b \in Attempt : phase'[b] = IF b = a THEN ph ELSE phase[b]
  BY DEF Goto, IInv, TypeOK
<1>2. CASE record' = [owner |-> a, status |-> "pending", live |-> TRUE]
             /\ ph \notin {"releasing", "refunding"}
  BY <1>1, <1>2 DEF RInv, OwnPending
<1>3. ASSUME NEW st \in {"failed", "done"}, record' = Ended(st)
      PROVE  RInv'
  <2>1. record'.owner = record.owner /\ record'.status = st
    BY <1>3 DEF Ended, IInv, TypeOK, Record
  <2>2. QED
    BY <1>1, <2>1 DEF RInv, OwnPending
<1>4. QED
  BY <1>2, <1>3

LEMMA RecordStep == IInv /\ RInv /\ [Next]_vars => RInv'
<1> SUFFICES ASSUME IInv, RInv, [Next]_vars
             PROVE  RInv'
  OBVIOUS
<1>1. ASSUME NEW a \in Attempt, Dispatch(a) \/ Prepare(a) \/ RecheckRecord(a)
      PROVE  RInv'
  <2>1. /\ record' = record
        /\ phase[a] \in {"idle", "preparing", "binding", "prepared"}
    BY <1>1 DEF Dispatch, Prepare, RecheckRecord, Look, Fault, Write, Step
  <2>2. \E ph \in {"preparing", "binding", "prepared", "over", "releasing", "reserving"} :
          Goto(a, ph)
    BY <1>1 DEF Dispatch, Prepare, RecheckRecord, Look, Fault, Write, Step
  <2>3. record.owner # a
    BY <2>1 DEF RInv
  <2>4. QED
    BY <2>1, <2>2, <2>3, RecordKept DEF OwnPending
<1>2. ASSUME NEW a \in Attempt, Reserve(a)
      PROVE  RInv'
  <2>1. /\ record.owner # a
        /\ \E ph \in {"reserved", "rereading"} : Goto(a, ph)
        /\ \/ record' = record
           \/ record' = [owner |-> a, status |-> "pending", live |-> TRUE]
    BY <1>2 DEF Reserve, RInv
  <2>2. QED
    BY <2>1, RecordKept, RecordWritten
<1>3. ASSUME NEW a \in Attempt, Reread(a) \/ Consume(a) \/ Grant(a) \/ Confirm(a) \/ Start(a)
                                \/ Die(a) \/ Reconcile(a)
      PROVE  RInv'
  <2>1. record' = record
    BY <1>3 DEF Reread, Consume, Grant, Confirm, Start, Die, Reconcile, Look, Fault, Write,
                Step
  <2>2. \/ Goto(a, "releasing") /\ record.status = "none"
        \/ \E ph \in {"reserved", "over", "cleaning", "consuming", "consumed", "granted",
                      "escalated", "confirming", "running", "reconciling"} : Goto(a, ph)
    BY <1>3 DEF Reread, Consume, Grant, Confirm, Start, Die, Reconcile, Look, Fault, Write,
                Step
  <2>3. QED
    BY <2>1, <2>2, RecordKept DEF OwnPending
<1>4. ASSUME NEW a \in Attempt, Release(a)
      PROVE  RInv'
  <2>1. /\ record' = record /\ ~OwnPending(a)
        /\ \E ph \in {"refunding", "over"} : Goto(a, ph)
    BY <1>4 DEF Release, RInv, Look, Fault, Write
  <2>2. QED
    BY <2>1, RecordKept
<1>5. ASSUME NEW a \in Attempt, Clean(a)
      PROVE  RInv'
  <2>1. \/ record' = Ended("failed") /\ \E ph \in {"releasing", "over"} : Goto(a, ph)
        \/ record' = record /\ ~OwnPending(a) /\ \E ph \in {"releasing", "over"} : Goto(a, ph)
        \/ record' = record /\ Goto(a, "over")
    BY <1>5 DEF Clean
  <2>2. QED
    BY <2>1, RecordKept, RecordWritten
<1>6. ASSUME NEW a \in Attempt, Finish(a)
      PROVE  RInv'
  <2>1. /\ record' = record \/ record' = Ended("done")
        /\ \E ph \in {"over", "escalated"} : Goto(a, ph)
    BY <1>6 DEF Finish
  <2>2. QED
    BY <2>1, RecordKept, RecordWritten
<1>7. CASE Others
  <2>1. phase' = phase /\ record \in Record
    BY <1>7 DEF Others, IInv, TypeOK
  <2>2. \/ record'.owner = "other"
        \/ record'.owner = record.owner /\ record'.status = record.status
    <3>1. Ended("done").owner = record.owner
      BY <2>1 DEF Ended, Record
    <3>2. \/ record' = [owner |-> "other", status |-> "pending", live |-> TRUE]
          \/ record.owner = "other" /\ record' = Ended("done")
          \/ record' = [record EXCEPT !.live = FALSE]
      BY <1>7, Zenon DEF Others
    <3>3. CASE record' = [owner |-> "other", status |-> "pending", live |-> TRUE]
      BY <3>3
    <3>4. CASE record.owner = "other" /\ record' = Ended("done")
      BY <3>1, <3>4
    <3>5. CASE record' = [record EXCEPT !.live = FALSE]
      BY <2>1, <3>5 DEF Record
    <3>6. QED
      BY <3>2, <3>3, <3>4, <3>5
  <2>3. QED
    BY <2>1, <2>2, AttemptAssumption DEF RInv, OwnPending
<1>8. CASE (\E h \in Heads : BeginRead(h)) \/ BeginWrite \/ Expire \/ Push \/ Relabel
             \/ UNCHANGED vars
  <2>1. UNCHANGED <<record, phase>>
    BY <1>8 DEF BeginRead, BeginWrite, Expire, Push, Relabel, vars
  <2>2. QED
    BY <2>1 DEF RInv, OwnPending
<1>9. QED
  BY <1>1, <1>2, <1>3, <1>4, <1>5, <1>6, <1>7, <1>8 DEF Next, Act

-----------------------------------------------------------------------------
(***************************************************************************)
(* What holds of every behaviour.                                          *)
(***************************************************************************)
LEMMA AuthorityInvariants == Spec => [](IInv /\ RInv)
<1>1. IInv /\ RInv /\ [Next]_vars => (IInv /\ RInv)'
  BY InvariantStep, RecordStep
<1>2. QED
  BY InitKeeps, <1>1, PTL DEF Spec

\* Every state the program keeps has one of its shapes, a written ledger always a
\* valid one (validState, keepalive_authority_state.js:140-233).
THEOREM AuthorityTypeCorrect == Spec => []TypeOK
<1>1. IInv => TypeOK
  BY DEF IInv
<1>2. QED
  BY AuthorityInvariants, <1>1, PTL

\* One privileged run per head, for any number of attempts, generations, heads and
\* failing requests (beginChallenge, keepalive_authority_state.js:484-551).
THEOREM OneRunPerHeadHolds == Spec => []OneRunPerHead
<1>1. IInv => OneRunPerHead
  BY DEF IInv, TypeOK, LicensedApart, Licensed, OneRunPerHead
<1>2. QED
  BY AuthorityInvariants, <1>1, PTL

\* The licence of an attempt whose agent has started, or is about to, is given back
\* by nobody while the ledger is for its head: not by the attempt, the reaping of the
\* loop or the reporter, whatever evidence the reporter is given (keepalive_worker_
\* evidence.js:7, 24-40).
THEOREM LicencesStaySpent == Spec => []LicenceStaysSpent
<1>1. IInv => LicenceStaysSpent
  <2> SUFFICES ASSUME IInv, NEW a \in Attempt, Licensed(a), ledger.head = claim[a].head
               PROVE  ledger.owner = a /\ ledger.status \in {"consumed", "confirmed"}
    BY DEF LicenceStaysSpent, Licensed
  <2>1. ledger.head \in Int
    BY BoundAssumption DEF IInv, TypeOK, Ledger, Heads
  <2>2. Backed(a)
    BY DEF IInv, SecuredAreBacked, Secured
  <2>3. QED
    BY <2>1, <2>2 DEF Backed
<1>2. QED
  BY AuthorityInvariants, <1>1, PTL

\* An attempt that gives its preparation back has no reservation left
\* (core.py:1598-1604).
THEOREM ReleasesLeaveNoReservation == Spec => ReleaseLeavesNoReservation
<1> DEFINE Kept == \A a \in Attempt : (phase[a] = "refunding" /\ ledger.status = "prepared"
                                         /\ ledger'.released = a) => ~OwnPending(a)
<1>1. RInv => [Kept]_vars
  BY DEF RInv
<1> HIDE DEF Kept
<1>2. Spec => [][Kept]_vars
  BY AuthorityInvariants, <1>1, PTL
<1>3. QED
  BY <1>2 DEF ReleaseLeavesNoReservation, Kept

-----------------------------------------------------------------------------
(***************************************************************************)
(* The verifier.                                                           *)
(***************************************************************************)
\* An empty change has no size, so what must be divided has a file.
LEMMA NothingHasNoSize == SizeOf(<<>>) = 0
<1> DEFINE Total(g) == g = [n \in 0..Len(<<>>) |-> IF n = 0 THEN 0 ELSE g[n - 1] + <<>>[n].size]
<1>1. SizeOf(<<>>) = (CHOOSE g : Total(g))[Len(<<>>)]
  BY DEF SizeOf
<1>2. Total([n \in 0..Len(<<>>) |-> 0])
  OBVIOUS
<1>3. Total(CHOOSE g : Total(g))
  <2> HIDE DEF Total
  <2> QED BY <1>2
<1>4. QED
  BY <1>1, <1>3

Steps == {"start", "direct", "fallback", "plan", "chunks", "synthesis", "judged", "printed",
          "admitted"}

\* A range of one of the two inputs.
Span == [input : {"context", "diff"}, start : 0..InputLength, end : 0..InputLength]

VerifierTypeOK ==
  /\ pull \in Pulls /\ pc \in Steps
  /\ mode \in {"evaluate", "compare"} /\ profile \in {"standard", "expanded", "diagnostic"}
  /\ reviews \in Seq(ToSet(reviews)) /\ arms \in Seq(ToSet(arms))
  /\ ranges \in Seq(Span) /\ pending \in Seq(Span) /\ counts \in Nat

\* A partition is under way, or was.
Partitioned == ranges # <<>> \/ pending # <<>>

\* Nothing is kept from one judge to the next.
StartsAfresh ==
  /\ pc \notin {"plan", "judged"} => ranges = <<>> /\ pending = <<>> /\ counts = 0
  /\ pc \in {"start", "direct", "fallback", "printed", "admitted"} => reviews = <<>>
  /\ pc # "judged" => result = NoResult /\ answer = NoAnswer

\* Each range that is counted is planned, divided, or ends the plan.
PlanAdvances ==
  /\ pc = "plan" => Partitioned
  /\ Partitioned => Divides(ranges \o pending) /\ answer = NoAnswer
  /\ Partitioned => result.verdict \in {"none", "CONCERNS", "FAIL"}
  /\ Partitioned /\ reviews # <<>> => pending = <<>>
  /\ Len(ranges) <= counts /\ counts < 2 * MaxRequests
  /\ Len(ranges) + Len(pending) <= MaxRequests \/ Len(ranges) + Len(pending) <= 2

LEMMA LimitsAreNat ==
  /\ Budget \in Nat \ {0} /\ MaxChunks \in Nat \ {0} /\ MaxRequests \in Nat \ {0}
  /\ MaxCounts \in Nat \ {0} /\ InputLength \in Nat \ {0}
BY LimitsArePositive

LEMMA Appended ==
  ASSUME NEW s, s \in Seq(ToSet(s)), NEW x
  PROVE  /\ Append(s, x) \in Seq(ToSet(Append(s, x)))
         /\ Len(s) \in Nat /\ Len(Append(s, x)) = Len(s) + 1 /\ Append(s, x) # <<>>
         /\ ToSet(Append(s, x)) = ToSet(s) \cup {x}
         /\ \A i \in 1..Len(s) : Append(s, x)[i] = s[i]
         /\ Append(s, x)[Len(s) + 1] = x
<1> DEFINE S == ToSet(s) \cup {x}
<1>1. s \in Seq(S) /\ x \in S
  OBVIOUS
<1>2. Append(s, x) \in Seq(S) /\ Len(s) \in Nat /\ Len(Append(s, x)) = Len(s) + 1
  <2> HIDE DEF S
  <2> QED BY <1>1
<1>3. \A i \in 1..Len(s) : Append(s, x)[i] = s[i]
  <2> HIDE DEF S
  <2> QED BY <1>1
<1>4. Append(s, x)[Len(s) + 1] = x
  <2> HIDE DEF S
  <2> QED BY <1>1
<1>5. DOMAIN Append(s, x) = 1..(Len(s) + 1) /\ DOMAIN s = 1..Len(s)
  <2> HIDE DEF S
  <2> QED BY <1>1, <1>2
<1>6. ToSet(Append(s, x)) = S
  <2>1. \A i \in DOMAIN Append(s, x) : Append(s, x)[i] \in S
    <3> HIDE DEF S
    <3> QED BY <1>2
  <2>2. \A i \in DOMAIN s : s[i] \in ToSet(Append(s, x))
    BY <1>3, <1>5, <1>2 DEF ToSet
  <2>3. x \in ToSet(Append(s, x))
    BY <1>4, <1>5, <1>2 DEF ToSet
  <2> QED BY <2>1, <2>2, <2>3 DEF ToSet
<1> HIDE DEF S
<1>7. Append(s, x) # <<>>
  BY <1>2
<1> QED BY <1>2, <1>3, <1>4, <1>6, <1>7 DEF S

LEMMA Concatenated ==
  ASSUME NEW S, NEW a \in Seq(S), NEW b \in Seq(S)
  PROVE  /\ a \o b \in Seq(S) /\ Len(a \o b) = Len(a) + Len(b)
         /\ \A i \in 1..Len(a) : (a \o b)[i] = a[i]
         /\ \A i \in 1..Len(b) : (a \o b)[Len(a) + i] = b[i]
OBVIOUS

LEMMA Spliced ==
  ASSUME NEW S, NEW a \in Seq(S), NEW x \in S, NEW y \in S, NEW b \in Seq(S)
  PROVE  /\ <<x, y>> \o b \in Seq(S) /\ Len(<<x, y>> \o b) = Len(b) + 2
         /\ a \o (<<x, y>> \o b) \in Seq(S)
         /\ Len(a \o (<<x, y>> \o b)) = Len(a) + Len(b) + 2
         /\ \A i \in 1..Len(a) : (a \o (<<x, y>> \o b))[i] = a[i]
         /\ (a \o (<<x, y>> \o b))[Len(a) + 1] = x
         /\ (a \o (<<x, y>> \o b))[Len(a) + 2] = y
         /\ \A i \in 1..Len(b) : (a \o (<<x, y>> \o b))[Len(a) + 2 + i] = b[i]
<1> DEFINE c == <<x, y>> \o b
<1>1. /\ c \in Seq(S) /\ Len(c) = Len(b) + 2 /\ c[1] = x /\ c[2] = y
      /\ \A i \in 1..Len(b) : c[2 + i] = b[i]
  OBVIOUS
<1>0. c \in Seq(S)
  OBVIOUS
<1> HIDE DEF c
<1>2. /\ a \o c \in Seq(S) /\ Len(a \o c) = Len(a) + Len(c)
      /\ \A i \in 1..Len(a) : (a \o c)[i] = a[i]
      /\ \A i \in 1..Len(c) : (a \o c)[Len(a) + i] = c[i]
  BY <1>0, Concatenated
<1>3. Len(a) \in Nat /\ Len(b) \in Nat
  OBVIOUS
<1>4. (a \o c)[Len(a) + 1] = x /\ (a \o c)[Len(a) + 2] = y
  BY <1>1, <1>2, <1>3
<1>5. ASSUME NEW i \in 1..Len(b) PROVE (a \o c)[Len(a) + 2 + i] = b[i]
  <2>1. 2 + i \in 1..Len(c) /\ Len(a) + (2 + i) = Len(a) + 2 + i
    BY <1>1, <1>3
  <2>2. (a \o c)[Len(a) + (2 + i)] = c[2 + i]
    BY <2>1, <1>2
  <2> QED BY <2>1, <2>2, <1>1
<1> QED BY <1>1, <1>2, <1>3, <1>4, <1>5 DEF c

\* Planning moves the boundary between planned and pending.
LEMMA PlanningMoves ==
  ASSUME NEW rs \in Seq(Span), NEW ps \in Seq(Span), ps # <<>>
  PROVE  Append(rs, Head(ps)) \o Tail(ps) = rs \o ps
<1> DEFINE new == Append(rs, Head(ps)) \o Tail(ps)
           old == rs \o ps
<1>0. Head(ps) \in Span /\ Tail(ps) \in Seq(Span) /\ Len(Tail(ps)) = Len(ps) - 1 /\ Len(ps) \in Nat
  OBVIOUS
<1>1. new \in Seq(Span) /\ old \in Seq(Span) /\ Len(new) = Len(old)
  BY <1>0
<1>2. \A i \in 1..Len(old) : new[i] = old[i]
  BY <1>0
<1> HIDE DEF new, old
<1>3. new = old
  BY <1>1, <1>2
<1> QED BY <1>3 DEF new, old

\* Halves of a range of two or more characters divide what it divided.
LEMMA HalvesDivide ==
  ASSUME NEW rs \in Seq(Span), NEW ps \in Seq(Span), ps # <<>>,
         Head(ps).end - Head(ps).start > 1, Divides(rs \o ps)
  PROVE  /\ Halves(Head(ps)) \o Tail(ps) \in Seq(Span)
         /\ Len(Halves(Head(ps)) \o Tail(ps)) = Len(ps) + 1
         /\ Divides(rs \o (Halves(Head(ps)) \o Tail(ps)))
<1> DEFINE r == Head(ps)
           rest == Tail(ps)
           middle == r.start + (r.end - r.start) \div 2
           h1 == [r EXCEPT !.end = middle]
           h2 == [r EXCEPT !.start = middle]
           q == rs \o ps
           t == rs \o (Halves(r) \o rest)
           n == Len(rs)
           m == Len(ps)
<1>1. /\ r \in Span /\ r = ps[1] /\ rest \in Seq(Span) /\ Len(rest) = m - 1
      /\ m \in Nat \ {0} /\ n \in Nat
      /\ \A i \in 1..Len(rest) : rest[i] = ps[i + 1]
  OBVIOUS
<1>2. /\ r.start \in Nat /\ r.end \in Nat /\ r.end <= InputLength /\ InputLength \in Nat
      /\ r.end - r.start > 1
  BY <1>1, LimitsAreNat DEF Span
<1>3. middle \in 0..InputLength /\ r.start < middle /\ middle < r.end
  <2> DEFINE d == r.end - r.start
  <2>1. d \in Nat /\ d > 1
    BY <1>2
  <2>2. d \div 2 \in Nat /\ d \div 2 > 0 /\ d \div 2 < d
    <3> HIDE DEF d
    <3> QED BY <2>1
  <2> QED BY <1>2, <2>2, SMTT(30)
<1>4. /\ h1 \in Span /\ h2 \in Span /\ h1.input = r.input /\ h2.input = r.input
      /\ h1.start = r.start /\ h1.end = middle /\ h2.start = middle /\ h2.end = r.end
  <2> HIDE DEF middle
  <2> QED BY <1>1, <1>3 DEF Span
<1>5. Halves(r) = <<h1, h2>>
  BY DEF Halves
<1>6. /\ q \in Seq(Span) /\ Len(q) = n + m
      /\ \A i \in 1..n : q[i] = rs[i]
      /\ \A i \in 1..m : q[n + i] = ps[i]
  OBVIOUS
<1>7. Divides(q)
  OBVIOUS
<1> HIDE DEF r, middle, h1, h2, q, rest
<1>80. h1 \in Span /\ h2 \in Span /\ rest \in Seq(Span)
  BY <1>1, <1>4
<1>8. /\ Halves(r) \o rest \in Seq(Span) /\ Len(Halves(r) \o rest) = Len(rest) + 2
      /\ t \in Seq(Span) /\ Len(t) = n + Len(rest) + 2
      /\ \A i \in 1..n : t[i] = rs[i]
      /\ t[n + 1] = h1 /\ t[n + 2] = h2
      /\ \A i \in 1..Len(rest) : t[n + 2 + i] = rest[i]
  BY <1>80, <1>5, Spliced
<1> HIDE DEF t, n, m
<1>10. /\ m \in Nat \ {0} /\ n \in Nat /\ Len(rest) = m - 1
       /\ Len(t) = n + m + 1 /\ Len(q) = n + m
  BY <1>1, <1>6, <1>8
<1>11. t[n + 1] = h1 /\ t[n + 2] = h2 /\ q[n + 1] = r
  BY <1>1, <1>6, <1>8, <1>10
<1>12. \A i \in 1..n : t[i] = q[i]
  BY <1>6, <1>8
<1>13. ASSUME NEW i \in (n + 3)..(n + m + 1) PROVE t[i] = q[i - 1]
  <2> DEFINE j == i - (n + 2)
  <2>1. j \in 1..Len(rest) /\ i = n + 2 + j /\ i - 1 = n + (j + 1) /\ j + 1 \in 1..m
    BY <1>10
  <2> HIDE DEF j
  <2>2. q[n + (j + 1)] = ps[j + 1]
    BY <2>1, <1>6
  <2>3. t[n + 2 + j] = rest[j] /\ rest[j] = ps[j + 1]
    BY <2>1, <1>1, <1>8
  <2> QED BY <2>1, <2>2, <2>3
<1>15. Divides(t)
  <2>1. t # <<>> /\ q # <<>> /\ Head(t) = t[1] /\ Head(q) = q[1]
        /\ Last(t) = t[n + m + 1] /\ Last(q) = q[n + m]
    <3>1. Len(t) > 0 /\ Len(q) > 0 /\ t \in Seq(Span) /\ q \in Seq(Span)
      BY <1>6, <1>8, <1>10
    <3>2. Last(t) = t[n + m + 1] /\ Last(q) = q[n + m]
      BY <1>10 DEF Last
    <3> QED BY <3>1, <3>2
  <2>2. Head(t).input = "context" /\ Head(t).start = 0
    <3>1. CASE n = 0
      BY <3>1, <2>1, <1>10, <1>11, <1>7, <1>4 DEF Divides
    <3>2. CASE n # 0
      BY <3>2, <2>1, <1>10, <1>12, <1>7 DEF Divides
    <3> QED BY <3>1, <3>2
  <2>3. Last(t).input = "diff" /\ Last(t).end = InputLength
    <3>1. CASE m = 1
      BY <3>1, <2>1, <1>10, <1>11, <1>7, <1>4 DEF Divides
    <3>2. CASE m # 1
      <4> DEFINE k == n + m + 1
      <4>1. k \in (n + 3)..(n + m + 1) /\ k - 1 = n + m
        BY <3>2, <1>10
      <4> HIDE DEF k
      <4>2. t[k] = q[k - 1]
        BY <4>1, <1>13
      <4>3. q[n + m].input = "diff" /\ q[n + m].end = InputLength
        BY <2>1, <1>7 DEF Divides
      <4> QED BY <4>1, <4>2, <4>3, <2>1 DEF k
    <3> QED BY <3>1, <3>2
  <2>4. ASSUME NEW i \in 1..Len(t) PROVE t[i].start < t[i].end
    <3>1. CASE i <= n
      BY <3>1, <1>10, <1>12, <1>7 DEF Divides
    <3>2. CASE i \in {n + 1, n + 2}
      BY <3>2, <1>11, <1>4, <1>3
    <3>3. CASE i >= n + 3
      <4>1. i \in (n + 3)..(n + m + 1) /\ i - 1 \in 1..Len(q)
        BY <3>3, <1>10
      <4> QED BY <4>1, <1>13, <1>7 DEF Divides
    <3> QED BY <3>1, <3>2, <3>3, <1>10
  <2>5. ASSUME NEW i \in 1..(Len(t) - 1) PROVE Continues(t[i], t[i + 1])
    <3>0. i \in Nat /\ i >= 1 /\ i <= n + m
      BY <1>10
    <3>1. CASE i < n
      <4>1. i \in 1..n /\ i + 1 \in 1..n /\ i \in 1..(Len(q) - 1)
        BY <3>0, <3>1, <1>10
      <4> QED BY <4>1, <1>12, <1>7 DEF Divides
    <3>2. CASE i = n
      <4>1. n \in 1..n /\ n \in 1..(Len(q) - 1)
        BY <3>0, <3>2, <1>10
      <4>2. t[n] = q[n] /\ Continues(q[n], q[n + 1])
        BY <4>1, <1>12, <1>7 DEF Divides
      <4> QED BY <3>2, <4>2, <1>11, <1>4 DEF Continues
    <3>3. CASE i = n + 1
      <4>1. t[i + 1] = h2
        BY <3>3, <1>10, <1>11
      <4> QED BY <3>3, <4>1, <1>11, <1>4 DEF Continues
    <3>4. CASE i = n + 2
      <4>1. n + 1 \in 1..(Len(q) - 1) /\ i + 1 \in (n + 3)..(n + m + 1) /\ i + 1 - 1 = n + 1 + 1
        BY <3>0, <3>4, <1>10
      <4>2. t[i + 1] = q[i + 1 - 1]
        BY <4>1, <1>13
      <4>3. Continues(q[n + 1], q[n + 1 + 1])
        BY <4>1, <1>7 DEF Divides
      <4>4. t[i] = h2 /\ q[n + 1] = r /\ t[i + 1] = q[n + 1 + 1]
        BY <3>4, <4>1, <4>2, <1>11
      <4> QED BY <4>3, <4>4, <1>4 DEF Continues
    <3>5. CASE i >= n + 3
      <4>1. /\ i \in (n + 3)..(n + m + 1) /\ i + 1 \in (n + 3)..(n + m + 1)
            /\ i - 1 \in 1..(Len(q) - 1) /\ i + 1 - 1 = (i - 1) + 1
        BY <3>0, <3>5, <1>10
      <4> QED BY <4>1, <1>13, <1>7 DEF Divides
    <3> QED BY <3>0, <3>1, <3>2, <3>3, <3>4, <3>5, <1>10
  <2> QED BY <2>1, <2>2, <2>3, <2>4, <2>5 DEF Divides
<1> QED BY <1>8, <1>10, <1>15 DEF t, r, rest, m

PlanInv == VerifierTypeOK /\ StartsAfresh /\ PlanAdvances

LEMMA ResultFields ==
  ASSUME NEW v, NEW used, NEW failed, NEW paths
  PROVE  /\ Result(v, used, failed, paths).verdict = v
         /\ Result(v, used, failed, paths).used_llm = used
         /\ Result(v, used, failed, paths).error = failed
         /\ Result(v, used, failed, paths).not_reviewed = paths
         /\ Result(v, used, failed, paths).concerns = <<>>
         /\ Result(v, used, failed, paths).retrieval = FALSE
BY DEF Result, NoResult

LEMMA WholeInputsDivide ==
  /\ WholeInputs \in Seq(Span) /\ WholeInputs # <<>> /\ Len(WholeInputs) = 2
  /\ Divides(<<>> \o WholeInputs)
<1>1. 0 \in 0..InputLength /\ InputLength \in 0..InputLength /\ 0 < InputLength
  BY LimitsAreNat
<1> DEFINE r1 == [input |-> "context", start |-> 0, end |-> InputLength]
           r2 == [input |-> "diff", start |-> 0, end |-> InputLength]
<1>2. r1 \in Span /\ r2 \in Span /\ WholeInputs = <<r1, r2>>
  BY <1>1 DEF Span, WholeInputs
<1>3. /\ r1.input = "context" /\ r1.start = 0 /\ r1.end = InputLength
      /\ r2.input = "diff" /\ r2.start = 0 /\ r2.end = InputLength
  OBVIOUS
<1> HIDE DEF r1, r2
<1>4. /\ WholeInputs \in Seq(Span) /\ WholeInputs # <<>> /\ Len(WholeInputs) = 2
      /\ WholeInputs[1] = r1 /\ WholeInputs[2] = r2 /\ Head(WholeInputs) = r1
      /\ <<>> \o WholeInputs = WholeInputs
  BY <1>2
<1> HIDE DEF WholeInputs
<1>5. Continues(r1, r2)
  BY <1>3 DEF Continues
<1>6. Divides(WholeInputs)
  BY <1>1, <1>3, <1>4, <1>5 DEF Divides, Last
<1> QED BY <1>4, <1>6

LEMMA PlanInitially == VerifierInit => PlanInv
<1> SUFFICES ASSUME VerifierInit PROVE PlanInv
  OBVIOUS
<1> USE DEF VerifierInit
<1>1. <<>> \in Seq(ToSet(<<>>)) /\ <<>> \in Seq(Span) /\ Len(<<>>) = 0
  OBVIOUS
<1>2. VerifierTypeOK
  BY <1>1, UsesAreUses DEF VerifierTypeOK, Steps, Use
<1>3. StartsAfresh
  BY DEF StartsAfresh
<1>4. PlanAdvances
  BY <1>1, LimitsAreNat DEF PlanAdvances, Partitioned, NoResult
<1> QED BY <1>2, <1>3, <1>4 DEF PlanInv

LEMMA NoJudgePlan == PlanInv /\ NoJudge => PlanInv'
<1> SUFFICES ASSUME PlanInv, NoJudge PROVE PlanInv'
  OBVIOUS
<1> USE DEF PlanInv, NoJudge, Conclude, inputs, partition
<1>1. VerifierTypeOK'
  BY DEF VerifierTypeOK, Steps
<1>2. StartsAfresh'
  BY DEF StartsAfresh
<1>3. PlanAdvances'
  BY DEF StartsAfresh, PlanAdvances, Partitioned
<1> QED BY <1>1, <1>2, <1>3

LEMMA BeginPlan == PlanInv /\ Begin => PlanInv'
<1> SUFFICES ASSUME PlanInv, Begin PROVE PlanInv'
  OBVIOUS
<1>1. /\ pc = "start" /\ pc' \in {"judged", "direct", "chunks"}
      /\ pc' # "judged" => result' = result
      /\ UNCHANGED <<pull, mode, profile, reviews, pending, ranges, counts, answer, arms>>
  BY DEF Begin, Conclude, inputs, partition
<1>2. VerifierTypeOK'
  BY <1>1 DEF PlanInv, VerifierTypeOK, Steps
<1>3. StartsAfresh'
  BY <1>1 DEF PlanInv, StartsAfresh
<1>4. PlanAdvances'
  BY <1>1 DEF PlanInv, StartsAfresh, PlanAdvances, Partitioned
<1> QED BY <1>2, <1>3, <1>4 DEF PlanInv

LEMMA DirectPlan == ASSUME PlanInv, NEW a, Direct(a) PROVE PlanInv'
<1>1. /\ pc = "direct" /\ pc' \in {"judged", "plan", "fallback"}
      /\ pending' = IF pc' = "plan" THEN WholeInputs ELSE pending
      /\ pc' # "judged" => result' = result /\ answer' = answer
      /\ UNCHANGED <<pull, mode, profile, reviews, ranges, counts, arms>>
  BY DEF Direct, Conclude, inputs
<1>2. pending = <<>> /\ ranges = <<>> /\ counts = 0 /\ reviews = <<>> /\ result = NoResult
      /\ answer = NoAnswer
  BY <1>1 DEF PlanInv, StartsAfresh
<1>3. VerifierTypeOK'
  BY <1>1, WholeInputsDivide DEF PlanInv, VerifierTypeOK, Steps
<1>4. StartsAfresh'
  BY <1>1, <1>2 DEF PlanInv, StartsAfresh
<1>5. PlanAdvances'
  <2>1. CASE pc' = "plan"
    <3>1. Len(ranges') = 0 /\ result'.verdict = "none" /\ 0 < 2 * MaxRequests
      BY <2>1, <1>1, <1>2, LimitsAreNat DEF NoResult
    <3>2. /\ ranges' = <<>> /\ pending' # <<>> /\ Divides(ranges' \o pending')
          /\ Len(pending') = 2 /\ counts' = 0 /\ reviews' = <<>> /\ answer' = NoAnswer
      BY <2>1, <1>1, <1>2, WholeInputsDivide
    <3> QED BY <3>1, <3>2 DEF PlanAdvances, Partitioned
  <2>2. CASE pc' # "plan"
    BY <2>2, <1>1, <1>2 DEF PlanInv, PlanAdvances, Partitioned
  <2> QED BY <2>1, <2>2
<1> QED BY <1>3, <1>4, <1>5 DEF PlanInv

LEMMA FallbackPlan == ASSUME PlanInv, NEW a, NEW summarised, Fallback(a, summarised) PROVE PlanInv'
<1>1. /\ pc = "fallback" /\ pc' = "judged"
      /\ UNCHANGED <<pull, mode, profile, reviews, pending, ranges, counts, arms>>
  BY DEF Fallback, Conclude, inputs, partition
<1>2. VerifierTypeOK'
  BY <1>1 DEF PlanInv, VerifierTypeOK, Steps
<1>3. StartsAfresh'
  BY <1>1 DEF PlanInv, StartsAfresh
<1>4. PlanAdvances'
  BY <1>1 DEF PlanInv, StartsAfresh, PlanAdvances, Partitioned
<1> QED BY <1>2, <1>3, <1>4 DEF PlanInv

LEMMA BlockedEnds ==
  ASSUME PlanInv, pc = "plan", Blocked, counts' \in Nat, counts <= counts',
         counts' < 2 * MaxRequests,
         UNCHANGED <<inputs, clients, chunks, reviews, pending, ranges, answer, arms, verdict>>
  PROVE  PlanInv'
<1>1. pc' = "judged" /\ result'.verdict = "CONCERNS"
  BY DEF Blocked, Conclude, Result, NoResult
<1>2. VerifierTypeOK'
  BY <1>1 DEF PlanInv, VerifierTypeOK, Steps, inputs
<1>3. StartsAfresh'
  BY <1>1 DEF PlanInv, StartsAfresh
<1>4. Partitioned' = Partitioned
  BY DEF Partitioned
<1>5. Len(ranges) \in Nat /\ counts \in Nat
  BY DEF PlanInv, VerifierTypeOK
<1>6. PlanAdvances'
  BY <1>1, <1>4, <1>5 DEF PlanInv, PlanAdvances
<1> QED BY <1>2, <1>3, <1>6 DEF PlanInv

LEMMA CountsEnd ==
  ASSUME counts \in Nat, ~Exhausted
  PROVE  counts + 1 < 2 * MaxRequests
<1> DEFINE S == {MaxCounts, 2 * MaxRequests - 1}
<1>1. \E x \in S : \A y \in S : x <= y
  BY LimitsAreNat
<1>2. Min(S) \in S /\ \A y \in S : Min(S) <= y
  BY <1>1 DEF Min
<1>3. Min(S) <= 2 * MaxRequests - 1 /\ Min(S) \in Int
  BY <1>2, LimitsAreNat
<1> HIDE DEF S
<1>4. counts < Min(S)
  BY <1>3 DEF Exhausted, S
<1> QED BY <1>3, <1>4, LimitsAreNat

LEMMA PlanRangePlan == ASSUME PlanInv, NEW count, PlanRange(count) PROVE PlanInv'
<1> DEFINE r == Head(pending)
           rest == Tail(pending)
           divisible == r.end - r.start > 1 /\ Len(ranges) + Len(rest) + 2 <= MaxRequests
<1>1. /\ pc = "plan" /\ pending # <<>> /\ VerifierTypeOK /\ StartsAfresh /\ PlanAdvances
      /\ UNCHANGED <<pull, mode, profile, clients, chunks, reviews, answer, arms, verdict>>
  BY DEF PlanRange, PlanInv, inputs
<1>2. /\ r \in Span /\ rest \in Seq(Span) /\ Len(rest) = Len(pending) - 1 /\ Len(pending) \in Nat
      /\ Len(ranges) \in Nat /\ counts \in Nat /\ ranges \in Seq(Span) /\ pending \in Seq(Span)
  BY <1>1 DEF VerifierTypeOK
<1>3. reviews = <<>> /\ result = NoResult /\ answer = NoAnswer
  BY <1>1 DEF StartsAfresh, PlanAdvances, Partitioned
<1>4. CASE Exhausted
  <2>1. Blocked /\ UNCHANGED partition
    BY <1>4 DEF PlanRange
  <2>2. counts' = counts /\ counts < 2 * MaxRequests
    BY <2>1, <1>1 DEF partition, PlanAdvances
  <2> QED BY <2>1, <2>2, <1>1, <1>2, BlockedEnds DEF partition, inputs
<1>5. CASE ~Exhausted
  <2>0. counts' = counts + 1 /\ counts' \in Nat /\ counts' < 2 * MaxRequests
    BY <1>5, <1>2, CountsEnd DEF PlanRange
  <2>1. CASE count = "fits"
    <3>1. ranges' = Append(ranges, r) /\ pending' = rest /\ pc' = pc /\ result' = result
      BY <1>5, <2>1 DEF PlanRange
    <3>2. /\ ranges' \in Seq(Span) /\ Len(ranges') = Len(ranges) + 1 /\ ranges' # <<>>
          /\ ranges' \o pending' = ranges \o pending
      BY <3>1, <1>1, <1>2, PlanningMoves
    <3>3. VerifierTypeOK'
      BY <2>0, <3>1, <3>2, <1>1, <1>2 DEF VerifierTypeOK
    <3>4. StartsAfresh'
      BY <3>1, <1>1, <1>3 DEF StartsAfresh
    <3>5. Partitioned /\ Divides(ranges \o pending)
      BY <1>1 DEF Partitioned, PlanAdvances
    <3>6. Len(ranges') + Len(pending') = Len(ranges) + Len(pending) /\ Len(ranges') <= counts'
      BY <3>1, <3>2, <2>0, <1>1, <1>2 DEF PlanAdvances
    <3>7. PlanAdvances'
      <4> HIDE DEF r, rest
      <4>1. Divides(ranges' \o pending') /\ Partitioned'
        BY <3>2, <3>5 DEF Partitioned
      <4>2. reviews' = <<>> /\ answer' = NoAnswer /\ result'.verdict = "none"
        BY <3>1, <1>1, <1>3 DEF NoResult
      <4>3. Len(ranges') + Len(pending') <= MaxRequests \/ Len(ranges') + Len(pending') <= 2
        BY <3>6, <1>1 DEF PlanAdvances
      <4> QED BY <2>0, <3>6, <4>1, <4>2, <4>3 DEF PlanAdvances
    <3> QED BY <3>3, <3>4, <3>7 DEF PlanInv
  <2>2. CASE count = "overflow" /\ divisible
    <3>1. pending' = Halves(r) \o rest /\ ranges' = ranges /\ pc' = pc /\ result' = result
      BY <1>5, <2>2 DEF PlanRange
    <3>2. Partitioned /\ Divides(ranges \o pending)
      BY <1>1 DEF Partitioned, PlanAdvances
    <3>3. /\ pending' \in Seq(Span) /\ Len(pending') = Len(pending) + 1
          /\ Divides(ranges' \o pending')
      BY <2>2, <3>1, <3>2, <1>1, <1>2, HalvesDivide
    <3>4. VerifierTypeOK'
      BY <2>0, <3>1, <3>3, <1>1, <1>2 DEF VerifierTypeOK
    <3>5. StartsAfresh'
      BY <3>1, <1>1, <1>3 DEF StartsAfresh
    <3>6. pending' # <<>>
      BY <3>3, <1>2
    <3>7. Len(ranges') + Len(pending') <= MaxRequests /\ Len(ranges') <= counts'
      <4> HIDE DEF r, rest
      <4> QED BY <2>2, <3>1, <3>3, <2>0, <1>1, <1>2, LimitsAreNat DEF PlanAdvances
    <3>8. PlanAdvances'
      BY <2>0, <3>1, <3>2, <3>3, <3>6, <3>7, <1>1, <1>3 DEF PlanAdvances, Partitioned
    <3> QED BY <3>4, <3>5, <3>8 DEF PlanInv
  <2>3. CASE ~(count = "fits") /\ ~(count = "overflow" /\ divisible)
    <3>1. Blocked /\ UNCHANGED <<pending, ranges>>
      BY <1>5, <2>3 DEF PlanRange
    <3> QED BY <3>1, <2>0, <1>1, <1>2, BlockedEnds DEF inputs
  <2> QED BY <2>1, <2>2, <2>3
<1> QED BY <1>4, <1>5

LEMMA ReviewRangePlan == ASSUME PlanInv, NEW a, ReviewRange(a) PROVE PlanInv'
<1> DEFINE review == IF a \in Raised
                       THEN [files |-> {}, answer |-> NoAnswer,
                             result |-> Result("none", FALSE, TRUE, {})]
                       ELSE [files |-> {}, answer |-> a, result |-> Parsed(a)]
<1>1. /\ pc = "plan" /\ pending = <<>> /\ reviews' = Append(reviews, review)
      /\ \/ pc' = pc /\ result' = result
         \/ pc' = "judged" /\ result' = Diagnosis(reviews')
      /\ UNCHANGED <<pull, mode, profile, pending, ranges, counts, answer, arms>>
  BY DEF ReviewRange, Conclude, inputs, partition
<1>2. Diagnosis(reviews').verdict \in {"CONCERNS", "FAIL"}
  BY DEF Diagnosis, Result, NoResult
<1> HIDE DEF review
<1>3. VerifierTypeOK'
  BY <1>1, Appended DEF PlanInv, VerifierTypeOK, Steps
<1>4. StartsAfresh'
  BY <1>1 DEF PlanInv, StartsAfresh
<1>5. PlanAdvances'
  BY <1>1, <1>2 DEF PlanInv, PlanAdvances, Partitioned
<1> QED BY <1>3, <1>4, <1>5 DEF PlanInv

LEMMA ChunksPlan ==
  ASSUME PlanInv,
         \/ \E a, shortfall : ReviewChunk(a, shortfall)
         \/ SettleChunks
         \/ \E a : Synthesize(a)
  PROVE  PlanInv'
<1>1. /\ pc \in {"chunks", "synthesis"} /\ pc' \in {"chunks", "synthesis", "judged"}
      /\ pc' # "judged" => result' = result /\ answer' = answer
      /\ reviews' = reviews \/ \E review : reviews' = Append(reviews, review)
      /\ UNCHANGED <<pull, mode, profile, pending, ranges, counts, arms>>
  <2>1. ASSUME NEW a, NEW shortfall, ReviewChunk(a, shortfall) PROVE <1>1!:
    BY <2>1 DEF ReviewChunk, inputs, partition
  <2>2. ASSUME SettleChunks PROVE <1>1!:
    BY <2>2 DEF SettleChunks, Conclude, inputs, partition
  <2>3. ASSUME NEW a, Synthesize(a) PROVE <1>1!:
    BY <2>3 DEF Synthesize, Conclude, inputs, partition
  <2> QED BY <2>1, <2>2, <2>3
<1>2. VerifierTypeOK'
  BY <1>1, Appended DEF PlanInv, VerifierTypeOK, Steps
<1>3. StartsAfresh'
  BY <1>1 DEF PlanInv, StartsAfresh
<1>4. PlanAdvances'
  BY <1>1 DEF PlanInv, StartsAfresh, PlanAdvances, Partitioned
<1> QED BY <1>2, <1>3, <1>4 DEF PlanInv

LEMMA NextJudgePlan == PlanInv /\ NextJudge => PlanInv'
<1> SUFFICES ASSUME PlanInv, NextJudge PROVE PlanInv'
  OBVIOUS
<1>1. /\ pc' \in {"printed", "start"} /\ reviews' = <<>> /\ pending' = <<>> /\ ranges' = <<>>
      /\ counts' = 0 /\ answer' = NoAnswer /\ result' = NoResult
      /\ \E arm : arms' = Append(arms, arm)
      /\ UNCHANGED <<pull, mode, profile>>
  BY DEF NextJudge, inputs
<1>2. <<>> \in Seq(ToSet(<<>>)) /\ <<>> \in Seq(Span) /\ Len(<<>>) = 0
  OBVIOUS
<1>3. VerifierTypeOK'
  BY <1>1, <1>2, Appended DEF PlanInv, VerifierTypeOK, Steps
<1>4. StartsAfresh'
  BY <1>1 DEF StartsAfresh
<1>5. PlanAdvances'
  BY <1>1, <1>2, LimitsAreNat DEF PlanAdvances, Partitioned, NoResult
<1> QED BY <1>3, <1>4, <1>5 DEF PlanInv

LEMMA AdmitPlan == PlanInv /\ Admit => PlanInv'
BY DEF PlanInv, Admit, inputs, partition, VerifierTypeOK, Steps, StartsAfresh, PlanAdvances,
       Partitioned

LEMMA PlanInductive == PlanInv /\ [VerifierNext]_verifierVars => PlanInv'
<1> SUFFICES ASSUME PlanInv, [VerifierNext]_verifierVars PROVE PlanInv'
  OBVIOUS
<1>1. CASE RefusePlan
  <2>1. counts' = counts /\ counts \in Nat /\ counts < 2 * MaxRequests /\ pc = "plan" /\ Blocked
    BY <1>1 DEF RefusePlan, partition, PlanInv, VerifierTypeOK, PlanAdvances
  <2> QED BY <1>1, <2>1, BlockedEnds DEF RefusePlan, partition
<1>2. CASE UNCHANGED verifierVars
  BY <1>2 DEF verifierVars, PlanInv, VerifierTypeOK, StartsAfresh, PlanAdvances, Partitioned
<1> QED
  BY <1>1, <1>2, NoJudgePlan, BeginPlan, DirectPlan, FallbackPlan, PlanRangePlan,
     ReviewRangePlan, ChunksPlan, NextJudgePlan, AdmitPlan DEF VerifierNext

\* What is planned and what is pending is the whole input at every moment, for any
\* common length of the two inputs and any limits (_plan_diagnostic_partitions,
\* pr_verifier.py:7729-7773).
THEOREM PlansCoverInput == VerifierSpec => []RangesCoverInput
<1>1. PlanInv => RangesCoverInput
  <2> SUFFICES ASSUME PlanInv, Partitioned PROVE RangesCoverInput
    BY DEF RangesCoverInput, Partitioned
  <2>1. Len(ranges) \in Nat /\ Len(pending) \in Nat /\ counts \in Nat
    BY DEF PlanInv, VerifierTypeOK
  <2>2. Len(ranges) <= MaxRequests
    BY <2>1, LimitsAreNat DEF PlanInv, PlanAdvances
  <2> QED BY <2>2 DEF PlanInv, PlanAdvances, RangesCoverInput
<1>2. QED
  BY PlanInitially, PlanInductive, <1>1, PTL DEF VerifierSpec

\* What a request was made under.
Admissions ==
  /\ pc \in {"direct", "fallback", "plan"} =>
       ~Ambiguous /\ Fits /\ (HasSource => pull.shortfall = "none" /\ HasCode)
  /\ pc = "fallback" => mode = "evaluate"
  /\ pc \in {"chunks", "synthesis"} =>
       ~Ambiguous /\ ~Fits /\ pull.known /\ pull.shortfall = "none"
  /\ pc = "synthesis" => Reconcilable

\* The review of some files: no answer, one outside the schema, or what it says.
FileReview(r) ==
  /\ "verdict" \in DOMAIN r.result
  /\ \/ /\ r.answer = NoAnswer /\ ~r.result.used_llm
        /\ r.result.verdict \in {"CONCERNS", "UNVERIFIABLE_INPUT"}
     \/ /\ r.answer = Malformed /\ r.result.used_llm /\ r.result.error
        /\ r.result.verdict = "CONCERNS"
     \/ /\ r.answer \in Answers /\ r.result.used_llm /\ ~r.result.error
        /\ r.result.not_reviewed = r.answer.not_reviewed \cap r.files
        /\ r.result.concerns = r.answer.concerns /\ r.result.retrieval = r.answer.retrieval
        /\ r.result.verdict = IF r.answer.verdict = "PASS" /\ r.result.not_reviewed # {}
                                THEN "UNVERIFIABLE_INPUT" ELSE r.answer.verdict

\* The review of a range.
RangeReview(r) ==
  \/ r.answer = NoAnswer /\ r.result.verdict = "none"
  \/ r.answer = Malformed /\ r.result.verdict = "CONCERNS"
  \/ r.answer \in Answers /\ r.result.verdict = r.answer.verdict

ReviewsTell ==
  \A r \in ToSet(reviews) : IF Partitioned THEN RangeReview(r) ELSE FileReview(r)

\* A FAIL was said by a judge.
FailIsSaid == pc = "judged" /\ result.verdict = "FAIL" => result.used_llm

ArmsTell ==
  /\ \A arm \in ToSet(arms) : arm.verdict = "FAIL" => arm.used_llm
  /\ verdict = IF pc = "admitted" THEN ExpandedVerdict(arms) ELSE "none"

Judged == JudgeSawAll /\ JudgeKeepsFindings /\ FailIsSaid

ReviewInv == Admissions /\ ReviewsTell /\ Judged /\ ArmsTell

LEMMA AnswersTell ==
  ASSUME NEW a \in Answers \cup Syntheses
  PROVE  /\ a.kind = "answer" /\ a.verdict \in Verdicts
         /\ a # Malformed /\ a # NoAnswer /\ a \notin Raised
BY AnswersArePayloads DEF Answer, Malformed, NoAnswer, Raised

LEMMA OthersTellNothing ==
  /\ Malformed \notin Raised /\ Malformed.kind = "malformed" /\ NoAnswer.kind = "none"
  /\ Malformed # NoAnswer /\ \A a \in Raised : a.kind # "answer"
BY DEF Malformed, NoAnswer, Raised

\* What _apply_coverage_floor leaves of an answer.
LEMMA ParsedAndFloored ==
  ASSUME NEW a \in Answers \cup Syntheses \cup {Malformed}, NEW code
  PROVE  LET r == Floored(Parsed(a), code) IN
         /\ "verdict" \in DOMAIN r /\ r.used_llm
         /\ a = Malformed => r.error /\ r.verdict = "CONCERNS"
         /\ a # Malformed =>
              /\ ~r.error /\ r.not_reviewed = a.not_reviewed /\ r.concerns = a.concerns
              /\ r.retrieval = a.retrieval
              /\ r.verdict = IF a.verdict = "PASS" /\ (~code \/ a.not_reviewed # {})
                               THEN "UNVERIFIABLE_INPUT" ELSE a.verdict
<1>1. CASE a = Malformed
  BY <1>1 DEF Floored, Parsed, Malformed, Result, NoResult
<1>2. CASE a # Malformed
  <2>1. a.kind # "malformed"
    BY <1>2, AnswersTell
  <2>2. Parsed(a) = [verdict |-> a.verdict, used_llm |-> TRUE, error |-> FALSE,
                     not_reviewed |-> a.not_reviewed, concerns |-> a.concerns,
                     retrieval |-> a.retrieval]
    BY <2>1 DEF Parsed
  <2> QED BY <1>2, <2>2 DEF Floored
<1> QED BY <1>1, <1>2

LEMMA LocalResultTells ==
  ASSUME NEW a \in Answers \cup {Malformed} \cup Raised, NEW files
  PROVE  FileReview([files |-> files, answer |-> IF a \in Raised THEN NoAnswer ELSE a,
                     result |-> LocalResult(files, a)])
<1>1. CASE a \in Raised
  BY <1>1 DEF FileReview, LocalResult, Result, NoResult
<1>2. CASE a = Malformed
  BY <1>2, OthersTellNothing DEF FileReview, LocalResult, Parsed, Floored, Malformed, Result, NoResult
<1>3. CASE a \in Answers
  <2>1. a.kind # "malformed" /\ a \notin Raised
    BY <1>3, AnswersTell
  <2> DEFINE p == [verdict |-> a.verdict, used_llm |-> TRUE, error |-> FALSE,
                   not_reviewed |-> a.not_reviewed, concerns |-> a.concerns,
                   retrieval |-> a.retrieval]
             q == [p EXCEPT !.not_reviewed = p.not_reviewed \cap files]
  <2>2. Parsed(a) = p
    BY <2>1 DEF Parsed
  <2>3. /\ "verdict" \in DOMAIN q /\ q.verdict = a.verdict /\ q.used_llm /\ ~q.error
        /\ q.not_reviewed = a.not_reviewed \cap files /\ q.concerns = a.concerns
        /\ q.retrieval = a.retrieval
    OBVIOUS
  <2>4. LocalResult(files, a) = Floored(q, TRUE)
    <3> HIDE DEF p
    <3> QED BY <2>1, <2>2 DEF LocalResult
  <2> HIDE DEF q
  <2> DEFINE f == Floored(q, TRUE)
  <2>5. /\ "verdict" \in DOMAIN f /\ f.used_llm /\ ~f.error
        /\ f.not_reviewed = q.not_reviewed /\ f.concerns = q.concerns
        /\ f.retrieval = q.retrieval
        /\ f.verdict = IF q.verdict = "PASS" /\ q.not_reviewed # {}
                         THEN "UNVERIFIABLE_INPUT" ELSE q.verdict
    BY <2>3 DEF Floored
  <2> HIDE DEF f
  <2> QED BY <1>3, <2>1, <2>3, <2>4, <2>5 DEF FileReview, f
<1> QED BY <1>1, <1>2, <1>3

LEMMA UnavailableTells ==
  ASSUME NEW shortfall, NEW paths, NEW files
  PROVE  FileReview([files |-> files, answer |-> NoAnswer, result |-> Unavailable(shortfall, paths)])
BY DEF FileReview, Unavailable, Result, NoResult

LEMMA ComparisonTells ==
  ASSUME NEW rs
  PROVE  LET v == ComparisonVerdict(rs) IN
         /\ v \in Verdicts
         /\ v = "PASS" => \A r \in rs : /\ r.used_llm /\ ~r.error
                                        /\ r.verdict \notin Verdicts \ {"PASS"}
         /\ (\E r \in rs : r.verdict = "FAIL" /\ ~r.retrieval) => v = "FAIL"
         /\ (\E r \in rs : r.verdict = "FAIL") => v # "PASS"
         /\ (\E r \in rs : r.verdict = "CONCERNS" /\ ~r.error) => v \in {"FAIL", "CONCERNS"}
         /\ v = "FAIL" => \E r \in rs : r.verdict = "FAIL"
BY DEF ComparisonVerdict, Verdicts

\* The results of requests that were not reconciled.
LEMMA ReconcilableCovers ==
  ASSUME VerifierTypeOK, Reconcilable, ~Fits, ~Partitioned, ReviewsTell
  PROVE  /\ pull.files # <<>> /\ Binary = {} /\ reviews # <<>>
         /\ \A r \in ToSet(reviews) : r.answer \in Answers
         /\ \A p \in Changed : \E r \in ToSet(reviews) :
              p \in r.files /\ Answered(r) /\ p \notin r.answer.not_reviewed
         /\ \A r \in ToSet(reviews) : Elsewhere \notin r.answer.not_reviewed
<1>1. Binary = {} /\ Unknown = {} /\ Changed \subseteq Reviewed
  BY DEF Reconcilable, NotReviewed
<1>2. pull.files # <<>> /\ pull.files \in Seq(File)
  BY <1>1, NothingHasNoSize, LimitsAreNat, AnswersArePayloads DEF Fits, VerifierTypeOK, Pull
<1>3. ASSUME NEW r \in ToSet(reviews)
      PROVE  FileReview(r) /\ r.answer \in Answers /\ Answered(r)
  <2>1. FileReview(r)
    BY <1>3 DEF ReviewsTell
  <2>2. r.result.used_llm /\ ~r.result.error
    BY <1>3 DEF Reconcilable, Local
  <2>3. r.answer \in Answers
    BY <2>1, <2>2 DEF FileReview
  <2> QED BY <2>1, <2>3, AnswersTell DEF Answered
<1>4. ASSUME NEW p \in Changed
      PROVE  \E r \in ToSet(reviews) :
               p \in r.files /\ Answered(r) /\ p \notin r.answer.not_reviewed
  <2>1. PICK r \in ToSet(reviews) : p \in Credit(r)
    BY <1>1, <1>4 DEF Reviewed
  <2>2. p \in r.files /\ p \notin r.result.not_reviewed
    BY <2>1 DEF Credit
  <2>3. r.result.not_reviewed = r.answer.not_reviewed \cap r.files
    BY <1>3, AnswersTell, OthersTellNothing DEF FileReview
  <2> QED BY <1>3, <2>2, <2>3
<1>5. pull.files[1] \in ToSet(pull.files) /\ pull.files[1].path \in Changed
  <2>1. 1 \in DOMAIN pull.files
    BY <1>2
  <2> QED BY <2>1 DEF Changed, ToSet
<1>6. reviews # <<>>
  BY <1>4, <1>5 DEF ToSet
<1>7. Elsewhere \notin Changed
  <2>1. \A f \in ToSet(pull.files) : f.path \in Paths
    <3>1. \A i \in DOMAIN pull.files : pull.files[i] \in File
      BY <1>2
    <3> QED BY <3>1 DEF ToSet, File
  <2> QED BY <2>1, AnswersArePayloads DEF Changed
<1>8. ASSUME NEW r \in ToSet(reviews) PROVE Elsewhere \notin r.answer.not_reviewed
  BY <1>1, <1>3, <1>7 DEF Unknown, Answered
<1> QED BY <1>1, <1>2, <1>3, <1>4, <1>6, <1>8

\* Facts about the change hold as long as it is the same.
LEMMA ChangeStays ==
  ASSUME pull' = pull
  PROVE  /\ HasCode' = HasCode /\ HasSource' = HasSource /\ Binary' = Binary
         /\ Changed' = Changed /\ Ambiguous' = Ambiguous /\ Fits' = Fits
BY DEF HasCode, HasSource, Binary, Changed, Ambiguous, Fits, SizeOf

LEMMA SaidAlone ==
  ASSUME reviews' = <<>>, NEW v, NEW a \in Said(v)'
  PROVE  a = answer' /\ a.kind = "answer" /\ a.verdict = v
BY DEF Said, ToSet

\* A judge that ends without an answer found nothing.
LEMMA EndsQuietly ==
  ASSUME reviews' = <<>>, answer' = NoAnswer,
         result'.verdict \in {"CONCERNS", "UNVERIFIABLE_INPUT"}
  PROVE  Judged'
<1>1. \A v : Said(v)' = {}
  BY SaidAlone, OthersTellNothing
<1> QED BY <1>1 DEF Judged, JudgeSawAll, JudgeKeepsFindings, FailIsSaid

\* One request that had everything.
LEMMA EndsAlone ==
  ASSUME reviews' = <<>>, NEW a \in Answers \cup {Malformed}, answer' = a,
         pull' = pull, mode' = mode,
         ~Ambiguous, Fits, HasSource => pull.shortfall = "none",
         result'.used_llm,
         a = Malformed => result'.verdict = "CONCERNS",
         a # Malformed =>
           /\ a.verdict # "PASS" => result'.verdict = a.verdict
           /\ result'.verdict = "PASS" =>
                HasCode /\ (a.not_reviewed = {} \/ (result'.error /\ mode = "evaluate"))
  PROVE  Judged'
<1>1. ASSUME NEW v, NEW b \in Said(v)'
      PROVE  b = a /\ a # Malformed /\ a.verdict = v /\ (v # "PASS" => result'.verdict = v)
  BY <1>1, SaidAlone, OthersTellNothing
<1>2. JudgeSawAll'
  <2> SUFFICES ASSUME result'.verdict = "PASS" PROVE JudgeSawAll'
    BY DEF JudgeSawAll
  <2>1. /\ a # Malformed /\ a.verdict = "PASS" /\ a.kind = "answer" /\ HasCode
        /\ a.not_reviewed = {} \/ (result'.error /\ mode = "evaluate")
    BY AnswersTell
  <2>2. HasSource /\ pull.shortfall = "none"
    BY <2>1 DEF HasCode, HasSource
  <2>3. HasCode' /\ Binary' = {} /\ ~Ambiguous' /\ Fits' /\ pull'.shortfall = "none"
    BY <2>1, <2>2, ChangeStays DEF Fits
  <2> QED BY <2>1, <2>3 DEF JudgeSawAll, Fits
<1>3. JudgeKeepsFindings'
  <2>1. \A i \in 1..Len(reviews') : FALSE
    OBVIOUS
  <2>2. (\E b \in Said("FAIL")' : ~b.retrieval) => result'.verdict = "FAIL"
    BY <1>1
  <2>3. Said("FAIL")' # {} => result'.verdict # "PASS"
    BY <1>1
  <2>4. result'.verdict \in {"PASS", "UNVERIFIABLE_INPUT"} => Said("CONCERNS")' = {}
    BY <1>1
  <2> QED BY <2>1, <2>2, <2>3, <2>4 DEF JudgeKeepsFindings
<1> QED BY <1>2, <1>3 DEF Judged, FailIsSaid

LEMMA ReviewInitially == VerifierInit => ReviewInv
<1> SUFFICES ASSUME VerifierInit PROVE ReviewInv
  OBVIOUS
<1>1. ToSet(<<>>) = {}
  BY DEF ToSet
<1> QED BY <1>1 DEF VerifierInit, ReviewInv, Admissions, ReviewsTell, ArmsTell, Judged,
                    JudgeSawAll, JudgeKeepsFindings, FailIsSaid

LEMMA NoJudgeReview == PlanInv /\ ReviewInv /\ NoJudge => ReviewInv'
<1> SUFFICES ASSUME PlanInv, ReviewInv, NoJudge PROVE ReviewInv'
  OBVIOUS
<1>1. /\ pc = "start" /\ pc' = "judged" /\ result'.verdict = "CONCERNS"
      /\ reviews' = <<>> /\ answer' = NoAnswer /\ arms' = arms /\ verdict' = verdict
  BY DEF NoJudge, Conclude, PlanInv, StartsAfresh, FallbackEvaluation, Result, NoResult
<1>2. Judged'
  BY <1>1, EndsQuietly
<1>3. ReviewsTell'
  BY <1>1 DEF ReviewsTell, ToSet
<1> QED BY <1>1, <1>2, <1>3 DEF ReviewInv, Admissions, ArmsTell

LEMMA BeginReview == PlanInv /\ ReviewInv /\ Begin => ReviewInv'
<1> SUFFICES ASSUME PlanInv, ReviewInv, Begin PROVE ReviewInv'
  OBVIOUS
<1>1. /\ pc = "start" /\ pull' = pull /\ reviews' = <<>> /\ answer' = NoAnswer
      /\ arms' = arms /\ verdict' = verdict
  BY DEF Begin, inputs, PlanInv, StartsAfresh
<1>2. \/ pc' = "judged" /\ result'.verdict \in {"CONCERNS", "UNVERIFIABLE_INPUT"}
      \/ /\ pc' = "direct" /\ result' = result /\ ~Ambiguous /\ Fits
         /\ HasSource => pull.shortfall = "none" /\ HasCode
      \/ /\ pc' = "chunks" /\ result' = result /\ ~Ambiguous /\ ~Fits
         /\ pull.known /\ pull.shortfall = "none"
  <2>1. \A s, paths : Unavailable(s, paths).verdict \in {"CONCERNS", "UNVERIFIABLE_INPUT"}
    BY DEF Unavailable, Result, NoResult
  <2>2. Result("UNVERIFIABLE_INPUT", FALSE, FALSE, Changed).verdict = "UNVERIFIABLE_INPUT"
    BY DEF Result, NoResult
  <2> QED BY <2>1, <2>2 DEF Begin, Conclude
<1>3. ReviewsTell'
  BY <1>1 DEF ReviewsTell, ToSet
<1>4. ArmsTell'
  BY <1>1, <1>2 DEF ReviewInv, ArmsTell
<1>5. Admissions'
  BY <1>1, <1>2, ChangeStays DEF Admissions
<1>6. Judged'
  <2>1. CASE pc' = "judged"
    BY <2>1, <1>1, <1>2, EndsQuietly
  <2>2. CASE pc' # "judged"
    BY <2>2 DEF Judged, JudgeSawAll, JudgeKeepsFindings, FailIsSaid
  <2> QED BY <2>1, <2>2
<1> QED BY <1>3, <1>4, <1>5, <1>6 DEF ReviewInv

LEMMA DirectReview ==
  ASSUME PlanInv, ReviewInv, NEW a \in Answers \cup {Malformed} \cup Raised, Direct(a)
  PROVE  ReviewInv'
<1>1. /\ pc = "direct" /\ pc' \in {"judged", "plan", "fallback"}
      /\ pc' = "fallback" => mode = "evaluate"
      /\ reviews' = <<>> /\ arms' = arms /\ verdict' = verdict /\ pull' = pull /\ mode' = mode
      /\ answer = NoAnswer
  BY DEF Direct, Conclude, MayFallBack, inputs, PlanInv, StartsAfresh
<1>2. ~Ambiguous /\ Fits /\ (HasSource => pull.shortfall = "none" /\ HasCode)
  BY <1>1 DEF ReviewInv, Admissions
<1>3. ReviewsTell'
  BY <1>1 DEF ReviewsTell, ToSet
<1>4. ArmsTell'
  BY <1>1 DEF ReviewInv, ArmsTell
<1>5. Admissions'
  BY <1>1, <1>2, ChangeStays DEF Admissions
<1>6. Judged'
  <2>1. CASE a \notin Raised
    <3>1. result' = Floored(Parsed(a), HasCode) /\ answer' = a
      BY <2>1 DEF Direct, Conclude
    <3>2. a \in Answers \cup {Malformed}
      BY <2>1
    <3> DEFINE f == Floored(Parsed(a), HasCode)
    <3>3. /\ f.used_llm /\ (a = Malformed => f.verdict = "CONCERNS")
          /\ a # Malformed =>
               f.verdict = IF a.verdict = "PASS" /\ (~HasCode \/ a.not_reviewed # {})
                             THEN "UNVERIFIABLE_INPUT" ELSE a.verdict
      BY <3>2, ParsedAndFloored
    <3>4. result' = f
      BY <3>1
    <3> HIDE DEF f
    <3>5. /\ result'.used_llm /\ (a = Malformed => result'.verdict = "CONCERNS")
          /\ a # Malformed =>
               /\ a.verdict # "PASS" => result'.verdict = a.verdict
               /\ result'.verdict = "PASS" => HasCode /\ a.not_reviewed = {}
      BY <3>3, <3>4
    <3> QED BY <3>1, <3>2, <3>5, <1>1, <1>2, EndsAlone
  <2>2. CASE a \in Raised /\ pc' = "judged"
    <3>1. answer' = NoAnswer /\ result' = FallbackEvaluation
      BY <2>2, <1>1 DEF Direct, Conclude
    <3>2. result'.verdict = "CONCERNS"
      BY <3>1 DEF FallbackEvaluation, Result, NoResult
    <3> QED BY <3>1, <3>2, <1>1, EndsQuietly
  <2>3. CASE pc' # "judged"
    BY <2>3 DEF Judged, JudgeSawAll, JudgeKeepsFindings, FailIsSaid
  <2> QED BY <2>1, <2>2, <2>3
<1> QED BY <1>3, <1>4, <1>5, <1>6 DEF ReviewInv

LEMMA FallbackReview ==
  ASSUME PlanInv, ReviewInv, NEW a \in Answers \cup {Malformed} \cup Raised,
         NEW summarised \in BOOLEAN, Fallback(a, summarised)
  PROVE  ReviewInv'
<1>1. /\ pc = "fallback" /\ pc' = "judged" /\ reviews' = <<>> /\ arms' = arms
      /\ verdict' = verdict /\ pull' = pull /\ mode' = mode /\ answer = NoAnswer
  BY DEF Fallback, Conclude, inputs, PlanInv, StartsAfresh
<1>2. /\ ~Ambiguous /\ Fits /\ (HasSource => pull.shortfall = "none" /\ HasCode)
      /\ mode = "evaluate"
  BY <1>1 DEF ReviewInv, Admissions
<1>3. ReviewsTell'
  BY <1>1 DEF ReviewsTell, ToSet
<1>4. ArmsTell'
  BY <1>1 DEF ReviewInv, ArmsTell
<1>5. Admissions'
  BY <1>1 DEF Admissions
<1>6. Judged'
  <2>1. CASE a \in Raised
    <3>1. answer' = NoAnswer /\ result' = FallbackEvaluation
      BY <2>1, <1>1 DEF Fallback, Conclude
    <3>2. result'.verdict = "CONCERNS"
      BY <3>1 DEF FallbackEvaluation, Result, NoResult
    <3> QED BY <3>1, <3>2, <1>1, EndsQuietly
  <2>2. CASE a \notin Raised
    <3>1. a \in Answers \cup {Malformed} /\ answer' = a
      BY <2>2 DEF Fallback
    <3>2. CASE summarised /\ a.kind = "answer"
      <4> DEFINE p == [Parsed(a) EXCEPT !.error = TRUE, !.not_reviewed = {}]
      <4>1. result' = Floored(p, HasCode)
        BY <2>2, <3>2 DEF Fallback, Conclude
      <4>2. a # Malformed
        BY <3>2, OthersTellNothing
      <4>3. /\ "verdict" \in DOMAIN p /\ p.verdict = a.verdict /\ p.used_llm /\ p.error
            /\ p.not_reviewed = {}
        <5>1. Parsed(a) = [verdict |-> a.verdict, used_llm |-> TRUE, error |-> FALSE,
                           not_reviewed |-> a.not_reviewed, concerns |-> a.concerns,
                           retrieval |-> a.retrieval]
          BY <3>2 DEF Parsed
        <5> QED BY <5>1
      <4> HIDE DEF p
      <4>4. /\ result'.used_llm /\ result'.error
            /\ a.verdict # "PASS" => result'.verdict = a.verdict
            /\ result'.verdict = "PASS" => HasCode
        BY <4>1, <4>3 DEF Floored
      <4> QED BY <3>1, <4>2, <4>4, <1>1, <1>2, EndsAlone
    <3>3. CASE ~(summarised /\ a.kind = "answer")
      <4> DEFINE f == Floored(Parsed(a), HasCode)
      <4>1. result' = f
        BY <2>2, <3>3 DEF Fallback, Conclude
      <4>2. /\ f.used_llm /\ (a = Malformed => f.verdict = "CONCERNS")
            /\ a # Malformed =>
                 f.verdict = IF a.verdict = "PASS" /\ (~HasCode \/ a.not_reviewed # {})
                               THEN "UNVERIFIABLE_INPUT" ELSE a.verdict
        BY <3>1, ParsedAndFloored
      <4> HIDE DEF f
      <4>3. /\ result'.used_llm /\ (a = Malformed => result'.verdict = "CONCERNS")
            /\ a # Malformed =>
                 /\ a.verdict # "PASS" => result'.verdict = a.verdict
                 /\ result'.verdict = "PASS" => HasCode /\ a.not_reviewed = {}
        BY <4>1, <4>2
      <4> QED BY <3>1, <4>3, <1>1, <1>2, EndsAlone
    <3> QED BY <3>2, <3>3
  <2> QED BY <2>1, <2>2
<1> QED BY <1>3, <1>4, <1>5, <1>6 DEF ReviewInv

\* Planning asks nobody.
LEMMA PlanningReview ==
  ASSUME PlanInv, ReviewInv, RefusePlan \/ \E count : PlanRange(count)
  PROVE  ReviewInv'
<1>1. /\ pc = "plan" /\ pc' \in {"plan", "judged"} /\ pull' = pull /\ mode' = mode
      /\ reviews' = reviews /\ answer' = answer /\ arms' = arms /\ verdict' = verdict
      /\ pc' = "judged" => Blocked
  BY DEF RefusePlan, PlanRange, inputs, Blocked, Conclude
<1>2. reviews = <<>> /\ answer = NoAnswer
  <2>1. CASE RefusePlan
    <3>1. ranges \in Seq(Span) /\ Len(ranges) = 0
      <4>1. Len(ranges) \in Nat /\ Len(ranges) <= counts /\ counts = 0
        BY <2>1 DEF RefusePlan, PlanInv, PlanAdvances, VerifierTypeOK
      <4> QED BY <4>1 DEF PlanInv, VerifierTypeOK
    <3>2. ranges = <<>>
      BY <3>1
    <3> QED BY <3>2, <1>1 DEF PlanInv, PlanAdvances, StartsAfresh, Partitioned
  <2>2. CASE \E count : PlanRange(count)
    <3>1. pending # <<>>
      BY <2>2 DEF PlanRange
    <3> QED BY <3>1, <1>1 DEF PlanInv, PlanAdvances, StartsAfresh, Partitioned
  <2> QED BY <2>1, <2>2
<1>3. ReviewsTell'
  BY <1>1, <1>2 DEF ReviewsTell, ToSet
<1>4. ArmsTell'
  BY <1>1 DEF ReviewInv, ArmsTell
<1>5. Admissions'
  BY <1>1, ChangeStays DEF ReviewInv, Admissions
<1>6. Judged'
  <2>1. CASE pc' = "judged"
    <3>1. result'.verdict = "CONCERNS"
      BY <2>1, <1>1 DEF Blocked, Conclude, Result, NoResult
    <3> QED BY <3>1, <1>1, <1>2, EndsQuietly
  <2>2. CASE pc' # "judged"
    BY <2>2 DEF Judged, JudgeSawAll, JudgeKeepsFindings, FailIsSaid
  <2> QED BY <2>1, <2>2
<1> QED BY <1>3, <1>4, <1>5, <1>6 DEF ReviewInv

\* The reviews by number.
LEMMA Numbered ==
  ASSUME NEW s, s \in Seq(ToSet(s))
  PROVE  /\ DOMAIN s = 1..Len(s) /\ Len(s) \in Nat
         /\ \A x \in ToSet(s) : \E i \in 1..Len(s) : x = s[i]
         /\ \A i \in 1..Len(s) : s[i] \in ToSet(s)
<1>1. DOMAIN s = 1..Len(s) /\ Len(s) \in Nat
  OBVIOUS
<1> QED BY <1>1 DEF ToSet

\* The result of a partition has the findings of its reviews and does not pass.
LEMMA DiagnosisJudged ==
  ASSUME NEW rs, rs \in Seq(ToSet(rs)), \A r \in ToSet(rs) : RangeReview(r),
         reviews' = rs, answer' = NoAnswer, result' = Diagnosis(rs)
  PROVE  Judged'
<1> DEFINE fails == \E i \in 1..Len(rs) : rs[i].result.verdict = "FAIL"
<1>1. result'.verdict = IF fails THEN "FAIL" ELSE "CONCERNS"
  BY DEF Diagnosis, Result, NoResult
<1>2. result'.used_llm = \E i \in 1..Len(rs) : rs[i].answer # NoAnswer
  BY DEF Diagnosis, Result, NoResult
<1>3. ASSUME fails PROVE result'.used_llm
  <2>1. PICK i \in 1..Len(rs) : rs[i].result.verdict = "FAIL"
    BY <1>3
  <2>2. RangeReview(rs[i])
    BY Numbered
  <2>3. rs[i].answer # NoAnswer
    BY <2>1, <2>2, AnswersTell, OthersTellNothing DEF RangeReview
  <2> QED BY <2>3, <1>2
<1>4. ASSUME Said("FAIL")' # {} PROVE fails
  <2>1. PICK r \in ToSet(rs) : r.answer.kind = "answer" /\ r.answer.verdict = "FAIL"
    BY <1>4, OthersTellNothing DEF Said
  <2>2. r.result.verdict = "FAIL"
    BY <2>1, OthersTellNothing DEF RangeReview
  <2> QED BY <2>1, <2>2, Numbered
<1> HIDE DEF fails
<1>5. JudgeKeepsFindings'
  BY <1>1, <1>4 DEF JudgeKeepsFindings
<1>6. JudgeSawAll' /\ FailIsSaid'
  BY <1>1, <1>3 DEF JudgeSawAll, FailIsSaid
<1> QED BY <1>5, <1>6 DEF Judged

LEMMA ReviewRangeReview ==
  ASSUME PlanInv, ReviewInv, NEW a \in Answers \cup {Malformed} \cup Raised, ReviewRange(a)
  PROVE  ReviewInv'
<1> DEFINE review == IF a \in Raised
                       THEN [files |-> {}, answer |-> NoAnswer,
                             result |-> Result("none", FALSE, TRUE, {})]
                       ELSE [files |-> {}, answer |-> a, result |-> Parsed(a)]
<1>1. /\ pc = "plan" /\ pending = <<>> /\ reviews' = Append(reviews, review)
      /\ \/ pc' = pc
         \/ pc' = "judged" /\ result' = Diagnosis(reviews')
      /\ UNCHANGED <<pull, mode, profile, pending, ranges, counts, answer, arms, verdict>>
  BY DEF ReviewRange, Conclude, inputs, partition
<1>2. RangeReview(review)
  <2>1. CASE a \in Raised
    BY <2>1 DEF RangeReview, Result, NoResult
  <2>2. CASE a \notin Raised /\ a = Malformed
    BY <2>2 DEF RangeReview, Parsed, Malformed, Result, NoResult
  <2>3. CASE a \in Answers
    BY <2>3, AnswersTell DEF RangeReview, Parsed
  <2> QED BY <2>1, <2>2, <2>3
<1> HIDE DEF review
<1>3. Partitioned /\ answer = NoAnswer
  BY <1>1 DEF PlanInv, StartsAfresh, PlanAdvances
<1>4. Partitioned'
  BY <1>1, <1>3 DEF Partitioned
<1>5. reviews' \in Seq(ToSet(reviews')) /\ ToSet(reviews') = ToSet(reviews) \cup {review}
  BY <1>1, Appended DEF PlanInv, VerifierTypeOK
<1>6. \A r \in ToSet(reviews') : RangeReview(r)
  BY <1>2, <1>3, <1>5 DEF ReviewInv, ReviewsTell
<1>7. ReviewsTell'
  BY <1>4, <1>6 DEF ReviewsTell, RangeReview
<1>8. ArmsTell'
  BY <1>1 DEF ReviewInv, ArmsTell
<1>9. Admissions'
  BY <1>1, ChangeStays DEF ReviewInv, Admissions
<1>10. Judged'
  <2>1. CASE pc' = "judged"
    BY <2>1, <1>1, <1>3, <1>5, <1>6, DiagnosisJudged
  <2>2. CASE pc' # "judged"
    BY <2>2 DEF Judged, JudgeSawAll, JudgeKeepsFindings, FailIsSaid
  <2> QED BY <2>1, <2>2
<1> QED BY <1>7, <1>8, <1>9, <1>10 DEF ReviewInv

LEMMA ReviewChunkReview ==
  ASSUME PlanInv, ReviewInv, NEW a \in Answers \cup {Malformed} \cup Raised, NEW shortfall,
         ReviewChunk(a, shortfall)
  PROVE  ReviewInv'
<1> DEFINE files == chunks[Len(reviews) + 1]
           review == IF shortfall # "none"
             THEN [files |-> files, answer |-> NoAnswer, result |-> Unavailable(shortfall, files)]
             ELSE [files |-> files, answer |-> IF a \in Raised THEN NoAnswer ELSE a,
                   result |-> LocalResult(files, a)]
<1>1. /\ pc = "chunks" /\ pc' = pc /\ reviews' = Append(reviews, review)
      /\ UNCHANGED <<pull, mode, pending, ranges, arms, verdict>>
  BY DEF ReviewChunk, inputs, partition
<1>2. FileReview(review)
  <2> HIDE DEF files
  <2> QED BY LocalResultTells, UnavailableTells
<1> HIDE DEF review
<1>3. ~Partitioned /\ ~Partitioned'
  BY <1>1 DEF PlanInv, StartsAfresh, Partitioned
<1>4. ToSet(reviews') = ToSet(reviews) \cup {review}
  BY <1>1, Appended DEF PlanInv, VerifierTypeOK
<1>5. ReviewsTell'
  BY <1>2, <1>3, <1>4 DEF ReviewInv, ReviewsTell, FileReview
<1>6. ArmsTell'
  BY <1>1 DEF ReviewInv, ArmsTell
<1>7. Admissions'
  BY <1>1, ChangeStays DEF ReviewInv, Admissions
<1>8. Judged'
  BY <1>1 DEF Judged, JudgeSawAll, JudgeKeepsFindings, FailIsSaid
<1> QED BY <1>5, <1>6, <1>7, <1>8 DEF ReviewInv

LEMMA NextJudgeReview == PlanInv /\ ReviewInv /\ NextJudge => ReviewInv'
<1> SUFFICES ASSUME PlanInv, ReviewInv, NextJudge PROVE ReviewInv'
  OBVIOUS
<1> DEFINE arm == [judge |-> Head(clients), verdict |-> result.verdict,
                   used_llm |-> result.used_llm, error |-> result.error]
<1>1. /\ pc = "judged" /\ pc' \in {"printed", "start"} /\ reviews' = <<>>
      /\ arms' = Append(arms, arm) /\ verdict' = verdict
  BY DEF NextJudge
<1>2. arm.verdict = "FAIL" => arm.used_llm
  BY <1>1 DEF ReviewInv, Judged, FailIsSaid
<1> HIDE DEF arm
<1>3. ToSet(arms') = ToSet(arms) \cup {arm}
  BY <1>1, Appended DEF PlanInv, VerifierTypeOK
<1>4. ArmsTell'
  BY <1>1, <1>2, <1>3 DEF ReviewInv, ArmsTell
<1>5. ReviewsTell' /\ Admissions'
  BY <1>1 DEF ReviewsTell, ToSet, Admissions
<1>6. Judged'
  BY <1>1 DEF Judged, JudgeSawAll, JudgeKeepsFindings, FailIsSaid
<1> QED BY <1>4, <1>5, <1>6 DEF ReviewInv

LEMMA AdmitReview == PlanInv /\ ReviewInv /\ Admit => ReviewInv'
<1> SUFFICES ASSUME PlanInv, ReviewInv, Admit PROVE ReviewInv'
  OBVIOUS
<1>1. /\ pc = "printed" /\ pc' = "admitted" /\ reviews' = <<>> /\ arms' = arms
      /\ verdict' = ExpandedVerdict(arms)
  BY DEF Admit, PlanInv, StartsAfresh
<1>2. ArmsTell'
  BY <1>1 DEF ReviewInv, ArmsTell
<1>3. ReviewsTell' /\ Admissions'
  BY <1>1 DEF ReviewsTell, ToSet, Admissions
<1>4. Judged'
  BY <1>1 DEF Judged, JudgeSawAll, JudgeKeepsFindings, FailIsSaid
<1> QED BY <1>2, <1>3, <1>4 DEF ReviewInv

\* So do facts about the reviews.
LEMMA ReviewsStay ==
  ASSUME pull' = pull, reviews' = reviews
  PROVE  /\ Reviewed' = Reviewed /\ Local' = Local /\ NotReviewed' = NotReviewed
         /\ Reconcilable' = Reconcilable
<1>1. Reviewed' = Reviewed /\ Local' = Local /\ Unknown' = Unknown
  BY DEF Reviewed, Local, Unknown, Changed
<1>2. NotReviewed' = NotReviewed
  BY <1>1, ChangeStays DEF NotReviewed
<1> QED BY <1>1, <1>2 DEF Reconcilable

LEMMA StutterReview == ReviewInv /\ UNCHANGED verifierVars => ReviewInv'
<1> SUFFICES ASSUME ReviewInv, UNCHANGED verifierVars PROVE ReviewInv'
  OBVIOUS
<1>1. UNCHANGED <<pull, mode, pc, reviews, pending, ranges, answer, result, arms, verdict>>
  BY DEF verifierVars
<1>2. Admissions'
  BY <1>1, ChangeStays, ReviewsStay DEF ReviewInv, Admissions
<1>3. ReviewsTell' /\ ArmsTell' /\ FailIsSaid'
  BY <1>1 DEF ReviewInv, ReviewsTell, Partitioned, ArmsTell, Judged, FailIsSaid
<1>4. JudgeSawAll'
  BY <1>1, ChangeStays DEF ReviewInv, Judged, JudgeSawAll, SizeOf
<1>5. \A v : Said(v)' = Said(v)
  BY <1>1 DEF Said
<1>6. \A i, k : MetElsewhere(i, k)' = MetElsewhere(i, k)
  BY <1>1 DEF MetElsewhere
<1>7. JudgeKeepsFindings'
  BY <1>1, <1>5, <1>6 DEF ReviewInv, Judged, JudgeKeepsFindings
<1> QED BY <1>2, <1>3, <1>4, <1>7 DEF ReviewInv, Judged

\* Two arms that bind both judges are both bound.
LEMMA ComparisonsTell == PlanInv /\ ArmsTell => BothPassed /\ EitherFails
<1> SUFFICES ASSUME PlanInv, ArmsTell PROVE BothPassed /\ EitherFails
  OBVIOUS
<1> DEFINE bound == {a \in ToSet(arms) : Bound(a)}
           said == {a.verdict : a \in bound}
<1>1. BothPassed
  <2> SUFFICES ASSUME verdict = "PASS"
               PROVE  /\ {a.judge : a \in ToSet(arms)} = Slots
                      /\ \A a \in ToSet(arms) : a.verdict = "PASS" /\ ~a.error
    BY DEF BothPassed
  <2>1. ExpandedVerdict(arms) = "PASS"
    BY DEF ArmsTell
  <2>2. /\ {a.judge : a \in bound} = Slots /\ Len(arms) = 2
        /\ said \subseteq {"PASS", "UNVERIFIABLE_INPUT"} /\ "UNVERIFIABLE_INPUT" \notin said
        /\ \A a \in bound : ~a.error
    BY <2>1 DEF ExpandedVerdict
  <2>3. ToSet(arms) = {arms[1], arms[2]}
    <3>1. DOMAIN arms = {1, 2}
      BY <2>2, Numbered DEF PlanInv, VerifierTypeOK
    <3> QED BY <3>1 DEF ToSet
  <2>4. ASSUME NEW a \in ToSet(arms) PROVE a \in bound
    <3> SUFFICES ASSUME a \notin bound PROVE FALSE
      OBVIOUS
    <3>1. PICK b : bound \subseteq {b}
      BY <2>3
    <3>2. Slots = {} \/ Slots = {b.judge}
      BY <2>2, <3>1
    <3>3. Cardinality(Slots) = 0 \/ Cardinality(Slots) = 1
      BY <3>2, FS_EmptySet, FS_Singleton
    <3> QED BY <3>3, TwoSlots
  <2>5. bound = ToSet(arms)
    BY <2>4
  <2> QED BY <2>2, <2>5
<1>2. EitherFails
  <2> SUFFICES ASSUME pc = "admitted",
                      NEW a \in ToSet(arms), a.judge \in Slots, a.verdict = "FAIL"
               PROVE  verdict = "FAIL"
    BY DEF EitherFails
  <2>1. a \in bound
    BY DEF ArmsTell, Bound
  <2>2. "FAIL" \in said
    BY <2>1
  <2> QED BY <2>2 DEF ArmsTell, ExpandedVerdict
<1> QED BY <1>1, <1>2

\* What the reviews of files said is in their results.
LEMMA SaidOfFiles ==
  ASSUME ReviewsTell, ~Partitioned, NEW v \in Verdicts \ {"PASS"}, NEW r \in ToSet(reviews),
         r.answer.kind = "answer", r.answer.verdict = v
  PROVE  /\ r.answer \in Answers /\ r.result.verdict = v /\ ~r.result.error
         /\ r.result.retrieval = r.answer.retrieval /\ r.result.concerns = r.answer.concerns
BY OthersTellNothing DEF ReviewsTell, FileReview, Verdicts

LEMMA FailsOfFiles ==
  ASSUME ReviewsTell, ~Partitioned, NEW r \in ToSet(reviews), r.result.verdict = "FAIL"
  PROVE  r.result.used_llm
BY DEF ReviewsTell, FileReview

LEMMA SettleChunksReview == PlanInv /\ ReviewInv /\ SettleChunks => ReviewInv'
<1> SUFFICES ASSUME PlanInv, ReviewInv, SettleChunks PROVE ReviewInv'
  OBVIOUS
<1>1. /\ pc = "chunks" /\ ~Partitioned /\ answer' = NoAnswer
      /\ pc' \in {"judged", "synthesis"} /\ (pc' = "synthesis" => Reconcilable)
      /\ UNCHANGED <<pull, mode, reviews, pending, ranges, arms, verdict>>
  BY DEF SettleChunks, Conclude, inputs, partition, PlanInv, StartsAfresh, Partitioned
<1>2. ReviewsTell'
  BY <1>1 DEF ReviewInv, ReviewsTell, Partitioned
<1>3. ArmsTell'
  BY <1>1 DEF ReviewInv, ArmsTell
<1>4. Admissions'
  BY <1>1, ChangeStays, ReviewsStay DEF ReviewInv, Admissions
<1>5. Judged'
  <2>1. CASE pc' # "judged"
    BY <2>1 DEF Judged, JudgeSawAll, JudgeKeepsFindings, FailIsSaid
  <2>2. CASE pc' = "judged"
    <3> DEFINE v == ComparisonVerdict(Local)
               shown == IF v = "PASS" /\ NotReviewed # {} THEN "UNVERIFIABLE_INPUT" ELSE v
    <3>1. ~Reconcilable /\ result' = Aggregate(shown, Local, NotReviewed)
      BY <2>2, <1>1 DEF SettleChunks, Conclude
    <3>2. result'.verdict = shown /\ result'.used_llm = (\E r \in Local : r.used_llm)
      BY <3>1 DEF Aggregate, Result, NoResult
    <3>3. /\ v \in Verdicts
          /\ v = "PASS" => \A r \in Local : r.used_llm /\ ~r.error
          /\ (\E r \in Local : r.verdict = "FAIL" /\ ~r.retrieval) => v = "FAIL"
          /\ (\E r \in Local : r.verdict = "FAIL") => v # "PASS"
          /\ (\E r \in Local : r.verdict = "CONCERNS" /\ ~r.error) => v \in {"FAIL", "CONCERNS"}
          /\ v = "FAIL" => \E r \in Local : r.verdict = "FAIL"
      BY ComparisonTells
    <3> HIDE DEF v
    <3>4. v = "PASS" => NotReviewed # {}
      BY <3>1, <3>3 DEF Reconcilable
    <3>5. shown # "PASS" /\ (v # "PASS" => shown = v)
      BY <3>4
    <3>6. ASSUME NEW a, NEW w \in Verdicts \ {"PASS"}, a \in Said(w)'
          PROVE  \E r \in Local : r.verdict = w /\ ~r.error /\ r.retrieval = a.retrieval
      <4>1. PICK r \in ToSet(reviews) : r.answer = a /\ a.kind = "answer" /\ a.verdict = w
        BY <3>6, <1>1, OthersTellNothing DEF Said
      <4> QED BY <4>1, <1>1, SaidOfFiles DEF ReviewInv, Local
    <3>7. JudgeKeepsFindings'
      <4>1. ASSUME NEW a \in Said("FAIL")', ~a.retrieval PROVE result'.verdict = "FAIL"
        BY <4>1, <3>2, <3>3, <3>5, <3>6 DEF Verdicts
      <4>2. result'.verdict # "PASS"
        BY <3>2, <3>5
      <4>3. ASSUME Said("CONCERNS")' # {} PROVE result'.verdict \in {"FAIL", "CONCERNS"}
        BY <4>3, <3>2, <3>3, <3>5, <3>6 DEF Verdicts
      <4> QED BY <4>1, <4>2, <4>3 DEF JudgeKeepsFindings
    <3>8. FailIsSaid'
      <4> SUFFICES ASSUME result'.verdict = "FAIL" PROVE result'.used_llm
        BY DEF FailIsSaid
      <4>1. PICK r \in ToSet(reviews) : r.result.verdict = "FAIL"
        BY <3>2, <3>3 DEF Local
      <4>2. r.result.used_llm /\ r.result \in Local
        BY <4>1, <1>1, FailsOfFiles DEF ReviewInv, Local
      <4> QED BY <4>2, <3>2
    <3>9. JudgeSawAll'
      BY <3>2, <3>5 DEF JudgeSawAll
    <3> QED BY <3>7, <3>8, <3>9 DEF Judged
  <2> QED BY <2>1, <2>2
<1> QED BY <1>2, <1>3, <1>4, <1>5 DEF ReviewInv

\* What reconciliation leaves of the result of a review.
LEMMA DischargedTells ==
  ASSUME VerifierTypeOK, ReviewsTell, ~Partitioned, NEW i \in 1..Len(reviews), NEW resolved
  PROVE  LET r == reviews[i].result
             d == Discharged(i, resolved) IN
         /\ d.used_llm = r.used_llm /\ d.error = r.error /\ d.retrieval = r.retrieval
         /\ d.verdict = r.verdict
            \/ /\ r.verdict = "CONCERNS" /\ r.concerns # <<>> /\ d.verdict = "PASS"
               /\ \A k \in 1..Len(r.concerns) : \E s \in resolved : s.chunk = i /\ s.concern = k
<1> DEFINE r == reviews[i].result
           open == {k \in 1..Len(r.concerns) : ~\E s \in resolved : s.chunk = i /\ s.concern = k}
<1>1. "verdict" \in DOMAIN r
  BY Numbered DEF VerifierTypeOK, ReviewsTell, FileReview
<1>2. CASE r.verdict = "CONCERNS" /\ r.concerns # <<>> /\ open = {}
  <2>1. Discharged(i, resolved) = [r EXCEPT !.verdict = "PASS"]
    BY <1>2 DEF Discharged
  <2> HIDE DEF r
  <2> QED BY <2>1, <1>1, <1>2 DEF r
<1>3. CASE ~(r.verdict = "CONCERNS" /\ r.concerns # <<>> /\ open = {})
  <2>1. Discharged(i, resolved) = r
    BY <1>3 DEF Discharged
  <2> QED BY <2>1
<1> QED BY <1>2, <1>3

LEMMA SynthesizeReview ==
  ASSUME PlanInv, ReviewInv, NEW a \in Syntheses \cup {Malformed} \cup Raised, Synthesize(a)
  PROVE  ReviewInv'
<1> DEFINE s == IF a \in Raised THEN Result("UNVERIFIABLE_INPUT", FALSE, TRUE, {})
                ELSE Floored(Parsed(a), TRUE)
           reviewed == Reviewed \ s.not_reviewed
           resolved == IF s.used_llm /\ ~s.error /\ s.verdict # "UNVERIFIABLE_INPUT"
                         THEN {x \in a.resolves : Resolves(x, reviewed)} ELSE {}
           rs == {Discharged(i, resolved) : i \in 1..Len(reviews)} \cup {s}
           v == ComparisonVerdict(rs)
<1>1. /\ pc = "synthesis" /\ pc' = "judged" /\ result' = Aggregate(v, rs, s.not_reviewed)
      /\ answer' = IF a \in Raised THEN NoAnswer ELSE a
      /\ UNCHANGED <<pull, mode, reviews, pending, ranges, arms, verdict>>
  BY DEF Synthesize, Conclude, inputs, partition
<1>2. /\ ~Partitioned /\ Reconcilable /\ ~Ambiguous /\ ~Fits /\ pull.known
      /\ pull.shortfall = "none" /\ VerifierTypeOK /\ ReviewsTell
  BY <1>1 DEF PlanInv, StartsAfresh, Partitioned, ReviewInv, Admissions
<1>3. /\ a \in Raised => ~s.used_llm /\ s.verdict = "UNVERIFIABLE_INPUT"
      /\ a = Malformed => s.error /\ s.used_llm /\ s.verdict = "CONCERNS"
      /\ a \in Syntheses =>
           /\ s.used_llm /\ ~s.error /\ s.not_reviewed = a.not_reviewed
           /\ s.retrieval = a.retrieval
           /\ s.verdict = IF a.verdict = "PASS" /\ a.not_reviewed # {}
                            THEN "UNVERIFIABLE_INPUT" ELSE a.verdict
  <2>1. CASE a \in Raised
    BY <2>1, OthersTellNothing, AnswersTell DEF Result, NoResult
  <2>2. CASE a \notin Raised
    <3>1. a \in Answers \cup Syntheses \cup {Malformed} /\ s = Floored(Parsed(a), TRUE)
      BY <2>2
    <3> HIDE DEF s
    <3>2. /\ s.used_llm /\ (a = Malformed => s.error /\ s.verdict = "CONCERNS")
          /\ a # Malformed =>
               /\ ~s.error /\ s.not_reviewed = a.not_reviewed /\ s.retrieval = a.retrieval
               /\ s.verdict = IF a.verdict = "PASS" /\ a.not_reviewed # {}
                                THEN "UNVERIFIABLE_INPUT" ELSE a.verdict
      BY <3>1, ParsedAndFloored
    <3> QED BY <2>2, <3>2, AnswersTell
  <2> QED BY <2>1, <2>2
<1> HIDE DEF s
<1>4. \A i \in 1..Len(reviews) :
        LET r == reviews[i].result
            d == Discharged(i, resolved) IN
        /\ d \in rs
        /\ d.used_llm = r.used_llm /\ d.error = r.error /\ d.retrieval = r.retrieval
        /\ d.verdict = r.verdict
           \/ /\ r.verdict = "CONCERNS" /\ r.concerns # <<>> /\ d.verdict = "PASS"
              /\ \A k \in 1..Len(r.concerns) : \E x \in resolved : x.chunk = i /\ x.concern = k
  <2> HIDE DEF resolved
  <2> QED BY <1>2, DischargedTells
<1>5. \A d \in rs : d = s \/ \E i \in 1..Len(reviews) : d = Discharged(i, resolved)
  OBVIOUS
<1>6. s \in rs
  OBVIOUS
<1>7. result'.verdict = v /\ result'.used_llm = (\E r \in rs : r.used_llm)
      /\ result'.error = (\E r \in rs : r.error)
  <2> HIDE DEF rs, v
  <2> QED BY <1>1 DEF Aggregate, Result, NoResult
<1>8. /\ v \in Verdicts
      /\ v = "PASS" => \A r \in rs : /\ r.used_llm /\ ~r.error
                                     /\ r.verdict \notin Verdicts \ {"PASS"}
      /\ (\E r \in rs : r.verdict = "FAIL" /\ ~r.retrieval) => v = "FAIL"
      /\ (\E r \in rs : r.verdict = "FAIL") => v # "PASS"
      /\ (\E r \in rs : r.verdict = "CONCERNS" /\ ~r.error) => v \in {"FAIL", "CONCERNS"}
      /\ v = "FAIL" => \E r \in rs : r.verdict = "FAIL"
  <2> HIDE DEF rs
  <2> QED BY ComparisonTells
<1> HIDE DEF rs, v
<1>9. ASSUME NEW b, NEW w \in Verdicts \ {"PASS"}, b \in Said(w)'
      PROVE  \/ b \in Syntheses /\ b = a /\ s.verdict = w
             \/ \E r \in ToSet(reviews) :
                  /\ r.answer = b /\ r.answer \in Answers /\ r.result.verdict = w
                  /\ ~r.result.error /\ r.result.retrieval = b.retrieval
                  /\ r.result.concerns = b.concerns
  <2>1. b.kind = "answer" /\ b.verdict = w
        /\ (b = answer' \/ \E r \in ToSet(reviews) : b = r.answer)
    BY <1>1, <1>9 DEF Said
  <2>2. CASE b = answer'
    BY <2>1, <2>2, <1>1, <1>3, OthersTellNothing
  <2>3. CASE \E r \in ToSet(reviews) : b = r.answer
    BY <2>1, <2>3, <1>2, SaidOfFiles
  <2> QED BY <2>1, <2>2, <2>3
<1>10. JudgeSawAll'
  <2> SUFFICES ASSUME result'.verdict = "PASS" PROVE JudgeSawAll'
    BY DEF JudgeSawAll
  <2>1. s.used_llm /\ ~s.error /\ s.verdict \notin Verdicts \ {"PASS"}
    BY <1>6, <1>7, <1>8
  <2>2. a \in Syntheses /\ a.verdict = "PASS" /\ a.not_reviewed = {}
    BY <2>1, <1>3, AnswersTell DEF Verdicts
  <2>3. answer' = a /\ a.kind = "answer"
    BY <2>2, <1>1, AnswersTell
  <2>4. ~result'.error
    BY <1>7, <1>8
  <2>5. /\ pull.files # <<>> /\ Binary = {} /\ reviews # <<>>
        /\ \A p \in Changed : \E r \in ToSet(reviews) :
             p \in r.files /\ Answered(r) /\ p \notin r.answer.not_reviewed
        /\ \A r \in ToSet(reviews) : Elsewhere \notin r.answer.not_reviewed
    BY <1>2, ReconcilableCovers
  <2>6. HasCode' /\ Binary' = {} /\ ~Ambiguous' /\ pull'.shortfall = "none" /\ Changed' = Changed
    BY <2>5, <1>1, <1>2, ChangeStays DEF HasCode
  <2>7. \A r : Answered(r)' = Answered(r)
    BY DEF Answered
  <2> QED BY <1>1, <2>2, <2>3, <2>4, <2>5, <2>6 DEF JudgeSawAll, Answered
<1>11. JudgeKeepsFindings'
  <2>1. ASSUME NEW b \in Said("FAIL")' PROVE v # "PASS" /\ (~b.retrieval => v = "FAIL")
    <3>1. CASE b \in Syntheses /\ b = a /\ s.verdict = "FAIL"
      BY <3>1, <1>3, <1>6, <1>8, AnswersTell
    <3>2. CASE \E r \in ToSet(reviews) :
                 r.result.verdict = "FAIL" /\ r.result.retrieval = b.retrieval
      <4>0. PICK r \in ToSet(reviews) :
              r.result.verdict = "FAIL" /\ r.result.retrieval = b.retrieval
        BY <3>2
      <4>1. PICK i \in 1..Len(reviews) : r = reviews[i]
        BY <1>2, Numbered DEF VerifierTypeOK
      <4> HIDE DEF resolved
      <4>2. /\ Discharged(i, resolved) \in rs /\ Discharged(i, resolved).verdict = "FAIL"
            /\ Discharged(i, resolved).retrieval = b.retrieval
        BY <4>0, <4>1, <1>4
      <4> QED BY <4>2, <1>8
    <3> QED BY <2>1, <3>1, <3>2, <1>9 DEF Verdicts
  <2>2. ASSUME v \in {"PASS", "UNVERIFIABLE_INPUT"}, NEW b \in Said("CONCERNS")'
        PROVE  b # answer' /\ b.concerns # <<>>
    <3>1. s.verdict = "CONCERNS" => a \notin Syntheses
      BY <2>2, <1>3, <1>6, <1>8
    <3>2. PICK r \in ToSet(reviews) :
            /\ r.answer = b /\ r.answer \in Answers /\ r.result.verdict = "CONCERNS"
            /\ ~r.result.error /\ r.result.concerns = b.concerns
      BY <2>2, <3>1, <1>9 DEF Verdicts
    <3>3. PICK i \in 1..Len(reviews) : r = reviews[i]
      BY <1>2, Numbered DEF VerifierTypeOK
    <3> HIDE DEF resolved
    <3>4. Discharged(i, resolved).verdict # "CONCERNS"
      <4>1. ~Discharged(i, resolved).error /\ Discharged(i, resolved) \in rs
        BY <3>2, <3>3, <1>4
      <4> QED BY <2>2, <4>1, <1>8
    <3>5. b.concerns # <<>>
      <4>1. reviews[i].result.verdict = "CONCERNS" /\ reviews[i].result.concerns = b.concerns
        BY <3>2, <3>3
      <4>2. reviews[i].result.concerns # <<>>
        BY <4>1, <3>4, <1>4
      <4> QED BY <4>1, <4>2
    <3>6. b # answer'
      <4> SUFFICES ASSUME b = answer' PROVE FALSE
        OBVIOUS
      <4>1. b.kind = "answer" /\ b.verdict = "CONCERNS"
        BY <2>2 DEF Said
      <4>2. a \in Syntheses /\ a.verdict = "CONCERNS"
        BY <4>1, <1>1, OthersTellNothing
      <4> QED BY <4>2, <1>3, <3>1
    <3> QED BY <3>5, <3>6
  <2>3. ASSUME v = "PASS", NEW i \in 1..Len(reviews), reviews[i].answer.verdict = "CONCERNS",
               NEW k \in 1..Len(reviews[i].answer.concerns)
        PROVE  MetElsewhere(i, k)'
    <3> DEFINE r == reviews[i]
               c == r.answer.concerns[k]
               vouched == UNION {Credit(reviews[j]) : j \in (1..Len(reviews)) \ {i}}
    <3>1. r \in ToSet(reviews)
      BY <1>2, Numbered DEF VerifierTypeOK
    <3>2. r.answer \in Answers
      BY <3>1, <1>2, ReconcilableCovers
    <3>3. r.result.verdict = "CONCERNS" /\ r.result.concerns = r.answer.concerns
      BY <2>3, <3>1, <3>2, <1>2, SaidOfFiles, AnswersTell DEF Verdicts
    <3>4. Discharged(i, resolved).verdict # "CONCERNS"
      BY <2>3, <1>4, <1>8 DEF Verdicts
    <3>5. PICK x \in resolved : x.chunk = i /\ x.concern = k
      BY <3>3, <3>4, <1>4, ZenonT(60)
    <3>6. x \in a.resolves /\ Resolves(x, reviewed)
      BY <3>5
    <3>7. s.used_llm /\ ~s.error /\ s.verdict \notin Verdicts \ {"PASS"}
      BY <2>3, <1>6, <1>8
    <3>8. a \notin Raised
      BY <3>7, <1>3
    <3> HIDE DEF resolved
    <3>9. /\ c.siblings # {} /\ c.siblings \subseteq x.support
          /\ x.support \subseteq Reviewed \ r.files
          /\ c.siblings \subseteq c.names /\ c.names \cap r.files = {}
      BY <3>3, <3>5, <3>6 DEF Resolves
    <3>10. ASSUME NEW p \in c.siblings PROVE p \in vouched
      <4>1. p \in Reviewed /\ p \notin r.files
        BY <3>9
      <4>2. PICK y \in ToSet(reviews) : p \in Credit(y)
        BY <4>1 DEF Reviewed
      <4>3. PICK j \in 1..Len(reviews) : y = reviews[j]
        BY <1>2, Numbered DEF VerifierTypeOK
      <4>4. p \in y.files
        BY <4>2 DEF Credit
      <4>5. j # i
        BY <4>1, <4>3, <4>4
      <4> QED BY <4>2, <4>3, <4>5
    <3>11. MetElsewhere(i, k)' = (/\ c.siblings # {} /\ c.siblings \subseteq c.names \cap vouched
                                  /\ c.names \cap r.files = {}
                                  /\ \E y \in answer'.resolves :
                                       y.chunk = i /\ y.concern = k /\ c.siblings \subseteq y.support)
      BY <1>1 DEF MetElsewhere
    <3>12. answer' = a
      BY <3>8, <1>1
    <3> HIDE DEF c, r, vouched
    <3> QED BY <3>5, <3>6, <3>9, <3>10, <3>11, <3>12
  <2> HIDE DEF resolved
  <2>4. v = "PASS" => \A i \in 1..Len(reviews') : reviews'[i].answer.verdict = "CONCERNS" =>
                        \A k \in 1..Len(reviews'[i].answer.concerns) : MetElsewhere(i, k)'
    BY <2>3, <1>1
  <2> QED BY <2>1, <2>2, <2>4, <1>7 DEF JudgeKeepsFindings
<1>12. FailIsSaid'
  <2> SUFFICES ASSUME v = "FAIL" PROVE result'.used_llm
    BY <1>7 DEF FailIsSaid
  <2>1. PICK d \in rs : d.verdict = "FAIL"
    BY <1>8
  <2>2. CASE d = s
    BY <2>1, <2>2, <1>3, <1>7
  <2>3. CASE \E i \in 1..Len(reviews) : d = Discharged(i, resolved)
    <3>1. PICK i \in 1..Len(reviews) : d = Discharged(i, resolved)
      BY <2>3
    <3>2. reviews[i].result.verdict = "FAIL" /\ d.used_llm = reviews[i].result.used_llm
      BY <2>1, <3>1, <1>4
    <3>3. reviews[i] \in ToSet(reviews)
      BY <1>2, Numbered DEF VerifierTypeOK
    <3>4. d.used_llm
      BY <3>2, <3>3, <1>2, FailsOfFiles
    <3> QED BY <3>4, <1>7
  <2> QED BY <2>1, <2>2, <2>3, <1>5
<1>13. ReviewsTell'
  BY <1>1 DEF ReviewInv, ReviewsTell, Partitioned
<1>14. ArmsTell' /\ Admissions'
  BY <1>1 DEF ReviewInv, ArmsTell, Admissions
<1> QED BY <1>10, <1>11, <1>12, <1>13, <1>14 DEF ReviewInv, Judged

LEMMA ReviewInductive == PlanInv /\ ReviewInv /\ [VerifierNext]_verifierVars => ReviewInv'
BY NoJudgeReview, BeginReview, PlanningReview, SettleChunksReview, NextJudgeReview, AdmitReview,
   DirectReview, FallbackReview, ReviewRangeReview, ReviewChunkReview, SynthesizeReview,
   StutterReview DEF VerifierNext

LEMMA VerifierInvariants == VerifierSpec => [](PlanInv /\ ReviewInv)
BY PlanInitially, PlanInductive, ReviewInitially, ReviewInductive, PTL DEF VerifierSpec

\* No PASS stands on code nobody read, for any change, division, answers and judges
\* (_evaluate_chunked, pr_verifier.py:6846-7008; expanded_comparison_verdict,
\* 8783-8842).
THEOREM PassesRestOnReviews == VerifierSpec => []PassRestsOnReviews
<1>1. PlanInv /\ ReviewInv => PassRestsOnReviews
  BY ComparisonsTell DEF ReviewInv, Judged, PassRestsOnReviews
<1>2. QED
  BY VerifierInvariants, <1>1, PTL

\* No FAIL is lost, and no concern is discharged that was not met elsewhere
\* (comparison_verdict, pr_verifier.py:6598-6615; _evaluate_chunked, 6963-7006).
THEOREM FindingsAreKept == VerifierSpec => []FindingsSurvive
<1>1. PlanInv /\ ReviewInv => FindingsSurvive
  BY ComparisonsTell DEF ReviewInv, Judged, FindingsSurvive
<1>2. QED
  BY VerifierInvariants, <1>1, PTL

-----------------------------------------------------------------------------
(***************************************************************************)
(* A set of numbers has a smallest: an induction over files fails nowhere  *)
(* first.                                                                  *)
(***************************************************************************)
LEMMA SomeIsFirst ==
  ASSUME NEW S, S \subseteq Nat, S # {}
  PROVE  \E m \in S : \A x \in S : m <= x
<1>1. PICK k \in S : TRUE
  OBVIOUS
<1> DEFINE Below == {S \cap (0..j) : j \in S \cap (0..k)}
<1>2. PICK U \in Below : \A V \in Below : ~(<<V, U>> \in StrictSubsetOrdering(0..k))
  <2>1. IsFiniteSet(0..k)
    BY <1>1, FS_Interval
  <2>2. IsWellFoundedOn(StrictSubsetOrdering(0..k), FiniteSubsetsOf(0..k))
    BY FS_StrictSubsetOrderingWellFounded
  <2>3. \A V \in Below : V \in FiniteSubsetsOf(0..k)
    <3> SUFFICES ASSUME NEW j \in S \cap (0..k) PROVE S \cap (0..j) \in FiniteSubsetsOf(0..k)
      OBVIOUS
    <3>1. S \cap (0..j) \subseteq 0..k
      BY <1>1
    <3>2. QED
      BY <2>1, <3>1, FS_Subset DEF FiniteSubsetsOf
  <2>4. Below # {}
    <3>1. k \in S \cap (0..k)
      BY <1>1
    <3>2. S \cap (0..k) \in Below
      BY <3>1
    <3>3. QED
      BY <3>2
  <2> HIDE DEF Below
  <2>5. QED
    BY <2>2, <2>3, <2>4, WFMin
<1>3. PICK m \in S \cap (0..k) : U = S \cap (0..m)
  BY <1>2
<1>4. ASSUME NEW x \in S, x < m PROVE FALSE
  <2>1. S \cap (0..x) \in Below
    BY <1>4, <1>1, <1>3
  <2>2. <<S \cap (0..x), U>> \in StrictSubsetOrdering(0..k)
    BY <1>4, <1>1, <1>3 DEF StrictSubsetOrdering
  <2>3. QED
    BY <2>1, <2>2, <1>2
<1>5. QED
  BY <1>3, <1>4

\* The sizes of the files named in ps, up to each file.
SizesIn(files, ps) ==
  LET size[n \in 0..Len(files)] ==
        IF n = 0 THEN 0 ELSE size[n - 1] + (IF files[n].path \in ps THEN files[n].size ELSE 0)
  IN size

LEMMA SizesAdd ==
  ASSUME NEW files \in Seq(File), NEW ps
  PROVE  /\ SizesIn(files, ps)[0] = 0
         /\ \A n \in 1..Len(files) :
              SizesIn(files, ps)[n] = SizesIn(files, ps)[n - 1]
                                        + (IF files[n].path \in ps THEN files[n].size ELSE 0)
<1> DEFINE Part(n) == IF files[n].path \in ps THEN files[n].size ELSE 0
           Adds(g, m) == g = [n \in 0..m |-> IF n = 0 THEN 0 ELSE g[n - 1] + Part(n)]
           Missed == {m \in 0..Len(files) : ~\E g : Adds(g, m)}
<1>1. Missed = {}
  <2> SUFFICES ASSUME Missed # {} PROVE FALSE
    OBVIOUS
  <2>1. PICK m \in Missed : \A x \in Missed : m <= x
    <3> HIDE DEF Missed
    <3>1. Missed \subseteq Nat
      BY DEF Missed
    <3> QED BY <3>1, SomeIsFirst
  <2> HIDE DEF Part
  <2>2. CASE m = 0
    <3>1. Adds([n \in 0..m |-> 0], m)
      BY <2>2
    <3> HIDE DEF Adds
    <3>2. QED
      BY <3>1, <2>1
  <2>3. CASE m # 0
    <3>1. m \in Nat /\ m - 1 \in 0..Len(files)
      BY <2>1, <2>3
    <3>2. \E g : Adds(g, m - 1)
      <4> HIDE DEF Adds
      <4>1. QED
        BY <2>1, <3>1
    <3>3. PICK g : Adds(g, m - 1)
      BY <3>2
    <3> DEFINE h == [n \in 0..m |-> IF n = m THEN g[m - 1] + Part(m) ELSE g[n]]
    <3>4. Adds(h, m)
      <4>1. \A n \in 0..m : h[n] = IF n = 0 THEN 0 ELSE h[n - 1] + Part(n)
        <5> SUFFICES ASSUME NEW n \in 0..m PROVE h[n] = IF n = 0 THEN 0 ELSE h[n - 1] + Part(n)
          OBVIOUS
        <5>1. CASE n = m
          BY <5>1, <3>1, <2>3
        <5>2. CASE n # m
          <6>1. n \in 0..(m - 1) /\ (n # 0 => n - 1 \in 0..m /\ n - 1 # m)
            BY <5>2, <3>1
          <6>2. g[n] = IF n = 0 THEN 0 ELSE g[n - 1] + Part(n)
            BY <6>1, <3>3
          <6> QED BY <5>2, <6>1, <6>2
        <5> QED BY <5>1, <5>2
      <4> HIDE DEF h
      <4>2. h = [n \in 0..m |-> h[n]]
        BY DEF h
      <4> QED BY <4>1, <4>2
    <3>5. QED
      BY <3>4, <2>1
  <2>4. QED
    BY <2>2, <2>3
<1>2. SizesIn(files, ps) = CHOOSE g : Adds(g, Len(files))
  BY DEF SizesIn
<1>3. \E g : Adds(g, Len(files))
  BY <1>1
<1>4. Adds(SizesIn(files, ps), Len(files))
  <2> HIDE DEF Adds
  <2> QED BY <1>2, <1>3
<1>5. QED
  BY <1>4

SizeIn(files, ps) == SizesIn(files, ps)[Len(files)]

LEMMA SizesAreNat ==
  ASSUME NEW files \in Seq(File), NEW ps
  PROVE  \A n \in 0..Len(files) : SizesIn(files, ps)[n] \in Nat
<1> DEFINE Missed == {n \in 0..Len(files) : SizesIn(files, ps)[n] \notin Nat}
<1> SUFFICES ASSUME Missed # {} PROVE FALSE
  OBVIOUS
<1>1. PICK n \in Missed : \A x \in Missed : n <= x
  <2>1. Missed \subseteq Nat
    OBVIOUS
  <2> HIDE DEF Missed
  <2> QED BY <2>1, SomeIsFirst
<1>2. n # 0
  BY SizesAdd
<1>3. Len(files) \in Nat /\ n \in 1..Len(files) /\ n - 1 \in 0..Len(files)
  BY <1>2
<1>4. SizesIn(files, ps)[n - 1] \in Nat
  BY <1>1, <1>3
<1>5. files[n] \in File
  BY <1>3
<1>6. files[n].size \in Nat
  BY <1>5 DEF File
<1>7. SizesIn(files, ps)[n] = SizesIn(files, ps)[n - 1]
                                + (IF files[n].path \in ps THEN files[n].size ELSE 0)
  BY <1>3, SizesAdd
<1>8. SizesIn(files, ps)[n] \in Nat
  BY <1>4, <1>6, <1>7
<1>9. QED
  BY <1>8

\* Only the paths of the files counted matter.
LEMMA SizesAgree ==
  ASSUME NEW files \in Seq(File), NEW ps, NEW qs, NEW k \in 0..Len(files),
         \A n \in 1..k : files[n].path \in ps <=> files[n].path \in qs
  PROVE  SizesIn(files, ps)[k] = SizesIn(files, qs)[k]
<1> DEFINE Missed == {n \in 0..k : SizesIn(files, ps)[n] # SizesIn(files, qs)[n]}
<1> SUFFICES ASSUME Missed # {} PROVE FALSE
  OBVIOUS
<1>1. PICK n \in Missed : \A x \in Missed : n <= x
  <2>1. Missed \subseteq Nat
    OBVIOUS
  <2> HIDE DEF Missed
  <2> QED BY <2>1, SomeIsFirst
<1>2. n # 0
  BY SizesAdd
<1>3. Len(files) \in Nat /\ n \in 1..k /\ n - 1 \in 0..k /\ n \in 1..Len(files)
  BY <1>2
<1>4. SizesIn(files, ps)[n - 1] = SizesIn(files, qs)[n - 1]
  BY <1>1, <1>3
<1>5. /\ SizesIn(files, ps)[n] = SizesIn(files, ps)[n - 1]
                                   + (IF files[n].path \in ps THEN files[n].size ELSE 0)
      /\ SizesIn(files, qs)[n] = SizesIn(files, qs)[n - 1]
                                   + (IF files[n].path \in qs THEN files[n].size ELSE 0)
  BY <1>3, SizesAdd
<1>6. SizesIn(files, ps)[n] = SizesIn(files, qs)[n]
  BY <1>3, <1>4, <1>5
<1>7. QED
  BY <1>6

LEMMA SizesOfNone ==
  ASSUME NEW files \in Seq(File), NEW ps, NEW k \in 0..Len(files),
         \A n \in 1..k : files[n].path \notin ps
  PROVE  SizesIn(files, ps)[k] = 0
<1> DEFINE Missed == {n \in 0..k : SizesIn(files, ps)[n] # 0}
<1> SUFFICES ASSUME Missed # {} PROVE FALSE
  OBVIOUS
<1>1. PICK n \in Missed : \A x \in Missed : n <= x
  <2>1. Missed \subseteq Nat
    OBVIOUS
  <2> HIDE DEF Missed
  <2> QED BY <2>1, SomeIsFirst
<1>2. n # 0
  BY SizesAdd
<1>3. Len(files) \in Nat /\ n \in 1..k /\ n - 1 \in 0..k /\ n \in 1..Len(files)
  BY <1>2
<1>4. SizesIn(files, ps)[n - 1] = 0
  BY <1>1, <1>3
<1>5. QED
  BY <1>3, <1>4, SizesAdd

LEMMA SizesOfBoth ==
  ASSUME NEW files \in Seq(File), NEW ps, NEW qs, NEW k \in 0..Len(files), ps \cap qs = {}
  PROVE  SizesIn(files, ps \cup qs)[k] = SizesIn(files, ps)[k] + SizesIn(files, qs)[k]
<1> DEFINE Missed == {n \in 0..k : SizesIn(files, ps \cup qs)[n]
                                     # SizesIn(files, ps)[n] + SizesIn(files, qs)[n]}
<1> SUFFICES ASSUME Missed # {} PROVE FALSE
  <2>1. k \in 0..k
    OBVIOUS
  <2>2. QED
    BY <2>1
<1>1. PICK n \in Missed : \A x \in Missed : n <= x
  <2>1. Missed \subseteq Nat
    OBVIOUS
  <2> HIDE DEF Missed
  <2> QED BY <2>1, SomeIsFirst
<1>2. n # 0
  BY SizesAdd
<1>3. Len(files) \in Nat /\ n \in 1..k /\ n - 1 \in 0..k /\ n \in 1..Len(files)
      /\ n - 1 \in 0..Len(files)
  BY <1>2
<1>4. SizesIn(files, ps \cup qs)[n - 1] = SizesIn(files, ps)[n - 1] + SizesIn(files, qs)[n - 1]
  <2>1. n - 1 \notin Missed
    <3>1. ~(n <= n - 1)
      BY <1>3
    <3> HIDE DEF Missed
    <3>2. QED
      BY <1>1, <3>1
  <2>2. QED
    BY <2>1, <1>3
<1>5. files[n] \in File
  BY <1>3
<1>6. /\ SizesIn(files, ps)[n - 1] \in Nat /\ SizesIn(files, qs)[n - 1] \in Nat
      /\ files[n].size \in Nat
  BY <1>3, <1>5, SizesAreNat DEF File
<1>7. /\ SizesIn(files, ps)[n] = SizesIn(files, ps)[n - 1]
                                   + (IF files[n].path \in ps THEN files[n].size ELSE 0)
      /\ SizesIn(files, qs)[n] = SizesIn(files, qs)[n - 1]
                                   + (IF files[n].path \in qs THEN files[n].size ELSE 0)
      /\ SizesIn(files, ps \cup qs)[n] =
           SizesIn(files, ps \cup qs)[n - 1]
             + (IF files[n].path \in ps \cup qs THEN files[n].size ELSE 0)
  BY <1>3, SizesAdd
<1>8. SizesIn(files, ps \cup qs)[n] = SizesIn(files, ps)[n] + SizesIn(files, qs)[n]
  <2>1. ~(files[n].path \in ps /\ files[n].path \in qs)
    OBVIOUS
  <2>2. QED
    <3>1. CASE files[n].path \in ps
      BY <3>1, <2>1, <1>4, <1>6, <1>7, SMTT(30)
    <3>2. CASE files[n].path \notin ps
      BY <3>2, <1>4, <1>6, <1>7, SMTT(30)
    <3>3. QED
      BY <3>1, <3>2
<1>9. QED
  BY <1>8

(***************************************************************************)
(* The packing, file by file.                                              *)
(***************************************************************************)
LEMMA PackingUnfolds ==
  ASSUME NEW files \in Seq(File)
  PROVE  \E g : /\ g = [n \in 0..Len(files) |-> IF n = 0 THEN <<>> ELSE Placed(g[n - 1], files[n])]
                /\ Packing(files) = g[Len(files)]
<1> DEFINE Packs(g, m) == g = [n \in 0..m |-> IF n = 0 THEN <<>> ELSE Placed(g[n - 1], files[n])]
           Missed == {m \in 0..Len(files) : ~\E g : Packs(g, m)}
<1>1. Missed = {}
  <2> SUFFICES ASSUME Missed # {} PROVE FALSE
    OBVIOUS
  <2>1. PICK m \in Missed : \A x \in Missed : m <= x
    <3> HIDE DEF Missed
    <3>1. Missed \subseteq Nat
      BY DEF Missed
    <3> QED BY <3>1, SomeIsFirst
  <2>2. CASE m = 0
    <3>1. Packs([n \in 0..m |-> <<>>], m)
      BY <2>2
    <3> HIDE DEF Packs
    <3>2. QED
      BY <3>1, <2>1
  <2>3. CASE m # 0
    <3>1. m \in Nat /\ m - 1 \in 0..Len(files)
      BY <2>1, <2>3
    <3>2. \E g : Packs(g, m - 1)
      <4> HIDE DEF Packs
      <4>1. QED
        BY <2>1, <3>1
    <3>3. PICK g : Packs(g, m - 1)
      BY <3>2
    <3> DEFINE h == [n \in 0..m |-> IF n = m THEN Placed(g[m - 1], files[m]) ELSE g[n]]
    <3>4. Packs(h, m)
      <4>1. \A n \in 0..m : h[n] = IF n = 0 THEN <<>> ELSE Placed(h[n - 1], files[n])
        <5> SUFFICES ASSUME NEW n \in 0..m
                     PROVE  h[n] = IF n = 0 THEN <<>> ELSE Placed(h[n - 1], files[n])
          OBVIOUS
        <5>1. CASE n = m
          BY <5>1, <3>1, <2>3
        <5>2. CASE n # m
          <6>1. n \in 0..(m - 1) /\ (n # 0 => n - 1 \in 0..m /\ n - 1 # m)
            BY <5>2, <3>1
          <6>2. g[n] = IF n = 0 THEN <<>> ELSE Placed(g[n - 1], files[n])
            BY <6>1, <3>3
          <6> QED BY <5>2, <6>1, <6>2
        <5> QED BY <5>1, <5>2
      <4> HIDE DEF h
      <4>2. h = [n \in 0..m |-> h[n]]
        BY DEF h
      <4> QED BY <4>1, <4>2
    <3>5. QED
      BY <3>4, <2>1
  <2>4. QED
    BY <2>2, <2>3
<1>2. Packing(files) = (CHOOSE g : Packs(g, Len(files)))[Len(files)]
  BY DEF Packing
<1>3. \E g : Packs(g, Len(files))
  BY <1>1
<1>4. Packs(CHOOSE g : Packs(g, Len(files)), Len(files))
  <2> HIDE DEF Packs
  <2> QED BY <1>3
<1>5. QED
  BY <1>2, <1>4

Request == [files : SUBSET Paths, size : Nat]

PathsApart(files) == \A j, m \in 1..Len(files) : files[j].path = files[m].path => j = m

\* What is true of a request, and of the requests the first k files are packed into.
Whole(files, k, r) ==
  /\ r.files # {}
  /\ \A p \in r.files : \E m \in 1..k : files[m].path = p /\ ~files[m].binary
  /\ r.size = SizesIn(files, r.files)[k]
  /\ r.size <= Budget \/ \E p \in Paths : r.files = {p}

Packed(files, k, packed) ==
  /\ packed \in Seq(Request) /\ Len(packed) <= MaxChunks
  /\ \A i \in 1..Len(packed) : Whole(files, k, packed[i])
  /\ \A i, j \in 1..Len(packed) : i # j => packed[i].files \cap packed[j].files = {}
  /\ \A i \in 1..(Len(packed) - 1) : packed[i].size + packed[i + 1].size > Budget
  /\ \A m \in 1..k : ~files[m].binary =>
       Len(packed) = MaxChunks \/ \E i \in 1..Len(packed) : files[m].path \in packed[i].files

\* A file that no request holds yet adds to none of them.
LEMMA OthersStay ==
  ASSUME NEW files \in Seq(File), PathsApart(files), NEW k \in 1..Len(files),
         NEW packed, Packed(files, k - 1, packed), NEW i \in 1..Len(packed)
  PROVE  /\ packed[i] \in Request /\ packed[i].size \in Nat /\ packed[i].files \subseteq Paths
         /\ files[k].path \notin packed[i].files
         /\ packed[i].size = SizesIn(files, packed[i].files)[k - 1]
         /\ Whole(files, k, packed[i])
<1>1. Len(files) \in Nat /\ k \in Nat /\ k - 1 \in 0..Len(files) /\ 1..(k - 1) \subseteq 1..k
  OBVIOUS
<1>2. packed[i] \in Request
  BY DEF Packed
<1>3. packed[i].size \in Nat /\ packed[i].files \subseteq Paths
  BY <1>2 DEF Request
<1>4. \A p \in packed[i].files : \E m \in 1..(k - 1) : files[m].path = p /\ ~files[m].binary
  BY DEF Packed, Whole
<1>5. files[k].path \notin packed[i].files
  <2> SUFFICES ASSUME NEW m \in 1..(k - 1), files[m].path = files[k].path PROVE FALSE
    BY <1>4
  <2>1. m \in 1..Len(files) /\ m # k
    BY <1>1
  <2>2. QED
    BY <2>1 DEF PathsApart
<1>6. SizesIn(files, packed[i].files)[k] = SizesIn(files, packed[i].files)[k - 1] + 0
  BY <1>5, SizesAdd
<1>7. packed[i].size = SizesIn(files, packed[i].files)[k - 1]
  BY DEF Packed, Whole
<1>8. packed[i].size = SizesIn(files, packed[i].files)[k]
  BY <1>3, <1>6, <1>7
<1>9. Whole(files, k, packed[i])
  <2>1. Whole(files, k - 1, packed[i])
    BY DEF Packed
  <2>2. QED
    BY <1>1, <1>8, <2>1 DEF Whole
<1>10. QED
  BY <1>2, <1>3, <1>5, <1>7, <1>9

LEMMA PlacedKeeps ==
  ASSUME NEW files \in Seq(File), PathsApart(files), NEW k \in 1..Len(files),
         NEW packed, Packed(files, k - 1, packed)
  PROVE  Packed(files, k, Placed(packed, files[k]))
<1> DEFINE n == Len(packed)
           f == files[k]
           opened == Append(packed, [files |-> {f.path}, size |-> f.size])
           grown == [files |-> Last(packed).files \cup {f.path}, size |-> Last(packed).size + f.size]
           joined == Append(Front(packed), grown)
<1>1. /\ packed \in Seq(Request) /\ n \in Nat /\ n <= MaxChunks /\ MaxChunks \in Nat \ {0}
      /\ k \in Nat /\ k - 1 \in 0..Len(files) /\ Budget \in Nat
      /\ \A m \in 1..k : m = k \/ m \in 1..(k - 1)
  BY LimitsArePositive DEF Packed
<1>2. f \in File /\ f.path \in Paths /\ f.size \in Nat \ {0} /\ f.binary \in BOOLEAN
  <2>1. f \in File
    OBVIOUS
  <2>2. QED
    BY <2>1 DEF File
<1>3. /\ \A i, j \in 1..n : i # j => packed[i].files \cap packed[j].files = {}
      /\ \A i \in 1..(n - 1) : packed[i].size + packed[i + 1].size > Budget
      /\ \A m \in 1..(k - 1) : ~files[m].binary =>
           n = MaxChunks \/ \E i \in 1..n : files[m].path \in packed[i].files
  BY DEF Packed
<1>4. \A i \in 1..n : Whole(files, k, packed[i])
  BY OthersStay
<1>5. CASE Placed(packed, f) = packed /\ (f.binary \/ n = MaxChunks)
  <2>1. \A m \in 1..k : ~files[m].binary =>
           n = MaxChunks \/ \E i \in 1..n : files[m].path \in packed[i].files
    BY <1>1, <1>3, <1>5
  <2> HIDE DEF f
  <2>2. QED
    BY <1>1, <1>3, <1>4, <1>5, <2>1 DEF Packed, f
<1>6. CASE Placed(packed, f) = opened /\ n < MaxChunks /\ ~f.binary
           /\ (packed # <<>> => Last(packed).size + f.size > Budget)
  <2> DEFINE r == [files |-> {f.path}, size |-> f.size]
  <2>1. r \in Request /\ r.files = {f.path} /\ r.size = f.size
    BY <1>2 DEF Request
  <2>2. /\ opened \in Seq(Request) /\ Len(opened) = n + 1 /\ opened[n + 1] = r
        /\ \A i \in 1..n : opened[i] = packed[i]
    BY <1>1, <2>1
  <2>3. r.size = SizesIn(files, r.files)[k]
    <3>1. SizesIn(files, {f.path})[k - 1] = 0
      <4>1. \A m \in 1..(k - 1) : files[m].path \notin {f.path}
        BY <1>1 DEF PathsApart
      <4>2. QED
        BY <1>1, <4>1, SizesOfNone
    <3>2. QED
      BY <1>1, <1>2, <2>1, <3>1, SizesAdd
  <2> HIDE DEF r, opened
  <2>4. ASSUME NEW i \in 1..(n + 1) PROVE Whole(files, k, opened[i])
    <3>1. Whole(files, k, r)
      <4>1. \E m \in 1..k : files[m].path = f.path /\ ~files[m].binary
        BY <1>1, <1>6
      <4>2. QED
        BY <1>2, <2>1, <2>3, <4>1 DEF Whole
    <3>2. CASE i # n + 1
      <4>1. i \in 1..n /\ opened[i] = packed[i]
        BY <1>1, <2>2, <3>2
      <4>2. QED
        BY <1>4, <4>1
    <3>3. QED
      BY <2>2, <3>1, <3>2
  <2>5. ASSUME NEW i \in 1..(n + 1), NEW j \in 1..(n + 1), i # j
        PROVE  opened[i].files \cap opened[j].files = {}
    <3>1. \A x \in 1..n : opened[n + 1].files \cap opened[x].files = {}
      <4> SUFFICES ASSUME NEW x \in 1..n PROVE opened[n + 1].files \cap opened[x].files = {}
        OBVIOUS
      <4>1. f.path \notin packed[x].files
        BY OthersStay
      <4>2. QED
        BY <2>1, <2>2, <4>1
    <3>2. (i \in 1..n \/ i = n + 1) /\ (j \in 1..n \/ j = n + 1)
      BY <1>1
    <3>3. QED
      BY <1>3, <2>2, <2>5, <3>1, <3>2
  <2>6. ASSUME NEW i \in 1..n
        PROVE  opened[i].size + opened[i + 1].size > Budget
    <3>1. CASE i = n
      <4>1. packed # <<>> /\ Last(packed) = packed[n]
        BY <1>1, <3>1 DEF Last
      <4>2. QED
        BY <1>6, <2>1, <2>2, <3>1, <4>1
    <3>2. CASE i # n
      <4>1. i \in 1..(n - 1) /\ i + 1 \in 1..n
        BY <1>1, <3>2
      <4>2. QED
        BY <1>3, <2>2, <4>1
    <3>3. QED
      BY <3>1, <3>2
  <2>7. ASSUME NEW m \in 1..k, ~files[m].binary
        PROVE  \/ n + 1 = MaxChunks
               \/ \E i \in 1..(n + 1) : files[m].path \in opened[i].files
    <3>1. CASE m = k
      <4>1. n + 1 \in 1..(n + 1)
        BY <1>1
      <4>2. QED
        BY <2>1, <2>2, <3>1, <4>1
    <3>2. CASE m # k
      <4>1. PICK i \in 1..n : files[m].path \in packed[i].files
        BY <1>1, <1>3, <1>6, <2>7, <3>2
      <4>2. i \in 1..(n + 1)
        BY <1>1
      <4>3. QED
        BY <2>2, <4>1, <4>2
    <3>3. QED
      BY <3>1, <3>2
  <2>8. Len(opened) <= MaxChunks /\ Len(opened) - 1 = n
    BY <1>1, <1>6, <2>2
  <2>9. QED
    <3> HIDE DEF f, n
    <3>1. \A m \in 1..k : ~files[m].binary =>
            Len(opened) = MaxChunks \/ \E i \in 1..Len(opened) : files[m].path \in opened[i].files
      BY <2>2, <2>7
    <3>2. Packed(files, k, opened)
      BY <2>2, <2>4, <2>5, <2>6, <2>8, <3>1 DEF Packed
    <3>3. QED
      BY <1>6, <3>2 DEF f
<1>7. CASE Placed(packed, f) = joined /\ ~f.binary /\ packed # <<>>
           /\ Last(packed).size + f.size <= Budget
  <2>1. n \in 1..n /\ Last(packed) = packed[n]
    BY <1>1, <1>7 DEF Last
  <2>2. packed[n] \in Request /\ packed[n].size \in Nat /\ packed[n].files \subseteq Paths
        /\ f.path \notin packed[n].files
    BY <2>1, OthersStay
  <2>3. /\ grown \in Request /\ grown.files = packed[n].files \cup {f.path}
        /\ grown.size = packed[n].size + f.size
    BY <1>2, <2>1, <2>2 DEF Request
  <2> HIDE DEF grown
  <2>4. /\ joined \in Seq(Request) /\ Len(joined) = n /\ joined[n] = grown
        /\ \A i \in 1..(n - 1) : joined[i] = packed[i]
    <3>1. /\ Front(packed) \in Seq(Request) /\ Len(Front(packed)) = n - 1
          /\ \A i \in 1..(n - 1) : Front(packed)[i] = packed[i]
      <4>1. n - 1 \in 0..n /\ n - 1 \in Nat /\ Front(packed) = SubSeq(packed, 1, n - 1)
        BY <1>1, <2>1 DEF Front
      <4> HIDE DEF n
      <4>2. SubSeq(packed, 1, n - 1) = [i \in 1..(n - 1) |-> packed[i]]
        BY <1>1, <4>1 DEF n
      <4>3. \A i \in 1..(n - 1) : packed[i] \in Request
        BY <1>1, <4>1 DEF n
      <4>4. QED
        BY <4>1, <4>2, <4>3
    <3>2. QED
      BY <1>1, <2>1, <2>3, <3>1
  <2> HIDE DEF joined
  <2>5. grown.size = SizesIn(files, grown.files)[k]
    <3>1. SizesIn(files, grown.files)[k - 1] = SizesIn(files, packed[n].files)[k - 1]
      <4>1. \A m \in 1..(k - 1) : files[m].path # f.path
        BY <1>1 DEF PathsApart
      <4>2. \A m \in 1..(k - 1) :
              files[m].path \in grown.files <=> files[m].path \in packed[n].files
        BY <2>3, <4>1
      <4>3. k - 1 \in 0..Len(files)
        BY <1>1
      <4> HIDE DEF grown, n, f
      <4>4. QED
        BY <4>2, <4>3, SizesAgree, ZenonT(60)
    <3>2. packed[n].size = SizesIn(files, packed[n].files)[k - 1]
      BY <2>1, OthersStay
    <3>3. f.path \in grown.files
      BY <2>3
    <3>4. QED
      BY <1>1, <2>3, <3>1, <3>2, <3>3, SizesAdd
  <2>6. ASSUME NEW i \in 1..n PROVE Whole(files, k, joined[i])
    <3>1. Whole(files, k, grown)
      <4>1. \A p \in grown.files : \E m \in 1..k : files[m].path = p /\ ~files[m].binary
        BY <1>1, <1>4, <1>7, <2>1, <2>3 DEF Whole
      <4>2. grown.files # {} /\ grown.size <= Budget
        BY <1>7, <2>1, <2>3
      <4>3. QED
        BY <2>5, <4>1, <4>2 DEF Whole
    <3>2. CASE i # n
      <4>1. i \in 1..(n - 1) /\ joined[i] = packed[i]
        BY <1>1, <2>4, <3>2
      <4>2. QED
        BY <1>4, <4>1
    <3>3. QED
      BY <2>4, <3>1, <3>2
  <2>7. ASSUME NEW i \in 1..n, NEW j \in 1..n, i # j
        PROVE  joined[i].files \cap joined[j].files = {}
    <3>1. \A x \in 1..(n - 1) : joined[n].files \cap joined[x].files = {}
      <4> SUFFICES ASSUME NEW x \in 1..(n - 1) PROVE joined[n].files \cap joined[x].files = {}
        OBVIOUS
      <4>1. x \in 1..n /\ x # n
        BY <1>1
      <4>2. packed[n].files \cap packed[x].files = {} /\ f.path \notin packed[x].files
        BY <1>3, <2>1, <4>1, OthersStay
      <4>3. QED
        BY <2>3, <2>4, <4>2
    <3>2. (i \in 1..(n - 1) \/ i = n) /\ (j \in 1..(n - 1) \/ j = n)
      BY <1>1
    <3>3. QED
      BY <1>3, <2>4, <2>7, <3>1, <3>2
  <2>8. ASSUME NEW i \in 1..(n - 1)
        PROVE  joined[i].size + joined[i + 1].size > Budget
    <3>1. packed[i].size + packed[i + 1].size > Budget
      BY <1>3
    <3>2. i \in 1..n /\ i + 1 \in 1..n /\ packed[i].size \in Nat /\ packed[i + 1].size \in Nat
      <4>1. i \in 1..n /\ i + 1 \in 1..n
        BY <1>1
      <4>2. QED
        BY <4>1, OthersStay
    <3>3. joined[i].size = packed[i].size
      BY <2>4
    <3>4. joined[i + 1].size \in Nat /\ joined[i + 1].size >= packed[i + 1].size
      <4>1. CASE i + 1 = n
        BY <1>2, <2>2, <2>3, <2>4, <4>1
      <4>2. CASE i + 1 # n
        <5>1. i + 1 \in 1..(n - 1)
          BY <1>1, <4>2
        <5>2. QED
          BY <2>4, <3>2, <5>1
      <4>3. QED
        BY <4>1, <4>2
    <3> DEFINE low == packed[i].size
               old == packed[i + 1].size
               new == joined[i + 1].size
    <3>5. low + old > Budget /\ {low, old, new, Budget} \subseteq Nat /\ new >= old
      BY <1>1, <3>1, <3>2, <3>4
    <3>6. low + new > Budget
      <4> HIDE DEF low, old, new
      <4>1. QED
        BY <3>5
    <3>7. QED
      BY <3>3, <3>6
  <2>9. ASSUME NEW m \in 1..k, ~files[m].binary
        PROVE  n = MaxChunks \/ \E i \in 1..n : files[m].path \in joined[i].files
    <3>1. CASE m = k
      BY <2>1, <2>3, <2>4, <3>1
    <3>2. CASE m # k
      <4> SUFFICES ASSUME n # MaxChunks
                   PROVE  \E i \in 1..n : files[m].path \in joined[i].files
        OBVIOUS
      <4>1. PICK i \in 1..n : files[m].path \in packed[i].files
        BY <1>1, <1>3, <2>9, <3>2
      <4>2. packed[i].files \subseteq joined[i].files
        <5>1. i = n \/ i \in 1..(n - 1)
          BY <1>1
        <5>2. QED
          BY <2>3, <2>4, <5>1
      <4>3. QED
        BY <4>1, <4>2
    <3>3. QED
      BY <3>1, <3>2
  <2>10. QED
    <3> HIDE DEF f, n
    <3>1. Packed(files, k, joined)
      BY <1>1, <2>4, <2>6, <2>7, <2>8, <2>9 DEF Packed
    <3>2. QED
      BY <1>7, <3>1 DEF f
<1>8. QED
  <2>1. packed # <<>> => Last(packed).size \in Nat
    BY <1>1, OthersStay DEF Last
  <2>2. QED
    BY SMTT(30), <1>1, <1>2, <1>5, <1>6, <1>7, <2>1 DEF Placed

\* The requests of a change all of whose paths differ.
LEMMA PackingPacks ==
  ASSUME NEW files \in Seq(File), PathsApart(files)
  PROVE  Packed(files, Len(files), Packing(files))
<1>1. PICK g : /\ g = [n \in 0..Len(files) |-> IF n = 0 THEN <<>> ELSE Placed(g[n - 1], files[n])]
               /\ Packing(files) = g[Len(files)]
  BY PackingUnfolds
<1> DEFINE Missed == {n \in 0..Len(files) : ~Packed(files, n, g[n])}
<1>2. Missed = {}
  <2> SUFFICES ASSUME Missed # {} PROVE FALSE
    OBVIOUS
  <2>1. PICK n \in Missed : \A x \in Missed : n <= x
    <3>1. Missed \subseteq Nat
      OBVIOUS
    <3> HIDE DEF Missed
    <3> QED BY <3>1, SomeIsFirst
  <2>2. n # 0
    <3>1. g[0] = <<>>
      BY <1>1
    <3>2. Packed(files, 0, <<>>)
      BY LimitsArePositive DEF Packed
    <3>3. QED
      BY <3>1, <3>2
  <2>3. Len(files) \in Nat /\ n \in 1..Len(files) /\ n - 1 \in 0..Len(files) /\ ~(n <= n - 1)
    BY <2>2
  <2>4. Packed(files, n - 1, g[n - 1])
    <3>1. n - 1 \notin Missed
      <4> HIDE DEF Missed
      <4>1. QED
        BY <2>1, <2>3
    <3>2. QED
      BY <2>3, <3>1
  <2>5. g[n] = Placed(g[n - 1], files[n])
    BY <1>1, <2>2
  <2>6. Packed(files, n, g[n])
    BY <2>3, <2>4, <2>5, PlacedKeeps
  <2>7. QED
    BY <2>6
<1>3. QED
  BY <1>1, <1>2

LEMMA UnambiguousPaths ==
  ASSUME pull \in Pulls, ~Ambiguous
  PROVE  PathsApart(pull.files)
<1> DEFINE n == Len(pull.files)
           g == [i \in 1..n |-> pull.files[i].path]
<1>1. pull.files \in Seq(File) /\ n \in Nat
  BY AnswersArePayloads DEF Pull
<1>2. Changed = {g[i] : i \in DOMAIN g}
  <2>1. ToSet(pull.files) = {pull.files[i] : i \in 1..n}
    BY <1>1 DEF ToSet
  <2>2. Changed = {pull.files[i].path : i \in 1..n}
    BY <2>1 DEF Changed
  <2>3. QED
    BY <2>2
<1>3. g \in Surjection(1..n, Changed)
  BY <1>2 DEF Surjection
<1>4. IsFiniteSet(1..n) /\ Cardinality(1..n) = n
  <2> HIDE DEF n
  <2>1. 1 \in Int /\ n \in Int
    BY <1>1
  <2>2. IsFiniteSet(1..n) /\ Cardinality(1..n) = IF 1 <= n THEN n - 1 + 1 ELSE 0
    BY <2>1, FS_Interval, SMTT(60)
  <2>3. QED
    BY <1>1, <2>2
<1>5. g \in Injection(1..n, Changed)
  <2> HIDE DEF g
  <2>1. QED
    BY <1>3, <1>4, FS_SurjSameCardinalityImpliesInj DEF Ambiguous
<1>6. QED
  BY <1>5 DEF Injection, IsInjective, PathsApart

(***************************************************************************)
(* While its requests are out, what the division of a change into them     *)
(* promises (_evaluate_chunked, pr_verifier.py:6724-6748): no request is   *)
(* empty, holds a binary file, or is larger than the budget unless it is   *)
(* one file; no file is sent twice; no two neighbours could have been one  *)
(* request; and text is left out only when there may be no more requests.  *)
(***************************************************************************)
TextOf(files) == {f.path : f \in {g \in ToSet(files) : ~g.binary}}

Divided(files, cs) ==
  /\ Len(cs) \in 1..MaxChunks
  /\ \A i \in 1..Len(cs) :
       /\ cs[i] # {} /\ cs[i] \subseteq TextOf(files)
       /\ SizeIn(files, cs[i]) <= Budget \/ \E p \in Paths : cs[i] = {p}
  /\ \A i, j \in 1..Len(cs) : i # j => cs[i] \cap cs[j] = {}
  /\ \A i \in 1..(Len(cs) - 1) : SizeIn(files, cs[i] \cup cs[i + 1]) > Budget
  /\ UNION ToSet(cs) # TextOf(files) => Len(cs) = MaxChunks

RequestsDivideTheChange == pc \in {"chunks", "synthesis"} => Divided(pull.files, chunks)

LEMMA PackingDivides ==
  ASSUME pull \in Pulls, ~Ambiguous, pull.files # <<>>, ~OnlyBinary
  PROVE  LET packed == Packing(pull.files)
         IN Divided(pull.files, [i \in 1..Len(packed) |-> packed[i].files])
<1> DEFINE files == pull.files
           packed == Packing(files)
           cs == [i \in 1..Len(packed) |-> packed[i].files]
<1>1. files \in Seq(File) /\ Len(files) \in Nat /\ MaxChunks \in Nat \ {0}
  BY AnswersArePayloads, LimitsArePositive DEF Pull
<1>2. Packed(files, Len(files), packed)
  BY <1>1, UnambiguousPaths, PackingPacks
<1>3. \A p : p \in TextOf(files) <=>
               \E m \in 1..Len(files) : files[m].path = p /\ ~files[m].binary
  <2>1. ToSet(files) = {files[m] : m \in 1..Len(files)}
    BY <1>1 DEF ToSet
  <2>2. QED
    BY <2>1 DEF TextOf
<1>4. TextOf(files) # {}
  BY DEF OnlyBinary, Changed, Binary, TextOf
<1> HIDE DEF files, packed
<1>5. /\ packed \in Seq(Request) /\ Len(packed) \in Nat /\ Len(packed) <= MaxChunks
      /\ Len(cs) = Len(packed) /\ DOMAIN cs = 1..Len(packed)
      /\ \A i \in 1..Len(packed) : cs[i] = packed[i].files /\ packed[i] \in Request
  BY <1>2 DEF Packed
<1> HIDE DEF cs
<1>6. ASSUME NEW i \in 1..Len(packed)
      PROVE  /\ cs[i] # {} /\ cs[i] \subseteq TextOf(files)
             /\ packed[i].size = SizeIn(files, cs[i])
             /\ SizeIn(files, cs[i]) <= Budget \/ \E p \in Paths : cs[i] = {p}
  <2>1. Whole(files, Len(files), packed[i]) /\ cs[i] = packed[i].files
    BY <1>2, <1>5 DEF Packed
  <2>2. QED
    BY <1>3, <2>1 DEF Whole, SizeIn
<1>7. \A i, j \in 1..Len(packed) : i # j => cs[i] \cap cs[j] = {}
  BY <1>2, <1>5 DEF Packed
<1>8. ASSUME NEW i \in 1..(Len(packed) - 1)
      PROVE  SizeIn(files, cs[i] \cup cs[i + 1]) > Budget
  <2>1. i \in 1..Len(packed) /\ i + 1 \in 1..Len(packed) /\ i # i + 1
    BY <1>5
  <2>2. Len(files) \in 0..Len(files) /\ cs[i] \cap cs[i + 1] = {}
    BY <1>1, <1>7, <2>1
  <2>3. SizeIn(files, cs[i] \cup cs[i + 1]) = SizeIn(files, cs[i]) + SizeIn(files, cs[i + 1])
    BY <1>1, <2>2, SizesOfBoth DEF SizeIn
  <2>4. SizeIn(files, cs[i] \cup cs[i + 1]) = packed[i].size + packed[i + 1].size
    BY <1>6, <2>1, <2>3
  <2>5. QED
    BY <1>2, <2>4 DEF Packed
<1>9. UNION ToSet(cs) # TextOf(files) => Len(packed) = MaxChunks
  <2> SUFFICES ASSUME Len(packed) # MaxChunks PROVE UNION ToSet(cs) = TextOf(files)
    OBVIOUS
  <2>1. ToSet(cs) = {cs[i] : i \in 1..Len(packed)}
    BY <1>5 DEF ToSet
  <2>2. ASSUME NEW p \in TextOf(files) PROVE \E i \in 1..Len(packed) : p \in cs[i]
    BY <1>2, <1>3, <1>5 DEF Packed
  <2>3. QED
    BY <1>6, <2>1, <2>2
<1>10. Len(packed) # 0
  <2> SUFFICES ASSUME Len(packed) = 0 PROVE FALSE
    OBVIOUS
  <2>1. UNION ToSet(cs) = {}
    BY <1>5 DEF ToSet
  <2>2. QED
    BY <1>1, <1>4, <1>9, <2>1
<1>11. Len(packed) \in 1..MaxChunks
  BY <1>1, <1>5, <1>10
<1>12. Divided(files, cs)
  BY <1>5, <1>6, <1>7, <1>8, <1>9, <1>11 DEF Divided
<1>13. QED
  BY <1>12 DEF cs, packed, files

Reviewing == pull \in Pulls /\ RequestsDivideTheChange

LEMMA DivisionStep ==
  ASSUME Reviewing, [VerifierNext]_verifierVars
  PROVE  Reviewing'
<1>1. CASE Begin /\ pc' = "chunks"
  <2>1. /\ pull' = pull /\ ~Ambiguous /\ ~Fits /\ ~OnlyBinary
        /\ chunks' = [i \in 1..Len(Packing(pull.files)) |-> Packing(pull.files)[i].files]
    BY <1>1 DEF Begin, Conclude, inputs
  <2>2. pull.files # <<>>
    <3>1. ASSUME pull.files = <<>> PROVE Fits
      <4>1. Binary = {}
        BY <3>1 DEF Binary, ToSet
      <4>2. QED
        BY <3>1, <4>1, NothingHasNoSize, LimitsArePositive DEF Fits
    <3>2. QED
      BY <2>1, <3>1
  <2>3. Divided(pull.files, chunks')
    BY <2>1, <2>2, PackingDivides DEF Reviewing
  <2>4. QED
    BY <2>1, <2>3 DEF Reviewing, RequestsDivideTheChange
<1>2. CASE Begin /\ pc' # "chunks"
  BY <1>2 DEF Begin, Conclude, inputs, Reviewing, RequestsDivideTheChange
<1> DEFINE Kept == /\ pull' = pull
                   /\ pc' \in {"chunks", "synthesis"} =>
                        pc \in {"chunks", "synthesis"} /\ chunks' = chunks
<1>3. ASSUME VerifierNext, ~Begin
      PROVE  Kept
  <2>1. CASE NoJudge \/ RefusePlan \/ SettleChunks \/ NextJudge \/ Admit
    BY <2>1 DEF NoJudge, RefusePlan, SettleChunks, NextJudge, Admit, Conclude, Blocked, inputs
  <2>2. ASSUME NEW count, PlanRange(count) PROVE Kept
    BY <2>2 DEF PlanRange, Conclude, Blocked, inputs
  <2>3. ASSUME NEW a, Direct(a) \/ ReviewRange(a) \/ Synthesize(a) PROVE Kept
    BY <2>3 DEF Direct, ReviewRange, Synthesize, Conclude, inputs
  <2>4. ASSUME NEW a, NEW summarised, Fallback(a, summarised) PROVE Kept
    BY <2>4 DEF Fallback, Conclude, inputs
  <2>5. ASSUME NEW a, NEW shortfall, ReviewChunk(a, shortfall) PROVE Kept
    BY <2>5 DEF ReviewChunk, inputs
  <2>6. QED
    BY <1>3, <2>1, <2>2, <2>3, <2>4, <2>5 DEF VerifierNext
<1>4. CASE VerifierNext /\ ~Begin
  BY <1>3, <1>4 DEF Reviewing, RequestsDivideTheChange
<1>5. CASE UNCHANGED verifierVars
  BY <1>5 DEF verifierVars, Reviewing, RequestsDivideTheChange
<1>6. QED
  BY <1>1, <1>2, <1>4, <1>5

\* A change is sent to the judge in requests that leave text out only at their limit, for
\* any change, budget and number of requests (_evaluate_chunked,
\* pr_verifier.py:6724-6748).
THEOREM RequestsDivide == VerifierSpec => []RequestsDivideTheChange
<1>1. VerifierInit => Reviewing
  BY DEF VerifierInit, Reviewing, RequestsDivideTheChange
<1>2. Reviewing => RequestsDivideTheChange
  BY DEF Reviewing
<1>3. QED
  BY <1>1, <1>2, DivisionStep, PTL DEF VerifierSpec
=============================================================================
