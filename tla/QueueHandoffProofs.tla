------------------------- MODULE QueueHandoffProofs -------------------------
(***************************************************************************)
(* The hand-off of validation-queue.json, for any number of runs, review   *)
(* sessions, records and artifacts.  Under every interleaving and every    *)
(* death a queue that can be read holds only legal records, and a manifest *)
(* that can be read has no file of a run that its own did not meet; one    *)
(* process at a time, a saved review is never lost and a manifest is about *)
(* what lies on disk.                                                      *)
(***************************************************************************)
EXTENDS QueueHandoff, SequenceTheorems, TLAPS

-----------------------------------------------------------------------------
(***************************************************************************)
(* Any interleaving.  A record anywhere, on disk or in the memory of a     *)
(* process, is legal; what is about to be published was found decodable.   *)
(***************************************************************************)
LegalItem(it) ==
  /\ OwnershipAgrees(it)
  /\ (it.owner = Unowned) <=> (it.events = <<>>)
  /\ \A n \in 1..Len(it.events) : (it.events[n].action = "claim") <=> (n = 1)

Legal(c) == \A k \in Keys : c[k] # Absent => LegalItem(c[k])

Checked(c) == \A k \in Keys : c[k] # Absent => Decodable(c[k])

RunOnly == {"checked", "writing", "filling", "hashing", "hashed", "recording"}

SharedInv ==
  /\ TypeOK
  /\ Readable(file) => Legal(file) /\ Checked(file)
  /\ \A p \in Procs : Legal(copy[p]) /\ (pc[p] = "opened" => Checked(copy[p]))
  /\ \A p \in Procs : pc[p] \in RunOnly =>
       p \in Runs /\ (pc[p] = "filling" => step[p] < NArtifacts)

-----------------------------------------------------------------------------
(***************************************************************************)
(* Any interleaving.  Whoever is under way has met everyone else who is;   *)
(* so what a run wrote, and what it reads back, is its own but for those   *)
(* it met.  What is said of a run that ended is said of its manifest.      *)
(***************************************************************************)
HaveMet ==
  /\ \A r \in Runs : \A q \in Procs : q # r /\ ~Idle(r) /\ ~Idle(q) => q \in met[r]
  /\ exclusive => \A r \in Runs : met[r] = {}

Counted(r) ==
  /\ pc[r] \in {"start", "checked"} => step[r] = 0
  /\ pc[r] \in {"opened", "hashing", "hashed", "recording"} => step[r] = NArtifacts
  /\ pc[r] \in {"start", "checked", "writing", "filling", "opened"} =>
       entries[r] = NoEntries(r)
  /\ entries[r].run = r

Found(r) ==
  /\ \A a \in 1..step[r] : outputs[a] \in MayFind(r)
  /\ pc[r] = "filling" /\ outputs[step[r] + 1] # Empty => met[r] \cap Runs # {}
  /\ \A a \in 1..NArtifacts : entries[r].outputs[a] \in {Missing} \cup MayFind(r)
  /\ pc[r] \in {"hashed", "recording"} =>
       \A a \in 1..NArtifacts : entries[r].outputs[a] # Missing
  /\ met[r] = {} => /\ pc[r] = "opened" => file = Empty
                    /\ pc[r] = "hashing" => file = copy[r]
                    /\ pc[r] \in {"hashed", "recording"} => entries[r].queue = copy[r]

Recorded ==
  Readable(manifest) =>
    /\ pc[manifest.run] = "end"
    /\ \A a \in 1..NArtifacts : manifest.outputs[a] \in MayFind(manifest.run)
    /\ met[manifest.run] = {} => manifest.queue = copy[manifest.run]

MetInv ==
  /\ HaveMet /\ Recorded
  /\ \A r \in Runs : Counted(r) /\ (~Idle(r) => Found(r))

-----------------------------------------------------------------------------
(***************************************************************************)
(* One process at a time.  A run under way found no progress to protect; a *)
(* session under way holds everything that was ever saved.                 *)
(***************************************************************************)
OneAtATime == \A p, q \in Procs : ~Idle(p) /\ ~Idle(q) => p = q

\* Every saved history is the beginning of the one in c.
Keeps(c) == \A a \in acked : c[a[1]] # Absent /\ IsPrefix(a[2], c[a[1]].events)

\* Every record of c is in d, which may have gone on.
Continues(c, d) ==
  \A k \in Keys : c[k] # Absent => d[k] # Absent /\ IsPrefix(c[k].events, d[k].events)

SavedInv ==
  /\ \A a \in acked : a[2] # <<>>
  /\ file = Missing => acked = {}
  /\ file \in Contents => Keeps(file)
  /\ \A s \in Sessions : pc[s] \in {"holding", "opened"} => Keeps(copy[s])
  /\ \A r \in Runs :
       /\ pc[r] \in {"checked", "writing", "filling", "opened"} => acked = {}
       /\ pc[r] \in {"checked", "writing", "filling"} =>
            file = Missing \/ (file \in Contents /\ ~HasProgress(file))

OnDisk(p) ==
  /\ pc[p] \in {"writing", "filling"} => p \in Runs
  /\ pc[p] = "holding" => file \in Contents
  /\ pc[p] = "opened" => file = Empty
  /\ pc[p] \in {"hashing", "hashed", "recording"} => file = copy[p]
  /\ pc[p] = "recording" => manifest = Empty

ManifestInv ==
  (/\ \A r \in Runs : pc[r] \in {"start", "end"}
   /\ \A s \in Sessions : pc[s] # "crashed") =>
     \/ manifest = Missing
     \/ /\ manifest \in Manifest /\ manifest.outputs = outputs
        /\ manifest.queue \in Contents
        /\ (\A s \in Sessions : pc[s] # "opened") =>
             file \in Contents /\ Continues(manifest.queue, file)
        /\ \A s \in Sessions : pc[s] \in {"holding", "opened"} =>
             Continues(manifest.queue, copy[s])

SerialInv ==
  exclusive =>
    /\ OneAtATime /\ SavedInv /\ ManifestInv
    /\ \A p \in Procs : OnDisk(p)

-----------------------------------------------------------------------------
(***************************************************************************)
(* Histories and their beginnings.                                         *)
(***************************************************************************)
LEMMA HistoryGrows ==
  ASSUME NEW S, NEW s \in Seq(S), NEW e \in S
  PROVE  /\ Append(s, e) \in Seq(S) /\ Append(s, e) # <<>>
         /\ Len(s) \in Nat /\ Len(Append(s, e)) = Len(s) + 1
         /\ \A k \in 1..Len(s) : Append(s, e)[k] = s[k]
         /\ Append(s, e)[Len(s) + 1] = e
OBVIOUS

LEMMA PrefixPointwise ==
  ASSUME NEW S, NEW s \in Seq(S), NEW t \in Seq(S)
  PROVE  IsPrefix(s, t) <=> Len(s) <= Len(t) /\ \A k \in 1..Len(s) : s[k] = t[k]
<1>1. Len(s) \in Nat /\ Len(t) \in Nat
  OBVIOUS
<1>2. SubSeq(s, 1, Len(s)) = s
  BY SubSeqFull
<1>3. ASSUME Len(s) <= Len(t)
      PROVE  /\ SubSeq(t, 1, Len(s)) \in Seq(S) /\ Len(SubSeq(t, 1, Len(s))) = Len(s)
             /\ \A k \in 1..Len(s) : SubSeq(t, 1, Len(s))[k] = t[k]
  BY <1>1, <1>3
<1>4. ASSUME Len(s) <= Len(t), \A k \in 1..Len(s) : s[k] = t[k]
      PROVE  s = SubSeq(t, 1, Len(s))
  BY <1>3, <1>4, SeqEqual
<1> QED  BY <1>2, <1>3, <1>4 DEF IsPrefix

LEMMA PrefixReflexive ==
  ASSUME NEW S, NEW s \in Seq(S) PROVE IsPrefix(s, s)
BY PrefixPointwise

LEMMA PrefixOfAppended ==
  ASSUME NEW S, NEW s \in Seq(S), NEW t \in Seq(S), NEW e \in S, IsPrefix(s, t)
  PROVE  IsPrefix(s, Append(t, e))
<1>1. Len(s) \in Nat /\ Len(t) \in Nat /\ Len(s) <= Len(t) /\ \A k \in 1..Len(s) : s[k] = t[k]
  BY PrefixPointwise
<1>2. \A k \in 1..Len(s) : k \in 1..Len(t)
  BY <1>1
<1>3. /\ Append(t, e) \in Seq(S) /\ Len(Append(t, e)) = Len(t) + 1
      /\ \A k \in 1..Len(t) : Append(t, e)[k] = t[k]
  BY HistoryGrows
<1> DEFINE u == Append(t, e)
<1> HIDE DEF u
<1>4. Len(s) <= Len(u) /\ \A k \in 1..Len(s) : s[k] = u[k]
  BY <1>1, <1>2, <1>3 DEF u
<1>5. IsPrefix(s, u)
  BY <1>3, <1>4, PrefixPointwise DEF u
<1> QED  BY <1>5 DEF u

LEMMA PrefixTransitive ==
  ASSUME NEW S, NEW s \in Seq(S), NEW t \in Seq(S), NEW u \in Seq(S),
         IsPrefix(s, t), IsPrefix(t, u)
  PROVE  IsPrefix(s, u)
<1>1. /\ Len(s) \in Nat /\ Len(t) \in Nat /\ Len(u) \in Nat
      /\ Len(s) <= Len(t) /\ \A k \in 1..Len(s) : s[k] = t[k]
      /\ Len(t) <= Len(u) /\ \A k \in 1..Len(t) : t[k] = u[k]
  BY PrefixPointwise
<1>2. Len(s) <= Len(u) /\ \A k \in 1..Len(s) : s[k] = u[k]
  BY <1>1
<1> QED  BY <1>2, PrefixPointwise

-----------------------------------------------------------------------------
(***************************************************************************)
(* claim, transfer and transition take a legal record to a legal record    *)
(* that has one more event.                                                *)
(***************************************************************************)
LEMMA LegalAfterEvent ==
  ASSUME NEW it \in ValidationQueueItem, LegalItem(it), NEW e \in QueueEvent,
         (e.action = "claim") <=> (it.events = <<>>),
         NEW new \in ValidationQueueItem, new.events = Append(it.events, e),
         new.owner # Unowned, new.role # "none", new.state # "pending_triage"
  PROVE  LegalItem(new)
<1>1. it.events \in Seq(QueueEvent)
  BY DEF ValidationQueueItem
<1>2. /\ new.events # <<>>
      /\ Len(it.events) \in Nat /\ Len(new.events) = Len(it.events) + 1
      /\ \A k \in 1..Len(it.events) : new.events[k] = it.events[k]
      /\ new.events[Len(it.events) + 1] = e
  BY <1>1, HistoryGrows
<1>3. \A n \in 1..Len(new.events) : (new.events[n].action = "claim") <=> (n = 1)
  <2> SUFFICES ASSUME NEW n \in 1..Len(new.events)
               PROVE  (new.events[n].action = "claim") <=> (n = 1)
    OBVIOUS
  <2>1. CASE n \in 1..Len(it.events)
    BY <1>2, <2>1 DEF LegalItem
  <2>2. CASE n = Len(it.events) + 1
    <3>1. (it.events = <<>>) <=> (n = 1)
      BY <1>1, <1>2, <2>2
    <3> QED  BY <1>2, <2>2, <3>1
  <2> QED  BY <1>2, <2>1, <2>2
<1> QED  BY <1>2, <1>3 DEF LegalItem, OwnershipAgrees

LEMMA StampedItem ==
  ASSUME NEW it \in ValidationQueueItem, NEW actor \in People, NEW role \in Roles,
         NEW action \in {"claim", "transfer", "state_transition"}
  PROVE  LET e == [action |-> action, at |-> 0, actor |-> actor, role |-> role]
             st == Stamp(it, action, actor, role, 0)
         IN /\ e \in QueueEvent /\ e.action = action
            /\ st \in ValidationQueueItem /\ st.events = Append(it.events, e)
            /\ st.state = it.state /\ st.owner = it.owner /\ st.role = it.role
<1> DEFINE e == [action |-> action, at |-> 0, actor |-> actor, role |-> role]
<1>1. e \in QueueEvent
  BY DEF QueueEvent
<1> DEFINE hist == Append(it.events, e)
           st == Stamp(it, action, actor, role, 0)
<1>2. hist \in Seq(QueueEvent)
  BY <1>1 DEF ValidationQueueItem
<1>3. st = [it EXCEPT !.updated = 0, !.events = hist]
  BY DEF Stamp
<1>4. e.action = action
  OBVIOUS
<1> HIDE DEF e, hist, st
<1>5. /\ st \in ValidationQueueItem /\ st.events = hist
      /\ st.state = it.state /\ st.owner = it.owner /\ st.role = it.role
  <2>1. st.events = hist
    BY <1>2, <1>3 DEF ValidationQueueItem
  <2>2. st.state = it.state /\ st.owner = it.owner /\ st.role = it.role
    BY <1>3 DEF ValidationQueueItem
  <2>3. st = [state |-> it.state, owner |-> it.owner, role |-> it.role, created |-> it.created,
              updated |-> 0, events |-> hist]
    BY <1>3 DEF ValidationQueueItem
  <2>4. st \in ValidationQueueItem
    BY <1>2, <2>3 DEF ValidationQueueItem
  <2> QED  BY <2>1, <2>2, <2>4
<1> QED  BY <1>1, <1>4, <1>5 DEF e, hist, st

LEMMA ReviewedIsLegal ==
  ASSUME NEW it \in ValidationQueueItem, LegalItem(it), NEW new \in Reviewed(it)
  PROVE  /\ new \in ValidationQueueItem /\ LegalItem(new)
         /\ \E e \in QueueEvent : new.events = Append(it.events, e)
<1>1. /\ it.state \in Open \cup Terminal /\ it.owner \in People \cup {Unowned}
      /\ it.role \in Roles \cup {"none"}
  BY DEF ValidationQueueItem, States
<1>2. /\ it.owner = Unowned <=> it.state = "pending_triage"
      /\ it.owner = Unowned <=> it.role = "none"
      /\ it.owner = Unowned <=> it.events = <<>>
  BY DEF LegalItem, OwnershipAgrees
<1> DEFINE Event(action, actor, role) ==
             [action |-> action, at |-> 0, actor |-> actor, role |-> role]
<1>3. CASE \E p \in People : MayClaim(it) /\ new = Claimed(it, p, 0)
  <2>1. PICK p \in People : MayClaim(it) /\ new = Claimed(it, p, 0)
    BY <1>3
  <2> DEFINE st == Stamp(it, "claim", p, "analyst", 0)
             e == Event("claim", p, "analyst")
  <2>2. e \in QueueEvent /\ e.action = "claim" /\ st \in ValidationQueueItem
        /\ st.events = Append(it.events, e)
    BY StampedItem DEF Roles
  <2>3. new = [st EXCEPT !.state = "in_validation", !.owner = p, !.role = "analyst"]
    BY <2>1 DEF Claimed
  <2> HIDE DEF st, e
  <2>4. /\ new \in ValidationQueueItem /\ new.events = st.events
        /\ new.owner = p /\ new.role = "analyst" /\ new.state = "in_validation"
    BY <2>2, <2>3 DEF ValidationQueueItem, States, Open, Roles
  <2>5. it.events = <<>>
    BY <1>2, <2>1 DEF MayClaim
  <2>6. LegalItem(new)
    BY <2>2, <2>4, <2>5, LegalAfterEvent, UnownedIsNobody
  <2> QED  BY <2>2, <2>4, <2>6
<1>4. CASE \E a \in People, role \in Roles, o \in People, as \in Roles :
             MayTransfer(it, a, role) /\ new = Transferred(it, a, role, o, as, 0)
  <2>1. PICK a \in People, role \in Roles, o \in People, as \in Roles :
               MayTransfer(it, a, role) /\ new = Transferred(it, a, role, o, as, 0)
    BY <1>4
  <2> DEFINE st == Stamp(it, "transfer", a, role, 0)
             e == Event("transfer", a, role)
  <2>2. e \in QueueEvent /\ e.action = "transfer" /\ st \in ValidationQueueItem
        /\ st.events = Append(it.events, e) /\ st.state = it.state
    <3>1. e \in QueueEvent /\ e.action = "transfer"
      BY <2>1, StampedItem
    <3>2. st \in ValidationQueueItem
      BY <2>1, StampedItem
    <3>3. st.events = Append(it.events, e)
      BY <2>1, StampedItem, ZenonT(60)
    <3>4. st.state = it.state
      BY DEF Stamp, ValidationQueueItem
    <3> QED  BY <3>1, <3>2, <3>3, <3>4
  <2>3. new = [st EXCEPT !.owner = o, !.role = as]
    BY <2>1 DEF Transferred
  <2> HIDE DEF st, e
  <2>4. /\ new \in ValidationQueueItem /\ new.events = st.events
        /\ new.owner = o /\ new.role = as /\ new.state = it.state
    BY <2>2, <2>3 DEF ValidationQueueItem
  <2>5. it.events # <<>> /\ it.state # "pending_triage"
    BY <1>2, <2>1 DEF MayTransfer, HasAuthority
  <2>6. LegalItem(new)
    BY <2>2, <2>4, <2>5, LegalAfterEvent, UnownedIsNobody DEF Roles
  <2> QED  BY <2>2, <2>4, <2>6
<1>5. CASE \E a \in People, role \in Roles, to \in States :
             MayTransition(it, a, role, to) /\ new = Transitioned(it, a, role, to, 0)
  <2>1. PICK a \in People, role \in Roles, to \in States :
               MayTransition(it, a, role, to) /\ new = Transitioned(it, a, role, to, 0)
    BY <1>5
  <2> DEFINE st == Stamp(it, "state_transition", a, role, 0)
             e == Event("state_transition", a, role)
  <2>2. e \in QueueEvent /\ e.action = "state_transition" /\ st \in ValidationQueueItem
        /\ st.events = Append(it.events, e) /\ st.owner = it.owner /\ st.role = it.role
    BY StampedItem, ZenonT(60)
  <2>3. new = [st EXCEPT !.state = to]
    BY <2>1 DEF Transitioned
  <2> HIDE DEF st, e
  <2>4. /\ new \in ValidationQueueItem /\ new.events = st.events
        /\ new.owner = it.owner /\ new.role = it.role /\ new.state = to
    BY <2>2, <2>3 DEF ValidationQueueItem
  <2>5. it.events # <<>> /\ it.owner # Unowned /\ it.role # "none"
    BY <1>2, <2>1 DEF MayTransition, HasAuthority
  <2>6. to # "pending_triage"
    BY <1>1, <2>1 DEF MayTransition, AllowedTransitions, Open, Terminal
  <2>7. LegalItem(new)
    BY <2>2, <2>4, <2>5, <2>6, LegalAfterEvent
  <2> QED  BY <2>2, <2>4, <2>7
<1> QED  BY <1>3, <1>4, <1>5 DEF Reviewed

-----------------------------------------------------------------------------
(***************************************************************************)
(* Any interleaving.                                                       *)
(***************************************************************************)
LEMMA FreshRecordsLegal ==
  /\ NoItems \in Contents /\ Legal(NoItems)
  /\ \A k \in Keys : LET c == [NoItems EXCEPT ![k] = NewItem(0)] IN c \in Contents /\ Legal(c)
<1>1. NewItem(0) \in ValidationQueueItem
  BY DEF NewItem, ValidationQueueItem, States, Open
<1>2. LegalItem(NewItem(0))
  BY DEF NewItem, LegalItem, OwnershipAgrees
<1>3. NoItems \in Contents /\ Legal(NoItems)
  BY DEF NoItems, Contents, Legal
<1>4. ASSUME NEW k \in Keys
      PROVE  LET c == [NoItems EXCEPT ![k] = NewItem(0)] IN c \in Contents /\ Legal(c)
  BY <1>1, <1>2 DEF NoItems, Contents, Legal
<1> QED  BY <1>3, <1>4

LEMMA NoEntriesTyped ==
  \A r \in Runs : /\ NoEntries(r) \in Manifest /\ NoEntries(r).run = r
                  /\ \A a \in 1..NArtifacts : NoEntries(r).outputs[a] = Missing
BY DEF NoEntries, Manifest

LEMMA MeetsTyped ==
  ASSUME met \in [Runs -> SUBSET Procs], NEW p \in Procs, Meets(p)
  PROVE  met' \in [Runs -> SUBSET Procs]
BY DEF Meets

LEMMA SharedInit == Init => SharedInv
<1> SUFFICES ASSUME Init PROVE SharedInv
  OBVIOUS
<1>1. TypeOK
  <2>1. entries \in [Runs -> Manifest] /\ met \in [Runs -> SUBSET Procs]
    BY NoEntriesTyped DEF Init
  <2> QED  BY <2>1, FreshRecordsLegal, ArtifactsAreCounted DEF Init, TypeOK
<1>2. ~Readable(file)
  BY DEF Init, Readable
<1>3. \A p \in Procs : Legal(copy[p]) /\ pc[p] \notin RunOnly \cup {"opened"}
  BY FreshRecordsLegal DEF Init, RunOnly
<1> QED  BY <1>1, <1>2, <1>3 DEF SharedInv

\* A session's change of one record of its copy.
LEMMA ReviewFacts ==
  ASSUME SharedInv, NEW s \in Sessions, Review(s)
  PROVE  /\ pc[s] = "holding"
         /\ UNCHANGED <<exclusive, file, outputs, manifest, pc, step, entries, acked, met>>
         /\ \E c \in Contents : copy' = [copy EXCEPT ![s] = c] /\ Legal(c) /\ Continues(copy[s], c)
<1>1. /\ pc[s] = "holding"
      /\ UNCHANGED <<exclusive, file, outputs, manifest, pc, step, entries, acked, met>>
  BY DEF Review
<1>2. s \in Procs /\ copy \in [Procs -> Contents] /\ copy[s] \in Contents /\ Legal(copy[s])
  BY DEF SharedInv, TypeOK, Procs
<1>3. PICK k \in Keys : /\ copy[s][k] # Absent
                         /\ \E n \in Reviewed(copy[s][k]) : copy' = [copy EXCEPT ![s][k] = n]
  BY DEF Review
<1>3n. PICK new \in Reviewed(copy[s][k]) : copy' = [copy EXCEPT ![s][k] = new]
  BY <1>3
<1> DEFINE c == [copy[s] EXCEPT ![k] = new]
<1>4. copy[s][k] \in ValidationQueueItem /\ LegalItem(copy[s][k])
  BY <1>2, <1>3 DEF Contents, Legal
<1>5. /\ new \in ValidationQueueItem /\ LegalItem(new)
      /\ \E e \in QueueEvent : new.events = Append(copy[s][k].events, e)
  BY <1>3n, <1>4, ReviewedIsLegal
<1>6. c \in Contents /\ Legal(c)
  BY <1>2, <1>5 DEF Contents, Legal
<1>7. copy' = [copy EXCEPT ![s] = c]
  BY <1>2, <1>3n
<1>8. Continues(copy[s], c)
  <2> SUFFICES ASSUME NEW j \in Keys, copy[s][j] # Absent
               PROVE  c[j] # Absent /\ IsPrefix(copy[s][j].events, c[j].events)
    BY DEF Continues
  <2>1. copy[s][j].events \in Seq(QueueEvent)
    BY <1>2 DEF Contents, ValidationQueueItem
  <2>2. CASE j = k
    <3>1. c[j] = new /\ new # Absent
      BY <1>2, <1>5, <2>2, MarksAreApart DEF Contents
    <3>2. PICK e \in QueueEvent : new.events = Append(copy[s][k].events, e)
      BY <1>5
    <3>3. IsPrefix(copy[s][k].events, copy[s][k].events)
      BY <2>1, <2>2, PrefixReflexive
    <3>4. IsPrefix(copy[s][k].events, new.events)
      BY <2>1, <2>2, <3>2, <3>3, PrefixOfAppended
    <3> QED  BY <2>2, <3>1, <3>4
  <2>3. CASE j # k
    BY <1>2, <2>1, <2>3, PrefixReflexive DEF Contents
  <2> QED  BY <2>2, <2>3
<1> QED  BY <1>1, <1>6, <1>7, <1>8

LEMMA SharedStep == SharedInv /\ [Next]_vars => SharedInv'
<1> SUFFICES ASSUME SharedInv, [Next]_vars PROVE SharedInv'
  OBVIOUS
<1>0. /\ TypeOK /\ Runs \subseteq Procs /\ \A p \in Procs : copy[p] \in Contents /\ Legal(copy[p])
      /\ \A p \in Procs : pc[p] \in RunOnly =>
           p \in Runs /\ (pc[p] = "filling" => step[p] < NArtifacts)
  BY DEF SharedInv, TypeOK, Procs
<1>t. /\ Readable(file) => file \in Contents
      /\ file \in Contents => Readable(file)
  BY <1>0, MarksAreApart DEF TypeOK, Readable
<1>1. CASE UNCHANGED vars
  BY <1>1 DEF vars, SharedInv, TypeOK, Legal, Checked, Readable
<1>2. ASSUME NEW r \in Runs, CheckProgress(r) PROVE SharedInv'
  <2>1. UNCHANGED <<exclusive, file, outputs, manifest, step, copy, entries, acked>>
    BY <1>2 DEF CheckProgress
  <2>2. pc' = [pc EXCEPT ![r] = "checked"] \/ pc' = [pc EXCEPT ![r] = "end"]
    BY <1>2 DEF CheckProgress, Goto
  <2>3. met' \in [Runs -> SUBSET Procs]
    BY <1>0, <1>2, MeetsTyped DEF CheckProgress, TypeOK
  <2>4. TypeOK'
    BY <1>0, <2>1, <2>2, <2>3 DEF TypeOK
  <2>5. \A p \in Procs : \/ pc'[p] = pc[p]
                         \/ p = r /\ pc'[p] \in {"checked", "end"}
    BY <1>0, <2>2 DEF TypeOK
  <2> QED  BY <1>0, <2>1, <2>4, <2>5 DEF RunOnly, SharedInv, Legal, Checked, Readable
<1>3. ASSUME NEW r \in Runs, RunPipeline(r) PROVE SharedInv'
  <2>1. UNCHANGED <<exclusive, file, outputs, manifest, step, entries, acked, met>>
    BY <1>3 DEF RunPipeline
  <2>2. PICK c \in Contents : copy' = [copy EXCEPT ![r] = c] /\ Legal(c)
    BY <1>3, FreshRecordsLegal DEF RunPipeline
  <2>3. pc' = [pc EXCEPT ![r] = "writing"]
    BY <1>3 DEF RunPipeline, Goto
  <2>4. TypeOK'
    BY <1>0, <2>1, <2>2, <2>3 DEF TypeOK
  <2>5. \A p \in Procs : \/ pc'[p] = pc[p] /\ copy'[p] = copy[p]
                         \/ p = r /\ pc'[p] = "writing" /\ copy'[p] = c
    BY <1>0, <2>2, <2>3 DEF TypeOK
  <2> QED  BY <1>0, <2>1, <2>2, <2>4, <2>5 DEF RunOnly, SharedInv, Legal, Checked, Readable
<1>4. ASSUME NEW r \in Runs,
             \/ OpenArtifact(r) \/ WriteArtifact(r) \/ HashArtifact(r) \/ HashQueue(r)
             \/ OpenManifest(r) \/ WriteManifest(r)
      PROVE  SharedInv'
  <2>1. UNCHANGED <<exclusive, file, copy, acked, met>>
    BY <1>4 DEF OpenArtifact, WriteArtifact, HashArtifact, HashQueue, OpenManifest, WriteManifest
  <2>2. \/ pc' = [pc EXCEPT ![r] = "filling"] /\ step[r] < NArtifacts /\ step' = step
        \/ \E l \in {"writing", "hashing", "hashed", "recording", "end"} :
             pc' = [pc EXCEPT ![r] = l]
    <3>1. CASE HashArtifact(r)
      <4>1. pc' = [pc EXCEPT ![r] = "hashing"]
        BY <1>0, <3>1 DEF HashArtifact, TypeOK
      <4> QED  BY <4>1
    <3> QED  BY <1>4, <3>1 DEF OpenArtifact, WriteArtifact, HashQueue, OpenManifest,
                 WriteManifest, Goto
  <2>3. outputs' \in [1..NArtifacts -> Runs \cup {Missing, Empty, Torn}]
    BY <1>0, <1>4 DEF OpenArtifact, WriteArtifact, BytesWritten, HashArtifact, HashQueue,
       OpenManifest, WriteManifest, TypeOK
  <2>4. /\ step' \in [Runs -> 0..NArtifacts]
        /\ \A q \in Runs : q # r => step'[q] = step[q]
    <3>1. CASE WriteArtifact(r)
      <4>1. step[r] \in 0..NArtifacts /\ step[r] < NArtifacts
        BY <1>0, <3>1 DEF WriteArtifact, RunOnly, TypeOK
      <4>2. step[r] + 1 \in 0..NArtifacts
        BY <4>1, ArtifactsAreCounted
      <4> QED  BY <1>0, <3>1, <4>2 DEF WriteArtifact, TypeOK
    <3> QED  BY <1>0, <1>4, <3>1 DEF OpenArtifact, HashArtifact, HashQueue, OpenManifest,
                 WriteManifest, TypeOK
  <2>5. entries' \in [Runs -> Manifest]
    <3>1. CASE HashArtifact(r)
      <4>1. PICK a \in 1..NArtifacts : entries' = [entries EXCEPT ![r].outputs[a] = outputs[a]]
        BY <3>1 DEF HashArtifact
      <4>2. outputs[a] \in Runs \cup {Missing, Empty, Torn} /\ entries[r] \in Manifest
        BY <1>0, <4>1 DEF TypeOK
      <4>3. [entries[r] EXCEPT !.outputs[a] = outputs[a]] \in Manifest
        BY <4>2 DEF Manifest
      <4> QED  BY <1>0, <4>1, <4>3 DEF TypeOK
    <3>2. CASE HashQueue(r)
      <4>1. file \in Contents \cup {Missing, Empty, Torn} /\ entries[r] \in Manifest
        BY <1>0 DEF TypeOK
      <4>2. [entries[r] EXCEPT !.queue = file] \in Manifest
        BY <4>1 DEF Manifest
      <4> QED  BY <1>0, <3>2, <4>2 DEF HashQueue, TypeOK
    <3>3. CASE WriteManifest(r)
      BY <1>0, <3>3, NoEntriesTyped DEF WriteManifest, TypeOK
    <3> QED  BY <1>0, <1>4, <3>1, <3>2, <3>3 DEF OpenArtifact, WriteArtifact, OpenManifest, TypeOK
  <2>6. manifest' \in Manifest \cup {Missing, Empty, Torn}
    BY <1>0, <1>4 DEF OpenArtifact, WriteArtifact, BytesWritten, HashArtifact, HashQueue,
       OpenManifest, WriteManifest, TypeOK
  <2>7. pc' \in [Procs -> {"start", "checked", "writing", "filling", "holding", "opened",
                           "hashing", "hashed", "recording", "end", "crashed"}]
    BY <1>0, <2>2 DEF TypeOK
  <2>8. TypeOK'
    BY <1>0, <2>1, <2>3, <2>4, <2>5, <2>6, <2>7 DEF TypeOK
  <2>9. /\ \A p \in Procs : p # r => pc'[p] = pc[p] /\ (p \in Runs => step'[p] = step[p])
        /\ pc'[r] # "opened" /\ (pc'[r] = "filling" => step'[r] < NArtifacts)
    BY <1>0, <2>2, <2>4 DEF TypeOK
  <2> QED  BY <1>0, <2>1, <2>8, <2>9 DEF SharedInv, Legal, Checked, Readable
<1>6. ASSUME NEW s \in Sessions, Load(s) PROVE SharedInv'
  <2>1. /\ UNCHANGED <<exclusive, file, outputs, manifest, step, entries, acked>>
        /\ pc' = [pc EXCEPT ![s] = "holding"] /\ copy' = [copy EXCEPT ![s] = file]
        /\ file \in Contents /\ Legal(file)
    BY <1>6, <1>t DEF Load, Goto, SharedInv
  <2>2. met' \in [Runs -> SUBSET Procs]
    BY <1>0, <1>6, MeetsTyped DEF Load, TypeOK, Procs
  <2>3. TypeOK'
    BY <1>0, <2>1, <2>2 DEF TypeOK
  <2>4. \A p \in Procs : \/ pc'[p] = pc[p] /\ copy'[p] = copy[p]
                         \/ p = s /\ pc'[p] = "holding" /\ copy'[p] = file
    BY <1>0, <2>1 DEF TypeOK
  <2> QED  BY <1>0, <2>1, <2>3, <2>4 DEF RunOnly, SharedInv, Legal, Checked, Readable
<1>7. ASSUME NEW s \in Sessions, Review(s) PROVE SharedInv'
  <2>1. /\ pc[s] = "holding"
        /\ UNCHANGED <<exclusive, file, outputs, manifest, pc, step, entries, acked, met>>
    BY <1>7, ReviewFacts
  <2>2. PICK c \in Contents : copy' = [copy EXCEPT ![s] = c] /\ Legal(c)
    BY <1>7, ReviewFacts
  <2>3. TypeOK'
    BY <1>0, <2>1, <2>2 DEF TypeOK
  <2>4. \A p \in Procs : /\ pc[p] = "opened" => copy'[p] = copy[p]
                         /\ copy'[p] = copy[p] \/ copy'[p] = c
    BY <1>0, <2>1, <2>2 DEF TypeOK
  <2> QED  BY <1>0, <2>1, <2>2, <2>3, <2>4 DEF SharedInv, Legal, Checked, Readable
<1>8. ASSUME NEW p \in Procs, OpenQueue(p) PROVE SharedInv'
  <2>1. /\ UNCHANGED <<exclusive, outputs, manifest, step, copy, entries, acked, met>>
        /\ pc' = [pc EXCEPT ![p] = "opened"] /\ file' = Empty /\ Checked(copy[p])
    BY <1>8 DEF OpenQueue, Goto, Checked
  <2>2. TypeOK'
    BY <1>0, <2>1 DEF TypeOK
  <2>3. ~Readable(file')
    BY <2>1 DEF Readable
  <2>4. \A q \in Procs : pc'[q] = pc[q] \/ (q = p /\ pc'[q] = "opened")
    BY <1>0, <2>1 DEF TypeOK
  <2> QED  BY <1>0, <2>1, <2>2, <2>3, <2>4 DEF RunOnly, SharedInv, Legal, Checked, Readable
<1>9. ASSUME NEW p \in Procs, WriteQueue(p) PROVE SharedInv'
  <2>1. /\ UNCHANGED <<exclusive, outputs, manifest, step, entries, met>>
        /\ pc[p] = "opened" /\ file' \in {copy[p], Torn}
        /\ acked' \subseteq acked \cup Histories(copy[p])
        /\ \/ p \in Runs /\ pc' = [pc EXCEPT ![p] = "hashing"]
           \/ pc' = [pc EXCEPT ![p] = "end"]
        /\ copy' = copy \/ copy' = [copy EXCEPT ![p] = NoItems]
    BY <1>9 DEF WriteQueue, Goto, BytesWritten
  <2>2. \A a \in Histories(copy[p]) : a[1] \in Keys /\ a[2] \in Seq(QueueEvent)
    BY <1>0 DEF Histories, Contents, ValidationQueueItem
  <2>3. /\ copy' \in [Procs -> Contents]
        /\ \A q \in Procs : Legal(copy'[q]) /\ (q # p => copy'[q] = copy[q])
    BY <1>0, <2>1, FreshRecordsLegal DEF TypeOK
  <2>4. TypeOK'
    <3>1. pc' \in [Procs -> {"start", "checked", "writing", "filling", "holding", "opened",
                             "hashing", "hashed", "recording", "end", "crashed"}]
      BY <1>0, <2>1 DEF TypeOK
    <3>2. file' \in Contents \cup {Missing, Empty, Torn}
      BY <1>0, <2>1
    <3>3. \A a \in acked' : a[1] \in Keys /\ a[2] \in Seq(QueueEvent)
      BY <1>0, <2>1, <2>2 DEF TypeOK
    <3> QED  BY <1>0, <2>1, <2>3, <3>1, <3>2, <3>3 DEF TypeOK
  <2>5. \A q \in Procs : \/ pc'[q] = pc[q] /\ q # p
                         \/ q = p /\ pc'[q] = "end"
                         \/ q = p /\ q \in Runs /\ pc'[q] = "hashing"
    <3>1. /\ pc' = [pc EXCEPT ![p] = "end"] \/ pc' = [pc EXCEPT ![p] = "hashing"]
          /\ p \in Runs \/ pc' = [pc EXCEPT ![p] = "end"]
      BY <2>1
    <3>2. pc \in [Procs -> {"start", "checked", "writing", "filling", "holding", "opened",
                            "hashing", "hashed", "recording", "end", "crashed"}]
      BY <1>0 DEF TypeOK
    <3> QED  BY <3>1, <3>2
  <2>6. Readable(file') => file' = copy[p] /\ Checked(copy[p]) /\ Legal(copy[p])
    BY <2>1 DEF Readable, SharedInv
  <2> QED  BY <1>0, <2>1, <2>3, <2>4, <2>5, <2>6
           DEF RunOnly, SharedInv, Legal, Checked, Readable
<1>10. ASSUME NEW p \in Procs, Crash(p) PROVE SharedInv'
  <2>1. /\ UNCHANGED <<exclusive, acked, met>>
        /\ pc' = [pc EXCEPT ![p] = "crashed"] /\ file' \in {file, Torn}
        /\ manifest' \in {manifest, Torn} /\ copy' = [copy EXCEPT ![p] = NoItems]
    BY <1>10 DEF Crash, Goto
  <2>2. outputs' \in [1..NArtifacts -> Runs \cup {Missing, Empty, Torn}]
    BY <1>0, <1>10 DEF Crash, TypeOK
  <2>3. step' \in [Runs -> 0..NArtifacts] /\ \A r \in Runs : r # p => step'[r] = step[r]
    BY <1>0, <1>10, ArtifactsAreCounted DEF Crash, TypeOK
  <2>4. entries' \in [Runs -> Manifest]
    BY <1>0, <1>10, NoEntriesTyped DEF Crash, TypeOK
  <2>5. /\ copy' \in [Procs -> Contents]
        /\ \A q \in Procs : Legal(copy'[q]) /\ (q # p => copy'[q] = copy[q])
    BY <1>0, <2>1, FreshRecordsLegal DEF TypeOK
  <2>6. TypeOK'
    BY <1>0, <2>1, <2>2, <2>3, <2>4, <2>5 DEF TypeOK
  <2>7. \A q \in Procs : (pc'[q] = pc[q] /\ q # p) \/ (q = p /\ pc'[q] = "crashed")
    BY <1>0, <2>1 DEF TypeOK
  <2>8. Readable(file') => file' = file
    BY <2>1 DEF Readable
  <2> QED  BY <1>0, <2>1, <2>3, <2>5, <2>6, <2>7, <2>8
           DEF RunOnly, SharedInv, Legal, Checked, Readable
<1> QED  BY <1>1, <1>2, <1>3, <1>4, <1>6, <1>7, <1>8, <1>9, <1>10 DEF Next, Run, Session

LEMMA SharedAlways == Spec => []SharedInv
BY SharedInit, SharedStep, PTL DEF Spec

(***************************************************************************)
(* PublishedRecordsLegal: runs and sessions may interleave, overwrite each *)
(* other and die, and a queue file that can be read still holds only       *)
(* records the decoder accepts, each claimed first.                        *)
(***************************************************************************)
THEOREM PublishedLegal == Spec => []PublishedRecordsLegal
<1>1. SharedInv => PublishedRecordsLegal
  BY DEF SharedInv, PublishedRecordsLegal, Legal, LegalItem, Checked
<1> QED  BY <1>1, SharedAlways, PTL

-----------------------------------------------------------------------------
(***************************************************************************)
(* Any interleaving: a manifest is of one run and of those that it met.    *)
(***************************************************************************)
Steps(p) ==
  \/ p \in Runs /\ Run(p)
  \/ p \in Sessions /\ Session(p)
  \/ OpenQueue(p) \/ WriteQueue(p) \/ Crash(p)

\* The files are changed by processes under way, each artifact by a run.
Touches(p) ==
  /\ \A q \in Procs : q # p => pc'[q] = pc[q] /\ copy'[q] = copy[q]
  /\ \A r \in Runs : r # p => step'[r] = step[r] /\ entries'[r] = entries[r]
  /\ exclusive' = exclusive
  /\ \/ ~Idle(p) /\ met' = met
     \/ /\ MayStart(p) /\ UNCHANGED <<file, outputs, manifest>>
        /\ Meets(p) \/ (pc'[p] = "end" /\ met' = met)
  /\ \/ outputs' = outputs
     \/ p \in Runs /\ \E a \in 1..NArtifacts, b \in {p, Empty, Torn} :
                        outputs' = [outputs EXCEPT ![a] = b]
  /\ \/ Readable(manifest') => manifest' = manifest
     \/ p \in Runs /\ WriteManifest(p)

LEMMA StepTouches ==
  ASSUME SharedInv, NEW p \in Procs, Steps(p)
  PROVE  Touches(p)
<1>1. /\ TypeOK /\ Sessions \cap Runs = {} /\ Runs \subseteq Procs
      /\ pc[p] = "filling" => p \in Runs /\ step[p] + 1 \in 1..NArtifacts
  BY ProcessesAreApart, ArtifactsAreCounted DEF SharedInv, RunOnly, TypeOK, Procs
<1>2. ASSUME p \in Runs, CheckProgress(p) PROVE Touches(p)
  BY <1>1, <1>2 DEF CheckProgress, Goto, Touches, TypeOK
<1>3. ASSUME p \in Sessions, Load(p) PROVE Touches(p)
  BY <1>1, <1>3 DEF Load, Goto, Touches, TypeOK
<1>4. ASSUME p \in Runs, RunPipeline(p) PROVE Touches(p)
  BY <1>1, <1>4 DEF RunPipeline, Goto, Idle, Touches, TypeOK
<1>5. ASSUME p \in Sessions, Review(p) PROVE Touches(p)
  <2>1. PICK c \in Contents : copy' = [copy EXCEPT ![p] = c]
    BY <1>5, ReviewFacts
  <2> QED  BY <1>1, <1>5, <2>1 DEF Review, Idle, Touches, TypeOK
<1>6. ASSUME p \in Runs, OpenArtifact(p) PROVE Touches(p)
  <2>1. step[p] + 1 \in 1..NArtifacts
    BY <1>1, <1>6, ArtifactsAreCounted DEF OpenArtifact, TypeOK
  <2> QED  BY <1>1, <1>6, <2>1 DEF OpenArtifact, Goto, Idle, Touches, TypeOK
<1>7. ASSUME p \in Runs, WriteArtifact(p) PROVE Touches(p)
  BY <1>1, <1>7 DEF WriteArtifact, BytesWritten, Goto, Idle, Touches, TypeOK
<1>8. ASSUME p \in Runs, HashArtifact(p) \/ HashQueue(p) PROVE Touches(p)
  BY <1>1, <1>8 DEF HashArtifact, HashQueue, Goto, Idle, Touches, TypeOK
<1>9. ASSUME p \in Runs, OpenManifest(p) PROVE Touches(p)
  BY <1>1, <1>9 DEF OpenManifest, Goto, Idle, Touches, TypeOK, Readable
<1>10. ASSUME p \in Runs, WriteManifest(p) PROVE Touches(p)
  BY <1>1, <1>10 DEF WriteManifest, Goto, Idle, Touches, TypeOK
<1>11. ASSUME OpenQueue(p) PROVE Touches(p)
  BY <1>1, <1>11 DEF OpenQueue, ReadyToSave, Goto, Idle, Touches, TypeOK
<1>12. ASSUME WriteQueue(p) PROVE Touches(p)
  BY <1>1, <1>12 DEF WriteQueue, Goto, Idle, Touches, TypeOK
<1>13. ASSUME Crash(p) PROVE Touches(p)
  <2>1. outputs' = outputs \/ (p \in Runs /\ outputs' = [outputs EXCEPT ![step[p] + 1] = Torn])
    BY <1>1, <1>13 DEF Crash
  <2> QED  BY <1>1, <1>13, <2>1 DEF Crash, Goto, Idle, Touches, TypeOK, Readable
<1> QED  BY <1>2, <1>3, <1>4, <1>5, <1>6, <1>7, <1>8, <1>9, <1>10, <1>11, <1>12, <1>13
         DEF Steps, Run, Session

\* What MetInv asks of everyone but the process that takes the step.
LEMMA OthersMet ==
  ASSUME SharedInv, MetInv, NEW p \in Procs, Steps(p)
  PROVE  /\ Touches(p) /\ HaveMet'
         /\ \A r \in Runs : r # p => (Counted(r) /\ (~Idle(r) => Found(r)))'
         /\ ~WriteManifest(p) \/ p \notin Runs => Recorded'
<1>1. /\ Touches(p) /\ TypeOK /\ HaveMet /\ Runs \subseteq Procs
      /\ \A r \in Runs : met[r] \subseteq Procs
  BY StepTouches DEF SharedInv, MetInv, TypeOK, Procs
<1>2. HaveMet' /\ \A r \in Runs : r # p => /\ met[r] \subseteq met'[r]
                                           /\ met'[r] = met[r] \/ ~Idle(r)
  <2>1. CASE ~Idle(p) /\ met' = met
    BY <1>1, <2>1 DEF HaveMet, Touches, Idle
  <2>2. CASE pc'[p] = "end" /\ met' = met
    BY <1>1, <2>2 DEF HaveMet, Touches, Idle
  <2>3. CASE MayStart(p) /\ Meets(p)
    <3> DEFINE there == {q \in Procs : ~Idle(q)}
    <3>1. \A r \in Runs : met'[r] = IF r = p THEN there
                                    ELSE IF r \in there THEN met[r] \cup {p} ELSE met[r]
      BY <2>3 DEF Meets
    <3>2. exclusive => there = {}
      BY <2>3 DEF MayStart
    <3>3. \A r \in Runs : r # p => met[r] \subseteq met'[r] /\ (met'[r] = met[r] \/ ~Idle(r))
      BY <1>1, <3>1
    <3>4. ASSUME NEW r \in Runs, NEW q \in Procs, q # r, ~Idle(r)', ~Idle(q)'
          PROVE  q \in met'[r]
      <4>1. CASE r = p
        BY <1>1, <3>1, <3>4, <4>1 DEF Touches, Idle
      <4>2. CASE r # p /\ q = p
        BY <1>1, <3>1, <3>4, <4>2 DEF Touches, Idle
      <4>3. CASE r # p /\ q # p
        BY <1>1, <3>3, <3>4, <4>3 DEF Touches, Idle, HaveMet
      <4> QED  BY <4>1, <4>2, <4>3
    <3>5. exclusive' => \A r \in Runs : met'[r] = {}
      BY <1>1, <3>1, <3>2 DEF Touches, HaveMet
    <3> QED  BY <3>3, <3>4, <3>5 DEF HaveMet
  <2> QED  BY <1>1, <2>1, <2>2, <2>3 DEF Touches
<1>3. ASSUME NEW r \in Runs, r # p
      PROVE  (Counted(r) /\ (~Idle(r) => Found(r)))'
  <2>1. /\ pc'[r] = pc[r] /\ step'[r] = step[r] /\ entries'[r] = entries[r] /\ copy'[r] = copy[r]
        /\ met[r] \subseteq met'[r]
    BY <1>1, <1>2, <1>3 DEF Touches
  <2>2. MayFind(r) \subseteq MayFind(r)'
    BY <2>1 DEF MayFind
  <2>3. Counted(r)'
    BY <2>1 DEF MetInv, Counted
  <2>4. ASSUME ~Idle(r)' PROVE Found(r)'
    <3>1. ~Idle(r) /\ Found(r)
      BY <2>1, <2>4 DEF Idle, MetInv
    <3>2. ~Idle(p) => p \in met[r]
      BY <1>1, <1>3, <3>1 DEF HaveMet
    <3>3. \/ outputs' = outputs
          \/ p \in Runs /\ p \in met[r] /\ \E a \in 1..NArtifacts, b \in {p, Empty, Torn} :
                                             outputs' = [outputs EXCEPT ![a] = b]
      BY <1>1, <3>2 DEF Touches
    <3>4. \A a \in 1..NArtifacts : \/ outputs'[a] = outputs[a]
                                   \/ outputs'[a] \in MayFind(r) /\ met[r] \cap Runs # {}
      BY <1>1, <3>3 DEF MayFind, TypeOK
    <3>5. step[r] \in 0..NArtifacts /\ (pc[r] = "filling" => step[r] < NArtifacts)
      BY <1>1 DEF SharedInv, RunOnly, TypeOK
    <3>6. \A a \in 1..step'[r] : outputs'[a] \in MayFind(r)'
      BY <2>1, <2>2, <3>1, <3>4, <3>5, ArtifactsAreCounted DEF Found
    <3>7. pc'[r] = "filling" /\ outputs'[step'[r] + 1] # Empty => met'[r] \cap Runs # {}
      <4> SUFFICES ASSUME pc[r] = "filling", outputs'[step[r] + 1] # Empty
                   PROVE  met'[r] \cap Runs # {}
        BY <2>1
      <4>1. step[r] + 1 \in 1..NArtifacts
        BY <3>5, ArtifactsAreCounted
      <4> QED  BY <2>1, <3>1, <3>4, <4>1 DEF Found
    <3>8. /\ \A a \in 1..NArtifacts : entries'[r].outputs[a] \in {Missing} \cup MayFind(r)'
          /\ pc'[r] \in {"hashed", "recording"} =>
               \A a \in 1..NArtifacts : entries'[r].outputs[a] # Missing
      BY <2>1, <2>2, <3>1 DEF Found
    <3>9. met'[r] = {} => file' = file /\ met[r] = {}
      BY <1>1, <2>1, <3>2 DEF Touches
    <3> QED  BY <2>1, <3>1, <3>6, <3>7, <3>8, <3>9 DEF Found
  <2> QED  BY <2>3, <2>4
<1>4. ASSUME ~WriteManifest(p) \/ p \notin Runs PROVE Recorded'
  <2> SUFFICES ASSUME Readable(manifest') PROVE Recorded'
    BY DEF Recorded
  <2>1. manifest' = manifest /\ Readable(manifest) /\ Recorded
    BY <1>1, <1>4 DEF Touches, MetInv
  <2>2. manifest.run \in Runs
    BY <1>1, <2>1 DEF TypeOK, Manifest, Readable
  <2>3. pc[manifest.run] = "end" /\ Idle(manifest.run)
    BY <2>1 DEF Recorded, Idle
  <2>4. manifest.run # p
    BY <1>1, <2>3 DEF Touches, MayStart
  <2>5. /\ pc'[manifest.run] = "end" /\ copy'[manifest.run] = copy[manifest.run]
        /\ met'[manifest.run] = met[manifest.run]
    BY <1>1, <1>2, <2>2, <2>3, <2>4 DEF Touches
  <2>6. MayFind(manifest.run)' = MayFind(manifest.run)
    BY <2>1, <2>5 DEF MayFind
  <2> QED  BY <2>1, <2>5, <2>6 DEF Recorded
<1> QED  BY <1>1, <1>2, <1>3, <1>4

LEMMA NothingFoundYet ==
  ASSUME TypeOK, NEW r \in Runs, Counted(r),
         pc[r] \in {"start", "checked", "writing", "filling", "opened"}
  PROVE  \A a \in 1..NArtifacts : entries[r].outputs[a] = Missing
BY NoEntriesTyped DEF Counted

\* What MetInv asks of the run that takes the step, and of its manifest.
LEMMA RunMet ==
  ASSUME SharedInv, MetInv, NEW r \in Runs, Steps(r)
  PROVE  (Counted(r) /\ (~Idle(r) => Found(r)))' /\ (WriteManifest(r) => Recorded')
<1>1. /\ TypeOK /\ r \in Procs /\ r \notin Sessions /\ Counted(r) /\ (~Idle(r) => Found(r))
      /\ step[r] \in 0..NArtifacts /\ (pc[r] = "filling" => step[r] < NArtifacts)
      /\ r \in MayFind(r) /\ entries[r] \in Manifest
  BY ProcessesAreApart DEF SharedInv, RunOnly, MetInv, TypeOK, Procs, MayFind
<1>2. CASE CheckProgress(r)
  <2>1. /\ pc[r] = "start" /\ pc'[r] \in {"checked", "end"} /\ step'[r] = 0
        /\ entries' = entries /\ entries[r] = NoEntries(r)
    BY <1>1, <1>2 DEF CheckProgress, MayStart, Goto, TypeOK, Counted
  <2>2. ~WriteManifest(r)
    BY <2>1 DEF WriteManifest
  <2> QED  BY <1>1, <2>1, <2>2, NoEntriesTyped DEF Counted, Found, Idle
<1>3. CASE RunPipeline(r)
  <2>1. /\ pc[r] = "checked" /\ pc'[r] = "writing" /\ step'[r] = 0
        /\ entries' = entries /\ entries[r] = NoEntries(r)
    BY <1>1, <1>3 DEF RunPipeline, Goto, TypeOK, Counted
  <2>2. ~WriteManifest(r)
    BY <2>1 DEF WriteManifest
  <2> QED  BY <1>1, <2>1, <2>2, NoEntriesTyped DEF Counted, Found, Idle
<1>4. CASE OpenArtifact(r)
  <2>1. /\ pc[r] = "writing" /\ pc'[r] = "filling" /\ step'[r] = step[r] /\ step[r] < NArtifacts
        /\ UNCHANGED <<entries, met>> /\ entries[r] = NoEntries(r) /\ Found(r)
        /\ outputs' = [outputs EXCEPT ![step[r] + 1] = Empty]
    BY <1>1, <1>4 DEF OpenArtifact, Goto, TypeOK, Counted, Idle
  <2>2. /\ outputs'[step[r] + 1] = Empty
        /\ \A a \in 1..step[r] : outputs'[a] = outputs[a]
    BY <1>1, <2>1, ArtifactsAreCounted DEF TypeOK
  <2>3. ~WriteManifest(r) /\ MayFind(r)' = MayFind(r)
    BY <2>1 DEF WriteManifest, MayFind
  <2> QED  BY <1>1, <2>1, <2>2, <2>3, NoEntriesTyped DEF Counted, Found, Idle
<1>5. CASE WriteArtifact(r)
  <2>1. /\ pc[r] = "filling" /\ pc'[r] = "writing" /\ step'[r] = step[r] + 1
        /\ UNCHANGED <<entries, met>> /\ entries[r] = NoEntries(r) /\ Found(r)
    BY <1>1, <1>5 DEF WriteArtifact, Goto, TypeOK, Counted, Idle
  <2>2. PICK b \in BytesWritten(outputs[step[r] + 1], r) :
               outputs' = [outputs EXCEPT ![step[r] + 1] = b]
    BY <1>5 DEF WriteArtifact
  <2>3. b \in MayFind(r)
    BY <1>1, <2>1, <2>2 DEF BytesWritten, MayFind, Found
  <2>4. \A a \in 1..(step[r] + 1) : outputs'[a] \in MayFind(r)
    <3>1. outputs'[step[r] + 1] = b /\ \A a \in 1..step[r] : outputs'[a] = outputs[a]
      BY <1>1, <2>1, <2>2, ArtifactsAreCounted DEF TypeOK
    <3>2. \A a \in 1..(step[r] + 1) : a \in 1..step[r] \/ a = step[r] + 1
      BY <1>1, ArtifactsAreCounted
    <3> QED  BY <2>1, <2>3, <3>1, <3>2 DEF Found
  <2>5. ~WriteManifest(r) /\ MayFind(r)' = MayFind(r)
    BY <2>1 DEF WriteManifest, MayFind
  <2> QED  BY <2>1, <2>4, <2>5, NoEntriesTyped DEF Counted, Found, Idle
<1>6. CASE OpenQueue(r)
  <2>1. /\ pc[r] = "writing" /\ pc'[r] = "opened" /\ step'[r] = NArtifacts /\ step[r] = NArtifacts
        /\ UNCHANGED <<outputs, entries, met>> /\ entries[r] = NoEntries(r) /\ Found(r)
        /\ file' = Empty
    BY <1>1, <1>6 DEF OpenQueue, ReadyToSave, Goto, TypeOK, Counted, Idle
  <2>2. ~WriteManifest(r) /\ MayFind(r)' = MayFind(r)
    BY <2>1 DEF WriteManifest, MayFind
  <2> QED  BY <2>1, <2>2, NoEntriesTyped DEF Counted, Found, Idle
<1>7. CASE WriteQueue(r)
  <2>1. /\ pc[r] = "opened" /\ pc'[r] = "hashing" /\ step'[r] = NArtifacts /\ step[r] = NArtifacts
        /\ UNCHANGED <<outputs, entries, met, copy>> /\ entries[r] = NoEntries(r) /\ Found(r)
        /\ file' \in BytesWritten(file, copy[r])
    BY <1>1, <1>7 DEF WriteQueue, Goto, TypeOK, Counted, Idle
  <2>2. met'[r] = {} => file' = copy'[r]
    BY <2>1 DEF BytesWritten, Found
  <2>3. ~WriteManifest(r) /\ MayFind(r)' = MayFind(r)
    BY <2>1 DEF WriteManifest, MayFind
  <2>4. entries'[r].run = r /\ \A a \in 1..NArtifacts : entries'[r].outputs[a] = Missing
    BY <2>1, NoEntriesTyped
  <2> QED  BY <2>1, <2>2, <2>3, <2>4 DEF Counted, Found, Idle
<1>8. CASE HashArtifact(r)
  <2>1. /\ pc[r] = "hashing" /\ pc'[r] = "hashing" /\ step'[r] = NArtifacts /\ step[r] = NArtifacts
        /\ UNCHANGED <<file, outputs, met, copy>> /\ Found(r)
    BY <1>1, <1>8 DEF HashArtifact, Counted, Idle
  <2>2. PICK a \in 1..NArtifacts : entries' = [entries EXCEPT ![r].outputs[a] = outputs[a]]
    BY <1>8 DEF HashArtifact
  <2>3. entries'[r].run = r /\ \A b \in 1..NArtifacts :
          entries'[r].outputs[b] = IF b = a THEN outputs[a] ELSE entries[r].outputs[b]
    BY <1>1, <2>2 DEF TypeOK, Manifest, Counted
  <2>4. ~WriteManifest(r) /\ MayFind(r)' = MayFind(r)
    BY <2>1 DEF WriteManifest, MayFind
  <2>5. \A b \in 1..NArtifacts : outputs[b] \in MayFind(r)
    BY <2>1 DEF Found
  <2> QED  BY <2>1, <2>3, <2>4, <2>5 DEF Counted, Found, Idle
<1>9. CASE HashQueue(r)
  <2>1. /\ pc[r] = "hashing" /\ pc'[r] = "hashed" /\ step'[r] = NArtifacts /\ step[r] = NArtifacts
        /\ UNCHANGED <<outputs, met, copy>> /\ Found(r)
        /\ \A a \in 1..NArtifacts : entries[r].outputs[a] # Missing
        /\ entries' = [entries EXCEPT ![r].queue = file]
        /\ met[r] = {} => file = copy[r]
    BY <1>1, <1>9 DEF HashQueue, Goto, TypeOK, Idle, Counted, Found
  <2>2. /\ entries'[r].run = r /\ entries'[r].queue = file
        /\ entries'[r].outputs = entries[r].outputs
    BY <1>1, <2>1 DEF TypeOK, Manifest, Counted
  <2>3. ~WriteManifest(r) /\ MayFind(r)' = MayFind(r)
    BY <2>1 DEF WriteManifest, MayFind
  <2>4. Counted(r)'
    BY <2>1, <2>2 DEF Counted
  <2>5. Found(r)'
    BY <2>1, <2>2, <2>3 DEF Found
  <2> QED  BY <2>3, <2>4, <2>5
<1>10. CASE OpenManifest(r)
  <2>1. /\ pc[r] = "hashed" /\ pc'[r] = "recording" /\ Found(r)
        /\ UNCHANGED <<file, outputs, step, met, copy, entries>>
    BY <1>1, <1>10 DEF OpenManifest, Goto, TypeOK, Idle
  <2>2. ~WriteManifest(r) /\ MayFind(r)' = MayFind(r)
    BY <2>1 DEF WriteManifest, MayFind
  <2> QED  BY <1>1, <2>1, <2>2 DEF Counted, Found, Idle
<1>11. CASE WriteManifest(r)
  <2>1. /\ pc[r] = "recording" /\ pc'[r] = "end" /\ Found(r)
        /\ UNCHANGED <<step, met, copy>> /\ entries'[r] = NoEntries(r)
        /\ manifest' \in {entries[r], Torn}
    BY <1>1, <1>11 DEF WriteManifest, BytesWritten, Goto, TypeOK, Idle
  <2>2. MayFind(r)' = MayFind(r) /\ entries[r].run = r
    BY <1>1, <2>1 DEF MayFind, Counted
  <2>3. Recorded'
    <3> SUFFICES ASSUME Readable(manifest') PROVE Recorded'
      BY DEF Recorded
    <3>1. manifest' = entries[r] /\ manifest'.run = r
      BY <2>1, <2>2 DEF Readable
    <3>2. \A a \in 1..NArtifacts : entries[r].outputs[a] \in MayFind(r)
      BY <2>1 DEF Found
    <3>3. met[r] = {} => entries[r].queue = copy[r]
      BY <2>1 DEF Found
    <3> QED  BY <2>1, <2>2, <3>1, <3>2, <3>3 DEF Recorded
  <2> QED  BY <2>1, <2>3, NoEntriesTyped DEF Counted, Idle
<1>12. CASE Crash(r)
  <2>1. pc'[r] = "crashed" /\ entries'[r] = NoEntries(r) /\ ~Idle(r)
    BY <1>1, <1>12 DEF Crash, Goto, TypeOK
  <2>2. CASE WriteManifest(r)
    BY <1>11, <2>2
  <2> QED  BY <2>1, <2>2, NoEntriesTyped DEF Counted, Idle
<1> QED  BY <1>1, <1>2, <1>3, <1>4, <1>5, <1>6, <1>7, <1>8, <1>9, <1>10, <1>11, <1>12
         DEF Steps, Run

LEMMA NextIsSteps == Next => \E p \in Procs : Steps(p)
BY DEF Next, Procs, Steps

LEMMA MetInit == Init => MetInv
<1> SUFFICES ASSUME Init PROVE MetInv
  OBVIOUS
<1>1. /\ \A p \in Procs : pc[p] = "start"
      /\ ~Readable(manifest) /\ Runs \subseteq Procs
      /\ \A r \in Runs : step[r] = 0 /\ entries[r] = NoEntries(r) /\ met[r] = {}
  BY DEF Init, Readable, Procs
<1> QED  BY <1>1, NoEntriesTyped DEF MetInv, HaveMet, Recorded, Counted, Idle

LEMMA MetStep == SharedInv /\ MetInv /\ [Next]_vars => MetInv'
<1> SUFFICES ASSUME SharedInv, MetInv, [Next]_vars PROVE MetInv'
  OBVIOUS
<1>1. CASE UNCHANGED vars
  BY <1>1 DEF vars, MetInv, HaveMet, Recorded, Counted, Found, Idle, MayFind, Readable
<1>2. ASSUME NEW p \in Procs, Steps(p) PROVE MetInv'
  BY <1>2, OthersMet, RunMet DEF MetInv
<1> QED  BY <1>1, <1>2, NextIsSteps

-----------------------------------------------------------------------------
(***************************************************************************)
(* One process at a time.                                                  *)
(***************************************************************************)
LEMMA ContinuesFacts ==
  ASSUME NEW b \in Contents, NEW c \in Contents, NEW d \in Contents
  PROVE  /\ Continues(c, c)
         /\ Continues(b, c) /\ Continues(c, d) => Continues(b, d)
<1>1. \A x \in Contents : \A k \in Keys : x[k] # Absent => x[k].events \in Seq(QueueEvent)
  BY DEF Contents, ValidationQueueItem
<1>2. Continues(c, c)
  BY <1>1, PrefixReflexive DEF Continues
<1>3. ASSUME Continues(b, c), Continues(c, d), NEW k \in Keys, b[k] # Absent
      PROVE  d[k] # Absent /\ IsPrefix(b[k].events, d[k].events)
  <2>1. /\ c[k] # Absent /\ IsPrefix(b[k].events, c[k].events)
        /\ d[k] # Absent /\ IsPrefix(c[k].events, d[k].events)
    BY <1>3 DEF Continues
  <2> QED  BY <1>1, <1>3, <2>1, PrefixTransitive
<1> QED  BY <1>2, <1>3 DEF Continues

LEMMA KeepsFacts ==
  ASSUME TypeOK, NEW c \in Contents, NEW d \in Contents, Keeps(c), Continues(c, d)
  PROVE  Keeps(d)
<1> SUFFICES ASSUME NEW a \in acked PROVE d[a[1]] # Absent /\ IsPrefix(a[2], d[a[1]].events)
  BY DEF Keeps
<1>1. a[1] \in Keys /\ a[2] \in Seq(QueueEvent)
  BY DEF TypeOK
<1>2. /\ c[a[1]] # Absent /\ IsPrefix(a[2], c[a[1]].events)
      /\ d[a[1]] # Absent /\ IsPrefix(c[a[1]].events, d[a[1]].events)
  BY <1>1 DEF Keeps, Continues
<1>3. c[a[1]].events \in Seq(QueueEvent) /\ d[a[1]].events \in Seq(QueueEvent)
  BY <1>1, <1>2 DEF Contents, ValidationQueueItem
<1> QED  BY <1>1, <1>2, <1>3, PrefixTransitive

\* A queue without progress keeps nothing, so nothing was saved.
LEMMA NoProgressNothingSaved ==
  ASSUME TypeOK, NEW c \in Contents, Keeps(c), ~HasProgress(c), \A a \in acked : a[2] # <<>>
  PROVE  acked = {} /\ Histories(c) = {}
<1>1. ASSUME NEW a \in acked PROVE FALSE
  <2>1. a[1] \in Keys /\ a[2] \in Seq(QueueEvent) /\ a[2] # <<>>
    BY DEF TypeOK
  <2>2. c[a[1]].events = <<>> /\ IsPrefix(a[2], c[a[1]].events)
    BY <2>1 DEF Keeps, HasProgress
  <2>3. Len(a[2]) <= 0 /\ Len(a[2]) \in Nat
    BY <2>1, <2>2 DEF IsPrefix
  <2> QED  BY <2>1, <2>3
<1> QED  BY <1>1 DEF HasProgress, Histories

\* The step of p leaves every other process where it is, idle.
Alone(p) == \A q \in Procs : q # p => Idle(q) /\ pc'[q] = pc[q]

LEMMA StepIsAlone ==
  ASSUME SharedInv, OneAtATime, exclusive, NEW p \in Procs, Steps(p)
  PROVE  Alone(p) /\ OneAtATime'
<1>1. \A q \in Procs : q # p => Idle(q)
  <2>1. CASE MayStart(p)
    BY <2>1 DEF MayStart
  <2>2. CASE ~MayStart(p)
    <3>1. ~Idle(p)
      BY <2>2, StepTouches DEF Touches
    <3> QED  BY <3>1 DEF OneAtATime
  <2> QED  BY <2>1, <2>2
<1>2. \A q \in Procs : q # p => pc'[q] = pc[q]
  BY StepTouches DEF Touches
<1> QED  BY <1>1, <1>2 DEF Alone, OneAtATime, Idle

\* What SerialInv asks of the processes that do not take the step.
LEMMA OthersKeep ==
  ASSUME SharedInv, exclusive, SerialInv, NEW p \in Procs, Alone(p)
  PROVE  /\ \A q \in Procs : q # p => OnDisk(q)'
         /\ \A q \in Procs : q # p => pc'[q] \in {"start", "end", "crashed"}
BY DEF Alone, Idle, OnDisk, SerialInv, Procs

LEMMA Together ==
  ASSUME SharedInv, exclusive, SerialInv, NEW p \in Procs, Steps(p),
         OnDisk(p)', SavedInv', ManifestInv'
  PROVE  SerialInv'
<1>1. Alone(p) /\ OneAtATime'
  BY StepIsAlone DEF SerialInv
<1> QED  BY <1>1, OthersKeep DEF SerialInv

\* What a proof about one step starts from.
LEMMA StepFacts ==
  ASSUME SharedInv, exclusive, SerialInv, NEW p \in Procs, Steps(p)
  PROVE  /\ TypeOK /\ SavedInv /\ ManifestInv /\ OnDisk(p)
         /\ copy[p] \in Contents
         /\ \A q \in Procs : q # p => /\ pc'[q] = pc[q] /\ pc'[q] \in {"start", "end", "crashed"}
<1>1. Alone(p)
  BY StepIsAlone DEF SerialInv
<1> QED  BY <1>1 DEF SharedInv, SerialInv, TypeOK, Alone, Idle

LEMMA CheckProgressKeeps ==
  ASSUME SharedInv, exclusive, SerialInv, NEW r \in Runs, CheckProgress(r)
  PROVE  SerialInv'
<1>0. r \in Procs /\ Steps(r) /\ Sessions \cap Runs = {}
  BY ProcessesAreApart DEF Procs, Steps, Run
<1>1. /\ TypeOK /\ SavedInv /\ ManifestInv
      /\ \A q \in Procs : q # r => /\ pc'[q] = pc[q] /\ pc'[q] \in {"start", "end", "crashed"}
  BY <1>0, StepFacts
<1>2. /\ UNCHANGED <<exclusive, file, outputs, manifest, copy, acked>>
      /\ pc[r] = "start"
      /\ \/ pc'[r] = "end"
         \/ pc'[r] = "checked" /\ (file = Missing \/ (Readable(file) /\ ~HasProgress(file)))
  BY <1>0, <1>1 DEF CheckProgress, Goto, MayStart, TypeOK
<1>3. Readable(file) => file \in Contents
  BY <1>1 DEF TypeOK, Readable
<1>4. pc'[r] = "checked" => acked = {}
  BY <1>1, <1>2, <1>3, NoProgressNothingSaved DEF SavedInv
<1>5. OnDisk(r)'
  BY <1>1, <1>2 DEF OnDisk
<1>6. SavedInv'
  <2>1. \A s \in Sessions : pc'[s] \notin {"holding", "opened"}
    BY <1>0, <1>1 DEF Procs
  <2>2. \A q \in Runs : pc'[q] \in {"checked", "writing", "filling", "opened"} => q = r /\ pc'[r] = "checked"
    BY <1>1, <1>2 DEF Procs
  <2> QED  BY <1>1, <1>2, <1>3, <1>4, <2>1, <2>2 DEF SavedInv, Keeps, HasProgress
<1>7. ManifestInv'
  <2>1. \A s \in Sessions : pc'[s] = pc[s] /\ pc'[s] \notin {"holding", "opened"}
    BY <1>0, <1>1 DEF Procs
  <2>2. (\A q \in Runs : pc'[q] \in {"start", "end"}) => \A q \in Runs : pc[q] \in {"start", "end"}
    BY <1>1, <1>2 DEF Procs
  <2> QED  BY <1>1, <1>2, <2>1, <2>2 DEF ManifestInv, Continues
<1> QED  BY <1>0, <1>2, <1>5, <1>6, <1>7, Together

LEMMA RunPipelineKeeps ==
  ASSUME SharedInv, exclusive, SerialInv, NEW r \in Runs, RunPipeline(r)
  PROVE  SerialInv'
<1>0. r \in Procs /\ Steps(r) /\ Sessions \cap Runs = {}
  BY ProcessesAreApart DEF Procs, Steps, Run
<1>1. /\ TypeOK /\ SavedInv /\ ManifestInv
      /\ \A q \in Procs : q # r => /\ pc'[q] = pc[q] /\ pc'[q] \in {"start", "end", "crashed"}
  BY <1>0, StepFacts
<1>2. /\ UNCHANGED <<exclusive, file, outputs, manifest, acked>>
      /\ pc[r] = "checked" /\ pc'[r] = "writing"
  BY <1>0, <1>1 DEF RunPipeline, Goto, TypeOK
<1>3. OnDisk(r)'
  BY <1>1, <1>2 DEF OnDisk
<1>4. SavedInv'
  <2>1. \A s \in Sessions : pc'[s] \notin {"holding", "opened"}
    BY <1>0, <1>1 DEF Procs
  <2>2. \A q \in Runs : pc'[q] \in {"checked", "writing", "filling", "opened"} => q = r
    BY <1>1 DEF Procs
  <2> QED  BY <1>1, <1>2, <2>1, <2>2 DEF SavedInv, Keeps, HasProgress
<1>5. ManifestInv'
  BY <1>1, <1>2 DEF ManifestInv
<1> QED  BY <1>0, <1>2, <1>3, <1>4, <1>5, Together

\* Writing artifacts, under a queue in which nothing is to be protected.
LEMMA ArtifactKeeps ==
  ASSUME SharedInv, exclusive, SerialInv, NEW r \in Runs, OpenArtifact(r) \/ WriteArtifact(r)
  PROVE  SerialInv' /\ (file = Missing \/ (file \in Contents /\ ~HasProgress(file)))
<1>0. r \in Procs /\ Steps(r) /\ Sessions \cap Runs = {}
  BY ProcessesAreApart DEF Procs, Steps, Run
<1>1. /\ TypeOK /\ SavedInv
      /\ \A q \in Procs : q # r => /\ pc'[q] = pc[q] /\ pc'[q] \in {"start", "end", "crashed"}
  BY <1>0, StepFacts
<1>2. /\ UNCHANGED <<exclusive, file, manifest, copy, acked>>
      /\ pc[r] \in {"writing", "filling"} /\ pc'[r] \in {"writing", "filling"}
  BY <1>0, <1>1 DEF OpenArtifact, WriteArtifact, Goto, TypeOK
<1>3. OnDisk(r)'
  BY <1>2 DEF OnDisk
<1>4. file = Missing \/ (file \in Contents /\ ~HasProgress(file))
  BY <1>1, <1>2 DEF SavedInv
<1>5. SavedInv'
  <2>1. \A s \in Sessions : pc'[s] \notin {"holding", "opened"}
    BY <1>0, <1>1 DEF Procs
  <2>2. \A q \in Runs : pc'[q] \in {"checked", "writing", "filling", "opened"} => q = r
    BY <1>1 DEF Procs
  <2> QED  BY <1>1, <1>2, <2>1, <2>2 DEF SavedInv, Keeps, HasProgress
<1>6. ManifestInv'
  BY <1>2 DEF ManifestInv
<1> QED  BY <1>0, <1>3, <1>4, <1>5, <1>6, Together

\* Reading back, and opening the manifest.
LEMMA HashKeeps ==
  ASSUME SharedInv, exclusive, SerialInv, NEW r \in Runs,
         HashArtifact(r) \/ HashQueue(r) \/ OpenManifest(r)
  PROVE  SerialInv'
<1>0. r \in Procs /\ Steps(r) /\ Sessions \cap Runs = {}
  BY ProcessesAreApart DEF Procs, Steps, Run
<1>1. /\ TypeOK /\ SavedInv /\ OnDisk(r)
      /\ \A q \in Procs : q # r => /\ pc'[q] = pc[q] /\ pc'[q] \in {"start", "end", "crashed"}
  BY <1>0, StepFacts
<1>2. /\ UNCHANGED <<exclusive, file, copy, acked>>
      /\ pc[r] \in {"hashing", "hashed"} /\ pc'[r] \in {"hashing", "hashed", "recording"}
      /\ pc'[r] = "recording" => manifest' = Empty
  BY <1>0, <1>1 DEF HashArtifact, HashQueue, OpenManifest, Goto, TypeOK
<1>3. OnDisk(r)'
  BY <1>1, <1>2 DEF OnDisk
<1>4. SavedInv'
  <2>1. \A s \in Sessions : pc'[s] \notin {"holding", "opened"}
    BY <1>0, <1>1 DEF Procs
  <2>2. \A q \in Runs : pc'[q] \notin {"checked", "writing", "filling", "opened"}
    BY <1>1, <1>2 DEF Procs
  <2> QED  BY <1>1, <1>2, <2>1, <2>2 DEF SavedInv, Keeps
<1>5. ManifestInv'
  BY <1>2 DEF ManifestInv
<1> QED  BY <1>0, <1>3, <1>4, <1>5, Together

LEMMA SameFunction ==
  ASSUME NEW S, NEW T, NEW f \in [S -> T], NEW g \in [S -> T], \A x \in S : f[x] = g[x]
  PROVE  f = g
OBVIOUS

\* What was read back is what lies on disk: it is all the run's own.
LEMMA WriteManifestKeeps ==
  ASSUME SharedInv, MetInv, exclusive, SerialInv, NEW r \in Runs, WriteManifest(r)
  PROVE  SerialInv'
<1>0. r \in Procs /\ Steps(r) /\ Sessions \cap Runs = {}
  BY ProcessesAreApart DEF Procs, Steps, Run
<1>1. /\ TypeOK /\ SavedInv /\ OnDisk(r) /\ copy[r] \in Contents
      /\ \A q \in Procs : q # r => /\ pc'[q] = pc[q] /\ pc'[q] \in {"start", "end", "crashed"}
  BY <1>0, StepFacts
<1>2. /\ UNCHANGED <<exclusive, file, outputs, copy, acked>>
      /\ pc[r] = "recording" /\ pc'[r] = "end" /\ file = copy[r]
      /\ manifest' = entries[r] /\ entries[r] \in Manifest
  BY <1>0, <1>1 DEF WriteManifest, BytesWritten, OnDisk, Goto, TypeOK
<1>3. met[r] = {} /\ Found(r) /\ step[r] \in 0..NArtifacts
  BY <1>1, <1>2 DEF MetInv, HaveMet, Idle, TypeOK
<1>4. entries[r].outputs = outputs
  <2>1. \A a \in 1..NArtifacts : entries[r].outputs[a] = r
    BY <1>2, <1>3 DEF Found, MayFind
  <2>2. \A a \in 1..NArtifacts : outputs[a] = r
    <3>1. step[r] = NArtifacts
      BY <1>2 DEF MetInv, Counted
    <3> QED  BY <1>3, <3>1 DEF Found, MayFind
  <2>3. outputs \in [1..NArtifacts -> Runs \cup {Missing, Empty, Torn}]
    BY <1>1 DEF TypeOK
  <2>4. entries[r].outputs \in [1..NArtifacts -> Runs \cup {Missing, Empty, Torn}]
    BY <1>2 DEF Manifest
  <2> DEFINE here == entries[r].outputs
             S == Runs \cup {Missing, Empty, Torn}
             D == 1..NArtifacts
  <2>5. here \in [D -> S] /\ \A a \in D : here[a] = outputs[a]
    BY <2>1, <2>2, <2>4
  <2>6. outputs \in [D -> S]
    BY <2>3
  <2> HIDE DEF here, S, D
  <2>7. here = outputs
    BY <2>5, <2>6, SameFunction
  <2> QED  BY <2>7 DEF here
<1>5. entries[r].queue = file
  BY <1>2, <1>3 DEF Found
<1>6. OnDisk(r)'
  BY <1>2 DEF OnDisk
<1>7. \A q \in Procs : pc'[q] \in {"start", "end", "crashed"}
  BY <1>1, <1>2
<1>8. SavedInv'
  BY <1>1, <1>2, <1>7 DEF SavedInv, Keeps, Procs
<1>9. ManifestInv'
  <2>1. file \in Contents /\ Continues(file, file)
    BY <1>1, <1>2, ContinuesFacts
  <2>2. Continues(manifest.queue, file)'
    BY <1>2, <1>5, <2>1 DEF Continues
  <2> QED  BY <1>2, <1>4, <1>5, <1>7, <2>1, <2>2 DEF ManifestInv, Procs
<1> QED  BY <1>0, <1>6, <1>8, <1>9, Together

LEMMA LoadKeeps ==
  ASSUME SharedInv, exclusive, SerialInv, NEW s \in Sessions, Load(s)
  PROVE  SerialInv'
<1>0. s \in Procs /\ s \notin Runs /\ Steps(s)
  BY ProcessesAreApart DEF Procs, Steps, Session
<1>1. /\ TypeOK /\ SavedInv /\ ManifestInv
      /\ \A q \in Procs : q # s => /\ pc'[q] = pc[q] /\ pc'[q] \in {"start", "end", "crashed"}
  BY <1>0, StepFacts
<1>2. /\ UNCHANGED <<exclusive, file, outputs, manifest, acked>>
      /\ pc[s] = "start" /\ pc'[s] = "holding" /\ file \in Contents /\ copy'[s] = file
  BY <1>0, <1>1 DEF Load, Goto, MayStart, TypeOK, Readable
<1>3. OnDisk(s)'
  BY <1>2 DEF OnDisk
<1>4. SavedInv'
  <2>1. \A q \in Sessions : pc'[q] \in {"holding", "opened"} => q = s
    BY <1>1 DEF Procs
  <2>2. \A q \in Runs : pc'[q] \notin {"checked", "writing", "filling", "opened"}
    BY <1>0, <1>1 DEF Procs
  <2>3. Keeps(copy[s])'
    BY <1>1, <1>2 DEF SavedInv, Keeps
  <2> QED  BY <1>1, <1>2, <2>1, <2>2, <2>3 DEF SavedInv, Keeps
<1>5. ManifestInv'
  <2>1. \A q \in Sessions : /\ pc'[q] \in {"holding", "opened"} => q = s
                            /\ pc'[q] # "crashed" => pc[q] # "crashed"
                            /\ pc[q] # "opened"
    BY <1>1, <1>2 DEF Procs
  <2>2. \A q \in Runs : pc'[q] = pc[q]
    BY <1>0, <1>1 DEF Procs
  <2>3. Continues(manifest.queue, file) =>
          Continues(manifest.queue, file)' /\ Continues(manifest.queue, copy[s])'
    BY <1>2 DEF Continues
  <2> QED  BY <1>1, <1>2, <2>1, <2>2, <2>3 DEF ManifestInv
<1> QED  BY <1>0, <1>2, <1>3, <1>4, <1>5, Together

LEMMA ReviewKeeps ==
  ASSUME SharedInv, exclusive, SerialInv, NEW s \in Sessions, Review(s)
  PROVE  SerialInv'
<1>0. s \in Procs /\ s \notin Runs /\ Steps(s)
  BY ProcessesAreApart DEF Procs, Steps, Session
<1>1. /\ TypeOK /\ SavedInv /\ ManifestInv /\ OnDisk(s) /\ copy[s] \in Contents
      /\ \A q \in Procs : q # s => /\ pc'[q] = pc[q] /\ pc'[q] \in {"start", "end", "crashed"}
  BY <1>0, StepFacts
<1>2. /\ UNCHANGED <<exclusive, file, outputs, manifest, pc, step, entries, acked, met>> /\ pc[s] = "holding"
      /\ copy'[s] \in Contents /\ Continues(copy[s], copy'[s])
  BY <1>0, <1>1, ReviewFacts DEF TypeOK
<1> DEFINE c == copy'[s]
<1>3. OnDisk(s)'
  BY <1>1, <1>2 DEF OnDisk
<1>4. SavedInv'
  <2>1. \A q \in Sessions : pc'[q] \in {"holding", "opened"} => q = s
    BY <1>1 DEF Procs
  <2>2. \A q \in Runs : pc'[q] \notin {"checked", "writing", "filling", "opened"}
    BY <1>0, <1>1 DEF Procs
  <2>3. Keeps(c)
    BY <1>1, <1>2, KeepsFacts DEF SavedInv
  <2>4. Keeps(copy[s])'
    BY <1>2, <2>3 DEF Keeps
  <2> QED  BY <1>1, <1>2, <2>1, <2>2, <2>4 DEF SavedInv, Keeps
<1>5. ManifestInv'
  <2>1. \A q \in Sessions : pc'[q] \in {"holding", "opened"} => q = s
    BY <1>1 DEF Procs
  <2>2. manifest.queue \in Contents /\ Continues(manifest.queue, copy[s]) =>
          Continues(manifest.queue, c)
    BY <1>1, <1>2, ContinuesFacts
  <2>4. /\ Continues(manifest.queue, c) => Continues(manifest.queue, copy[s])'
        /\ Continues(manifest.queue, file) => Continues(manifest.queue, file)'
    BY <1>2 DEF Continues
  <2> QED  BY <1>1, <1>2, <2>1, <2>2, <2>4 DEF ManifestInv
<1> QED  BY <1>0, <1>2, <1>3, <1>4, <1>5, Together

LEMMA OpenQueueKeeps ==
  ASSUME SharedInv, exclusive, SerialInv, NEW p \in Procs, OpenQueue(p)
  PROVE  SerialInv'
<1>0. Steps(p) /\ Sessions \cap Runs = {}
  BY ProcessesAreApart DEF Steps
<1>1. /\ TypeOK /\ SavedInv /\ ManifestInv
      /\ \A q \in Procs : q # p => /\ pc'[q] = pc[q] /\ pc'[q] \in {"start", "end", "crashed"}
  BY <1>0, StepFacts
<1>2. /\ UNCHANGED <<exclusive, outputs, manifest, copy, acked>>
      /\ file' = Empty /\ pc'[p] = "opened"
      /\ p \in Sessions => pc[p] = "holding"
      /\ p \in Runs => pc[p] = "writing"
  BY <1>0, <1>1 DEF OpenQueue, ReadyToSave, Goto, TypeOK
<1>3. OnDisk(p)'
  BY <1>1, <1>2 DEF OnDisk
<1>4. SavedInv'
  <2>1. file' # Missing /\ file' \notin Contents
    BY <1>2, MarksAreApart
  <2>2. \A q \in Sessions : pc'[q] \in {"holding", "opened"} => pc[q] \in {"holding", "opened"}
    BY <1>1, <1>2 DEF Procs
  <2>3. \A q \in Runs : pc'[q] \in {"checked", "writing", "filling", "opened"} =>
                          pc[q] \in {"checked", "writing", "filling", "opened"} /\ q = p
    BY <1>1, <1>2 DEF Procs
  <2> QED  BY <1>1, <1>2, <2>1, <2>2, <2>3 DEF SavedInv, Keeps
<1>5. ManifestInv'
  <2>1. \A q \in Sessions : /\ pc'[q] \in {"holding", "opened"} => pc[q] \in {"holding", "opened"}
                            /\ pc'[q] # "crashed" => pc[q] # "crashed"
    BY <1>1, <1>2 DEF Procs
  <2>2. (\A q \in Runs : pc'[q] \in {"start", "end"}) =>
          p \in Sessions /\ \A q \in Runs : pc[q] \in {"start", "end"}
    BY <1>0, <1>1, <1>2 DEF Procs
  <2> QED  BY <1>1, <1>2, <2>1, <2>2 DEF ManifestInv, Continues
<1> QED  BY <1>0, <1>2, <1>3, <1>4, <1>5, Together

LEMMA WriteQueueKeeps ==
  ASSUME SharedInv, exclusive, SerialInv, NEW p \in Procs, WriteQueue(p)
  PROVE  SerialInv'
<1>0. Steps(p) /\ Sessions \cap Runs = {} /\ Procs = Sessions \cup Runs
  BY ProcessesAreApart DEF Steps, Procs
<1>1. /\ TypeOK /\ SavedInv /\ ManifestInv /\ OnDisk(p)
      /\ copy[p] \in Contents
      /\ \A q \in Procs : q # p => /\ pc'[q] = pc[q] /\ pc'[q] \in {"start", "end", "crashed"}
  BY <1>0, StepFacts
<1>2. /\ UNCHANGED <<exclusive, outputs, manifest>>
      /\ \A q \in Procs : q # p => copy'[q] = copy[q]
      /\ pc[p] = "opened" /\ file' = copy[p]
      /\ p \in Runs => pc'[p] = "hashing" /\ acked' = acked /\ copy' = copy
      /\ p \notin Runs => pc'[p] = "end" /\ acked' = acked \cup Histories(copy[p])
  BY <1>1 DEF WriteQueue, BytesWritten, OnDisk, Goto, TypeOK
<1>3. OnDisk(p)'
  BY <1>1, <1>2 DEF OnDisk
<1>4. \A q \in Procs : pc'[q] \in {"start", "end", "crashed", "hashing"}
  BY <1>1, <1>2
<1>5. file' \in Contents /\ file' # Missing
  BY <1>1, <1>2, MarksAreApart
<1>6. \A a \in Histories(copy[p]) : /\ a[2] # <<>> /\ copy[p][a[1]] # Absent
                                    /\ IsPrefix(a[2], copy[p][a[1]].events)
  <2> SUFFICES ASSUME NEW k \in Keys, copy[p][k] # Absent, copy[p][k].events # <<>>
               PROVE  IsPrefix(copy[p][k].events, copy[p][k].events)
    BY DEF Histories
  <2>1. copy[p][k].events \in Seq(QueueEvent)
    BY <1>1 DEF Contents, ValidationQueueItem
  <2> QED  BY <2>1, PrefixReflexive
<1>7. SavedInv'
  <2>1. p \in Sessions => Keeps(copy[p])
    BY <1>1, <1>2 DEF SavedInv
  <2>2. p \in Runs => acked = {}
    BY <1>1, <1>2 DEF SavedInv
  <2>3. \A a \in acked' : /\ a[2] # <<>> /\ copy[p][a[1]] # Absent
                          /\ IsPrefix(a[2], copy[p][a[1]].events)
    BY <1>0, <1>1, <1>2, <1>6, <2>1, <2>2 DEF SavedInv, Keeps
  <2>4. Keeps(file)'
    BY <1>2, <2>3 DEF Keeps
  <2> QED  BY <1>0, <1>4, <1>5, <2>3, <2>4 DEF SavedInv
<1>8. ManifestInv'
  <2>1. CASE p \in Runs
    BY <1>1, <1>2, <2>1 DEF ManifestInv
  <2>2. CASE p \in Sessions
    <3>1. \A q \in Runs : pc'[q] = pc[q]
      BY <1>0, <1>1, <2>2
    <3>2. \A q \in Sessions : /\ pc'[q] # "crashed" => pc[q] # "crashed"
                              /\ pc'[q] \notin {"holding", "opened"}
      BY <1>0, <1>1, <1>2, <2>2
    <3>3. Continues(manifest.queue, copy[p]) => Continues(manifest.queue, file)'
      BY <1>2 DEF Continues
    <3> QED  BY <1>1, <1>2, <1>5, <2>2, <3>1, <3>2, <3>3 DEF ManifestInv
  <2> QED  BY <1>0, <2>1, <2>2
<1> QED  BY <1>0, <1>2, <1>3, <1>7, <1>8, Together

LEMMA CrashKeeps ==
  ASSUME SharedInv, exclusive, SerialInv, NEW p \in Procs, Crash(p)
  PROVE  /\ SerialInv'
         /\ outputs' # outputs => p \in Runs /\ pc[p] = "filling"
<1>0. Steps(p) /\ Procs = Sessions \cup Runs
  BY DEF Steps, Procs
<1>1. /\ TypeOK /\ SavedInv /\ ManifestInv /\ OnDisk(p)
      /\ \A q \in Procs : q # p => /\ pc'[q] = pc[q] /\ pc'[q] \in {"start", "end", "crashed"}
  BY <1>0, StepFacts
<1>2. /\ UNCHANGED <<exclusive, acked>> /\ \A q \in Procs : q # p => copy'[q] = copy[q]
      /\ pc'[p] = "crashed" /\ file' \in {file, Torn}
      /\ outputs' # outputs => pc[p] = "filling"
  BY <1>1 DEF Crash, Goto, TypeOK
<1>3. OnDisk(p)'
  BY <1>2 DEF OnDisk
<1>4. \A q \in Procs : pc'[q] \in {"start", "end", "crashed"}
  BY <1>1, <1>2
<1>5. SavedInv'
  <2>1. Torn # Missing /\ Torn \notin Contents
    BY MarksAreApart
  <2> QED  BY <1>0, <1>1, <1>2, <1>4, <2>1 DEF SavedInv, Keeps
<1>6. ManifestInv'
  BY <1>0, <1>1, <1>2 DEF ManifestInv
<1>7. outputs' # outputs => p \in Runs
  BY <1>1, <1>2 DEF OnDisk
<1> QED  BY <1>0, <1>2, <1>3, <1>5, <1>6, <1>7, Together

-----------------------------------------------------------------------------
IInv == SharedInv /\ MetInv /\ SerialInv

LEMMA SerialInit == Init => SerialInv
<1> SUFFICES ASSUME Init PROVE SerialInv
  OBVIOUS
<1>1. /\ file = Missing /\ manifest = Missing /\ acked = {}
      /\ \A p \in Procs : pc[p] = "start"
      /\ \A r \in Runs : r \in Procs
      /\ \A s \in Sessions : s \in Procs
  BY DEF Init, Procs
<1>2. OneAtATime /\ \A p \in Procs : OnDisk(p)
  BY <1>1 DEF OneAtATime, Idle, OnDisk
<1>3. SavedInv
  BY <1>1, MarksAreApart DEF SavedInv
<1>4. ManifestInv
  BY <1>1 DEF ManifestInv
<1> QED  BY <1>2, <1>3, <1>4 DEF SerialInv

LEMMA SerialStep == IInv /\ [Next]_vars => SerialInv'
<1> SUFFICES ASSUME IInv, [Next]_vars PROVE SerialInv'
  OBVIOUS
<1>1. CASE UNCHANGED vars
  BY <1>1 DEF vars, IInv, SerialInv, OneAtATime, Idle, SavedInv, Keeps, ManifestInv, Continues,
     OnDisk, HasProgress
<1>2. CASE Next
  <2>1. exclusive' = exclusive
    BY <1>2, NextIsSteps, StepTouches DEF IInv, Touches
  <2>2. CASE ~exclusive
    BY <2>1, <2>2 DEF SerialInv
  <2>3. CASE exclusive
    BY <1>2, <2>3, CheckProgressKeeps, RunPipelineKeeps, ArtifactKeeps, HashKeeps,
       WriteManifestKeeps, LoadKeeps, ReviewKeeps, OpenQueueKeeps, WriteQueueKeeps, CrashKeeps
       DEF IInv, Next, Run, Session
  <2> QED  BY <2>2, <2>3
<1> QED  BY <1>1, <1>2

LEMMA InvAlways == Spec => []IInv
<1>1. Init => IInv
  BY SharedInit, MetInit, SerialInit DEF IInv
<1>2. IInv /\ [Next]_vars => IInv'
  BY SharedStep, MetStep, SerialStep DEF IInv
<1> QED  BY <1>1, <1>2, PTL DEF Spec

(***************************************************************************)
(* ManifestOfOneRun: however runs and sessions interleave and die, what a  *)
(* readable manifest lists is of its own run or of one that was under way  *)
(* together with it; one process at a time, once all is quiet and nothing  *)
(* has died, it can be read and describes the directory.                   *)
(***************************************************************************)
THEOREM ManifestsOfOneRun == Spec => []ManifestOfOneRun
<1>1. IInv => ManifestOfOneRun
  <2> SUFFICES ASSUME IInv PROVE ManifestOfOneRun
    OBVIOUS
  <2>1. ASSUME Readable(manifest)
        PROVE  /\ \A a \in 1..NArtifacts : manifest.outputs[a] \in MayFind(manifest.run)
               /\ met[manifest.run] = {} => manifest.queue = copy[manifest.run]
    BY <2>1 DEF IInv, MetInv, Recorded
  <2>2. ASSUME exclusive, Quiet, manifest # Missing
        PROVE  /\ Readable(manifest) /\ manifest.outputs = outputs
               /\ Continues(manifest.queue, file)
    <3>1. /\ \A r \in Runs : pc[r] \in {"start", "end"}
          /\ \A s \in Sessions : pc[s] \notin {"crashed", "opened"}
      BY <2>2 DEF Quiet, Procs
    <3>2. ManifestInv
      BY <2>2 DEF IInv, SerialInv
    <3>3. /\ manifest \in Manifest /\ manifest.outputs = outputs
          /\ Continues(manifest.queue, file)
      BY <2>2, <3>1, <3>2 DEF ManifestInv
    <3> QED  BY <3>3, MarksAreApart DEF Readable
  <2> QED  BY <2>1, <2>2 DEF ManifestOfOneRun, Continues
<1> QED  BY <1>1, InvAlways, PTL

(***************************************************************************)
(* ReviewIsProtected: one process at a time, a review whose save returned  *)
(* is in every later queue that can be read, and no artifact changes while *)
(* the queue on disk has a history.                                        *)
(***************************************************************************)
THEOREM ReviewsProtected == Spec => ReviewIsProtected
<1> DEFINE Apart == (exclusive /\ outputs' # outputs) => ~(Readable(file) /\ Histories(file) # {})
<1>1. IInv => SavedReviewKept
  BY MarksAreApart DEF IInv, SerialInv, SavedInv, SavedReviewKept, Keeps
<1>2. IInv /\ [Next]_vars => [Apart]_vars
  <2> SUFFICES ASSUME IInv, Next, exclusive, outputs' # outputs
               PROVE  ~(Readable(file) /\ Histories(file) # {})
    OBVIOUS
  <2>1. file = Missing \/ (file \in Contents /\ ~HasProgress(file))
    <3>1. CASE \E r \in Runs : OpenArtifact(r) \/ WriteArtifact(r)
      BY <3>1, ArtifactKeeps DEF IInv
    <3>2. CASE \E p \in Procs : Crash(p)
      <4>1. PICK p \in Procs : Crash(p)
        BY <3>2
      <4>2. p \in Runs /\ pc[p] = "filling"
        BY <4>1, CrashKeeps DEF IInv
      <4> QED  BY <4>2 DEF IInv, SerialInv, SavedInv
    <3> QED  BY <3>1, <3>2 DEF Next, Run, Session, CheckProgress, RunPipeline, HashArtifact,
             HashQueue, OpenManifest, WriteManifest, Load, Review, OpenQueue, WriteQueue
  <2> QED  BY <2>1 DEF Readable, HasProgress, Histories
<1>3. Spec => []SavedReviewKept /\ [][Apart]_vars
  BY <1>1, <1>2, InvAlways, PTL DEF Spec
<1> QED  BY <1>3 DEF ReviewIsProtected, NoArtifactsOverReview
=============================================================================
