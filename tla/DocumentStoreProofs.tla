------------------------ MODULE DocumentStoreProofs ------------------------
(***************************************************************************)
(* The safety of DocumentStore for every set of payloads, instants and     *)
(* writers.  With any number of concurrent writers an index that can be    *)
(* read lists a payload once.  With one writer at a time and no blob       *)
(* deleted by hand, crashes at any point included, the files implement     *)
(* VersionHistory.                                                         *)
(***************************************************************************)
EXTENDS DocumentStore, TLAPS

(***************************************************************************)
(* In a list without repeats the loop of put finds THE record of a known   *)
(* payload; a new payload at the end makes no repeat.                      *)
(***************************************************************************)
LEMMA PriorRecordHasPayload ==
  ASSUME NEW vs \in Seq(Version), NoRepeats(vs), NEW p, Known(vs, p)
  PROVE  /\ PriorRecord(vs, p) \in ToSet(vs)
         /\ PriorRecord(vs, p) \in Version
         /\ PriorRecord(vs, p).hash = p
<1> DEFINE First(k) == vs[k].hash = p /\ \A j \in 1..(k - 1) : vs[j].hash # p
<1>1. PICK k \in 1..Len(vs) : vs[k].hash = p
  BY DEF Known
<1>2. \A j \in 1..(k - 1) : vs[j].hash # p
  BY <1>1 DEF NoRepeats
<1>3. \E j \in 1..Len(vs) : First(j)
  BY <1>1, <1>2
<1>4. PICK j \in 1..Len(vs) : First(j) /\ PriorRecord(vs, p) = vs[j]
  BY <1>3 DEF PriorRecord
<1>5. vs[j] \in ToSet(vs) /\ vs[j] \in Version
  BY DEF ToSet
<1>6. QED
  BY <1>4, <1>5

LEMMA NewPayloadAppended ==
  ASSUME NEW vs \in Seq(Version), NoRepeats(vs), NEW v \in Version, ~Known(vs, v.hash)
  PROVE  /\ Append(vs, v) \in Seq(Version)
         /\ NoRepeats(Append(vs, v))
<1>1. /\ Append(vs, v) \in Seq(Version)
      /\ Len(Append(vs, v)) = Len(vs) + 1
      /\ \A k \in 1..Len(vs) : Append(vs, v)[k] = vs[k]
      /\ Append(vs, v)[Len(vs) + 1] = v
  OBVIOUS
<1>2. \A k \in 1..Len(vs) : vs[k].hash # v.hash
  BY DEF Known
<1>3. QED
  BY <1>1, <1>2 DEF NoRepeats

-----------------------------------------------------------------------------
(***************************************************************************)
(* Any number of writers.  What a writer read has no repeats, and the      *)
(* payload of a writer on its way to the index was not in what it read;    *)
(* so whatever it writes has no repeats either, stale or not.              *)
(***************************************************************************)
Fresh(w) == ~Known(known[w], arg[w].hash)

SharedInv ==
  /\ TypeOK
  /\ Readable(index) => NoRepeats(index)
  /\ Readable(temp) => NoRepeats(temp)
  /\ \A w \in Writers :
       /\ NoRepeats(known[w])
       /\ pc[w] \in {"stored", "writing"} => Fresh(w)

LEMMA EmptyListHasNoRepeats == NoRepeats(<<>>) /\ <<>> \in Seq(Version)
BY DEF NoRepeats

LEMMA SharedInit == Init => SharedInv
BY EmptyListHasNoRepeats DEF Init, SharedInv, TypeOK, Readable, Version

LEMMA SharedStep ==
  ASSUME SharedInv, [Next]_vars
  PROVE  SharedInv'
<1> USE DEF SharedInv
<1> SUFFICES ASSUME Next PROVE SharedInv'
  BY DEF vars, TypeOK, Readable, Fresh
<1>0. use' = use
  BY DEF Next
<1>1. ASSUME NEW w \in Writers, ReadIndex(w) PROVE SharedInv'
  <2>1. index \notin {Empty, Torn} =>
          Listed(index) \in Seq(Version) /\ NoRepeats(Listed(index))
    BY EmptyListHasNoRepeats DEF TypeOK, Listed, Readable
  <2>2. TypeOK'
    BY <1>0, <1>1, <2>1, ZenonT(60) DEF ReadIndex, TypeOK, Goto
  <2>3. QED
    BY <1>1, <2>1, <2>2, ZenonT(60) DEF ReadIndex, TypeOK, Goto, Fresh
<1>2. ASSUME NEW w \in Writers, ReturnPrior(w) PROVE SharedInv'
  <2>1. PriorRecord(known[w], arg[w].hash) \in Version
    BY <1>2, PriorRecordHasPayload DEF ReturnPrior, TypeOK
  <2>2. TypeOK'
    BY <1>0, <1>2, <2>1 DEF ReturnPrior, Return, TypeOK, Goto
  <2>3. QED
    BY <1>2, <2>2 DEF ReturnPrior, Return, TypeOK, Goto, Fresh
<1>3. ASSUME NEW w \in Writers PROVE Target(w) \in Version /\ Target(w).hash = arg[w].hash
  BY PriorRecordHasPayload DEF Target, TypeOK
<1>4. ASSUME NEW w \in Writers, OpenBlob(w) PROVE SharedInv'
  <2>1. TypeOK'
    BY <1>0, <1>3, <1>4 DEF OpenBlob, TypeOK, Goto
  <2>2. QED
    BY <1>4, <2>1 DEF OpenBlob, TypeOK, Goto, Fresh
<1>5. ASSUME NEW w \in Writers, WriteBlob(w) PROVE SharedInv'
  <2>1. arg[w].hash \in Payloads
    BY DEF TypeOK, Version
  <2>2. /\ pc' \in [Writers -> {"start", "listed", "blob", "stored", "writing", "written",
                              "end", "failed"}]
        /\ returned' \in [Writers -> Version \cup {Missing}]
    BY <1>3, <1>5 DEF WriteBlob, Return, TypeOK, Goto
  <2>3. /\ blobs' \in [Version -> Payloads \cup {Missing, Empty, Torn}]
        /\ \A v \in Version : blobs'[v] \in {v.hash, Missing, Empty, Torn}
    BY <1>3, <1>5, <2>1 DEF WriteBlob, TypeOK
  <2>4. TypeOK'
    BY <1>0, <1>5, <2>2, <2>3 DEF WriteBlob, TypeOK
  <2>5. QED
    BY <1>5, <2>4 DEF WriteBlob, Return, TypeOK, Goto, Fresh
<1>6. ASSUME NEW w \in Writers, OpenTemp(w) PROVE SharedInv'
  <2>1. TypeOK'
    BY <1>0, <1>6 DEF OpenTemp, TypeOK, Goto
  <2>2. QED
    BY <1>6, <2>1 DEF OpenTemp, TypeOK, Goto, Fresh, Readable
<1>7. ASSUME NEW w \in Writers, WriteTemp(w) PROVE SharedInv'
  <2>1. /\ NewIndex(w) \in Seq(Version)
        /\ NoRepeats(NewIndex(w))
    BY <1>7, NewPayloadAppended DEF WriteTemp, NewIndex, TypeOK, Fresh
  <2>2. \A old : BytesOver(old, NewIndex(w)) \subseteq {NewIndex(w), Torn}
    BY DEF BytesOver
  <2>3. /\ temp' \in {temp, NewIndex(w), Torn}
        /\ index' \in {index, NewIndex(w), Torn}
    BY <1>7, <2>2 DEF WriteTemp
  <2>4. TypeOK'
    BY <1>0, <1>7, <2>1, <2>3 DEF WriteTemp, TypeOK, Goto
  <2>5. /\ (Readable(index) => NoRepeats(index))'
        /\ (Readable(temp) => NoRepeats(temp))'
    BY <2>1, <2>3 DEF Readable
  <2>6. QED
    BY <1>7, <2>4, <2>5 DEF WriteTemp, TypeOK, Goto, Fresh
<1>8. ASSUME NEW w \in Writers, Replace(w) PROVE SharedInv'
  <2>1. /\ fd' \in [Writers -> {"none", "temp", "index", "gone"}]
        /\ index' \in {index, temp} /\ temp' \in {temp, Missing}
    BY <1>8 DEF Replace, TypeOK
  <2>2. /\ pc' \in [Writers -> {"start", "listed", "blob", "stored", "writing", "written",
                              "end", "failed"}]
        /\ returned' \in [Writers -> Version \cup {Missing}]
    BY <1>8, ZenonT(60) DEF Replace, Return, TypeOK, Goto
  <2>3. TypeOK'
    BY <1>0, <1>8, <2>1, <2>2 DEF Replace, TypeOK
  <2>4. QED
    BY <1>8, <2>1, <2>3 DEF Replace, Return, TypeOK, Goto, Fresh, Readable
<1>9. ASSUME NEW w \in Writers, Crash(w) PROVE SharedInv'
  <2>1. /\ temp' \in {temp, Torn}
        /\ index' \in {index, Torn}
    BY <1>9 DEF Crash
  <2>2. /\ blobs' \in [Version -> Payloads \cup {Missing, Empty, Torn}]
        /\ \A v \in Version : blobs'[v] \in {blobs[v], Torn}
    <3>1. \/ blobs' = blobs
          \/ blobs' = [blobs EXCEPT ![Target(w)] = IF @ = Empty THEN Torn ELSE @]
      BY <1>9 DEF Crash
    <3>2. QED
      BY <1>3, <3>1 DEF TypeOK
  <2>3. TypeOK'
    BY <1>0, <1>9, <2>1, <2>2 DEF Crash, TypeOK, Goto
  <2>4. QED
    BY <1>9, <2>1, <2>3 DEF Crash, TypeOK, Goto, Fresh, Readable
<1>10. ASSUME NEW v \in Version, LoseBlob(v) PROVE SharedInv'
  <2>1. TypeOK'
    BY <1>0, <1>10 DEF LoseBlob, TypeOK
  <2>2. QED
    BY <1>10, <2>1 DEF LoseBlob, Fresh
<1>11. QED
  BY <1>1, <1>2, <1>4, <1>5, <1>6, <1>7, <1>8, <1>9, <1>10 DEF Next, put

LEMMA SharedAlways == Spec => []SharedInv
<1>1. SharedInv /\ [Next]_vars => SharedInv'
  BY SharedStep
<1>2. QED
  BY <1>1, SharedInit, PTL DEF Spec

(***************************************************************************)
(* The variables of DocumentStore have their types, concurrent writers,    *)
(* crashes and deleted blobs included; the part about blobs says that a    *)
(* blob never holds the bytes of another payload.                          *)
(***************************************************************************)
THEOREM StoreTypeCorrect == Spec => []TypeOK
<1>1. SharedInv => TypeOK
  BY DEF SharedInv
<1>2. QED
  BY <1>1, SharedAlways, PTL

(***************************************************************************)
(* Concurrent puts may lose a version; no index that can be read lists a   *)
(* payload twice.                                                          *)
(***************************************************************************)
LEMMA RacesMakeNoDuplicates == Spec => []OnePerPayload
<1>1. SharedInv => OnePerPayload
  BY DEF SharedInv, OnePerPayload
<1>2. QED
  BY <1>1, SharedAlways, PTL

-----------------------------------------------------------------------------
(***************************************************************************)
(* One put at a time, no blob deleted by hand.  The writer under way knows *)
(* the index as it is; its payload is new from the moment it opens a blob; *)
(* its blob is complete before it opens the temporary file, and that file  *)
(* is complete before it replaces the index.                               *)
(***************************************************************************)
WriterKnows(w) ==
  /\ ~Idle(w) => known[w] = Listed(index)
  /\ pc[w] \in {"blob", "stored", "writing", "written"} => Fresh(w)
  /\ pc[w] \in {"stored", "writing", "written"} => blobs[arg[w]] = arg[w].hash
  /\ fd[w] = IF pc[w] = "writing" THEN "temp" ELSE "none"
  /\ pc[w] = "writing" => temp = Empty
  /\ pc[w] = "written" => temp = NewIndex(w)

SingleInv ==
  /\ SharedInv
  /\ index \notin {Empty, Torn}
  /\ \A v \in ToSet(Listed(index)) : blobs[v] = v.hash
  /\ \A w, o \in Writers : ~Idle(w) /\ ~Idle(o) => w = o
  /\ \A w \in Writers : WriterKnows(w)

LEMMA ListedIsHistory ==
  ASSUME SingleInv
  PROVE  /\ Listed(index) \in Seq(Version)
         /\ NoRepeats(Listed(index))
         /\ Indexed = ToSet(Listed(index))
         /\ {v \in Indexed : blobs[v] = v.hash} = ToSet(Listed(index))
         /\ \A v \in ToSet(Listed(index)) : v \in Version /\ blobs[v] # Missing
<1>1. Listed(index) \in Seq(Version) /\ NoRepeats(Listed(index))
  BY EmptyListHasNoRepeats DEF SingleInv, WriterKnows, SharedInv, TypeOK, Listed, Readable
<1>2. Indexed = ToSet(Listed(index))
  BY MarksAreNotData DEF SingleInv, WriterKnows, Indexed, Listed, Readable, ToSet
<1>3. \A v \in ToSet(Listed(index)) : v \in Version
  BY <1>1 DEF ToSet
<1>4. \A v \in Version : v.hash # Missing
  BY MarksAreNotData DEF Version
<1>5. QED
  BY <1>1, <1>2, <1>3, <1>4 DEF SingleInv, WriterKnows

LEMMA FreshIsNotListed ==
  ASSUME SingleInv, NEW w \in Writers, ~Idle(w), Fresh(w)
  PROVE  arg[w] \notin ToSet(Listed(index))
BY ListedIsHistory DEF SingleInv, WriterKnows, Fresh, Known, ToSet

LEMMA SingleInit == Init => SingleInv
<1> SUFFICES ASSUME Init PROVE SingleInv
  OBVIOUS
<1>1. Listed(index) = <<>> /\ ToSet(Listed(index)) = {}
  BY DEF Init, Listed, ToSet
<1>2. QED
  BY <1>1, SharedInit, MarksAreNotData DEF Init, SingleInv, WriterKnows, Idle

(***************************************************************************)
(* Only the replacement of the index changes what the index lists, and it  *)
(* appends the payload of the writer.                                      *)
(***************************************************************************)
AppendsVersion(w) ==
  /\ Fresh(w) /\ known[w] = Listed(index)
  /\ index' = Append(Listed(index), arg[w])

LEMMA SingleStep ==
  ASSUME use = "single", SingleInv, [Next]_vars
  PROVE  /\ SingleInv'
         /\ index' = index \/ \E w \in Writers : AppendsVersion(w)
<1>1. SharedInv'
  BY SharedStep DEF SingleInv, WriterKnows
<1>2. CASE UNCHANGED vars
  BY <1>1, <1>2 DEF vars, SingleInv, WriterKnows, Idle, Fresh, NewIndex
<1>3. ASSUME NEW w \in Writers, ReadIndex(w)
      PROVE  SingleInv' /\ index' = index
  <2>1. index' = index /\ blobs' = blobs /\ \A o \in Writers : Idle(o)
    BY <1>3 DEF ReadIndex
  <2>2. \A o \in Writers : o # w => pc'[o] = pc[o]
    BY <1>3 DEF ReadIndex, Goto, SingleInv, SharedInv, TypeOK
  <2>3. \A o \in Writers : o # w => WriterKnows(o)'
    BY <1>3, <2>1, <2>2 DEF ReadIndex, SingleInv, WriterKnows, Idle
  <2>4. WriterKnows(w)'
    BY <1>3, <2>1 DEF ReadIndex, Goto, SingleInv, WriterKnows, SharedInv, TypeOK, Idle
  <2>5. QED
    BY <1>1, <2>1, <2>2, <2>3, <2>4 DEF SingleInv, Idle
<1>4. ASSUME NEW w \in Writers, ReturnPrior(w)
      PROVE  SingleInv' /\ index' = index
  BY <1>1, <1>4 DEF ReturnPrior, Return, SingleInv, WriterKnows, SharedInv, TypeOK, Idle, Fresh, Goto, NewIndex
<1>5. ASSUME NEW w \in Writers, OpenBlob(w)
      PROVE  SingleInv' /\ index' = index
  <2>1. ~Idle(w) /\ known[w] = Listed(index)
    BY <1>5 DEF OpenBlob, Idle, SingleInv, WriterKnows
  <2>2. Fresh(w)
    BY <1>5, <2>1, ListedIsHistory, PriorRecordHasPayload DEF OpenBlob, Fresh, Target, OnDisk
  <2>3. Target(w) = arg[w]
    BY <2>2 DEF Target, Fresh
  <2>4. \A v \in ToSet(Listed(index)) : blobs'[v] = blobs[v]
    BY <1>5, <2>1, <2>2, <2>3, FreshIsNotListed, ListedIsHistory DEF OpenBlob, SingleInv, WriterKnows, SharedInv, TypeOK
  <2>5. /\ index' = index
        /\ \A o \in Writers : o # w => Idle(o) /\ pc'[o] = pc[o]
    BY <1>5, <2>1 DEF OpenBlob, Goto, SingleInv, SharedInv, TypeOK
  <2>6. \A o \in Writers : o # w => WriterKnows(o)'
    BY <1>5, <2>5 DEF OpenBlob, SingleInv, WriterKnows, Idle
  <2>7. WriterKnows(w)'
    BY <1>5, <2>1, <2>2 DEF OpenBlob, Goto, SingleInv, WriterKnows, SharedInv, TypeOK, Idle, Fresh
  <2>8. QED
    BY <1>1, <2>4, <2>5, <2>6, <2>7 DEF SingleInv, Idle
<1>6. ASSUME NEW w \in Writers, WriteBlob(w)
      PROVE  SingleInv' /\ index' = index
  <2>1. ~Idle(w) /\ Fresh(w) /\ Target(w) = arg[w]
    BY <1>6 DEF WriteBlob, Idle, SingleInv, WriterKnows, Target, Fresh
  <2>2. \A v \in ToSet(Listed(index)) : blobs'[v] = blobs[v]
    BY <1>6, <2>1, FreshIsNotListed, ListedIsHistory DEF WriteBlob, SingleInv, WriterKnows, SharedInv, TypeOK
  <2>3. blobs'[arg[w]] = arg[w].hash /\ pc' = [pc EXCEPT ![w] = "stored"]
    BY <1>6, <2>1 DEF WriteBlob, SingleInv, WriterKnows, SharedInv, TypeOK, Fresh, Goto
  <2>4. QED
    BY <1>1, <1>6, <2>1, <2>2, <2>3
       DEF WriteBlob, SingleInv, WriterKnows, SharedInv, TypeOK, Idle, Fresh, NewIndex
<1>7. ASSUME NEW w \in Writers, OpenTemp(w)
      PROVE  SingleInv' /\ index' = index
  <2>1. ~Idle(w) /\ index' = index /\ blobs' = blobs
    BY <1>7 DEF OpenTemp, Idle
  <2>2. \A o \in Writers : o # w => Idle(o) /\ pc'[o] = pc[o]
    BY <1>7, <2>1 DEF OpenTemp, Goto, SingleInv, SharedInv, TypeOK
  <2>3. \A o \in Writers : o # w => WriterKnows(o)'
    BY <1>7, <2>1, <2>2 DEF OpenTemp, SingleInv, SharedInv, TypeOK, WriterKnows, Idle
  <2>4. WriterKnows(w)'
    BY <1>7, <2>1 DEF OpenTemp, Goto, SingleInv, WriterKnows, SharedInv, TypeOK, Idle, Fresh
  <2>5. QED
    BY <1>1, <2>1, <2>2, <2>3, <2>4 DEF SingleInv, Idle
<1>8. ASSUME NEW w \in Writers, WriteTemp(w)
      PROVE  SingleInv' /\ index' = index
  <2>1. ~Idle(w) /\ fd[w] = "temp" /\ temp = Empty
    BY <1>8 DEF WriteTemp, Idle, SingleInv, WriterKnows
  <2>2. temp' = NewIndex(w) /\ index' = index
    BY <1>8, <2>1 DEF WriteTemp, BytesOver
  <2>3. QED
    BY <1>1, <1>8, <2>1, <2>2
       DEF WriteTemp, SingleInv, WriterKnows, SharedInv, TypeOK, Idle, Fresh, Goto, NewIndex
<1>9. ASSUME NEW w \in Writers, Replace(w)
      PROVE  SingleInv' /\ AppendsVersion(w)
  <2>1. /\ ~Idle(w) /\ Fresh(w) /\ known[w] = Listed(index) /\ temp = NewIndex(w)
        /\ blobs[arg[w]] = arg[w].hash /\ arg[w] \in Version
    BY <1>9 DEF Replace, Idle, SingleInv, WriterKnows, SharedInv, TypeOK
  <2>2. temp = Append(Listed(index), arg[w]) /\ temp \in Seq(Version)
    BY <2>1, ListedIsHistory DEF NewIndex
  <2>3. temp \notin {Missing, Empty, Torn}
    BY <2>2, MarksAreNotData
  <2>4. index' = Append(Listed(index), arg[w]) /\ blobs' = blobs /\ AppendsVersion(w)
    BY <1>9, <2>1, <2>2, <2>3 DEF Replace, AppendsVersion
  <2>5. Listed(index') = index' /\ index' \notin {Empty, Torn}
    BY <2>2, <2>3, <2>4 DEF Listed
  <2>6. \A v \in ToSet(Listed(index')) : v \in ToSet(Listed(index)) \/ v = arg[w]
    BY <2>1, <2>4, <2>5, ListedIsHistory DEF ToSet
  <2>7. \A v \in ToSet(Listed(index')) : blobs'[v] = v.hash
    BY <2>1, <2>4, <2>6 DEF SingleInv, WriterKnows
  <2>8. \A o \in Writers : o # w => Idle(o)
    BY <2>1 DEF SingleInv, WriterKnows
  <2>9. /\ pc' = [pc EXCEPT ![w] = "end"]
        /\ \A o \in Writers : fd'[o] = "none"
    BY <1>9, <2>3, <2>8 DEF Replace, Return, Goto, SingleInv, WriterKnows, Idle
  <2>10. QED
    BY <1>1, <2>4, <2>5, <2>7, <2>8, <2>9 DEF SingleInv, WriterKnows, SharedInv, TypeOK, Idle
<1>10. ASSUME NEW w \in Writers, Crash(w)
       PROVE  SingleInv' /\ index' = index
  <2>1. ~Idle(w) /\ fd[w] # "index" /\ \A o \in Writers : o # w => Idle(o)
    BY <1>10 DEF Crash, SingleInv, WriterKnows
  <2>2. index' = index /\ pc' = [pc EXCEPT ![w] = "failed"]
    BY <1>10, <2>1 DEF Crash, Goto
  <2>3. \A v \in ToSet(Listed(index)) : blobs'[v] = blobs[v]
    <3>1. CASE pc[w] = "blob"
      <4>1. Fresh(w) /\ Target(w) = arg[w]
        BY <3>1 DEF SingleInv, WriterKnows, Target, Fresh
      <4>2. QED
        BY <1>10, <2>1, <4>1, FreshIsNotListed, ListedIsHistory
           DEF Crash, SingleInv, WriterKnows, SharedInv, TypeOK
    <3>2. CASE pc[w] # "blob"
      BY <1>10, <3>2 DEF Crash
    <3>3. QED
      BY <3>1, <3>2
  <2>4. QED
    BY <1>1, <1>10, <2>1, <2>2, <2>3 DEF Crash, SingleInv, WriterKnows, SharedInv, TypeOK, Idle
<1>11. ASSUME NEW v \in Version, LoseBlob(v) PROVE FALSE
  BY <1>11 DEF LoseBlob
<1>12. QED
  BY <1>2, <1>3, <1>4, <1>5, <1>6, <1>7, <1>8, <1>9, <1>10, <1>11 DEF Next, put

LEMMA SingleAlways == Spec => [](use = "single" => SingleInv)
<1>1. Init => (use = "single" => SingleInv)
  BY SingleInit
<1>2. (use = "single" => SingleInv) /\ [Next]_vars => (use = "single" => SingleInv)'
  <2>1. [Next]_vars => use' = use
    BY DEF Next, vars
  <2>2. QED
    BY <2>1, SingleStep
<1>3. QED
  BY <1>1, <1>2, PTL DEF Spec

(***************************************************************************)
(* An index that can be read lists each payload once; and with one put at  *)
(* a time and no blob deleted by hand it can be read wherever a put dies,  *)
(* and every version in it has its bytes.                                  *)
(***************************************************************************)
THEOREM IndexStaysSound == Spec => []IndexIsSound
<1>1. (use = "single" => SingleInv) => IndexedAreStored
  BY ListedIsHistory DEF SingleInv, IndexedAreStored
<1>2. OnePerPayload /\ (use = "single" => SingleInv) => IndexIsSound
  BY <1>1 DEF IndexIsSound
<1>3. QED
  BY <1>2, RacesMakeNoDuplicates, SingleAlways, PTL

(***************************************************************************)
(* ... and the files implement the version history of an in-memory store:  *)
(* each put appends one version with its content, in one step, or nothing. *)
(***************************************************************************)
THEOREM StoreImplementsHistory == Spec => ImplementsHistory
<1>1. Init => History!Init
  BY DEF Init, History!Init, Listed, Indexed, Readable
<1>2. ASSUME use = "single" => SingleInv, [Next]_vars PROVE [History!Next]_History!vars
  <2> use' = use
    BY <1>2 DEF Next, vars
  <2> SUFFICES ASSUME use = "single" PROVE [History!Next]_History!vars
    BY DEF History!vars
  <2>1. SingleInv' /\ (index' = index \/ \E w \in Writers : AppendsVersion(w))
    BY <1>2, SingleStep
  <2>2. /\ {v \in Indexed : blobs[v] = v.hash} = ToSet(Listed(index))
        /\ Listed(index) \in Seq(Version)
    BY <1>2, ListedIsHistory
  <2>3. ({v \in Indexed : blobs[v] = v.hash})' = ToSet(Listed(index'))
    <3>1. Indexed' = ToSet(Listed(index'))
      BY <2>1, MarksAreNotData DEF SingleInv, Indexed, Listed, Readable, ToSet
    <3>2. \A v \in ToSet(Listed(index')) : blobs'[v] = v.hash
      BY <2>1 DEF SingleInv
    <3>3. QED
      BY <3>1, <3>2
  <2>4. CASE index' = index
    BY <2>2, <2>3, <2>4 DEF History!vars
  <2>5. ASSUME NEW w \in Writers, AppendsVersion(w) PROVE History!Next
    <3>1. arg[w] \in Version /\ arg[w] = [hash |-> arg[w].hash, at |-> arg[w].at]
      BY <1>2 DEF SingleInv, SharedInv, TypeOK, Version
    <3>2. Listed(index') = Append(Listed(index), arg[w])
      <4>1. Append(Listed(index), arg[w]) \in Seq(Version)
        BY <2>2, <3>1
      <4>2. index' = Append(Listed(index), arg[w]) /\ index' # Missing
        BY <2>5, <4>1, MarksAreNotData DEF AppendsVersion
      <4>3. QED
        BY <4>2 DEF Listed
    <3>3. ToSet(Listed(index')) = ToSet(Listed(index)) \cup {arg[w]}
      BY <2>2, <3>1, <3>2 DEF ToSet
    <3>4. ~History!Known(Listed(index), arg[w].hash)
      BY <2>5 DEF AppendsVersion, Fresh, Known, History!Known
    <3>5. arg[w].hash \in Payloads /\ arg[w].at \in Times
      BY <3>1 DEF Version
    <3>6. QED
      BY <2>2, <2>3, <3>1, <3>2, <3>3, <3>4, <3>5 DEF History!put, History!Next
  <2>6. QED
    BY <2>1, <2>4, <2>5
<1>3. QED
  BY <1>1, <1>2, SingleAlways, PTL DEF Spec, ImplementsHistory, History!Spec
-----------------------------------------------------------------------------
(***************************************************************************)
(* However the store is used: a blob that is not whole has a writer still  *)
(* at it, if it is empty, or else some put has died; and the blob of a     *)
(* writer on its way to the index is there, whoever has reopened it since. *)
(***************************************************************************)
Excused(v) ==
  \E o \in Writers : \/ pc[o] = "blob" /\ Target(o) = v /\ blobs[v] = Empty
                     \/ pc[o] = "failed" /\ blobs[v] \in {Empty, Torn}

BlobInv ==
  /\ \A v \in Version : blobs[v] \in {Empty, Torn} => Excused(v)
  /\ \A w \in Writers :
       pc[w] \in {"stored", "writing", "written"} => blobs[arg[w]] # Missing

LEMMA TargetHasPayload ==
  ASSUME SharedInv, NEW w \in Writers
  PROVE  Target(w) \in Version /\ Target(w).hash = arg[w].hash
BY PriorRecordHasPayload DEF SharedInv, Target, TypeOK

LEMMA BlobsInit == Init => BlobInv
BY MarksAreNotData DEF Init, BlobInv

(***************************************************************************)
(* A step that leaves the blobs alone, and takes no writer away from one,  *)
(* leaves the excuses as they are.                                         *)
(***************************************************************************)
LEMMA ExcusesLast ==
  ASSUME SharedInv, BlobInv, blobs' = blobs, arg' = arg,
         NEW w \in Writers, pc[w] # "failed", pc[w] # "blob" \/ pc'[w] = "failed",
         \A o \in Writers : o # w => pc'[o] = pc[o] /\ known'[o] = known[o]
  PROVE  \A v \in Version : blobs'[v] \in {Empty, Torn} => Excused(v)'
<1> SUFFICES ASSUME NEW v \in Version, blobs[v] \in {Empty, Torn}
             PROVE  Excused(v)'
  OBVIOUS
<1>1. PICK o \in Writers : \/ pc[o] = "blob" /\ Target(o) = v /\ blobs[v] = Empty
                           \/ pc[o] = "failed"
  BY DEF BlobInv, Excused
<1>2. CASE o = w
  BY <1>1, <1>2 DEF Excused
<1>3. CASE o # w
  <2>1. Target(o)' = Target(o)
    BY <1>3 DEF Target
  <2>2. QED
    BY <1>1, <1>3, <2>1 DEF Excused
<1>4. QED
  BY <1>2, <1>3

LEMMA BlobsStep ==
  ASSUME SharedInv, BlobInv, [Next]_vars
  PROVE  BlobInv'
<1> USE DEF SharedInv
<1>1. CASE UNCHANGED vars
  BY <1>1 DEF vars, BlobInv, Excused, Target
<1>2. ASSUME NEW w \in Writers,
             ReadIndex(w) \/ ReturnPrior(w) \/ OpenTemp(w) \/ WriteTemp(w) \/ Replace(w)
      PROVE  BlobInv'
  <2>1. /\ blobs' = blobs /\ arg' = arg /\ pc[w] \notin {"failed", "blob"}
        /\ \A o \in Writers : o # w => pc'[o] = pc[o] /\ known'[o] = known[o]
        /\ pc'[w] \in {"stored", "writing", "written"} =>
             pc[w] \in {"stored", "writing", "written"}
    BY <1>2 DEF ReadIndex, ReturnPrior, OpenTemp, WriteTemp, Replace, Return, Goto, TypeOK
  <2>2. QED
    BY <2>1, ExcusesLast DEF BlobInv
<1>3. ASSUME NEW w \in Writers, OpenBlob(w) PROVE BlobInv'
  <2>1. /\ blobs' = [blobs EXCEPT ![Target(w)] = Empty] /\ pc' = [pc EXCEPT ![w] = "blob"]
        /\ pc[w] = "listed" /\ UNCHANGED <<arg, known>> /\ Target(w) \in Version
    BY <1>3, TargetHasPayload DEF OpenBlob, Goto
  <2>2. \A o \in Writers : Target(o)' = Target(o)
    BY <2>1 DEF Target
  <2>3. ASSUME NEW v \in Version, blobs'[v] \in {Empty, Torn} PROVE Excused(v)'
    <3>1. CASE v = Target(w)
      BY <2>1, <2>2, <3>1 DEF Excused, TypeOK
    <3>2. CASE v # Target(w)
      BY <2>1, <2>2, <2>3, <3>2 DEF Excused, BlobInv, TypeOK
    <3>3. QED
      BY <3>1, <3>2
  <2>4. ASSUME NEW o \in Writers, pc'[o] \in {"stored", "writing", "written"}
        PROVE  blobs'[arg'[o]] # Missing
    BY <2>1, <2>4, MarksAreNotData DEF BlobInv, TypeOK
  <2>5. QED
    BY <2>3, <2>4 DEF BlobInv
<1>4. ASSUME NEW w \in Writers, WriteBlob(w) PROVE BlobInv'
  <2> DEFINE listed == Known(known[w], arg[w].hash)
  <2>0. /\ blobs' = [blobs EXCEPT ![Target(w)] = arg[w].hash]
        /\ pc' = [pc EXCEPT ![w] = IF listed THEN "end" ELSE "stored"]
        /\ UNCHANGED <<arg, known>> /\ pc[w] = "blob"
    BY <1>4 DEF WriteBlob, Return, Goto
  <2>1. /\ Target(w) \in Version /\ (~listed => Target(w) = arg[w])
        /\ arg[w].hash \notin {Missing, Empty, Torn}
        /\ pc'[w] = IF listed THEN "end" ELSE "stored"
        /\ \A o \in Writers : o # w => pc'[o] = pc[o]
    BY <2>0, TargetHasPayload, MarksAreNotData DEF TypeOK, Version, Target
  <2> HIDE DEF listed
  <2>2. \A o \in Writers : Target(o)' = Target(o)
    BY <2>0 DEF Target
  <2>3. ASSUME NEW v \in Version, blobs'[v] \in {Empty, Torn} PROVE Excused(v)'
    <3>1. v # Target(w) /\ blobs'[v] = blobs[v]
      BY <2>0, <2>1, <2>3 DEF TypeOK
    <3>2. QED
      BY <2>0, <2>1, <2>2, <2>3, <3>1 DEF Excused, BlobInv
  <2>4. ASSUME NEW o \in Writers, pc'[o] \in {"stored", "writing", "written"}
        PROVE  blobs'[arg'[o]] # Missing
    BY <2>0, <2>1, <2>4 DEF BlobInv, TypeOK
  <2>5. QED
    BY <2>3, <2>4 DEF BlobInv
<1>5. ASSUME NEW w \in Writers, Crash(w) PROVE BlobInv'
  <2>1. /\ pc' = [pc EXCEPT ![w] = "failed"] /\ ~Idle(w) /\ UNCHANGED <<arg, known>>
        /\ \/ blobs' = blobs
           \/ blobs' = [blobs EXCEPT ![Target(w)] = IF @ = Empty THEN Torn ELSE @]
    BY <1>5 DEF Crash, Goto
  <2>2. \A v \in Version : \/ blobs'[v] = blobs[v]
                           \/ blobs[v] = Empty /\ blobs'[v] = Torn
    BY <2>1, TargetHasPayload DEF TypeOK
  <2>3. pc'[w] = "failed"
    BY <2>1 DEF TypeOK
  <2>4. \A v \in Version : blobs'[v] \in {Empty, Torn} => Excused(v)'
    BY <2>3 DEF Excused
  <2>5. ASSUME NEW o \in Writers, pc'[o] \in {"stored", "writing", "written"}
        PROVE  blobs'[arg'[o]] # Missing
    BY <2>1, <2>2, <2>5, MarksAreNotData DEF BlobInv, TypeOK
  <2>6. QED
    BY <2>4, <2>5 DEF BlobInv
<1>6. ASSUME NEW v \in Version, LoseBlob(v) PROVE BlobInv'
  <2>1. /\ blobs' = [blobs EXCEPT ![v] = Missing] /\ UNCHANGED <<pc, arg, known>>
        /\ \A w \in Writers : pc[w] \notin {"stored", "writing", "written"}
    BY <1>6 DEF LoseBlob, Idle
  <2>2. \A u \in Version : blobs'[u] = blobs[u] \/ blobs'[u] = Missing
    BY <2>1 DEF TypeOK
  <2>3. \A o \in Writers : Target(o)' = Target(o)
    BY <2>1 DEF Target
  <2>4. \A u \in Version : blobs'[u] \in {Empty, Torn} => Excused(u)'
    BY <2>1, <2>2, <2>3, MarksAreNotData DEF Excused, BlobInv
  <2>5. QED
    BY <2>1, <2>4 DEF BlobInv
<1>7. QED
  BY <1>1, <1>2, <1>3, <1>4, <1>5, <1>6 DEF Next, put

LEMMA BlobsAlways == Spec => [](SharedInv /\ BlobInv)
<1>1. SharedInv /\ BlobInv /\ [Next]_vars => BlobInv'
  BY BlobsStep
<1>2. QED
  BY <1>1, BlobsInit, SharedAlways, PTL DEF Spec

\* What ReturnedIsStored asks of a step of w.
Delivered(w) ==
  returned'[w] # returned[w] =>
    /\ returned'[w].hash = arg[w].hash
    /\ \/ blobs'[returned'[w]] = arg[w].hash
       \/ \E o \in Writers \ {w} :
            \/ pc[o] = "blob" /\ Target(o) = returned'[w] /\ blobs[Target(o)] = Empty
            \/ pc[o] = "failed" /\ blobs[returned'[w]] \in {Empty, Torn}

(***************************************************************************)
(* For any number of puts that race, die and have blobs deleted: a version *)
(* a put returns is one of its payload, and its blob is whole unless a put *)
(* died or another is still writing that very blob (ReturnedIsStored).     *)
(***************************************************************************)
THEOREM ReturnsAreStored == Spec => ReturnedIsStored
<1>1. ASSUME SharedInv, BlobInv, Next PROVE \A w \in Writers : Delivered(w)
  <2> SUFFICES ASSUME NEW w \in Writers, returned'[w] # returned[w] PROVE Delivered(w)
    BY DEF Delivered
  <2> USE <1>1 DEF SharedInv
  <2>1. ASSUME NEW v \in Version, v.hash = arg[w].hash, blobs[v] # Missing,
               blobs' = blobs, returned'[w] = v, pc[w] \notin {"blob", "failed"}
        PROVE  Delivered(w)
    <3>1. blobs[v] \in {v.hash, Empty, Torn}
      BY <2>1 DEF TypeOK
    <3>2. CASE blobs[v] = v.hash
      BY <2>1, <3>2 DEF Delivered
    <3>3. CASE blobs[v] \in {Empty, Torn}
      <4>1. PICK o \in Writers : \/ pc[o] = "blob" /\ Target(o) = v /\ blobs[v] = Empty
                                 \/ pc[o] = "failed" /\ blobs[v] \in {Empty, Torn}
        BY <3>3 DEF BlobInv, Excused
      <4>2. o \in Writers \ {w}
        BY <2>1, <4>1
      <4>3. QED
        BY <2>1, <4>1, <4>2 DEF Delivered
    <3>4. QED
      BY <3>1, <3>2, <3>3
  <2>2. CASE ReturnPrior(w)
    <3>1. /\ PriorRecord(known[w], arg[w].hash) \in Version
          /\ PriorRecord(known[w], arg[w].hash).hash = arg[w].hash
      BY <2>2, PriorRecordHasPayload DEF ReturnPrior, TypeOK
    <3>2. QED
      BY <2>1, <2>2, <3>1 DEF ReturnPrior, Return, OnDisk, TypeOK
  <2>3. CASE WriteBlob(w)
    <3>1. Target(w) \in Version /\ Target(w).hash = arg[w].hash
      BY TargetHasPayload
    <3>2. returned'[w] = Target(w) /\ blobs'[Target(w)] = arg[w].hash
      BY <2>3, <3>1 DEF WriteBlob, Return, TypeOK
    <3>3. QED
      BY <3>1, <3>2 DEF Delivered
  <2>4. CASE Replace(w)
    <3>1. pc[w] = "written" /\ returned'[w] = arg[w] /\ blobs' = blobs
      BY <2>4 DEF Replace, Return, TypeOK
    <3>2. QED
      BY <2>1, <3>1 DEF BlobInv, TypeOK
  <2>5. ReturnPrior(w) \/ WriteBlob(w) \/ Replace(w)
    BY DEF Next, put, ReadIndex, ReturnPrior, OpenBlob, WriteBlob, OpenTemp, WriteTemp,
           Replace, Crash, LoseBlob, Return, TypeOK
  <2>6. QED
    BY <2>2, <2>3, <2>4, <2>5
<1>2. ASSUME SharedInv, BlobInv, [Next]_vars
      PROVE  [\A w \in Writers : Delivered(w)]_vars
  BY <1>1, <1>2
<1>3. QED
  BY <1>2, BlobsAlways, PTL DEF Spec, ReturnedIsStored, Delivered
=============================================================================
