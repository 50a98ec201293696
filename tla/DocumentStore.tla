--------------------------- MODULE DocumentStore ---------------------------
(***************************************************************************)
(* FilesystemDocumentStore (storage/document_store.py), one document key:  *)
(* an index file rewritten through a temporary file of a fixed name and    *)
(* os.replace, and one blob file per version, written in place.  The       *)
(* writers are threads or processes in put, or a put after a restart.      *)
(*                                                                         *)
(* A file is Missing, Empty (just truncated by open), Torn (the bytes are  *)
(* not one complete document) or its content.  What a writer holds open is *)
(* a file, not a name: fd says which name its open temporary file has now. *)
(***************************************************************************)
EXTENDS Integers, Sequences, SequencesExt

CONSTANTS
  Payloads, Times,    \* as in VersionHistory
  Writers,            \* calls of put, each at most once
  Missing, Empty, Torn,
  Uses                \* how the store may be used: "single" is one put at a time,
                      \* "tidied" the same with blobs deleted by hand in between,
                      \* "shared" both puts that race and deletions

ASSUME UsesAreKnown == Uses \subseteq {"single", "tidied", "shared"}

Version == [hash : Payloads, at : Times]

ASSUME MarksAreNotData ==
  /\ Missing # Empty /\ Missing # Torn /\ Empty # Torn
  /\ {Missing, Empty, Torn} \cap (Payloads \cup Seq(Version)) = {}

VARIABLES
  index,     \* index/<key>.json
  temp,      \* index/<key>.json.tmp
  blobs,     \* Version -> blobs/<key>/<version_id>.bin
  pc,        \* where each writer is
  arg,       \* the version each writer is to put: its payload, its received_at
  known,     \* the versions each writer read from the index
  fd,        \* the name of the temporary file each writer has open
  returned,  \* the version each put returned, Missing before it does
  use        \* how this store is used; fixed at the start

vars == <<index, temp, blobs, pc, arg, known, fd, returned, use>>

\* existing.file_hash == fingerprint.sha256, for some existing version.
Known(vs, p) == \E k \in 1..Len(vs) : vs[k].hash = p

\* The first record in the index that has the payload.
PriorRecord(vs, p) ==
  vs[CHOOSE k \in 1..Len(vs) : vs[k].hash = p /\ \A j \in 1..(k - 1) : vs[j].hash # p]

Readable(f) == f \notin {Missing, Empty, Torn}

\* The test whether the path exists is dropped.
Listed_slip(f) == f

\* An index that is not there lists no versions.
Listed(f) == IF f = Missing THEN <<>> ELSE f

Init ==
  /\ index = Missing
  /\ temp = Missing
  /\ blobs = [v \in Version |-> Missing]
  /\ pc = [w \in Writers |-> "start"]
  /\ arg \in [Writers -> Version]
  /\ known = [w \in Writers |-> <<>>]
  /\ fd = [w \in Writers |-> "none"]
  /\ returned = [w \in Writers |-> Missing]
  /\ use \in Uses

Idle(w) == pc[w] \in {"start", "end", "failed"}

Goto(w, label) == pc' = [pc EXCEPT ![w] = label]

Return(w, v) == Goto(w, "end") /\ returned' = [returned EXCEPT ![w] = v]

\* What a file holds once one write to it is done: a file that another writer
\* has put bytes into keeps whatever of them is longer.
BytesOver(old, new) == IF old = Empty THEN {new} ELSE {new, Torn}

-----------------------------------------------------------------------------
\* list_versions: a file that is not JSON makes put raise.
ReadIndex(w) ==
  /\ pc[w] = "start"
  /\ use # "shared" => \A o \in Writers : Idle(o)
  /\ IF index \in {Empty, Torn}
       THEN Goto(w, "failed") /\ UNCHANGED known
       ELSE /\ Goto(w, "listed")
            /\ known' = [known EXCEPT ![w] = Listed(index)]
  /\ UNCHANGED <<index, temp, blobs, arg, fd, returned>>

\* The version is known, so its blob is taken to be there.
OnDisk_slip(v) == TRUE

\* Any file of that name counts, whatever is in it (is_file).
OnDisk(v) == blobs[v] # Missing

\* The loop over existing_versions: the idempotent return.
ReturnPrior(w) ==
  /\ pc[w] = "listed" /\ Known(known[w], arg[w].hash)
  /\ LET v == PriorRecord(known[w], arg[w].hash) IN
       /\ OnDisk(v)
       /\ Return(w, v)
  /\ UNCHANGED <<index, temp, blobs, arg, known, fd>>

\* The version whose blob the writer writes: the prior record's when its blob
\* is gone, its own when the payload is new.
Target(w) ==
  IF Known(known[w], arg[w].hash) THEN PriorRecord(known[w], arg[w].hash) ELSE arg[w]

\* write_bytes, its open: the name exists from here on, without content.
OpenBlob(w) ==
  /\ pc[w] = "listed"
  /\ Known(known[w], arg[w].hash) => ~OnDisk(Target(w))
  /\ blobs' = [blobs EXCEPT ![Target(w)] = Empty]
  /\ Goto(w, "blob")
  /\ UNCHANGED <<index, temp, arg, known, fd, returned>>

\* write_bytes, its write.  Two writers of one blob write the same bytes.
WriteBlob(w) ==
  /\ pc[w] = "blob"
  /\ blobs' = [blobs EXCEPT ![Target(w)] = arg[w].hash]
  /\ IF Known(known[w], arg[w].hash)
       THEN Return(w, Target(w))
       ELSE UNCHANGED returned /\ Goto(w, "stored")
  /\ UNCHANGED <<index, temp, arg, known, fd>>

\* The index is written in place.
OpenTemp_slip(w) ==
  /\ pc[w] = "stored"
  /\ index' = Empty
  /\ fd' = [fd EXCEPT ![w] = "index"]
  /\ Goto(w, "writing")
  /\ UNCHANGED <<temp, blobs, arg, known, returned>>

\* _write_versions: write_text truncates the temporary file it opens.
OpenTemp(w) ==
  /\ pc[w] = "stored"
  /\ temp' = Empty
  /\ fd' = [fd EXCEPT ![w] = "temp"]
  /\ Goto(w, "writing")
  /\ UNCHANGED <<index, blobs, arg, known, returned>>

\* The record is put before the versions already there.
NewIndex_slip(w) == <<arg[w]>> \o known[w]

NewIndex(w) == Append(known[w], arg[w])

\* The bytes go to the file that was opened, by whatever name it has by now.
WriteTemp(w) ==
  /\ pc[w] = "writing"
  /\ IF fd[w] = "temp" THEN temp' \in BytesOver(temp, NewIndex(w)) ELSE UNCHANGED temp
  /\ IF fd[w] = "index" THEN index' \in BytesOver(index, NewIndex(w)) ELSE UNCHANGED index
  /\ fd' = [fd EXCEPT ![w] = "none"]
  /\ Goto(w, "written")
  /\ UNCHANGED <<blobs, arg, known, returned>>

\* os.replace.  Another writer's replace may have taken the file away, and
\* then it raises; a file someone still has open is renamed under it.
Replace(w) ==
  /\ pc[w] = "written"
  /\ IF temp = Missing
       THEN Goto(w, "failed") /\ UNCHANGED <<index, temp, fd, returned>>
       ELSE /\ index' = temp
            /\ temp' = Missing
            /\ fd' = [o \in Writers |-> CASE fd[o] = "temp"  -> "index"
                                          [] fd[o] = "index" -> "gone"
                                          [] OTHER -> fd[o]]
            /\ Return(w, arg[w])
  /\ UNCHANGED <<blobs, arg, known>>

\* The process dies, or the write it is in fails and put raises: the file it
\* was writing may be cut short.
Crash(w) ==
  /\ ~Idle(w)
  /\ Goto(w, "failed")
  /\ fd' = [fd EXCEPT ![w] = "none"]
  /\ IF pc[w] = "blob"
       THEN blobs' \in {blobs, [blobs EXCEPT ![Target(w)] = IF @ = Empty THEN Torn ELSE @]}
       ELSE UNCHANGED blobs
  /\ IF fd[w] = "temp" THEN temp' \in {temp, Torn} ELSE UNCHANGED temp
  /\ IF fd[w] = "index" THEN index' \in {index, Torn} ELSE UNCHANGED index
  /\ UNCHANGED <<arg, known, returned>>

\* The manual deletion that put's comment speaks of, while no put is under way.
LoseBlob(v) ==
  /\ use # "single" /\ blobs[v] # Missing
  /\ \A w \in Writers : Idle(w)
  /\ blobs' = [blobs EXCEPT ![v] = Missing]
  /\ UNCHANGED <<index, temp, pc, arg, known, fd, returned>>

put(w) ==
  \/ ReadIndex(w) \/ ReturnPrior(w) \/ OpenBlob(w) \/ WriteBlob(w)
  \/ OpenTemp(w) \/ WriteTemp(w) \/ Replace(w)

Next ==
  /\ \/ \E w \in Writers : put(w) \/ Crash(w)
     \/ \E v \in Version : LoseBlob(v)
  /\ UNCHANGED use

Spec == Init /\ [][Next]_vars

-----------------------------------------------------------------------------
Indexed == IF Readable(index) THEN ToSet(index) ELSE {}

TypeOK ==
  /\ index \in Seq(Version) \cup {Missing, Empty, Torn}
  /\ temp \in Seq(Version) \cup {Missing, Empty, Torn}
  /\ blobs \in [Version -> Payloads \cup {Missing, Empty, Torn}]
  /\ \A v \in Version : blobs[v] \in {v.hash, Missing, Empty, Torn}
  /\ pc \in [Writers -> {"start", "listed", "blob", "stored", "writing", "written",
                         "end", "failed"}]
  /\ arg \in [Writers -> Version]
  /\ known \in [Writers -> Seq(Version)]
  /\ fd \in [Writers -> {"none", "temp", "index", "gone"}]
  /\ returned \in [Writers -> Version \cup {Missing}]
  /\ use \in Uses

NoRepeats(vs) == \A j, k \in 1..Len(vs) : vs[j].hash = vs[k].hash => j = k

(***************************************************************************)
(* An index that can be read lists each payload at most once, however many *)
(* writers raced: a stale writer drops versions, it never doubles one.     *)
(***************************************************************************)
OnePerPayload == Readable(index) => NoRepeats(index)

(***************************************************************************)
(* One put at a time: whatever crashes, the index can always be read and   *)
(* every version it lists has all its bytes, because the blob is written   *)
(* before the index names it and the index is replaced in one step.        *)
(***************************************************************************)
IndexedAreStored == use = "single" =>
  /\ index \notin {Empty, Torn}
  /\ \A v \in Indexed : blobs[v] = v.hash

\* What a reader of the index can count on, shared or not.
IndexIsSound == OnePerPayload /\ IndexedAreStored

(***************************************************************************)
(* However many puts race, die and have their blobs deleted: the version a *)
(* put returns is one of its payload, and get of it returns that payload,  *)
(* unless a put died or another is still writing that very blob.           *)
(***************************************************************************)
ReturnedIsStored ==
  [][\A w \in Writers : returned'[w] # returned[w] =>
        /\ returned'[w].hash = arg[w].hash
        /\ \/ blobs'[returned'[w]] = arg[w].hash
           \/ \E o \in Writers \ {w} :
                \/ pc[o] = "blob" /\ Target(o) = returned'[w] /\ blobs[Target(o)] = Empty
                \/ pc[o] = "failed" /\ blobs[returned'[w]] \in {Empty, Torn}]_vars

(***************************************************************************)
(* What put promises when it has to re-materialise (the comment at         *)
(* document_store.py:129): when a put returns, the version it returns is   *)
(* one of the payload it was given, and get of it returns that payload.    *)
(***************************************************************************)
ReturnedIsReadable ==
  [][\A w \in Writers : returned'[w] # returned[w] =>
        /\ returned'[w].hash = arg[w].hash
        /\ blobs'[returned'[w]] = arg[w].hash]_vars

(***************************************************************************)
(* One put at a time, no blob deleted: the files implement the history of  *)
(* VersionHistory, the replacement of the index being the step of put.     *)
(* Of a store used in another way nothing is claimed here.                 *)
(***************************************************************************)
History == INSTANCE VersionHistory WITH
             versions <- IF use = "single" THEN Listed(index) ELSE <<>>,
             content <- IF use = "single" THEN {v \in Indexed : blobs[v] = v.hash} ELSE {}

ImplementsHistory == History!Spec
=============================================================================
