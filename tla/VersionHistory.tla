--------------------------- MODULE VersionHistory ---------------------------
(***************************************************************************)
(* What a DocumentStore promises of one document key: InMemoryDocumentStore *)
(* of storage/document_store.py, whose put is one step.  A version is a    *)
(* payload and the instant it was first received; the version id is made   *)
(* of both (build_version_id), so it names the version.  A payload stands  *)
(* for its SHA-256.  DocumentStore implements this on files.               *)
(***************************************************************************)
EXTENDS Integers, Sequences

CONSTANTS Payloads,   \* file contents
          Times       \* normalised received_at values

VARIABLES versions,   \* list_versions(key)
          content     \* the versions for which exists(key, version_id) is true

vars == <<versions, content>>

Version == [hash : Payloads, at : Times]

Known(vs, p) == \E k \in 1..Len(vs) : vs[k].hash = p

\* The first record of a payload: what put returns when it is known.
PriorRecord(vs, p) ==
  vs[CHOOSE k \in 1..Len(vs) : vs[k].hash = p /\ \A j \in 1..(k - 1) : vs[j].hash # p]

Init == versions = <<>> /\ content = {}

\* An identical payload returns the prior record, whatever its timestamp.
put(p, t) ==
  /\ ~Known(versions, p)
  /\ versions' = Append(versions, [hash |-> p, at |-> t])
  /\ content' = content \cup {[hash |-> p, at |-> t]}

Next == \E p \in Payloads, t \in Times : put(p, t)

Spec == Init /\ [][Next]_vars

-----------------------------------------------------------------------------
\* One version per payload, each of them with its content.
OneVersionPerPayload ==
  /\ \A j, k \in 1..Len(versions) : versions[j].hash = versions[k].hash => j = k
  /\ content = {versions[k] : k \in 1..Len(versions)}
=============================================================================
