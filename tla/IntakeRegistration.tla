------------------------- MODULE IntakeRegistration -------------------------
(***************************************************************************)
(* register_intake_bundle (intake/integration.py) on a database and a      *)
(* document store that outlive it: resolve who the bundle is about, take   *)
(* the package into the ingestion service, record firm and fund, then each *)
(* document in turn.  Every statement of CoreRepository commits by itself, *)
(* so a registration is a chain of small transactions in which it may      *)
(* fail, die, or meet another registration on the same database.           *)
(*                                                                         *)
(* A bundle that fails validate_intake_payload is refused before anything  *)
(* is read or written; a Bundle is a valid one.  A payload stands for its  *)
(* SHA-256; put is the step of VersionHistory, which DocumentStore         *)
(* implements.                                                             *)
(***************************************************************************)
EXTENDS Integers, Sequences

CONSTANTS
  Registrars,   \* calls of register_intake_bundle
  Services,     \* IngestionService instances
  Uses,         \* the ways the calls are made, see Use
  Packages, Documents, Payloads, Channels, Times,
  Ids,          \* firm and fund identifiers
  Names,        \* spellings of firm and fund names
  Norm,         \* normalize_entity_name, a function on Names
  Slug,         \* the identifier _stable_identifier makes of a normal name
  None,         \* Python's None, and the absence of a row
  MayCrash      \* a registration may die between two statements

ASSUME MayCrashIsBoolean == MayCrash \in BOOLEAN

\* A payload of None is a file whose bytes the content resolver cannot find.
File == [document : Documents, payload : Payloads \cup {None}]

Bundle == [package : Packages, firmId : Ids \cup {None}, fundId : Ids \cup {None},
           firmName : Names, fundName : Names, channel : Channels, at : Times,
           files : Seq(File)]

\* Whether there is one call at a time, the service each call is given, and
\* the bundles there are.
Use(bundles) == [exclusive : BOOLEAN, service_of : [Registrars -> Services],
                 bundles : {bundles}]

ASSUME UsesAreUses == \A u \in Uses : u.bundles \subseteq Bundle /\ u \in Use(u.bundles)

ASSUME NoneIsNoValue ==
  /\ None \notin Ids \cup Packages \cup Payloads
  /\ None \notin [aliases : SUBSET Names]
  /\ None \notin [firm : Ids, aliases : SUBSET Names]
  /\ None \notin [fund : Ids, hash : Payloads, channel : Channels, at : Times]

ASSUME NamesHaveIds == \A n \in Names : Slug[Norm[n]] \in Ids

Version == [hash : Payloads, at : Times]

Firm == [aliases : SUBSET Names]

Fund == [firm : Ids, aliases : SUBSET Names]

\* The fields of a row that _ensure_document_invariants compares, and received_at.
Document == [fund : Ids, hash : Payloads, channel : Channels, at : Times]

VARIABLES
  use,        \* which of the Uses this is
  firms,      \* the firms table: Ids -> Firm or None
  funds,      \* the funds table: Ids -> Fund or None
  documents,  \* the documents table: Documents -> Document or None
  store,      \* the versions under each document key (fund and document id)
  packages,   \* the packages each service has a record of
  owners,     \* _document_to_package of each service
  pc, job,    \* where each registrar is, and its bundle
  firm, fund, \* the identifiers it resolved
  held,       \* the row it read and is about to act on
  done        \* how many documents it has recorded

vars == <<use, firms, funds, documents, store, packages, owners, pc, job, firm, fund, held, done>>

service == <<packages, owners>>

identity == <<firm, fund>>

Finished == {"accepted", "ambiguous", "duplicate", "collision", "unreadable", "integrity_error",
             "dead"}

Init ==
  /\ use \in Uses
  /\ firms = [i \in Ids |-> None]
  /\ funds = [i \in Ids |-> None]
  /\ documents = [d \in Documents |-> None]
  /\ store = [k \in Ids \X Documents |-> {}]
  /\ packages = [s \in Services |-> {}]
  /\ owners = [s \in Services |-> [d \in Documents |-> None]]
  /\ pc = [r \in Registrars |-> "start"]
  /\ job \in [Registrars -> use.bundles]
  /\ firm = [r \in Registrars |-> None]
  /\ fund = [r \in Registrars |-> None]
  /\ held = [r \in Registrars |-> None]
  /\ done = [r \in Registrars |-> 0]

Idle(r) == pc[r] \in Finished \cup {"start"}

Goto(r, label) == pc' = [pc EXCEPT ![r] = label]

-----------------------------------------------------------------------------
(***************************************************************************)
(* Who the bundle is about: an explicit identifier, else the one row that  *)
(* has the name under any spelling, else an identifier made of the name.   *)
(***************************************************************************)

\* The spelling itself is made into the identifier.
Minted_slip(name) == CHOOSE i \in Ids : i = name \/ (name \notin Ids /\ i = Slug[Norm[name]])

Minted(name) == Slug[Norm[name]]

HasAlias(aliases, name) == \E a \in aliases : Norm[a] = Norm[name]

FirmMatches(name) == {i \in Ids : firms[i] # None /\ HasAlias(firms[i].aliases, name)}

FundMatches(inFirm, name) ==
  {i \in Ids : /\ funds[i] # None
               /\ funds[i].firm = inFirm
               /\ HasAlias(funds[i].aliases, name)}

Ambiguous(matches) == \E i, j \in matches : i # j

Identified(explicit, matches, name) ==
  IF explicit # None THEN explicit
  ELSE IF matches # {} THEN CHOOSE i \in matches : TRUE
  ELSE Minted(name)

ResolveFirm(r) ==
  /\ pc[r] = "start"
  /\ use.exclusive => \A o \in Registrars : Idle(o)
  /\ LET b == job[r]
         matches == FirmMatches(b.firmName)
     IN IF b.firmId = None /\ Ambiguous(matches)
          THEN Goto(r, "ambiguous") /\ UNCHANGED firm
          ELSE /\ firm' = [firm EXCEPT ![r] = Identified(b.firmId, matches, b.firmName)]
               /\ Goto(r, "resolve_fund")
  /\ UNCHANGED <<use, firms, funds, documents, store, service, job, fund, held, done>>

ResolveFund(r) ==
  /\ pc[r] = "resolve_fund"
  /\ LET b == job[r]
         matches == FundMatches(firm[r], b.fundName)
     IN IF b.fundId = None /\ Ambiguous(matches)
          THEN Goto(r, "ambiguous") /\ UNCHANGED fund
          ELSE /\ fund' = [fund EXCEPT ![r] = Identified(b.fundId, matches, b.fundName)]
               /\ Goto(r, "receive")
  /\ UNCHANGED <<use, firms, funds, documents, store, service, job, firm, held, done>>

\* receive_package: a package id or a document id the service knows, and a
\* document id twice in the bundle, are refused before anything is kept.
Receivable(s, b) ==
  /\ b.package \notin packages[s]
  /\ \A k \in 1..Len(b.files) :
       /\ owners[s][b.files[k].document] = None
       /\ \A j \in 1..(k - 1) : b.files[j].document # b.files[k].document

Receive(r) ==
  /\ pc[r] = "receive"
  /\ LET s == use.service_of[r]
         b == job[r]
     IN IF ~Receivable(s, b)
          THEN Goto(r, "duplicate") /\ UNCHANGED service
          ELSE /\ packages' = [packages EXCEPT ![s] = @ \cup {b.package}]
               /\ owners' = [owners EXCEPT ![s] =
                    [d \in Documents |-> IF \E k \in 1..Len(b.files) : b.files[k].document = d
                                           THEN b.package ELSE @[d]]]
               /\ Goto(r, "firm")
  /\ UNCHANGED <<use, firms, funds, documents, store, job, identity, held, done>>

-----------------------------------------------------------------------------
(***************************************************************************)
(* _persist_accepted_bundle: the firm, then the fund.  A row is read in    *)
(* one statement and written in another, as a whole.                       *)
(***************************************************************************)

\* get_firm; when the row is there _append_firm_alias reads it again, and that
\* second reading is the one that counts.
GetFirm(r) ==
  /\ pc[r] = "firm"
  /\ held' = [held EXCEPT ![r] = firms[firm[r]]]
  /\ Goto(r, IF firms[firm[r]] = None THEN "create_firm" ELSE "alias_firm")
  /\ UNCHANGED <<use, firms, funds, documents, store, service, job, identity, done>>

\* create_firm, or IntegrityError when another registration was faster.
CreateFirm(r) ==
  /\ pc[r] = "create_firm"
  /\ IF firms[firm[r]] # None
       THEN Goto(r, "integrity_error") /\ UNCHANGED firms
       ELSE /\ firms' = [firms EXCEPT ![firm[r]] = [aliases |-> {job[r].firmName}]]
            /\ Goto(r, "fund")
  /\ UNCHANGED <<use, funds, documents, store, service, job, identity, held, done>>

\* The new spelling takes the place of the old ones.
Merged_slip(aliases, name) == {name}

\* _merge_alias_entries.
Merged(aliases, name) == aliases \cup {name}

\* update_firm_aliases writes back what was read, with the name added.
AliasFirm(r) ==
  /\ pc[r] = "alias_firm"
  /\ firms' = IF job[r].firmName \in held[r].aliases THEN firms
              ELSE [firms EXCEPT ![firm[r]].aliases = Merged(held[r].aliases, job[r].firmName)]
  /\ Goto(r, "fund")
  /\ UNCHANGED <<use, funds, documents, store, service, job, identity, held, done>>

GetFund(r) ==
  /\ pc[r] = "fund"
  /\ held' = [held EXCEPT ![r] = funds[fund[r]]]
  /\ Goto(r, IF funds[fund[r]] = None THEN "create_fund" ELSE "merge_fund")
  /\ UNCHANGED <<use, firms, funds, documents, store, service, job, identity, done>>

CreateFund(r) ==
  /\ pc[r] = "create_fund"
  /\ IF funds[fund[r]] # None
       THEN Goto(r, "integrity_error") /\ UNCHANGED funds
       ELSE /\ funds' = [funds EXCEPT ![fund[r]] =
                          [firm |-> firm[r], aliases |-> {job[r].fundName}]]
            /\ Goto(r, "document")
  /\ UNCHANGED <<use, firms, documents, store, service, job, identity, held, done>>

\* _merge_fund keeps the name and takes the firm of the bundle.
MergeFund(r) ==
  /\ pc[r] = "merge_fund"
  /\ LET merged == [firm |-> firm[r], aliases |-> Merged(held[r].aliases, job[r].fundName)]
     IN funds' = IF merged = held[r] THEN funds ELSE [funds EXCEPT ![fund[r]] = merged]
  /\ Goto(r, "document")
  /\ UNCHANGED <<use, firms, documents, store, service, job, identity, held, done>>

-----------------------------------------------------------------------------
(***************************************************************************)
(* The documents of the bundle, one after the other.                       *)
(***************************************************************************)
Current(r) == job[r].files[done[r] + 1]

Key(r) == <<fund[r], Current(r).document>>

\* The loop over the documents ends and the result is returned.
Finish(r) ==
  /\ pc[r] = "document" /\ done[r] = Len(job[r].files)
  /\ Goto(r, "accepted")
  /\ UNCHANGED <<use, firms, funds, documents, store, service, job, identity, held, done>>

\* Only where the document went is compared, not what is in it.
SameProvenance_slip(row, r) == row.fund = fund[r]

\* _ensure_document_invariants.
SameProvenance(row, r) ==
  /\ row.fund = fund[r]
  /\ row.hash = Current(r).payload
  /\ row.channel = job[r].channel

\* The content resolver raises.
Unreadable(r) == Current(r).payload = None

\* content_resolver, get_document and, before anything is stored, the check
\* that a document id does not change its provenance.
GetDocument(r) ==
  /\ pc[r] = "document" /\ done[r] < Len(job[r].files)
  /\ LET row == documents[Current(r).document] IN
       IF Unreadable(r)
         THEN Goto(r, "unreadable") /\ UNCHANGED held
         ELSE IF row # None /\ ~SameProvenance(row, r)
           THEN Goto(r, "collision") /\ UNCHANGED held
           ELSE held' = [held EXCEPT ![r] = row] /\ Goto(r, "put")
  /\ UNCHANGED <<use, firms, funds, documents, store, service, job, identity, done>>

\* The version put returns: the one that has the payload, else a new one.
Stored(r) ==
  IF \E v \in store[Key(r)] : v.hash = Current(r).payload
    THEN CHOOSE v \in store[Key(r)] : v.hash = Current(r).payload
    ELSE [hash |-> Current(r).payload, at |-> job[r].at]

RowOf(r, v) == [fund |-> fund[r], hash |-> v.hash, channel |-> job[r].channel, at |-> v.at]

\* Every document is inserted.
Recording_slip(r) == "create_document"

\* A document that had no row when it was read is inserted, any other updated.
Recording(r) == IF held[r] = None THEN "create_document" ELSE "update_document"

\* document_store.put, and the row that will record what it returned.
Put(r) ==
  /\ pc[r] = "put"
  /\ store' = [store EXCEPT ![Key(r)] = @ \cup {Stored(r)}]
  /\ held' = [held EXCEPT ![r] = RowOf(r, Stored(r))]
  /\ Goto(r, Recording(r))
  /\ UNCHANGED <<use, firms, funds, documents, service, job, identity, done>>

\* create_document inserts, and fails on a row that is there by now;
\* update_document replaces the row it knows to be there.
RecordDocument(r) ==
  /\ pc[r] \in {"create_document", "update_document"}
  /\ IF pc[r] = "create_document" /\ documents[Current(r).document] # None
       THEN Goto(r, "integrity_error") /\ UNCHANGED <<documents, done>>
       ELSE /\ documents' = [documents EXCEPT ![Current(r).document] = held[r]]
            /\ done' = [done EXCEPT ![r] = @ + 1]
            /\ Goto(r, "document")
  /\ UNCHANGED <<use, firms, funds, store, service, job, identity, held>>

\* The process dies, or the database stays locked and the statement raises.
Crash(r) ==
  /\ MayCrash /\ ~Idle(r)
  /\ Goto(r, "dead")
  /\ UNCHANGED <<use, firms, funds, documents, store, service, job, identity, held, done>>

Resolve(r) == ResolveFirm(r) \/ ResolveFund(r) \/ Receive(r)

PersistParties(r) ==
  GetFirm(r) \/ CreateFirm(r) \/ AliasFirm(r) \/ GetFund(r) \/ CreateFund(r) \/ MergeFund(r)

PersistDocuments(r) == GetDocument(r) \/ Put(r) \/ RecordDocument(r) \/ Finish(r)

register_intake_bundle(r) == Resolve(r) \/ PersistParties(r) \/ PersistDocuments(r)

Next == \E r \in Registrars : register_intake_bundle(r) \/ Crash(r)

Spec == Init /\ [][Next]_vars

-----------------------------------------------------------------------------
TypeOK ==
  /\ use \in Uses
  /\ firms \in [Ids -> Firm \cup {None}]
  /\ funds \in [Ids -> Fund \cup {None}]
  /\ documents \in [Documents -> Document \cup {None}]
  /\ store \in [Ids \X Documents -> SUBSET Version]
  /\ packages \in [Services -> SUBSET Packages]
  /\ owners \in [Services -> [Documents -> Packages \cup {None}]]
  /\ pc \in [Registrars -> Finished \cup
       {"start", "resolve_fund", "receive", "firm", "create_firm", "alias_firm", "fund",
        "create_fund", "merge_fund", "document", "put", "create_document", "update_document"}]
  /\ job \in [Registrars -> use.bundles]
  /\ firm \in [Registrars -> Ids \cup {None}]
  /\ fund \in [Registrars -> Ids \cup {None}]
  /\ held \in [Registrars -> Firm \cup Fund \cup Document \cup {None}]
  /\ done \in [Registrars -> Nat]

(***************************************************************************)
(* Whatever registrations race or die, a row of documents names a version  *)
(* the store has, with its received_at, in a fund and a firm that have     *)
(* rows: no foreign key is ever refused and no hash ever dangles.          *)
(***************************************************************************)
RowsResolve ==
  /\ \A d \in Documents : documents[d] # None =>
       LET row == documents[d] IN
         /\ [hash |-> row.hash, at |-> row.at] \in store[<<row.fund, d>>]
         /\ funds[row.fund] # None
  /\ \A i \in Ids : funds[i] # None => firms[funds[i].firm] # None

(***************************************************************************)
(* A document id never changes its fund, its bytes or its channel once it  *)
(* has a row, although the check and the write are statements apart.       *)
(***************************************************************************)
ProvenanceIsFixed ==
  [][\A d \in Documents : documents[d] # None =>
       /\ documents'[d] # None
       /\ documents'[d].fund = documents[d].fund
       /\ documents'[d].hash = documents[d].hash
       /\ documents'[d].channel = documents[d].channel]_vars

(***************************************************************************)
(* A registration that returns accepted has recorded every one of its      *)
(* documents as the bundle has it, and nothing has replaced any of them.   *)
(***************************************************************************)
AcceptedIsRecorded ==
  \A r \in Registrars : pc[r] = "accepted" =>
    \A k \in 1..Len(job[r].files) :
      LET row == documents[job[r].files[k].document] IN
        /\ row # None
        /\ row.fund = fund[r]
        /\ row.hash = job[r].files[k].payload
        /\ row.channel = job[r].channel

(***************************************************************************)
(* One registration at a time, none dying: every version in the store is   *)
(* the one its document's row records, a re-ingest that was rejected       *)
(* included (the comment at integration.py:395).                           *)
(***************************************************************************)
NoOrphanVersion ==
  use.exclusive /\ (\A r \in Registrars : pc[r] \notin {"create_document", "update_document", "dead"}) =>
    \A k \in Ids \X Documents : \A v \in store[k] :
      /\ documents[k[2]] # None
      /\ documents[k[2]].fund = k[1]
      /\ documents[k[2]].hash = v.hash

(***************************************************************************)
(* What the database and the store say of each other, and of what was      *)
(* promised to the callers whose registration was accepted; with the types *)
(* of all three.                                                           *)
(***************************************************************************)
StoreMatchesRows == TypeOK /\ RowsResolve /\ AcceptedIsRecorded /\ NoOrphanVersion

-----------------------------------------------------------------------------
(* What a registration may be turned away for: another one's doing.          *)

\* A bundle with an explicit identifier has given it to a name of this form.
FirmPinned(normal) ==
  \E o \in Registrars : /\ job[o].firmId # None /\ firm[o] # None
                        /\ Norm[job[o].firmName] = normal

FundPinned(normal) ==
  \E o \in Registrars : /\ job[o].fundId # None /\ fund[o] # None
                        /\ Norm[job[o].fundName] = normal

\* receive_package has taken the package of o.
Received(o) ==
  /\ fund[o] # None /\ pc[o] \notin {"receive", "duplicate"}
  /\ job[o].package \in packages[use.service_of[o]]

Lists(o, d) == \E k \in 1..Len(job[o].files) : job[o].files[k].document = d

ShareDocument(o, r) == \E d \in Documents : Lists(o, d) /\ Lists(r, d)

TwoAlike(files) ==
  \E j, k \in 1..Len(files) : j # k /\ files[j].document = files[k].document

\* o has the service of r take the package, or one of the documents, before r.
Forestalls(o, r) ==
  /\ o # r /\ Received(o) /\ use.service_of[o] = use.service_of[r]
  /\ job[o].package = job[r].package \/ ShareDocument(o, r)

\* o has recorded the document r is at with another provenance.
Disagrees(o, r) ==
  /\ o # r
  /\ \E j \in 1..done[o] :
       /\ job[o].files[j].document = Current(r).document
       /\ \/ job[o].files[j].payload # Current(r).payload
          \/ job[o].channel # job[r].channel
          \/ fund[o] # fund[r]

\* o works on a row that r would insert.
Races(o, r) ==
  /\ o # r /\ Received(o)
  /\ firm[o] = firm[r] \/ fund[o] = fund[r] \/ ShareDocument(o, r)

(***************************************************************************)
(* Whatever registrations race or die, one that fails can name the cause:  *)
(* an ambiguous name was given an explicit identifier by some bundle, a    *)
(* duplicate was received before by the same service, a collision is with  *)
(* what a bundle that disagrees has recorded, an integrity error is        *)
(* another registration's of the same row, at the same time.  So a         *)
(* registration that dies leaves nothing behind that turns its repeat      *)
(* away, but for the package that the service it shares with it keeps.     *)
(***************************************************************************)
FailsOnlyForCause ==
  \A r \in Registrars :
    /\ pc[r] = "ambiguous" => \/ job[r].firmId = None /\ FirmPinned(Norm[job[r].firmName])
                              \/ job[r].fundId = None /\ FundPinned(Norm[job[r].fundName])
    /\ pc[r] = "duplicate" => TwoAlike(job[r].files) \/ \E o \in Registrars : Forestalls(o, r)
    /\ pc[r] = "collision" => \E o \in Registrars : Disagrees(o, r)
    /\ pc[r] = "unreadable" => Current(r).payload = None
    /\ pc[r] = "integrity_error" => ~use.exclusive /\ \E o \in Registrars : Races(o, r)

(***************************************************************************)
(* One registration at a time: an accepted bundle's names are on record,   *)
(* and no spelling recorded before is forgotten.                           *)
(***************************************************************************)
SpellingsAccumulate ==
  [][use.exclusive => \A i \in Ids :
       /\ firms[i] # None => firms'[i] # None /\ firms[i].aliases \subseteq firms'[i].aliases
       /\ funds[i] # None => funds'[i] # None /\ funds[i].aliases \subseteq funds'[i].aliases]_vars

(***************************************************************************)
(* What later registrations can only add to: a document's provenance under *)
(* any interleaving, the spellings of a name one registration at a time.   *)
(***************************************************************************)
HistoryIsKept == ProvenanceIsFixed /\ SpellingsAccumulate

(***************************************************************************)
(* However registrations race and whatever spellings they bring, a name    *)
(* means one firm, and one fund in a firm, unless some bundle with an      *)
(* explicit identifier gave it to that very name.  Otherwise               *)
(* _resolve_firm_id and _resolve_fund_id would refuse the name for ever    *)
(* after as an ambiguous identity.                                         *)
(***************************************************************************)
OneFirmPerName ==
  \A n \in Names :
    /\ Ambiguous(FirmMatches(n)) => FirmPinned(Norm[n])
    /\ \A i \in Ids : funds[i] # None /\ Ambiguous(FundMatches(funds[i].firm, n))
                        => FundPinned(Norm[n])

(***************************************************************************)
(* "Preserve canonical fund identity" (_merge_fund, integration.py:616): a *)
(* fund on record stays the fund of its firm.                              *)
(***************************************************************************)
FundStaysWithItsFirm ==
  [][\A i \in Ids : funds[i] # None => funds'[i].firm = funds[i].firm]_vars
=============================================================================
