---------------------- MODULE IntakeRegistrationProofs ----------------------
(***************************************************************************)
(* What register_intake_bundle leaves behind, for any number of            *)
(* registrations with any bundles: under every interleaving and every      *)
(* death, rows are whole, a document keeps its provenance, a name means    *)
(* one firm and whatever fails has a cause; one at a time, versions agree  *)
(* with rows too and no spelling is lost.                                  *)
(***************************************************************************)
EXTENDS IntakeRegistration, TLAPS

Documenting == {"document", "put", "create_document", "update_document"}

AtDocument == {"put", "create_document", "update_document"}

Parties == {"firm", "create_firm", "alias_firm", "fund", "create_fund", "merge_fund"}

\* Row k of the bundle of r is in the table, as the bundle has it.
Recorded(r, k) ==
  LET row == documents[job[r].files[k].document] IN
    /\ row # None
    /\ row.fund = fund[r]
    /\ row.hash = job[r].files[k].payload
    /\ row.channel = job[r].channel

NoRepeats(files) == \A j, k \in 1..Len(files) : files[j].document = files[k].document => j = k

-----------------------------------------------------------------------------
(***************************************************************************)
(* What holds of a registration under any interleaving, by where it is.    *)
(***************************************************************************)
Known(r) ==
  /\ pc[r] = "start" => firm[r] = None /\ fund[r] = None
  /\ pc[r] = "resolve_fund" => firm[r] \in Ids /\ fund[r] = None
  /\ pc[r] \in {"receive"} \cup Parties \cup Documenting => firm[r] \in Ids /\ fund[r] \in Ids
  /\ pc[r] \in Parties \cup Documenting => NoRepeats(job[r].files)
  /\ done[r] > 0 => fund[r] \in Ids

Counted(r) ==
  /\ done[r] <= Len(job[r].files)
  /\ pc[r] \in {"start", "resolve_fund", "receive"} \cup Parties => done[r] = 0
  /\ pc[r] \in AtDocument => done[r] < Len(job[r].files) /\ Current(r).payload # None
  /\ pc[r] = "accepted" => done[r] = Len(job[r].files)

HasParties(r) ==
  /\ pc[r] \in {"alias_firm", "fund", "create_fund", "merge_fund"} \cup Documenting =>
       firms[firm[r]] # None
  /\ pc[r] \in {"merge_fund"} \cup Documenting => funds[fund[r]] # None

Expected(r) ==
  /\ documents[Current(r).document] # None
  /\ SameProvenance(documents[Current(r).document], r)

HoldsRow(r) ==
  /\ pc[r] = "alias_firm" => held[r] \in Firm
  /\ pc[r] = "merge_fund" => held[r] \in Fund
  /\ pc[r] = "put" /\ held[r] # None => Expected(r)
  /\ pc[r] = "update_document" => Expected(r)
  /\ pc[r] \in {"create_document", "update_document"} =>
       /\ held[r] \in Document
       /\ SameProvenance(held[r], r)
       /\ [hash |-> held[r].hash, at |-> held[r].at] \in store[Key(r)]

Local(r) ==
  Known(r) /\ Counted(r) /\ HasParties(r) /\ HoldsRow(r) /\ \A k \in 1..done[r] : Recorded(r, k)

\* A row was put there by a registration that counts it as done.
Author(d, o, j) ==
  /\ j \in 1..done[o]
  /\ job[o].files[j].document = d
  /\ documents[d].fund = fund[o]
  /\ documents[d].hash = job[o].files[j].payload
  /\ documents[d].channel = job[o].channel

RowsHaveAuthors ==
  \A d \in Documents : documents[d] # None => \E o \in Registrars : \E j \in 1..done[o] : Author(d, o, j)

SharedInv == TypeOK /\ RowsResolve /\ RowsHaveAuthors /\ \A r \in Registrars : Local(r)

-----------------------------------------------------------------------------
(***************************************************************************)
(* What is added when calls are made one at a time: what was read is still *)
(* there when it is acted on.                                              *)
(***************************************************************************)
OneAtATime == \A r, o \in Registrars : ~Idle(r) /\ ~Idle(o) => r = o

HeldIsCurrent(r) ==
  /\ pc[r] # "integrity_error"
  /\ pc[r] = "create_firm" => firms[firm[r]] = None
  /\ pc[r] = "alias_firm" => held[r] = firms[firm[r]]
  /\ pc[r] = "create_fund" => funds[fund[r]] = None
  /\ pc[r] = "merge_fund" => held[r] = funds[fund[r]]
  /\ pc[r] = "put" => held[r] = documents[Current(r).document]
  /\ pc[r] = "create_document" => documents[Current(r).document] = None

SerialInv ==
  use.exclusive => OneAtATime /\ \A r \in Registrars : HeldIsCurrent(r)

\* The version v under k is in the row of its document, or on its way there.
Accounted(k, v) ==
  \/ /\ documents[k[2]] # None
     /\ documents[k[2]].fund = k[1]
     /\ documents[k[2]].hash = v.hash
  \/ \E r \in Registrars : /\ pc[r] \in {"create_document", "update_document"}
                           /\ Key(r) = k /\ held[r].hash = v.hash

VersionsAccounted ==
  use.exclusive /\ (\A r \in Registrars : pc[r] # "dead") =>
    \A k \in Ids \X Documents : \A v \in store[k] : Accounted(k, v)

IInv == SharedInv /\ SerialInv /\ VersionsAccounted

\* A spelling leads to the firm, or fund, it is recorded under, unless a bundle with
\* an explicit identifier gave it to the name.
FirmLeads(name, i) == i = Slug[Norm[name]] \/ FirmPinned(Norm[name])

FundLeads(name, i) == i = Slug[Norm[name]] \/ FundPinned(Norm[name])

FirmsLead ==
  /\ \A i \in Ids : firms[i] # None => \A a \in firms[i].aliases : FirmLeads(a, i)
  /\ \A r \in Registrars :
       /\ firm[r] # None => FirmLeads(job[r].firmName, firm[r])
       /\ pc[r] = "alias_firm" => \A a \in held[r].aliases : FirmLeads(a, firm[r])

FundsLead ==
  /\ \A i \in Ids : funds[i] # None => \A a \in funds[i].aliases : FundLeads(a, i)
  /\ \A r \in Registrars :
       /\ fund[r] # None => FundLeads(job[r].fundName, fund[r])
       /\ pc[r] = "merge_fund" => \A a \in held[r].aliases : FundLeads(a, fund[r])

-----------------------------------------------------------------------------
(***************************************************************************)
(* The shape of a step of r: the others stay where they are, rows and      *)
(* versions stay, and a row keeps its provenance.                          *)
(***************************************************************************)
Same(o) ==
  /\ pc'[o] = pc[o]
  /\ firm'[o] = firm[o] /\ fund'[o] = fund[o]
  /\ held'[o] = held[o] /\ done'[o] = done[o]

Others(r) == \A o \in Registrars : o # r => Same(o)

Grows ==
  /\ job' = job /\ use' = use
  /\ \A i \in Ids : firms[i] # None => firms'[i] # None
  /\ \A i \in Ids : funds[i] # None => funds'[i] # None
  /\ \A k \in Ids \X Documents : store[k] \subseteq store'[k]
  /\ \A d \in Documents : documents[d] # None =>
       /\ documents'[d] # None
       /\ documents'[d].fund = documents[d].fund
       /\ documents'[d].hash = documents[d].hash
       /\ documents'[d].channel = documents[d].channel

StepOf(r) ==
  Others(r) /\ Grows /\ TypeOK' /\ RowsResolve' /\ RowsHaveAuthors' /\ Local(r)'

\* The bundle of a registration is one.
LEMMA JobIsBundle ==
  ASSUME TypeOK, NEW r \in Registrars
  PROVE  /\ job[r] \in Bundle
         /\ job[r].files \in Seq(File) /\ Len(job[r].files) \in Nat
         /\ \A k \in 1..Len(job[r].files) : /\ job[r].files[k].document \in Documents
                                            /\ job[r].files[k].payload \in Payloads \cup {None}
<1>1. use.bundles \subseteq Bundle
  BY UsesAreUses DEF TypeOK
<1>2. job[r] \in Bundle
  BY <1>1 DEF TypeOK
<1>3. job[r].files \in Seq(File)
  BY <1>2 DEF Bundle
<1>4. \A k \in 1..Len(job[r].files) : job[r].files[k] \in File
  BY <1>3
<1> QED  BY <1>2, <1>3, <1>4 DEF File

\* The file a registration is at, while it is at one.
LEMMA CurrentIsFile ==
  ASSUME TypeOK, NEW r \in Registrars, done[r] < Len(job[r].files)
  PROVE  /\ done[r] + 1 \in 1..Len(job[r].files)
         /\ Current(r).document \in Documents
         /\ Current(r).payload \in Payloads \cup {None}
<1>1. done[r] \in Nat /\ Len(job[r].files) \in Nat
  BY JobIsBundle DEF TypeOK
<1>2. done[r] + 1 \in 1..Len(job[r].files)
  BY <1>1
<1> QED  BY <1>2, JobIsBundle DEF Current

\* A registration that takes no step loses nothing by the step of another.
LEMMA BystanderKeeps ==
  ASSUME SharedInv, Grows, NEW o \in Registrars, Same(o)
  PROVE  Local(o)'
<1>1. Local(o) /\ TypeOK
  BY DEF SharedInv
<1>2. Known(o)'
  BY <1>1 DEF Local, Known, Same, Grows, NoRepeats
<1>3. Counted(o)'
  BY <1>1 DEF Local, Counted, Same, Grows, Current
<1>4. HasParties(o)'
  BY <1>1 DEF Local, Known, HasParties, Same, Grows, Documenting, Parties
<1>5. HoldsRow(o)'
  <2>1. ASSUME pc[o] \in AtDocument
        PROVE  /\ Current(o).document \in Documents /\ Key(o) \in Ids \X Documents
               /\ Current(o)' = Current(o) /\ Key(o)' = Key(o)
               /\ Expected(o) => Expected(o)'
               /\ SameProvenance(held[o], o) => SameProvenance(held[o], o)'
    <3>1. Current(o).document \in Documents
      BY <1>1, <2>1, CurrentIsFile DEF Local, Counted
    <3>2. fund[o] \in Ids
      BY <1>1, <2>1 DEF Local, Known, Documenting, AtDocument
    <3>3. Current(o)' = Current(o) /\ Key(o)' = Key(o) /\ job'[o] = job[o]
      BY DEF Same, Grows, Current, Key
    <3>4. Key(o) \in Ids \X Documents
      BY <3>1, <3>2 DEF Key
    <3>5. Expected(o) => Expected(o)'
      BY <3>1, <3>3 DEF Same, Grows, Expected, SameProvenance
    <3>6. SameProvenance(held[o], o) => SameProvenance(held[o], o)'
      BY <3>3 DEF Same, SameProvenance
    <3> QED  BY <3>1, <3>3, <3>4, <3>5, <3>6
  <2>2. pc'[o] = pc[o] /\ held'[o] = held[o]
    BY DEF Same
  <2>3. Key(o) \in Ids \X Documents => store[Key(o)] \subseteq store'[Key(o)]
    BY DEF Grows
  <2> QED  BY <1>1, <2>1, <2>2, <2>3 DEF Local, HoldsRow, AtDocument
<1>6. \A k \in 1..done'[o] : Recorded(o, k)'
  <2> SUFFICES ASSUME NEW k \in 1..done[o] PROVE Recorded(o, k)'
    BY DEF Same
  <2>1. k \in 1..Len(job[o].files)
    BY <1>1, JobIsBundle DEF Local, Counted, TypeOK
  <2>2. job[o].files[k].document \in Documents
    BY <1>1, <2>1, JobIsBundle
  <2>3. Recorded(o, k)
    BY <1>1 DEF Local
  <2> QED  BY <2>2, <2>3 DEF Recorded, Same, Grows
<1> QED  BY <1>2, <1>3, <1>4, <1>5, <1>6 DEF Local

LEMMA StepKeepsShared ==
  ASSUME SharedInv, NEW r \in Registrars, StepOf(r)
  PROVE  SharedInv'
<1>1. \A o \in Registrars : Local(o)'
  BY BystanderKeeps DEF StepOf, Others
<1> QED  BY <1>1 DEF StepOf, SharedInv

-----------------------------------------------------------------------------
(***************************************************************************)
(* The steps that write no row and no version.                             *)
(***************************************************************************)
Quiet(r) ==
  /\ UNCHANGED <<use, firms, funds, documents, store, job, done>>
  /\ Others(r)
  /\ done[r] > 0 => fund'[r] = fund[r]

LEMMA QuietSteps ==
  ASSUME SharedInv, NEW r \in Registrars, Quiet(r), TypeOK',
         Known(r)', Counted(r)', HasParties(r)', HoldsRow(r)'
  PROVE  StepOf(r)
<1>1. Grows
  BY DEF Quiet, Grows
<1>2. RowsResolve'
  BY DEF Quiet, SharedInv, RowsResolve
<1>3. RowsHaveAuthors'
  <2> SUFFICES ASSUME NEW d \in Documents, documents[d] # None
               PROVE  \E o \in Registrars : \E j \in 1..done'[o] : Author(d, o, j)'
    BY DEF RowsHaveAuthors, Quiet
  <2>1. PICK o \in Registrars : \E j \in 1..done[o] : Author(d, o, j)
    BY DEF SharedInv, RowsHaveAuthors
  <2>2. fund'[o] = fund[o]
    BY <2>1 DEF Quiet, Others, Same, SharedInv, TypeOK
  <2> QED  BY <2>1, <2>2 DEF Author, Quiet
<1>4. \A k \in 1..done'[r] : Recorded(r, k)'
  BY DEF Quiet, SharedInv, Local, Recorded, TypeOK
<1> QED  BY <1>1, <1>2, <1>3, <1>4 DEF StepOf, Quiet, Local

LEMMA IdentifiedIsId ==
  ASSUME NEW explicit \in Ids \cup {None}, NEW matches \in SUBSET Ids, NEW name \in Names
  PROVE  Identified(explicit, matches, name) \in Ids
BY NamesHaveIds DEF Identified, Minted

LEMMA ResolveFirmSteps ==
  ASSUME SharedInv, NEW r \in Registrars, ResolveFirm(r)
  PROVE  StepOf(r)
<1>1. pc[r] = "start" /\ Local(r) /\ TypeOK /\ done[r] = 0
  BY DEF ResolveFirm, SharedInv, Local, Counted
<1> DEFINE resolved == Identified(job[r].firmId, FirmMatches(job[r].firmName), job[r].firmName)
<1>2. resolved \in Ids
  BY <1>1, JobIsBundle, IdentifiedIsId DEF Bundle, FirmMatches
<1>3. /\ \/ pc' = [pc EXCEPT ![r] = "ambiguous"] /\ firm' = firm
         \/ pc' = [pc EXCEPT ![r] = "resolve_fund"] /\ firm' = [firm EXCEPT ![r] = resolved]
      /\ UNCHANGED <<use, firms, funds, documents, store, service, job, fund, held, done>>
  BY DEF ResolveFirm, Goto
<1> HIDE DEF resolved
<1>4. TypeOK'
  BY <1>1, <1>2, <1>3, ZenonT(60) DEF TypeOK, Finished, service
<1>5. Quiet(r)
  BY <1>1, <1>3 DEF TypeOK, Quiet, Others, Same
<1>6. /\ pc'[r] \in {"ambiguous", "resolve_fund"}
      /\ pc'[r] = "resolve_fund" => firm'[r] \in Ids
      /\ fund'[r] = None /\ done'[r] = 0
  BY <1>1, <1>2, <1>3 DEF TypeOK, Local, Known
<1>7. Known(r)' /\ Counted(r)' /\ HasParties(r)' /\ HoldsRow(r)'
  BY <1>1, <1>3, <1>6, JobIsBundle
     DEF Known, Counted, HasParties, HoldsRow, Parties, Documenting, AtDocument
<1> QED  BY <1>4, <1>5, <1>7, QuietSteps

LEMMA ResolveFundSteps ==
  ASSUME SharedInv, NEW r \in Registrars, ResolveFund(r)
  PROVE  StepOf(r)
<1>1. pc[r] = "resolve_fund" /\ Local(r) /\ TypeOK /\ done[r] = 0 /\ firm[r] \in Ids
  BY DEF ResolveFund, SharedInv, Local, Counted, Known
<1> DEFINE resolved == Identified(job[r].fundId, FundMatches(firm[r], job[r].fundName),
                                  job[r].fundName)
<1>2. resolved \in Ids
  BY <1>1, JobIsBundle, IdentifiedIsId DEF Bundle, FundMatches
<1>3. /\ \/ pc' = [pc EXCEPT ![r] = "ambiguous"] /\ fund' = fund
         \/ pc' = [pc EXCEPT ![r] = "receive"] /\ fund' = [fund EXCEPT ![r] = resolved]
      /\ UNCHANGED <<use, firms, funds, documents, store, service, job, firm, held, done>>
  BY DEF ResolveFund, Goto
<1> HIDE DEF resolved
<1>4. TypeOK'
  BY <1>1, <1>2, <1>3, ZenonT(60) DEF TypeOK, Finished, service
<1>5. Quiet(r)
  BY <1>1, <1>3 DEF TypeOK, Quiet, Others, Same
<1>6. /\ pc'[r] \in {"ambiguous", "receive"}
      /\ pc'[r] = "receive" => fund'[r] \in Ids
      /\ firm'[r] \in Ids /\ done'[r] = 0
  BY <1>1, <1>2, <1>3 DEF TypeOK
<1>7. Known(r)' /\ Counted(r)' /\ HasParties(r)' /\ HoldsRow(r)'
  BY <1>1, <1>3, <1>6, JobIsBundle
     DEF Known, Counted, HasParties, HoldsRow, Parties, Documenting, AtDocument
<1> QED  BY <1>4, <1>5, <1>7, QuietSteps

\* What receive_package refuses is a bundle with a document in it twice.
LEMMA ReceivableHasNoRepeats ==
  ASSUME TypeOK, NEW r \in Registrars, NEW s, Receivable(s, job[r])
  PROVE  NoRepeats(job[r].files)
<1> SUFFICES ASSUME NEW j \in 1..Len(job[r].files), NEW k \in 1..Len(job[r].files), j # k
             PROVE  job[r].files[j].document # job[r].files[k].document
  BY DEF NoRepeats
<1>1. j \in 1..(k - 1) \/ k \in 1..(j - 1)
  BY JobIsBundle
<1> QED  BY <1>1 DEF Receivable

LEMMA ReceiveSteps ==
  ASSUME SharedInv, NEW r \in Registrars, Receive(r)
  PROVE  StepOf(r)
<1>1. /\ pc[r] = "receive" /\ Local(r) /\ TypeOK /\ done[r] = 0
      /\ firm[r] \in Ids /\ fund[r] \in Ids
  BY DEF Receive, SharedInv, Local, Counted, Known
<1> DEFINE s == use.service_of[r]
           b == job[r]
           owned == [d \in Documents |-> IF \E k \in 1..Len(b.files) : b.files[k].document = d
                                           THEN b.package ELSE owners[s][d]]
<1>2. /\ \/ pc' = [pc EXCEPT ![r] = "duplicate"] /\ packages' = packages /\ owners' = owners
         \/ /\ Receivable(s, b)
            /\ pc' = [pc EXCEPT ![r] = "firm"]
            /\ packages' = [packages EXCEPT ![s] = packages[s] \cup {b.package}]
            /\ owners' = [owners EXCEPT ![s] = owned]
      /\ UNCHANGED <<use, firms, funds, documents, store, job, identity, held, done>>
  BY DEF Receive, Goto, service
<1>3. s \in Services /\ b.package \in Packages
  BY <1>1, UsesAreUses, JobIsBundle DEF TypeOK, Use, Bundle
<1>3a. owned \in [Documents -> Packages \cup {None}] /\ packages[s] \cup {b.package} \subseteq Packages
  BY <1>1, <1>3 DEF TypeOK
<1> HIDE DEF s, b, owned
<1>4. packages' \in [Services -> SUBSET Packages]
  BY <1>1, <1>2, <1>3, <1>3a DEF TypeOK
<1>5. owners' \in [Services -> [Documents -> Packages \cup {None}]]
  BY <1>1, <1>2, <1>3, <1>3a DEF TypeOK
<1>6. TypeOK'
  BY <1>1, <1>2, <1>4, <1>5 DEF TypeOK, Finished, identity
<1>7. Quiet(r)
  BY <1>1, <1>2 DEF TypeOK, Quiet, Others, Same, identity
<1>8. /\ pc'[r] \in {"duplicate", "firm"}
      /\ pc'[r] = "firm" => NoRepeats(job[r].files)
      /\ firm'[r] \in Ids /\ fund'[r] \in Ids /\ done'[r] = 0
  BY <1>1, <1>2, ReceivableHasNoRepeats DEF TypeOK, identity, b
<1>9. Known(r)' /\ Counted(r)' /\ HasParties(r)' /\ HoldsRow(r)'
  BY <1>1, <1>2, <1>8, JobIsBundle
     DEF Known, Counted, HasParties, HoldsRow, Parties, Documenting, AtDocument
<1> QED  BY <1>6, <1>7, <1>9, QuietSteps

LEMMA GetFirmSteps ==
  ASSUME SharedInv, NEW r \in Registrars, GetFirm(r)
  PROVE  StepOf(r)
<1>1. /\ pc[r] = "firm" /\ Local(r) /\ TypeOK /\ done[r] = 0
      /\ firm[r] \in Ids /\ fund[r] \in Ids /\ NoRepeats(job[r].files)
  BY DEF GetFirm, SharedInv, Local, Counted, Known, Parties
<1> DEFINE row == firms[firm[r]]
<1>2. /\ \/ row = None /\ pc' = [pc EXCEPT ![r] = "create_firm"]
         \/ row # None /\ pc' = [pc EXCEPT ![r] = "alias_firm"]
      /\ held' = [held EXCEPT ![r] = row]
      /\ UNCHANGED <<use, firms, funds, documents, store, service, job, identity, done>>
  BY DEF GetFirm, Goto
<1>3. row \in Firm \cup {None}
  BY <1>1 DEF TypeOK
<1> HIDE DEF row
<1>4. TypeOK'
  BY <1>1, <1>2, <1>3 DEF TypeOK, service, identity
<1>5. Quiet(r)
  BY <1>1, <1>2 DEF TypeOK, Quiet, Others, Same, identity
<1>6. /\ pc'[r] \in {"create_firm", "alias_firm"}
      /\ pc'[r] = "alias_firm" => held'[r] \in Firm /\ firms'[firm'[r]] # None
      /\ firm'[r] \in Ids /\ fund'[r] \in Ids /\ done'[r] = 0 /\ NoRepeats(job'[r].files)
  BY <1>1, <1>2, <1>3 DEF TypeOK, identity, row
<1>7. Known(r)' /\ Counted(r)' /\ HasParties(r)' /\ HoldsRow(r)'
  BY <1>1, <1>2, <1>6, JobIsBundle
     DEF Known, Counted, HasParties, HoldsRow, Parties, Documenting, AtDocument, NoRepeats
<1> QED  BY <1>4, <1>5, <1>7, QuietSteps

LEMMA GetFundSteps ==
  ASSUME SharedInv, NEW r \in Registrars, GetFund(r)
  PROVE  StepOf(r)
<1>1. /\ pc[r] = "fund" /\ Local(r) /\ TypeOK /\ done[r] = 0 /\ firms[firm[r]] # None
      /\ firm[r] \in Ids /\ fund[r] \in Ids /\ NoRepeats(job[r].files)
  BY DEF GetFund, SharedInv, Local, Counted, Known, HasParties, Parties
<1> DEFINE row == funds[fund[r]]
<1>2. /\ \/ row = None /\ pc' = [pc EXCEPT ![r] = "create_fund"]
         \/ row # None /\ pc' = [pc EXCEPT ![r] = "merge_fund"]
      /\ held' = [held EXCEPT ![r] = row]
      /\ UNCHANGED <<use, firms, funds, documents, store, service, job, identity, done>>
  BY DEF GetFund, Goto
<1>3. row \in Fund \cup {None}
  BY <1>1 DEF TypeOK
<1> HIDE DEF row
<1>4. TypeOK'
  BY <1>1, <1>2, <1>3 DEF TypeOK, service, identity
<1>5. Quiet(r)
  BY <1>1, <1>2 DEF TypeOK, Quiet, Others, Same, identity
<1>6. /\ pc'[r] \in {"create_fund", "merge_fund"}
      /\ pc'[r] = "merge_fund" => held'[r] \in Fund /\ funds'[fund'[r]] # None
      /\ firms'[firm'[r]] # None
      /\ firm'[r] \in Ids /\ fund'[r] \in Ids /\ done'[r] = 0 /\ NoRepeats(job'[r].files)
  BY <1>1, <1>2, <1>3 DEF TypeOK, identity, row
<1>7. Known(r)' /\ Counted(r)' /\ HasParties(r)' /\ HoldsRow(r)'
  BY <1>1, <1>2, <1>6, JobIsBundle
     DEF Known, Counted, HasParties, HoldsRow, Parties, Documenting, AtDocument, NoRepeats
<1> QED  BY <1>4, <1>5, <1>7, QuietSteps

LEMMA GetDocumentSteps ==
  ASSUME SharedInv, NEW r \in Registrars, GetDocument(r)
  PROVE  StepOf(r)
<1>1. /\ pc[r] = "document" /\ Local(r) /\ TypeOK /\ done[r] < Len(job[r].files)
      /\ firms[firm[r]] # None /\ funds[fund[r]] # None
      /\ firm[r] \in Ids /\ fund[r] \in Ids /\ NoRepeats(job[r].files)
  BY DEF GetDocument, SharedInv, Local, Known, HasParties, Documenting
<1> DEFINE row == documents[Current(r).document]
<1>2. /\ \/ pc' = [pc EXCEPT ![r] = "unreadable"] /\ held' = held
         \/ pc' = [pc EXCEPT ![r] = "collision"] /\ held' = held
         \/ /\ pc' = [pc EXCEPT ![r] = "put"] /\ held' = [held EXCEPT ![r] = row]
            /\ Current(r).payload # None /\ (row # None => SameProvenance(row, r))
      /\ UNCHANGED <<use, firms, funds, documents, store, service, job, identity, done>>
  BY DEF GetDocument, Goto, Unreadable
<1>3. row \in Document \cup {None}
  BY <1>1, CurrentIsFile DEF TypeOK
<1> HIDE DEF row
<1>4. TypeOK'
  <2>1. held' \in [Registrars -> Firm \cup Fund \cup Document \cup {None}]
    BY <1>1, <1>2, <1>3 DEF TypeOK
  <2> QED  BY <1>1, <1>2, <2>1 DEF TypeOK, service, identity, Finished
<1>5. Quiet(r)
  BY <1>1, <1>2 DEF TypeOK, Quiet, Others, Same, identity
<1>6. Current(r)' = Current(r) /\ (Expected(r) => Expected(r)')
  BY <1>2 DEF Current, Expected, SameProvenance, identity
<1>7. /\ pc'[r] \in {"unreadable", "collision", "put"}
      /\ pc'[r] = "put" => /\ Current(r)'.payload # None
                           /\ held'[r] # None => Expected(r)'
      /\ firms'[firm'[r]] # None /\ funds'[fund'[r]] # None
      /\ firm'[r] \in Ids /\ fund'[r] \in Ids /\ done'[r] = done[r]
  BY <1>1, <1>2, <1>6 DEF TypeOK, identity, row, Expected
<1>8. job' = job /\ NoRepeats(job'[r].files)
  BY <1>1, <1>2 DEF NoRepeats
<1>9. Known(r)' /\ Counted(r)' /\ HasParties(r)' /\ HoldsRow(r)'
  <2>1. done'[r] < Len(job'[r].files)
    BY <1>1, <1>7, <1>8
  <2>2. Known(r)' /\ HasParties(r)' /\ HoldsRow(r)'
    BY <1>7, <1>8 DEF Known, HasParties, HoldsRow, Parties, Documenting
  <2>3. Counted(r)'
    BY <1>1, <1>7, <1>8, <2>1, JobIsBundle DEF TypeOK, Counted, AtDocument, Parties
  <2> QED  BY <2>2, <2>3
<1> QED  BY <1>4, <1>5, <1>9, QuietSteps

LEMMA FinishSteps ==
  ASSUME SharedInv, NEW r \in Registrars, Finish(r)
  PROVE  StepOf(r)
<1>1. /\ pc[r] = "document" /\ Local(r) /\ TypeOK /\ done[r] = Len(job[r].files)
      /\ fund[r] \in Ids
  BY DEF Finish, SharedInv, Local, Known, Documenting
<1>2. /\ pc' = [pc EXCEPT ![r] = "accepted"]
      /\ UNCHANGED <<use, firms, funds, documents, store, service, job, identity, held, done>>
  BY DEF Finish, Goto
<1>3. TypeOK'
  BY <1>1, <1>2 DEF TypeOK, service, identity, Finished
<1>4. Quiet(r)
  BY <1>1, <1>2 DEF TypeOK, Quiet, Others, Same, identity
<1>5. pc'[r] = "accepted" /\ fund'[r] \in Ids /\ done'[r] = Len(job'[r].files)
  BY <1>1, <1>2 DEF TypeOK, identity
<1>6. Known(r)' /\ Counted(r)' /\ HasParties(r)' /\ HoldsRow(r)'
  BY <1>1, <1>5, JobIsBundle
     DEF Known, Counted, HasParties, HoldsRow, Parties, Documenting, AtDocument, TypeOK
<1> QED  BY <1>3, <1>4, <1>6, QuietSteps

LEMMA CrashSteps ==
  ASSUME SharedInv, NEW r \in Registrars, Crash(r)
  PROVE  StepOf(r)
<1>1. Local(r) /\ TypeOK
  BY DEF SharedInv
<1>2. /\ pc' = [pc EXCEPT ![r] = "dead"]
      /\ UNCHANGED <<use, firms, funds, documents, store, service, job, identity, held, done>>
  BY DEF Crash, Goto
<1>3. TypeOK'
  BY <1>1, <1>2 DEF TypeOK, service, identity, Finished
<1>4. Quiet(r)
  BY <1>1, <1>2 DEF TypeOK, Quiet, Others, Same, identity
<1>5. pc'[r] = "dead" /\ fund'[r] = fund[r] /\ done'[r] = done[r] /\ job' = job
  BY <1>1, <1>2 DEF TypeOK, identity
<1>6. Known(r)' /\ Counted(r)' /\ HasParties(r)' /\ HoldsRow(r)'
  BY <1>1, <1>5
     DEF Local, Known, Counted, HasParties, HoldsRow, Parties, Documenting, AtDocument
<1> QED  BY <1>3, <1>4, <1>6, QuietSteps

-----------------------------------------------------------------------------
(***************************************************************************)
(* The steps that write a firm or a fund.                                  *)
(***************************************************************************)
Party(r) ==
  /\ UNCHANGED <<use, documents, store, job, done, firm, fund, held>>
  /\ Others(r)
  /\ \A i \in Ids : firms[i] # None => firms'[i] # None
  /\ \A i \in Ids : funds[i] # None => funds'[i] # None

FundsHaveFirms == \A i \in Ids : funds[i] # None => firms[funds[i].firm] # None

LEMMA PartySteps ==
  ASSUME SharedInv, NEW r \in Registrars, Party(r), pc[r] \in Parties, TypeOK', FundsHaveFirms',
         \/ pc'[r] = "integrity_error"
         \/ pc'[r] = "fund" /\ firms'[firm[r]] # None
         \/ pc'[r] = "document" /\ firms'[firm[r]] # None /\ funds'[fund[r]] # None
  PROVE  StepOf(r)
<1>1. Local(r) /\ TypeOK /\ done[r] = 0 /\ firm[r] \in Ids /\ fund[r] \in Ids
      /\ NoRepeats(job[r].files)
  BY DEF SharedInv, Local, Counted, Known
<1>2. Grows
  BY DEF Party, Grows
<1>3. RowsResolve'
  BY DEF Party, SharedInv, RowsResolve, FundsHaveFirms, TypeOK, Document
<1>4. RowsHaveAuthors'
  BY DEF Party, SharedInv, RowsHaveAuthors, Author
<1>5. Known(r)' /\ Counted(r)' /\ HasParties(r)' /\ HoldsRow(r)'
  BY <1>1, JobIsBundle
     DEF Party, Known, Counted, HasParties, HoldsRow, Parties, Documenting, AtDocument, NoRepeats
<1>6. \A k \in 1..done'[r] : Recorded(r, k)'
  BY <1>1 DEF Party
<1> QED  BY <1>2, <1>3, <1>4, <1>5, <1>6 DEF StepOf, Local, Party

LEMMA CreateFirmSteps ==
  ASSUME SharedInv, NEW r \in Registrars, CreateFirm(r)
  PROVE  StepOf(r)
<1>1. /\ pc[r] = "create_firm" /\ pc[r] \in Parties /\ TypeOK
      /\ firm[r] \in Ids /\ FundsHaveFirms /\ job[r].firmName \in Names
  BY JobIsBundle
     DEF CreateFirm, SharedInv, Local, Known, Parties, RowsResolve, FundsHaveFirms, Bundle
<1> DEFINE new == [aliases |-> {job[r].firmName}]
<1>2. new \in Firm /\ new # None
  BY <1>1, NoneIsNoValue DEF Firm
<1> HIDE DEF new
<1>3. /\ UNCHANGED <<use, funds, documents, store, service, job, identity, held, done>>
      /\ \/ pc' = [pc EXCEPT ![r] = "integrity_error"] /\ firms' = firms
         \/ /\ firms[firm[r]] = None
            /\ pc' = [pc EXCEPT ![r] = "fund"] /\ firms' = [firms EXCEPT ![firm[r]] = new]
  BY DEF CreateFirm, Goto, new
<1>4. firms' \in [Ids -> Firm \cup {None}] /\ \A i \in Ids : firms[i] # None => firms'[i] # None
  BY <1>1, <1>2, <1>3 DEF TypeOK
<1>5. TypeOK'
  BY <1>1, <1>3, <1>4 DEF TypeOK, service, identity, Finished
<1>6. Party(r)
  BY <1>1, <1>3, <1>4 DEF TypeOK, Party, Others, Same, identity
<1>7. \/ pc'[r] = "integrity_error"
      \/ pc'[r] = "fund" /\ firms'[firm[r]] # None
  BY <1>1, <1>2, <1>3 DEF TypeOK
<1>8. FundsHaveFirms'
  BY <1>1, <1>3, <1>4 DEF FundsHaveFirms, TypeOK, Fund
<1> QED  BY <1>1, <1>5, <1>6, <1>7, <1>8, PartySteps

LEMMA AliasFirmSteps ==
  ASSUME SharedInv, NEW r \in Registrars, AliasFirm(r)
  PROVE  StepOf(r)
<1>1. /\ pc[r] = "alias_firm" /\ pc[r] \in Parties /\ TypeOK
      /\ firm[r] \in Ids /\ FundsHaveFirms /\ job[r].firmName \in Names
      /\ firms[firm[r]] # None /\ held[r] \in Firm
  BY JobIsBundle
     DEF AliasFirm, SharedInv, Local, Known, HasParties, HoldsRow, Parties, RowsResolve,
         FundsHaveFirms, Bundle
<1> DEFINE new == [firms[firm[r]] EXCEPT !.aliases = Merged(held[r].aliases, job[r].firmName)]
<1>2. new \in Firm /\ new # None
  BY <1>1, NoneIsNoValue DEF TypeOK, Firm, Merged
<1> HIDE DEF new
<1>3. /\ UNCHANGED <<use, funds, documents, store, service, job, identity, held, done>>
      /\ pc' = [pc EXCEPT ![r] = "fund"]
      /\ firms' = firms \/ firms' = [firms EXCEPT ![firm[r]] = new]
  BY <1>1 DEF AliasFirm, Goto, new, TypeOK
<1>4. firms' \in [Ids -> Firm \cup {None}] /\ \A i \in Ids : firms[i] # None => firms'[i] # None
  BY <1>1, <1>2, <1>3 DEF TypeOK
<1>5. TypeOK'
  BY <1>1, <1>3, <1>4 DEF TypeOK, service, identity
<1>6. Party(r)
  BY <1>1, <1>3, <1>4 DEF TypeOK, Party, Others, Same, identity
<1>7. pc'[r] = "fund" /\ firms'[firm[r]] # None
  BY <1>1, <1>3, <1>4 DEF TypeOK
<1>8. FundsHaveFirms'
  BY <1>1, <1>3, <1>4 DEF FundsHaveFirms, TypeOK, Fund
<1> QED  BY <1>1, <1>5, <1>6, <1>7, <1>8, PartySteps

LEMMA CreateFundSteps ==
  ASSUME SharedInv, NEW r \in Registrars, CreateFund(r)
  PROVE  StepOf(r)
<1>1. /\ pc[r] = "create_fund" /\ pc[r] \in Parties /\ TypeOK /\ firms[firm[r]] # None
      /\ firm[r] \in Ids /\ fund[r] \in Ids /\ FundsHaveFirms /\ job[r].fundName \in Names
  BY JobIsBundle
     DEF CreateFund, SharedInv, Local, Known, HasParties, Parties, RowsResolve, FundsHaveFirms,
         Bundle
<1> DEFINE new == [firm |-> firm[r], aliases |-> {job[r].fundName}]
<1>2. new \in Fund /\ new # None /\ new.firm = firm[r]
  BY <1>1, NoneIsNoValue DEF Fund
<1> HIDE DEF new
<1>3. /\ UNCHANGED <<use, firms, documents, store, service, job, identity, held, done>>
      /\ \/ pc' = [pc EXCEPT ![r] = "integrity_error"] /\ funds' = funds
         \/ /\ funds[fund[r]] = None
            /\ pc' = [pc EXCEPT ![r] = "document"] /\ funds' = [funds EXCEPT ![fund[r]] = new]
  BY DEF CreateFund, Goto, new
<1>4. funds' \in [Ids -> Fund \cup {None}] /\ \A i \in Ids : funds[i] # None => funds'[i] # None
  BY <1>1, <1>2, <1>3 DEF TypeOK
<1>5. TypeOK'
  BY <1>1, <1>3, <1>4 DEF TypeOK, service, identity, Finished
<1>6. Party(r)
  BY <1>1, <1>3, <1>4 DEF TypeOK, Party, Others, Same, identity
<1>7. \/ pc'[r] = "integrity_error"
      \/ pc'[r] = "document" /\ firms'[firm[r]] # None /\ funds'[fund[r]] # None
  BY <1>1, <1>2, <1>3 DEF TypeOK
<1>8. FundsHaveFirms'
  BY <1>1, <1>2, <1>3 DEF FundsHaveFirms, TypeOK, Fund
<1> QED  BY <1>1, <1>5, <1>6, <1>7, <1>8, PartySteps

LEMMA MergeFundSteps ==
  ASSUME SharedInv, NEW r \in Registrars, MergeFund(r)
  PROVE  StepOf(r)
<1>1. /\ pc[r] = "merge_fund" /\ pc[r] \in Parties /\ TypeOK /\ firms[firm[r]] # None
      /\ firm[r] \in Ids /\ fund[r] \in Ids /\ FundsHaveFirms /\ job[r].fundName \in Names
      /\ funds[fund[r]] # None /\ held[r] \in Fund
  BY JobIsBundle
     DEF MergeFund, SharedInv, Local, Known, HasParties, HoldsRow, Parties, RowsResolve,
         FundsHaveFirms, Bundle
<1> DEFINE new == [firm |-> firm[r], aliases |-> Merged(held[r].aliases, job[r].fundName)]
<1>2. new \in Fund /\ new # None /\ new.firm = firm[r]
  BY <1>1, NoneIsNoValue DEF Fund, Merged
<1> HIDE DEF new
<1>3. /\ UNCHANGED <<use, firms, documents, store, service, job, identity, held, done>>
      /\ pc' = [pc EXCEPT ![r] = "document"]
      /\ funds' = funds \/ funds' = [funds EXCEPT ![fund[r]] = new]
  BY DEF MergeFund, Goto, new
<1>4. funds' \in [Ids -> Fund \cup {None}] /\ \A i \in Ids : funds[i] # None => funds'[i] # None
  BY <1>1, <1>2, <1>3 DEF TypeOK
<1>5. TypeOK'
  BY <1>1, <1>3, <1>4 DEF TypeOK, service, identity
<1>6. Party(r)
  BY <1>1, <1>3, <1>4 DEF TypeOK, Party, Others, Same, identity
<1>7. pc'[r] = "document" /\ firms'[firm[r]] # None /\ funds'[fund[r]] # None
  BY <1>1, <1>3, <1>4 DEF TypeOK
<1>8. FundsHaveFirms'
  BY <1>1, <1>2, <1>3 DEF FundsHaveFirms, TypeOK, Fund
<1> QED  BY <1>1, <1>5, <1>6, <1>7, <1>8, PartySteps

-----------------------------------------------------------------------------
(***************************************************************************)
(* The steps that write a version or a document.                           *)
(***************************************************************************)
LEMMA StoredIsThePayload ==
  ASSUME TypeOK, NEW r \in Registrars, Key(r) \in Ids \X Documents, Current(r).payload \in Payloads
  PROVE  Stored(r) \in Version /\ Stored(r).hash = Current(r).payload
<1>1. store[Key(r)] \subseteq Version /\ job[r].at \in Times
  BY JobIsBundle DEF TypeOK, Bundle
<1>2. CASE \E v \in store[Key(r)] : v.hash = Current(r).payload
  BY <1>1, <1>2 DEF Stored
<1>3. CASE ~\E v \in store[Key(r)] : v.hash = Current(r).payload
  BY <1>1, <1>3 DEF Stored, Version
<1> QED  BY <1>2, <1>3

\* A registration at a document knows its file and its fund.
LEMMA AtDocumentFacts ==
  ASSUME SharedInv, NEW r \in Registrars, pc[r] \in AtDocument
  PROVE  /\ TypeOK /\ Local(r) /\ done[r] < Len(job[r].files) /\ done[r] + 1 \in 1..Len(job[r].files)
         /\ firm[r] \in Ids /\ fund[r] \in Ids /\ NoRepeats(job[r].files)
         /\ firms[firm[r]] # None /\ funds[fund[r]] # None
         /\ Current(r).document \in Documents /\ Current(r).payload \in Payloads
         /\ Key(r) \in Ids \X Documents /\ Key(r) = <<fund[r], Current(r).document>>
         /\ job[r].channel \in Channels
<1>1. /\ TypeOK /\ Local(r) /\ done[r] < Len(job[r].files) /\ Current(r).payload # None
      /\ firm[r] \in Ids /\ fund[r] \in Ids /\ NoRepeats(job[r].files)
      /\ firms[firm[r]] # None /\ funds[fund[r]] # None
  BY DEF SharedInv, Local, Known, Counted, HasParties, AtDocument, Documenting
<1> QED  BY <1>1, CurrentIsFile, JobIsBundle DEF Key, Bundle

LEMMA PutSteps ==
  ASSUME SharedInv, NEW r \in Registrars, Put(r)
  PROVE  StepOf(r)
<1>1. pc[r] = "put" /\ pc[r] \in AtDocument
  BY DEF Put, AtDocument
<1> DEFINE v == Stored(r)
           row == RowOf(r, v)
           key == Key(r)
<1>2. /\ v \in Version /\ row \in Document /\ SameProvenance(row, r)
      /\ v = [hash |-> row.hash, at |-> row.at]
  BY <1>1, AtDocumentFacts, StoredIsThePayload DEF RowOf, Document, Version, SameProvenance
<1>3. /\ UNCHANGED <<use, firms, funds, documents, service, job, identity, done>>
      /\ store' = [store EXCEPT ![key] = store[key] \cup {v}]
      /\ held' = [held EXCEPT ![r] = row]
      /\ \/ pc' = [pc EXCEPT ![r] = "create_document"]
         \/ pc' = [pc EXCEPT ![r] = "update_document"] /\ held[r] # None
  BY DEF Put, Goto, Recording
<1>4. key \in Ids \X Documents
  BY <1>1, AtDocumentFacts
<1> HIDE DEF v, row, key
<1>5. TypeOK'
  <2>1. TypeOK
    BY DEF SharedInv
  <2>2. store' \in [Ids \X Documents -> SUBSET Version]
    BY <1>2, <1>3, <1>4, <2>1 DEF TypeOK
  <2>3. held' \in [Registrars -> Firm \cup Fund \cup Document \cup {None}]
    BY <1>2, <1>3, <2>1 DEF TypeOK
  <2> QED  BY <1>3, <2>1, <2>2, <2>3 DEF TypeOK, service, identity
<1>6. Others(r)
  BY <1>3 DEF Others, Same, identity, SharedInv, TypeOK
<1>7. (\A k \in Ids \X Documents : store[k] \subseteq store'[k]) /\ v \in store'[key]
  BY <1>3, <1>4 DEF SharedInv, TypeOK
<1>8. Grows
  BY <1>3, <1>7 DEF Grows
<1>9. RowsResolve'
  <2>1. \A d \in Documents : documents[d] # None => <<documents[d].fund, d>> \in Ids \X Documents
    BY DEF SharedInv, TypeOK, Document
  <2> QED  BY <1>3, <1>7, <2>1 DEF RowsResolve, SharedInv
<1>10. RowsHaveAuthors'
  BY <1>3 DEF SharedInv, RowsHaveAuthors, Author, identity
<1>11. Current(r)' = Current(r) /\ Key(r)' = key
  BY <1>3 DEF Current, Key, identity, key
<1>12. Known(r)' /\ Counted(r)' /\ HasParties(r)'
  <2>1. /\ pc'[r] \in {"create_document", "update_document"}
        /\ job' = job /\ done' = done /\ firm' = firm /\ fund' = fund
        /\ firms' = firms /\ funds' = funds
    BY <1>3 DEF SharedInv, TypeOK, identity
  <2>2. /\ done[r] < Len(job[r].files) /\ Current(r).payload # None
        /\ firm[r] \in Ids /\ fund[r] \in Ids /\ NoRepeats(job[r].files)
        /\ firms[firm[r]] # None /\ funds[fund[r]] # None
    BY <1>1, AtDocumentFacts, NoneIsNoValue
  <2>3. NoRepeats(job'[r].files)
    BY <2>1, <2>2 DEF NoRepeats
  <2>4. Known(r)' /\ HasParties(r)'
    BY <2>1, <2>2, <2>3 DEF Known, HasParties, Documenting, Parties
  <2>5. Counted(r)'
    BY <1>11, <2>1, <2>2, JobIsBundle DEF Counted, Parties, AtDocument, SharedInv, TypeOK
  <2> QED  BY <2>4, <2>5
<1>13. HoldsRow(r)'
  <2>1. held'[r] = row /\ pc'[r] \in {"create_document", "update_document"}
    BY <1>3 DEF SharedInv, TypeOK
  <2>2. pc'[r] = "update_document" => Expected(r)
    BY <1>1, <1>3 DEF SharedInv, Local, HoldsRow, TypeOK
  <2>3. Expected(r) => Expected(r)'
    BY <1>3, <1>11 DEF Expected, SameProvenance, identity
  <2>4. SameProvenance(held[r], r)'
    BY <1>2, <1>3, <1>11, <2>1 DEF SameProvenance, identity
  <2> QED  BY <1>2, <1>7, <1>11, <2>1, <2>2, <2>3, <2>4 DEF HoldsRow
<1>14. \A k \in 1..done'[r] : Recorded(r, k)'
  BY <1>3 DEF SharedInv, Local, Recorded, identity
<1> QED  BY <1>5, <1>6, <1>8, <1>9, <1>10, <1>12, <1>13, <1>14 DEF StepOf, Local

LEMMA RecordDocumentSteps ==
  ASSUME SharedInv, NEW r \in Registrars, RecordDocument(r)
  PROVE  StepOf(r)
<1>1. pc[r] \in {"create_document", "update_document"} /\ pc[r] \in AtDocument
  BY DEF RecordDocument, AtDocument
<1> DEFINE d == Current(r).document
           row == held[r]
<1>2. /\ d \in Documents /\ row \in Document /\ row # None
      /\ SameProvenance(row, r)
      /\ [hash |-> row.hash, at |-> row.at] \in store[<<fund[r], d>>]
  BY <1>1, AtDocumentFacts, NoneIsNoValue DEF Local, HoldsRow, Document
<1>3. /\ UNCHANGED <<use, firms, funds, store, service, job, identity, held>>
      /\ \/ /\ pc' = [pc EXCEPT ![r] = "integrity_error"] /\ UNCHANGED <<documents, done>>
         \/ /\ pc' = [pc EXCEPT ![r] = "document"]
            /\ documents' = [documents EXCEPT ![d] = row]
            /\ done' = [done EXCEPT ![r] = done[r] + 1]
            /\ documents[d] = None \/ pc[r] = "update_document"
  BY <1>1 DEF RecordDocument, Goto
<1>4. TypeOK /\ Local(r)
  BY <1>1, AtDocumentFacts
<1>5. CASE pc' = [pc EXCEPT ![r] = "integrity_error"] /\ UNCHANGED <<documents, done>>
  <2>1. TypeOK'
    BY <1>3, <1>4, <1>5 DEF TypeOK, service, identity, Finished
  <2>2. Quiet(r)
    BY <1>3, <1>4, <1>5 DEF TypeOK, Quiet, Others, Same, identity
  <2>3. /\ pc'[r] = "integrity_error" /\ fund'[r] = fund[r] /\ done'[r] = done[r] /\ job' = job
    BY <1>3, <1>4, <1>5 DEF TypeOK, identity
  <2>4. Known(r)' /\ Counted(r)' /\ HasParties(r)' /\ HoldsRow(r)'
    BY <1>4, <2>3
       DEF Local, Known, Counted, HasParties, HoldsRow, Parties, Documenting, AtDocument
  <2> QED  BY <2>1, <2>2, <2>4, QuietSteps
<1>6. CASE /\ pc' = [pc EXCEPT ![r] = "document"]
           /\ documents' = [documents EXCEPT ![d] = row]
           /\ done' = [done EXCEPT ![r] = done[r] + 1]
           /\ documents[d] = None \/ pc[r] = "update_document"
  <2>1. /\ row.fund = fund[r] /\ row.hash = Current(r).payload /\ row.channel = job[r].channel
        /\ documents[d] # None => /\ documents[d].fund = row.fund
                                  /\ documents[d].hash = row.hash
                                  /\ documents[d].channel = row.channel
    BY <1>2, <1>4, <1>6 DEF SameProvenance, Local, HoldsRow, Expected
  <2>2. Current(r) = job[r].files[done[r] + 1] /\ job' = job /\ fund' = fund /\ firm' = firm
        /\ store' = store /\ funds' = funds /\ firms' = firms /\ use' = use
    BY <1>3 DEF Current, identity
  <2>3. /\ documents'[d] = row /\ \A e \in Documents : e # d => documents'[e] = documents[e]
        /\ done'[r] = done[r] + 1 /\ \A o \in Registrars : o # r => done'[o] = done[o]
        /\ pc'[r] = "document" /\ done[r] \in Nat
    BY <1>2, <1>4, <1>6 DEF TypeOK
  <2> HIDE DEF d, row
  <2>4. TypeOK'
    BY <1>2, <1>3, <1>4, <1>6 DEF TypeOK, service, identity
  <2>5. Others(r)
    BY <1>3, <1>4, <1>6 DEF TypeOK, Others, Same, identity
  <2>6. Grows
    BY <1>2, <2>1, <2>2, <2>3 DEF Grows
  <2>7. RowsResolve'
    <3>1. [hash |-> row.hash, at |-> row.at] \in store[<<row.fund, d>>] /\ funds[row.fund] # None
      BY <1>1, <1>2, <2>1, AtDocumentFacts
    <3> QED  BY <2>2, <2>3, <3>1 DEF RowsResolve, SharedInv
  <2>8. RowsHaveAuthors'
    <3> SUFFICES ASSUME NEW e \in Documents, documents'[e] # None
                 PROVE  \E o \in Registrars : \E j \in 1..done'[o] : Author(e, o, j)'
      BY DEF RowsHaveAuthors
    <3>1. CASE e = d
      <4>1. PICK n \in Nat : n = done[r] + 1
        BY <2>3
      <4>2. n \in 1..done'[r]
        BY <2>3, <4>1
      <4>3. Author(e, r, n)'
        BY <2>1, <2>2, <2>3, <3>1, <4>1, <4>2 DEF Author, d
      <4> QED  BY <4>2, <4>3
    <3>2. CASE e # d
      <4>1. PICK o \in Registrars : \E j \in 1..done[o] : Author(e, o, j)
        BY <2>3, <3>2 DEF SharedInv, RowsHaveAuthors
      <4>2. PICK j \in 1..done[o] : Author(e, o, j)
        BY <4>1
      <4>3. j \in 1..done'[o]
        BY <1>4, <2>3 DEF TypeOK
      <4> QED  BY <2>2, <2>3, <3>2, <4>2, <4>3 DEF Author
    <3> QED  BY <3>1, <3>2
  <2>9. Known(r)' /\ Counted(r)' /\ HasParties(r)' /\ HoldsRow(r)'
    <3>1. done'[r] <= Len(job[r].files)
      BY <1>1, <2>3, AtDocumentFacts, JobIsBundle
    <3> QED  BY <1>1, <2>2, <2>3, <3>1, AtDocumentFacts
             DEF Known, Counted, HasParties, HoldsRow, Documenting, Parties, AtDocument, NoRepeats
  <2>10. \A k \in 1..done'[r] : Recorded(r, k)'
    <3> SUFFICES ASSUME NEW k \in 1..(done[r] + 1) PROVE Recorded(r, k)'
      BY <2>3
    <3>1. CASE k = done[r] + 1
      BY <1>2, <2>1, <2>2, <2>3, <3>1 DEF Recorded, d
    <3>2. CASE k # done[r] + 1
      <4>1. k \in 1..done[r]
        BY <2>3, <3>2
      <4>2. Recorded(r, k)
        BY <1>4, <4>1 DEF Local
      <4>3. job[r].files[k].document # d
        BY <1>1, <2>2, <2>3, <4>1, AtDocumentFacts, SMTT(30) DEF NoRepeats, d
      <4>4. job[r].files[k].document \in Documents
        BY <1>1, <2>3, <4>1, AtDocumentFacts, JobIsBundle
      <4> QED  BY <2>2, <2>3, <4>2, <4>3, <4>4 DEF Recorded
    <3> QED  BY <3>1, <3>2
  <2> QED  BY <2>4, <2>5, <2>6, <2>7, <2>8, <2>9, <2>10 DEF StepOf, Local
<1> QED  BY <1>3, <1>5, <1>6

LEMMA AnyStep ==
  ASSUME SharedInv, NEW r \in Registrars, register_intake_bundle(r) \/ Crash(r)
  PROVE  StepOf(r)
BY ResolveFirmSteps, ResolveFundSteps, ReceiveSteps, GetFirmSteps, CreateFirmSteps,
   AliasFirmSteps, GetFundSteps, CreateFundSteps, MergeFundSteps, GetDocumentSteps, PutSteps,
   RecordDocumentSteps, FinishSteps, CrashSteps
   DEF register_intake_bundle, Resolve, PersistParties, PersistDocuments

LEMMA SharedInit == Init => SharedInv
<1> SUFFICES ASSUME Init PROVE SharedInv
  OBVIOUS
<1>1. TypeOK
  BY DEF Init, TypeOK, Finished
<1>2. RowsResolve /\ RowsHaveAuthors
  BY DEF Init, RowsResolve, RowsHaveAuthors
<1>3. ASSUME NEW r \in Registrars PROVE Local(r)
  BY <1>1, JobIsBundle
     DEF Init, Local, Known, Counted, HasParties, HoldsRow, Parties, Documenting, AtDocument
<1> QED  BY <1>1, <1>2, <1>3 DEF SharedInv

LEMMA SharedStep == SharedInv /\ [Next]_vars => SharedInv'
<1> SUFFICES ASSUME SharedInv, [Next]_vars PROVE SharedInv'
  OBVIOUS
<1>1. CASE UNCHANGED vars
  <2>1. RowsResolve' /\ RowsHaveAuthors' /\ TypeOK'
    BY <1>1, ZenonT(60)
       DEF vars, service, identity, SharedInv, TypeOK, RowsResolve, RowsHaveAuthors, Author
  <2>2. \A r \in Registrars : Same(r)
    BY <1>1 DEF vars, service, identity, Same
  <2>3. Grows
    BY <1>1 DEF vars, service, identity, Grows
  <2> QED  BY <2>1, <2>2, <2>3, BystanderKeeps DEF SharedInv
<1>2. CASE Next
  BY <1>2, AnyStep, StepKeepsShared DEF Next
<1> QED  BY <1>1, <1>2

\* Whom a registration is about, once found, and what it has done stay.
LEMMA IdentityIsSettled ==
  ASSUME SharedInv, NEW r \in Registrars, register_intake_bundle(r) \/ Crash(r)
  PROVE  \A o \in Registrars : /\ firm[o] # None => firm'[o] = firm[o]
                               /\ fund[o] # None => fund'[o] = fund[o]
<1>1. Others(r)
  BY AnyStep DEF StepOf
<1>2. /\ firm[r] # None => firm'[r] = firm[r]
      /\ fund[r] # None => fund'[r] = fund[r]
  <2>1. CASE ResolveFirm(r) \/ ResolveFund(r)
    BY <2>1 DEF ResolveFirm, ResolveFund, SharedInv, Local, Known
  <2>2. CASE ~ResolveFirm(r) /\ ~ResolveFund(r)
    BY <2>2 DEF register_intake_bundle, Resolve, PersistParties, PersistDocuments,
         Receive, GetFirm, CreateFirm, AliasFirm, GetFund, CreateFund, MergeFund, GetDocument,
         Put, RecordDocument, Finish, Crash, identity
  <2> QED  BY <2>1, <2>2
<1> QED  BY <1>1, <1>2 DEF Others, Same

LEMMA DoneGrows ==
  ASSUME SharedInv, NEW r \in Registrars, register_intake_bundle(r) \/ Crash(r)
  PROVE  \A o \in Registrars : done[o] <= done'[o]
<1>1. Others(r) /\ TypeOK
  BY AnyStep DEF SharedInv, StepOf
<1>2. done[r] <= done'[r]
  <2>1. CASE RecordDocument(r)
    BY <1>1, <2>1 DEF RecordDocument, TypeOK
  <2>2. CASE ~RecordDocument(r)
    BY <1>1, <2>2 DEF register_intake_bundle, Resolve, PersistParties, PersistDocuments,
         ResolveFirm, ResolveFund, Receive, GetFirm, CreateFirm, AliasFirm, GetFund, CreateFund,
         MergeFund, GetDocument, Put, Finish, Crash, TypeOK
  <2> QED  BY <2>1, <2>2
<1> QED  BY <1>1, <1>2 DEF Others, Same, TypeOK

-----------------------------------------------------------------------------
(***************************************************************************)
(* One call at a time.                                                     *)
(***************************************************************************)
LEMMA StepIsAlone ==
  ASSUME SharedInv, SerialInv, use.exclusive, NEW r \in Registrars,
         register_intake_bundle(r) \/ Crash(r)
  PROVE  \A o \in Registrars : o # r => Idle(o) /\ Idle(o)'
<1>1. CASE ResolveFirm(r)
  BY <1>1, AnyStep DEF ResolveFirm, Idle, StepOf, Others, Same
<1>2. CASE ~ResolveFirm(r)
  <2>1. ~Idle(r)
    BY <1>2 DEF register_intake_bundle, Resolve, PersistParties, PersistDocuments, ResolveFund,
         Receive, GetFirm, CreateFirm, AliasFirm, GetFund, CreateFund, MergeFund, GetDocument,
         Put, RecordDocument, Finish, Crash, Idle, Finished
  <2> QED  BY <2>1, AnyStep DEF SerialInv, OneAtATime, Idle, StepOf, Others, Same
<1> QED  BY <1>1, <1>2

\* What r read is there when it acts, because nobody else acts.
LEMMA HeldStaysCurrent ==
  ASSUME SharedInv, NEW r \in Registrars, HeldIsCurrent(r), register_intake_bundle(r)
  PROVE  HeldIsCurrent(r)'
<1>1. TypeOK
  BY DEF SharedInv
<1>2. CASE Resolve(r) \/ AliasFirm(r) \/ MergeFund(r) \/ Finish(r)
  <2>1. pc'[r] \in {"ambiguous", "duplicate", "resolve_fund", "receive", "firm", "fund",
                    "document", "accepted"}
    BY <1>1, <1>2 DEF TypeOK, Resolve, ResolveFirm, ResolveFund, Receive, AliasFirm, MergeFund,
         Finish, Goto
  <2> QED  BY <2>1 DEF HeldIsCurrent
<1>3. CASE GetFirm(r) \/ GetFund(r)
  BY <1>1, <1>3 DEF TypeOK, GetFirm, GetFund, Goto, HeldIsCurrent, identity
<1>4. CASE CreateFirm(r) \/ CreateFund(r)
  <2>1. pc'[r] \in {"fund", "document"}
    BY <1>1, <1>4 DEF TypeOK, CreateFirm, CreateFund, Goto, HeldIsCurrent
  <2> QED  BY <2>1 DEF HeldIsCurrent
<1>5. CASE GetDocument(r)
  <2>1. /\ pc'[r] \in {"unreadable", "collision", "put"}
        /\ pc'[r] = "put" => held'[r] = documents[Current(r).document]
        /\ documents' = documents /\ Current(r)' = Current(r)
    BY <1>1, <1>5 DEF TypeOK, GetDocument, Goto, Current
  <2> QED  BY <2>1 DEF HeldIsCurrent
<1>6. CASE Put(r)
  <2>1. /\ pc'[r] \in {"create_document", "update_document"}
        /\ pc'[r] = "create_document" => documents[Current(r).document] = None
        /\ documents' = documents /\ Current(r)' = Current(r)
    BY <1>1, <1>6 DEF TypeOK, Put, Goto, Current, Recording, HeldIsCurrent
  <2> QED  BY <2>1 DEF HeldIsCurrent
<1>7. CASE RecordDocument(r)
  <2>1. pc'[r] = "document"
    BY <1>1, <1>7 DEF TypeOK, RecordDocument, Goto, HeldIsCurrent
  <2> QED  BY <2>1 DEF HeldIsCurrent
<1> QED  BY <1>2, <1>3, <1>4, <1>5, <1>6, <1>7
         DEF register_intake_bundle, PersistParties, PersistDocuments

LEMMA SerialStep ==
  ASSUME SharedInv, SerialInv, NEW r \in Registrars, register_intake_bundle(r) \/ Crash(r)
  PROVE  SerialInv'
<1> SUFFICES ASSUME use.exclusive PROVE SerialInv'
  BY AnyStep DEF SerialInv, StepOf, Grows
<1>1. /\ \A o \in Registrars : o # r => Idle(o) /\ Idle(o)'
      /\ StepOf(r) /\ TypeOK /\ TypeOK'
  BY StepIsAlone, AnyStep DEF SharedInv, StepOf
<1>2. OneAtATime'
  BY <1>1 DEF OneAtATime
<1>3. ASSUME NEW o \in Registrars PROVE HeldIsCurrent(o)'
  <2>1. CASE o # r
    BY <1>1, <2>1 DEF Idle, Finished, HeldIsCurrent, SerialInv, StepOf, Others, Same
  <2>2. CASE o = r /\ Crash(r)
    BY <1>1, <2>2 DEF TypeOK, Crash, Goto, HeldIsCurrent
  <2>3. CASE o = r /\ register_intake_bundle(r)
    BY <2>3, HeldStaysCurrent DEF SerialInv
  <2> QED  BY <2>1, <2>2, <2>3
<1> QED  BY <1>2, <1>3 DEF SerialInv

LEMMA SerialInit == Init => SerialInv /\ VersionsAccounted
BY DEF Init, SerialInv, OneAtATime, Idle, HeldIsCurrent, VersionsAccounted

\* A version whose row is there stays accounted for; one on its way is put
\* into its row by the next statement.
LEMMA AccountedStays ==
  ASSUME SharedInv, SerialInv, use.exclusive, NEW r \in Registrars,
         register_intake_bundle(r) \/ Crash(r), pc'[r] # "dead",
         NEW k \in Ids \X Documents, NEW v \in Version, Accounted(k, v)
  PROVE  Accounted(k, v)'
<1>1. StepOf(r) /\ TypeOK
  BY AnyStep DEF SharedInv
<1>2. CASE /\ documents[k[2]] # None
           /\ documents[k[2]].fund = k[1]
           /\ documents[k[2]].hash = v.hash
  <2>1. k[2] \in Documents
    OBVIOUS
  <2> QED  BY <1>1, <1>2, <2>1 DEF StepOf, Grows, Accounted
<1>3. CASE \E o \in Registrars : /\ pc[o] \in {"create_document", "update_document"}
                                 /\ Key(o) = k /\ held[o].hash = v.hash
  <2>1. PICK o \in Registrars : /\ pc[o] \in {"create_document", "update_document"}
                                /\ Key(o) = k /\ held[o].hash = v.hash
    BY <1>3
  <2>2. o = r
    BY <2>1, StepIsAlone DEF Idle, Finished
  <2>3. RecordDocument(r)
    BY <1>1, <2>1, <2>2 DEF TypeOK, register_intake_bundle, Resolve, PersistParties,
         PersistDocuments, ResolveFirm, ResolveFund, Receive, GetFirm, CreateFirm, AliasFirm,
         GetFund, CreateFund, MergeFund, Put, GetDocument, Finish, Crash, Goto
  <2>4. documents' = [documents EXCEPT ![Current(r).document] = held[r]]
    BY <2>1, <2>2, <2>3 DEF RecordDocument, SerialInv, HeldIsCurrent
  <2>5. Current(r).document \in Documents /\ k = <<fund[r], Current(r).document>>
        /\ held[r] \in Document /\ held[r].fund = fund[r]
    BY <2>1, <2>2, AtDocumentFacts DEF AtDocument, Local, HoldsRow, SameProvenance
  <2>6. documents'[k[2]] = held[r] /\ held[r].fund = k[1] /\ held[r] # None
    BY <1>1, <2>4, <2>5, NoneIsNoValue DEF TypeOK, Document
  <2> QED  BY <2>1, <2>2, <2>6 DEF Accounted
<1> QED  BY <1>2, <1>3 DEF Accounted

LEMMA VersionsStep ==
  ASSUME SharedInv, SerialInv, VersionsAccounted, NEW r \in Registrars,
         register_intake_bundle(r) \/ Crash(r)
  PROVE  VersionsAccounted'
<1>1. StepOf(r) /\ TypeOK
  BY AnyStep DEF SharedInv
<1> SUFFICES ASSUME use.exclusive, \A o \in Registrars : pc'[o] # "dead",
                    NEW k \in Ids \X Documents, NEW v \in store'[k]
             PROVE  Accounted(k, v)'
  BY <1>1 DEF VersionsAccounted, StepOf, Grows
<1>2. \A o \in Registrars : pc[o] # "dead"
  <2>1. pc[r] # "dead"
    BY DEF register_intake_bundle, Resolve, PersistParties, PersistDocuments, ResolveFirm,
         ResolveFund, Receive, GetFirm, CreateFirm, AliasFirm, GetFund, CreateFund, MergeFund,
         GetDocument, Put, RecordDocument, Finish, Crash, Idle, Finished
  <2> QED  BY <1>1, <2>1 DEF StepOf, Others, Same
<1>3. v \in Version
  BY <1>1 DEF StepOf, TypeOK
<1>4. CASE v \in store[k]
  BY <1>2, <1>3, <1>4, AccountedStays DEF VersionsAccounted
<1>5. CASE v \notin store[k]
  <2>1. Put(r)
    BY <1>5 DEF register_intake_bundle, Resolve, PersistParties, PersistDocuments, ResolveFirm,
         ResolveFund, Receive, GetFirm, CreateFirm, AliasFirm, GetFund, CreateFund, MergeFund,
         GetDocument, RecordDocument, Finish, Crash
  <2>2. Key(r) \in Ids \X Documents
    BY <2>1, AtDocumentFacts DEF Put, AtDocument
  <2>3. k = Key(r) /\ v = Stored(r)
    BY <1>1, <1>5, <2>1, <2>2 DEF Put, TypeOK
  <2>4. held'[r].hash = v.hash /\ pc'[r] \in {"create_document", "update_document"}
    BY <1>1, <2>1, <2>3 DEF Put, Goto, Recording, RowOf, TypeOK
  <2>5. Key(r)' = k
    BY <2>1, <2>3 DEF Put, Key, Current, identity
  <2> QED  BY <2>4, <2>5 DEF Accounted
<1> QED  BY <1>4, <1>5

LEMMA InvInit == Init => IInv
BY SharedInit, SerialInit DEF IInv

LEMMA InvStep == IInv /\ [Next]_vars => IInv'
<1> SUFFICES ASSUME IInv, [Next]_vars PROVE IInv'
  OBVIOUS
<1>1. SharedInv'
  BY SharedStep DEF IInv
<1>2. CASE UNCHANGED vars
  <2>1. SerialInv'
    BY <1>2 DEF vars, service, identity, IInv, SerialInv, OneAtATime, Idle, HeldIsCurrent,
         Current
  <2>2. VersionsAccounted'
    BY <1>2 DEF vars, service, identity, IInv, VersionsAccounted, Accounted, Key, Current
  <2> QED  BY <1>1, <2>1, <2>2 DEF IInv
<1>3. CASE Next
  BY <1>1, <1>3, SerialStep, VersionsStep DEF Next, IInv
<1> QED  BY <1>2, <1>3

LEMMA InvAlways == Spec => []IInv
BY InvInit, InvStep, PTL DEF Spec

-----------------------------------------------------------------------------
(***************************************************************************)
(* What the database and the store say of each other, and of what an       *)
(* accepted caller was told: StoreMatchesRows, under any interleaving and  *)
(* any deaths; its last part when calls are made one at a time.            *)
(***************************************************************************)
THEOREM StoreMatches == Spec => []StoreMatchesRows
<1>1. IInv => StoreMatchesRows
  <2> SUFFICES ASSUME IInv PROVE StoreMatchesRows
    OBVIOUS
  <2>1. TypeOK /\ RowsResolve
    BY DEF IInv, SharedInv
  <2>2. AcceptedIsRecorded
    BY DEF IInv, SharedInv, Local, Counted, Recorded, AcceptedIsRecorded
  <2>3. NoOrphanVersion
    BY DEF IInv, VersionsAccounted, Accounted, NoOrphanVersion
  <2> QED  BY <2>1, <2>2, <2>3 DEF StoreMatchesRows
<1> QED  BY <1>1, InvAlways, PTL

\* One call at a time, what is written back was read from the row it replaces.
LEMMA SpellingsStep ==
  ASSUME SharedInv, SerialInv, use.exclusive, NEW r \in Registrars,
         register_intake_bundle(r) \/ Crash(r), NEW i \in Ids
  PROVE  /\ firms[i] # None => firms'[i] # None /\ firms[i].aliases \subseteq firms'[i].aliases
         /\ funds[i] # None => funds'[i] # None /\ funds[i].aliases \subseteq funds'[i].aliases
<1>1. TypeOK /\ Local(r) /\ HeldIsCurrent(r) /\ StepOf(r)
  BY AnyStep DEF SharedInv, SerialInv
<1>2. firms[i] # None => firms[i].aliases \subseteq firms'[i].aliases
  <2>1. CASE CreateFirm(r)
    BY <1>1, <2>1 DEF TypeOK, CreateFirm, HeldIsCurrent, Local, Known, Parties
  <2>2. CASE AliasFirm(r)
    BY <1>1, <2>2 DEF TypeOK, AliasFirm, Merged, HeldIsCurrent, Local, Known, HasParties,
         Parties, Firm
  <2>3. CASE ~CreateFirm(r) /\ ~AliasFirm(r)
    BY <2>3 DEF register_intake_bundle, Resolve, PersistParties, PersistDocuments, ResolveFirm,
         ResolveFund, Receive, GetFirm, GetFund, CreateFund, MergeFund, GetDocument, Put,
         RecordDocument, Finish, Crash
  <2> QED  BY <2>1, <2>2, <2>3
<1>3. funds[i] # None => funds[i].aliases \subseteq funds'[i].aliases
  <2>1. CASE CreateFund(r)
    BY <1>1, <2>1 DEF TypeOK, CreateFund, HeldIsCurrent, Local, Known, Parties
  <2>2. CASE MergeFund(r)
    BY <1>1, <2>2 DEF TypeOK, MergeFund, Merged, HeldIsCurrent, Local, Known, HasParties,
         Parties, Fund
  <2>3. CASE ~CreateFund(r) /\ ~MergeFund(r)
    BY <2>3 DEF register_intake_bundle, Resolve, PersistParties, PersistDocuments, ResolveFirm,
         ResolveFund, Receive, GetFirm, GetFund, CreateFirm, AliasFirm, GetDocument, Put,
         RecordDocument, Finish, Crash
  <2> QED  BY <2>1, <2>2, <2>3
<1> QED  BY <1>1, <1>2, <1>3 DEF StepOf, Grows

(***************************************************************************)
(* A document keeps its fund, bytes and channel under every interleaving,  *)
(* a firm and a fund their spellings when calls are made one at a time.    *)
(***************************************************************************)
THEOREM HistoryKept == Spec => HistoryIsKept
<1> DEFINE Fixed == \A d \in Documents : documents[d] # None =>
                       /\ documents'[d] # None
                       /\ documents'[d].fund = documents[d].fund
                       /\ documents'[d].hash = documents[d].hash
                       /\ documents'[d].channel = documents[d].channel
           Spelled == use.exclusive => \A i \in Ids :
                       /\ firms[i] # None => firms'[i] # None
                                             /\ firms[i].aliases \subseteq firms'[i].aliases
                       /\ funds[i] # None => funds'[i] # None
                                             /\ funds[i].aliases \subseteq funds'[i].aliases
<1>1. IInv /\ [Next]_vars => [Fixed]_vars /\ [Spelled]_vars
  <2> SUFFICES ASSUME IInv, Next PROVE Fixed /\ Spelled
    OBVIOUS
  <2>1. PICK r \in Registrars : register_intake_bundle(r) \/ Crash(r)
    BY DEF Next
  <2>2. Grows
    BY <2>1, AnyStep DEF IInv, StepOf
  <2> QED  BY <2>1, <2>2, SpellingsStep DEF IInv, Grows
<1>2. Spec => [][Fixed]_vars /\ [][Spelled]_vars
  BY <1>1, InvAlways, PTL DEF Spec
<1> QED  BY <1>2 DEF HistoryIsKept, ProvenanceIsFixed, SpellingsAccumulate

-----------------------------------------------------------------------------
\* Every spelling on record or in hand leads to the firm and the fund it is of.
NamesInv == SharedInv /\ FirmsLead /\ FundsLead

LEMMA PinsStay ==
  ASSUME SharedInv, NEW r \in Registrars, register_intake_bundle(r) \/ Crash(r)
  PROVE  \A m : /\ FirmPinned(m) => FirmPinned(m)'
                /\ FundPinned(m) => FundPinned(m)'
<1>1. job' = job
  BY AnyStep DEF StepOf, Grows
<1> QED  BY <1>1, IdentityIsSettled DEF FirmPinned, FundPinned

LEMMA FirmsStep ==
  ASSUME SharedInv, FirmsLead, NEW r \in Registrars, register_intake_bundle(r) \/ Crash(r)
  PROVE  FirmsLead'
<1> DEFINE Pins(m) == FirmPinned(m)'
           Leads(a, i) == i = Slug[Norm[a]] \/ Pins(Norm[a])
           name == job[r].firmName
<1>1. TypeOK /\ TypeOK' /\ Local(r) /\ Others(r) /\ job' = job
  BY AnyStep DEF SharedInv, StepOf, Grows
<1>2. \A a, i : FirmLeads(a, i) => Leads(a, i)
  BY PinsStay DEF FirmLeads
<1>3. /\ \A i \in Ids : firms[i] # None => \A a \in firms[i].aliases : Leads(a, i)
      /\ \A o \in Registrars :
           /\ firm[o] # None => Leads(job[o].firmName, firm[o])
           /\ pc[o] = "alias_firm" => \A a \in held[o].aliases : Leads(a, firm[o])
  <2> HIDE DEF Leads
  <2> QED  BY <1>2 DEF FirmsLead
<1>4. /\ \A i \in Ids : firms'[i] # None => \A a \in firms'[i].aliases : Leads(a, i)
      /\ firm'[r] # None => Leads(name, firm'[r])
      /\ pc'[r] = "alias_firm" => \A a \in held'[r].aliases : Leads(a, firm'[r])
  <2>1. CASE ResolveFirm(r)
    <3>1. CASE firm' = firm
      <4>1. firms' = firms /\ pc'[r] # "alias_firm"
        BY <1>1, <2>1 DEF ResolveFirm, Goto, TypeOK
      <4> QED  BY <1>3, <3>1, <4>1
    <3>2. CASE firm' # firm
      <4>1. /\ firms' = firms /\ pc'[r] # "alias_firm"
            /\ firm'[r] = Identified(job[r].firmId, FirmMatches(name), name)
        BY <1>1, <2>1, <3>2 DEF ResolveFirm, Goto, TypeOK
      <4>2. CASE job[r].firmId # None
        <5>1. firm'[r] # None
          BY <4>1, <4>2 DEF Identified
        <5>2. FirmPinned(Norm[name])'
          BY <1>1, <4>2, <5>1 DEF FirmPinned
        <5> QED  BY <1>3, <4>1, <5>2
      <4>3. CASE job[r].firmId = None
        <5>1. \A i \in FirmMatches(name) : Leads(name, i)
          <6> SUFFICES ASSUME NEW i \in FirmMatches(name) PROVE Leads(name, i)
            OBVIOUS
          <6>1. i \in Ids /\ firms[i] # None /\ \E a \in firms[i].aliases : Norm[a] = Norm[name]
            BY DEF FirmMatches, HasAlias
          <6>2. PICK a \in firms[i].aliases : Norm[a] = Norm[name]
            BY <6>1
          <6>3. Leads(a, i)
            <7> HIDE DEF Leads
            <7> QED  BY <1>3, <6>1
          <6> HIDE DEF Pins
          <6> QED  BY <6>2, <6>3
        <5>2. CASE FirmMatches(name) = {}
          BY <1>3, <4>1, <4>3, <5>2 DEF Identified, Minted
        <5>3. CASE FirmMatches(name) # {}
          <6>1. firm'[r] \in FirmMatches(name)
            BY <4>1, <4>3, <5>3 DEF Identified
          <6> QED  BY <1>3, <4>1, <5>1, <6>1
        <5> QED  BY <5>2, <5>3
      <4> QED  BY <4>2, <4>3
    <3> QED  BY <3>1, <3>2
  <2>2. CASE GetFirm(r)
    <3>1. firm[r] \in Ids /\ firm' = firm /\ firms' = firms
      BY <1>1, <2>2 DEF GetFirm, Local, Known, Parties, identity
    <3>2. pc'[r] = "alias_firm" => held'[r] = firms[firm[r]] /\ firms[firm[r]] # None
      BY <1>1, <2>2 DEF GetFirm, Goto, TypeOK
    <3> QED  BY <1>3, <3>1, <3>2
  <2>3. CASE CreateFirm(r) \/ AliasFirm(r)
    <3>1. firm[r] \in Ids /\ firm[r] # None /\ firm' = firm /\ pc'[r] # "alias_firm"
      BY <1>1, <2>3, NoneIsNoValue
         DEF CreateFirm, AliasFirm, Local, Known, Parties, identity, Goto, TypeOK
    <3>2. Leads(name, firm[r])
      BY <1>3, <3>1
    <3>3. \A i \in Ids : i # firm[r] => firms'[i] = firms[i]
      BY <1>1, <2>3, <3>1 DEF CreateFirm, AliasFirm, TypeOK
    <3>4. \/ firms' = firms
          \/ firms'[firm[r]].aliases = {name}
          \/ /\ pc[r] = "alias_firm"
             /\ firms'[firm[r]].aliases = held[r].aliases \cup {name}
      <4>1. CASE CreateFirm(r)
        BY <1>1, <3>1, <4>1 DEF CreateFirm, TypeOK
      <4>2. CASE AliasFirm(r)
        BY <1>1, <3>1, <4>2 DEF AliasFirm, Merged, TypeOK, Firm, Local, HasParties
      <4> QED  BY <2>3, <4>1, <4>2
    <3>5. \A a \in firms'[firm[r]].aliases : firms'[firm[r]] # None => Leads(a, firm[r])
      <4>1. CASE firms' = firms
        BY <1>3, <3>1, <4>1
      <4>2. CASE firms'[firm[r]].aliases = {name}
        <5> HIDE DEF Leads, name
        <5> QED  BY <3>2, <4>2
      <4>3. CASE pc[r] = "alias_firm" /\ firms'[firm[r]].aliases = held[r].aliases \cup {name}
        <5>1. \A a \in held[r].aliases : Leads(a, firm[r])
          BY <1>3, <4>3
        <5> HIDE DEF Leads, name
        <5> QED  BY <3>2, <4>3, <5>1
      <4> QED  BY <3>4, <4>1, <4>2, <4>3
    <3> QED  BY <1>3, <3>1, <3>2, <3>3, <3>5
  <2>4. CASE ~ResolveFirm(r) /\ ~GetFirm(r) /\ ~CreateFirm(r) /\ ~AliasFirm(r)
    <3>1. firms' = firms /\ firm' = firm /\ pc'[r] # "alias_firm"
      BY <1>1, <2>4 DEF register_intake_bundle, Resolve, PersistParties, PersistDocuments,
           ResolveFund, Receive, GetFund, CreateFund, MergeFund, GetDocument, Put, Recording,
           RecordDocument, Finish, Crash, Goto, TypeOK, identity
    <3> QED  BY <1>3, <3>1
  <2> QED  BY <2>1, <2>2, <2>3, <2>4
<1>5. \A o \in Registrars : o # r => Same(o)
  BY <1>1 DEF Others
<1> QED  BY <1>1, <1>3, <1>4, <1>5 DEF FirmsLead, FirmLeads, Same

LEMMA FundsStep ==
  ASSUME SharedInv, FundsLead, NEW r \in Registrars, register_intake_bundle(r) \/ Crash(r)
  PROVE  FundsLead'
<1> DEFINE Pins(m) == FundPinned(m)'
           Leads(a, i) == i = Slug[Norm[a]] \/ Pins(Norm[a])
           name == job[r].fundName
<1>1. TypeOK /\ TypeOK' /\ Local(r) /\ Others(r) /\ job' = job
  BY AnyStep DEF SharedInv, StepOf, Grows
<1>2. \A a, i : FundLeads(a, i) => Leads(a, i)
  BY PinsStay DEF FundLeads
<1>3. /\ \A i \in Ids : funds[i] # None => \A a \in funds[i].aliases : Leads(a, i)
      /\ \A o \in Registrars :
           /\ fund[o] # None => Leads(job[o].fundName, fund[o])
           /\ pc[o] = "merge_fund" => \A a \in held[o].aliases : Leads(a, fund[o])
  <2> HIDE DEF Leads
  <2> QED  BY <1>2 DEF FundsLead
<1>4. /\ \A i \in Ids : funds'[i] # None => \A a \in funds'[i].aliases : Leads(a, i)
      /\ fund'[r] # None => Leads(name, fund'[r])
      /\ pc'[r] = "merge_fund" => \A a \in held'[r].aliases : Leads(a, fund'[r])
  <2>1. CASE ResolveFund(r)
    <3> DEFINE matches == FundMatches(firm[r], name)
    <3>1. CASE fund' = fund
      <4>1. funds' = funds /\ pc'[r] # "merge_fund"
        BY <1>1, <2>1 DEF ResolveFund, Goto, TypeOK
      <4> QED  BY <1>3, <3>1, <4>1
    <3>2. CASE fund' # fund
      <4>1. /\ funds' = funds /\ pc'[r] # "merge_fund"
            /\ fund'[r] = Identified(job[r].fundId, matches, name)
        BY <1>1, <2>1, <3>2 DEF ResolveFund, Goto, TypeOK
      <4>2. CASE job[r].fundId # None
        <5>1. fund'[r] # None
          BY <4>1, <4>2 DEF Identified
        <5>2. FundPinned(Norm[name])'
          BY <1>1, <4>2, <5>1 DEF FundPinned
        <5> QED  BY <1>3, <4>1, <5>2
      <4>3. CASE job[r].fundId = None
        <5>1. \A i \in matches : Leads(name, i)
          <6> SUFFICES ASSUME NEW i \in matches PROVE Leads(name, i)
            OBVIOUS
          <6>1. i \in Ids /\ funds[i] # None /\ \E a \in funds[i].aliases : Norm[a] = Norm[name]
            BY DEF FundMatches, HasAlias
          <6>2. PICK a \in funds[i].aliases : Norm[a] = Norm[name]
            BY <6>1
          <6>3. Leads(a, i)
            <7> HIDE DEF Leads
            <7> QED  BY <1>3, <6>1
          <6> HIDE DEF Pins
          <6> QED  BY <6>2, <6>3
        <5>2. CASE matches = {}
          BY <1>3, <4>1, <4>3, <5>2 DEF Identified, Minted
        <5>3. CASE matches # {}
          <6>1. fund'[r] \in matches
            BY <4>1, <4>3, <5>3 DEF Identified
          <6> QED  BY <1>3, <4>1, <5>1, <6>1
        <5> QED  BY <5>2, <5>3
      <4> QED  BY <4>2, <4>3
    <3> QED  BY <3>1, <3>2
  <2>2. CASE GetFund(r)
    <3>1. fund[r] \in Ids /\ fund' = fund /\ funds' = funds
      BY <1>1, <2>2 DEF GetFund, Local, Known, Parties, identity
    <3>2. pc'[r] = "merge_fund" => held'[r] = funds[fund[r]] /\ funds[fund[r]] # None
      BY <1>1, <2>2 DEF GetFund, Goto, TypeOK
    <3> QED  BY <1>3, <3>1, <3>2
  <2>3. CASE CreateFund(r) \/ MergeFund(r)
    <3>1. fund[r] \in Ids /\ fund[r] # None /\ fund' = fund /\ pc'[r] # "merge_fund"
      BY <1>1, <2>3, NoneIsNoValue
         DEF CreateFund, MergeFund, Local, Known, Parties, identity, Goto, TypeOK
    <3>2. Leads(name, fund[r])
      BY <1>3, <3>1
    <3>3. \A i \in Ids : i # fund[r] => funds'[i] = funds[i]
      BY <1>1, <2>3, <3>1 DEF CreateFund, MergeFund, TypeOK
    <3>4. \/ funds' = funds
          \/ funds'[fund[r]].aliases = {name}
          \/ /\ pc[r] = "merge_fund"
             /\ funds'[fund[r]].aliases = held[r].aliases \cup {name}
      <4>1. CASE CreateFund(r)
        BY <1>1, <3>1, <4>1 DEF CreateFund, TypeOK
      <4>2. CASE MergeFund(r)
        BY <1>1, <3>1, <4>2 DEF MergeFund, Merged, TypeOK
      <4> QED  BY <2>3, <4>1, <4>2
    <3>5. \A a \in funds'[fund[r]].aliases : funds'[fund[r]] # None => Leads(a, fund[r])
      <4>1. CASE funds' = funds
        BY <1>3, <3>1, <4>1
      <4>2. CASE funds'[fund[r]].aliases = {name}
        <5> HIDE DEF Leads, name
        <5> QED  BY <3>2, <4>2
      <4>3. CASE pc[r] = "merge_fund" /\ funds'[fund[r]].aliases = held[r].aliases \cup {name}
        <5>1. \A a \in held[r].aliases : Leads(a, fund[r])
          BY <1>3, <4>3
        <5> HIDE DEF Leads, name
        <5> QED  BY <3>2, <4>3, <5>1
      <4> QED  BY <3>4, <4>1, <4>2, <4>3
    <3> QED  BY <1>3, <3>1, <3>2, <3>3, <3>5
  <2>4. CASE ~ResolveFund(r) /\ ~GetFund(r) /\ ~CreateFund(r) /\ ~MergeFund(r)
    <3>1. funds' = funds /\ fund' = fund /\ pc'[r] # "merge_fund"
      BY <1>1, <2>4 DEF register_intake_bundle, Resolve, PersistParties, PersistDocuments,
           ResolveFirm, Receive, GetFirm, CreateFirm, AliasFirm, GetDocument, Put, Recording,
           RecordDocument, Finish, Crash, Goto, TypeOK, identity
    <3> QED  BY <1>3, <3>1
  <2> QED  BY <2>1, <2>2, <2>3, <2>4
<1>5. \A o \in Registrars : o # r => Same(o)
  BY <1>1 DEF Others
<1> QED  BY <1>1, <1>3, <1>4, <1>5 DEF FundsLead, FundLeads, Same

LEMMA NamesAlways == Spec => []NamesInv
<1>1. Init => NamesInv
  BY SharedInit DEF Init, NamesInv, FirmsLead, FundsLead
<1>2. NamesInv /\ [Next]_vars => NamesInv'
  <2> SUFFICES ASSUME NamesInv, [Next]_vars PROVE NamesInv'
    OBVIOUS
  <2>1. SharedInv'
    BY SharedStep DEF NamesInv
  <2>2. CASE UNCHANGED vars
    BY <2>1, <2>2 DEF vars, identity, NamesInv, FirmsLead, FundsLead, FirmLeads, FundLeads,
                      FirmPinned, FundPinned
  <2>3. CASE Next
    BY <2>1, <2>3, FirmsStep, FundsStep DEF Next, NamesInv
  <2> QED  BY <2>2, <2>3
<1> QED  BY <1>1, <1>2, PTL DEF Spec

\* Two firms, or two funds of a firm, of one name are the doing of an identifier.
LEMMA AmbiguityIsPinned ==
  ASSUME NamesInv, NEW n \in Names
  PROVE  /\ Ambiguous(FirmMatches(n)) => FirmPinned(Norm[n])
         /\ \A i \in Ids : Ambiguous(FundMatches(i, n)) => FundPinned(Norm[n])
<1>1. \A i \in FirmMatches(n) : i = Slug[Norm[n]] \/ FirmPinned(Norm[n])
  BY DEF NamesInv, FirmsLead, FirmLeads, FirmMatches, HasAlias
<1>2. \A i \in Ids : \A j \in FundMatches(i, n) : j = Slug[Norm[n]] \/ FundPinned(Norm[n])
  BY DEF NamesInv, FundsLead, FundLeads, FundMatches, HasAlias
<1> QED  BY <1>1, <1>2 DEF Ambiguous

(***************************************************************************)
(* A name means one firm, and one fund in a firm, however registrations    *)
(* race, unless an explicit identifier was given to that very name.        *)
(***************************************************************************)
THEOREM NamesMeanOneFirm == Spec => []OneFirmPerName
<1>1. NamesInv => OneFirmPerName
  <2> SUFFICES ASSUME NamesInv PROVE OneFirmPerName
    OBVIOUS
  <2>1. \A i \in Ids : funds[i] # None => funds[i].firm \in Ids
    BY DEF NamesInv, SharedInv, TypeOK, Fund
  <2> QED  BY <2>1, AmbiguityIsPinned DEF OneFirmPerName
<1> QED  BY <1>1, NamesAlways, PTL

-----------------------------------------------------------------------------
(***************************************************************************)
(* Rows and the records of a service are the work of registrations, which  *)
(* are past the point where they would make them.                          *)
(***************************************************************************)
BeforeFirm == {"firm", "create_firm"}

BeforeFund == BeforeFirm \cup {"alias_firm", "fund", "create_fund"}

MadeFirm(o, i) == firm[o] = i /\ Received(o) /\ pc[o] \notin BeforeFirm

MadeFund(o, i) == fund[o] = i /\ Received(o) /\ pc[o] \notin BeforeFund

HandedIn(o, s) == Received(o) /\ use.service_of[o] = s

Made ==
  /\ \A i \in Ids : firms[i] # None => \E o \in Registrars : MadeFirm(o, i)
  /\ \A i \in Ids : funds[i] # None => \E o \in Registrars : MadeFund(o, i)
  /\ \A s \in Services : \A p \in packages[s] :
       \E o \in Registrars : HandedIn(o, s) /\ job[o].package = p
  /\ \A s \in Services : \A d \in Documents : owners[s][d] # None =>
       \E o \in Registrars : HandedIn(o, s) /\ Lists(o, d)
  /\ \A r \in Registrars : pc[r] \in Parties \cup Documenting => Received(r)
  /\ \A r \in Registrars : done[r] > 0 => Received(r)

\* A registration that is past a point stays past it.
LEMMA Onward ==
  ASSUME SharedInv, NEW r \in Registrars, register_intake_bundle(r) \/ Crash(r),
         NEW o \in Registrars
  PROVE  /\ Received(o) => Received(o)'
         /\ \A i \in Ids : MadeFirm(o, i) => MadeFirm(o, i)'
         /\ \A i \in Ids : MadeFund(o, i) => MadeFund(o, i)'
         /\ \A s : HandedIn(o, s) => HandedIn(o, s)'
<1>1. TypeOK /\ Local(r) /\ job' = job /\ use' = use /\ Others(r)
  BY AnyStep DEF SharedInv, StepOf, Grows
<1>2. use.service_of[o] \in Services
  BY <1>1, UsesAreUses DEF TypeOK, Use
<1>3. \A s \in Services : packages[s] \subseteq packages'[s]
  <2>1. CASE Receive(r)
    <3> DEFINE t == use.service_of[r]
    <3>1. \/ packages' = packages
          \/ packages' = [packages EXCEPT ![t] = packages[t] \cup {job[r].package}]
      BY <2>1 DEF Receive, service
    <3>2. packages \in [Services -> SUBSET Packages]
      BY <1>1 DEF TypeOK
    <3> HIDE DEF t
    <3> QED  BY <3>1, <3>2
  <2>2. CASE ~Receive(r)
    BY <2>2 DEF register_intake_bundle, Resolve, PersistParties, PersistDocuments, ResolveFirm,
         ResolveFund, GetFirm, CreateFirm, AliasFirm, GetFund, CreateFund, MergeFund,
         GetDocument, Put, RecordDocument, Finish, Crash, service
  <2> QED  BY <2>1, <2>2
<1>4. ASSUME Received(r)
      PROVE  /\ pc'[r] \notin {"receive", "duplicate"}
             /\ pc[r] \notin BeforeFirm => pc'[r] \notin BeforeFirm
             /\ pc[r] \notin BeforeFund => pc'[r] \notin BeforeFund
  <2>1. pc[r] \notin {"start", "resolve_fund", "receive"}
    BY <1>1, <1>4 DEF Received, Local, Known
  <2>2. PersistParties(r) \/ PersistDocuments(r) \/ Crash(r)
    BY <2>1 DEF register_intake_bundle, Resolve, ResolveFirm, ResolveFund, Receive
  <2>3. CASE PersistParties(r)
    BY <1>1, <2>3 DEF PersistParties, GetFirm, CreateFirm, AliasFirm, GetFund, CreateFund,
         MergeFund, Goto, TypeOK, BeforeFirm, BeforeFund
  <2>4. CASE PersistDocuments(r) \/ Crash(r)
    BY <1>1, <2>4 DEF PersistDocuments, GetDocument, Put, Recording, RecordDocument, Finish,
         Crash, Goto, TypeOK, BeforeFirm, BeforeFund
  <2> QED  BY <2>2, <2>3, <2>4
<1>5. Received(o) => Received(o)'
  BY <1>1, <1>2, <1>3, <1>4, IdentityIsSettled DEF Received, Others, Same
<1>6. Received(o) => /\ pc[o] \notin BeforeFirm => pc'[o] \notin BeforeFirm
                     /\ pc[o] \notin BeforeFund => pc'[o] \notin BeforeFund
  BY <1>1, <1>4 DEF Others, Same
<1> QED  BY <1>1, <1>5, <1>6, IdentityIsSettled, NoneIsNoValue DEF MadeFirm, MadeFund, HandedIn

LEMMA MadeStep ==
  ASSUME SharedInv, Made, NEW r \in Registrars, register_intake_bundle(r) \/ Crash(r)
  PROVE  Made'
<1>1. TypeOK /\ Local(r) /\ job' = job /\ use' = use /\ Others(r)
  BY AnyStep DEF SharedInv, StepOf, Grows
<1>2. pc[r] \in Parties \cup Documenting => Received(r) /\ Received(r)'
  BY Onward DEF Made
<1>3. ASSUME NEW i \in Ids, firms'[i] # None
      PROVE  \E o \in Registrars : MadeFirm(o, i)'
  <2>1. CASE firms[i] # None
    BY <2>1, Onward DEF Made
  <2>2. CASE firms[i] = None
    <3>1. CreateFirm(r) \/ AliasFirm(r)
      BY <1>3, <2>2 DEF register_intake_bundle, Resolve, PersistParties, PersistDocuments,
           ResolveFirm, ResolveFund, Receive, GetFirm, GetFund, CreateFund, MergeFund,
           GetDocument, Put, RecordDocument, Finish, Crash
    <3>2. i = firm[r] /\ firm' = firm /\ pc'[r] = "fund" /\ pc[r] \in Parties
      BY <1>1, <1>3, <2>2, <3>1 DEF CreateFirm, AliasFirm, Goto, TypeOK, identity, Parties
    <3> QED  BY <1>2, <3>2 DEF MadeFirm, BeforeFirm
  <2> QED  BY <2>1, <2>2
<1>4. ASSUME NEW i \in Ids, funds'[i] # None
      PROVE  \E o \in Registrars : MadeFund(o, i)'
  <2>1. CASE funds[i] # None
    BY <2>1, Onward DEF Made
  <2>2. CASE funds[i] = None
    <3>1. CreateFund(r) \/ MergeFund(r)
      BY <1>4, <2>2 DEF register_intake_bundle, Resolve, PersistParties, PersistDocuments,
           ResolveFirm, ResolveFund, Receive, GetFirm, GetFund, CreateFirm, AliasFirm,
           GetDocument, Put, RecordDocument, Finish, Crash
    <3>2. i = fund[r] /\ fund' = fund /\ pc'[r] = "document" /\ pc[r] \in Parties
      BY <1>1, <1>4, <2>2, <3>1 DEF CreateFund, MergeFund, Goto, TypeOK, identity, Parties
    <3> QED  BY <1>2, <3>2 DEF MadeFund, BeforeFund, BeforeFirm
  <2> QED  BY <2>1, <2>2
<1>5. ASSUME NEW o \in Registrars, done'[o] > 0
      PROVE  Received(o)'
  <2>1. CASE done'[o] = done[o]
    BY <1>5, <2>1, Onward DEF Made
  <2>2. CASE done'[o] # done[o]
    <3>1. RecordDocument(r) /\ o = r
      BY <1>1, <2>2 DEF register_intake_bundle, Resolve, PersistParties, PersistDocuments,
           ResolveFirm, ResolveFund, Receive, GetFirm, CreateFirm, AliasFirm, GetFund,
           CreateFund, MergeFund, GetDocument, Put, Finish, Crash, Others, Same
    <3> QED  BY <1>2, <3>1 DEF RecordDocument, Documenting
  <2> QED  BY <2>1, <2>2
<1>6. CASE ~Receive(r) \/ pc'[r] = "duplicate"
  <2>1. packages' = packages /\ owners' = owners
    BY <1>1, <1>6 DEF register_intake_bundle, Resolve, PersistParties, PersistDocuments,
         ResolveFirm, ResolveFund, Receive, GetFirm, CreateFirm, AliasFirm, GetFund, CreateFund,
         MergeFund, GetDocument, Put, RecordDocument, Finish, Crash, service, Goto, TypeOK
  <2>2. \A s \in Services : \A p \in packages'[s] :
          \E o \in Registrars : HandedIn(o, s)' /\ job'[o].package = p
    BY <1>1, <2>1, Onward DEF Made
  <2>3. \A s \in Services : \A d \in Documents : owners'[s][d] # None =>
          \E o \in Registrars : HandedIn(o, s)' /\ Lists(o, d)'
    BY <1>1, <2>1, Onward DEF Made, Lists
  <2>4. \A o \in Registrars : pc'[o] \in Parties \cup Documenting => Received(o)'
    <3>1. pc'[r] \in Parties \cup Documenting => pc[r] \in Parties \cup Documenting
      BY <1>1, <1>6, SMTT(60) DEF register_intake_bundle, Resolve, PersistParties, PersistDocuments,
           ResolveFirm, ResolveFund, Receive, GetFirm, CreateFirm, AliasFirm, GetFund,
           CreateFund, MergeFund, GetDocument, Put, RecordDocument, Finish, Crash, Goto, TypeOK,
           Parties, Documenting
    <3> QED  BY <1>1, <1>2, <3>1, Onward DEF Made, Others, Same
  <2> QED  BY <1>3, <1>4, <1>5, <2>2, <2>3, <2>4 DEF Made
<1>7. CASE Receive(r) /\ pc'[r] # "duplicate"
  <2> DEFINE t == use.service_of[r]
  <2>1. t \in Services
    BY <1>1, UsesAreUses DEF TypeOK, Use
  <2>2. /\ packages' = [packages EXCEPT ![t] = @ \cup {job[r].package}]
        /\ \A s \in Services : \A d \in Documents :
             owners'[s][d] # None => owners[s][d] # None \/ (s = t /\ Lists(r, d))
        /\ fund' = fund /\ fund[r] \in Ids /\ pc'[r] = "firm"
    BY <1>1, <1>7, <2>1 DEF Receive, Goto, TypeOK, identity, Local, Known, Lists
  <2>3. Received(r)'
    BY <1>1, <2>1, <2>2, NoneIsNoValue DEF Received, TypeOK
  <2>4. /\ \A s \in Services : s = t => HandedIn(r, s)'
        /\ \A d : Lists(r, d) => Lists(r, d)'
    BY <1>1, <2>3 DEF HandedIn, Lists
  <2>5. ASSUME NEW s \in Services, NEW p \in packages'[s]
        PROVE  \E o \in Registrars : HandedIn(o, s)' /\ job'[o].package = p
    <3>1. CASE p \in packages[s]
      BY <1>1, <3>1, Onward DEF Made
    <3>2. CASE p \notin packages[s]
      <4>1. s = t /\ p = job[r].package
        BY <1>1, <2>1, <2>2, <2>5, <3>2 DEF TypeOK
      <4> QED  BY <1>1, <2>4, <4>1
    <3> QED  BY <3>1, <3>2
  <2>6. ASSUME NEW s \in Services, NEW d \in Documents, owners'[s][d] # None
        PROVE  \E o \in Registrars : HandedIn(o, s)' /\ Lists(o, d)'
    <3>1. CASE owners[s][d] # None
      BY <1>1, <3>1, Onward DEF Made, Lists
    <3>2. CASE s = t /\ Lists(r, d)
      BY <2>4, <3>2
    <3> QED  BY <2>2, <2>6, <3>1, <3>2
  <2>7. \A o \in Registrars : pc'[o] \in Parties \cup Documenting => Received(o)'
    BY <1>1, <2>3, Onward DEF Made, Others, Same
  <2> QED  BY <1>3, <1>4, <1>5, <2>5, <2>6, <2>7 DEF Made
<1> QED  BY <1>6, <1>7

-----------------------------------------------------------------------------
(***************************************************************************)
(* Why a registration failed.                                              *)
(***************************************************************************)
Cause(r) ==
  /\ pc[r] = "ambiguous" => \/ job[r].firmId = None /\ FirmPinned(Norm[job[r].firmName])
                            \/ job[r].fundId = None /\ FundPinned(Norm[job[r].fundName])
  /\ pc[r] = "duplicate" => TwoAlike(job[r].files) \/ \E o \in Registrars : Forestalls(o, r)
  /\ pc[r] = "collision" => \E o \in Registrars : Disagrees(o, r)
  /\ pc[r] = "unreadable" => Current(r).payload = None
  /\ pc[r] = "integrity_error" => \E o \in Registrars : Races(o, r)

\* What identifies a failed registration, and what it may be held against.
Identifies(r) == pc[r] \in {"collision", "integrity_error"} => firm[r] # None /\ fund[r] # None

CauseInv == NamesInv /\ Made /\ \A r \in Registrars : Cause(r) /\ Identifies(r)

\* The document a registration is at was recorded by another, if it was.
LEMMA AuthorIsAnother ==
  ASSUME SharedInv, NEW r \in Registrars, pc[r] \in Documenting, done[r] < Len(job[r].files),
         NEW o \in Registrars, NEW j \in 1..done[o], Author(Current(r).document, o, j)
  PROVE  o # r /\ j \in 1..Len(job[o].files) /\ Current(r).document \in Documents
<1>1. TypeOK /\ Local(r) /\ Local(o)
  BY DEF SharedInv
<1>2. Current(r).document \in Documents /\ done[r] + 1 \in 1..Len(job[r].files) /\ done[r] \in Nat
  BY <1>1, CurrentIsFile DEF TypeOK
<1>3. done[o] \in Nat /\ done[o] <= Len(job[o].files) /\ Len(job[o].files) \in Nat
  BY <1>1, JobIsBundle DEF TypeOK, Local, Counted
<1>4. j \in 1..Len(job[o].files)
  BY <1>3
<1>5. o # r
  <2> SUFFICES ASSUME o = r PROVE FALSE
    OBVIOUS
  <2>1. NoRepeats(job[r].files)
    BY <1>1 DEF Local, Known
  <2>2. j = done[r] + 1
    BY <1>2, <1>4, <2>1 DEF NoRepeats, Author, Current
  <2> QED  BY <1>2, <2>2
<1> QED  BY <1>2, <1>4, <1>5

\* Whoever is turned away for provenance met the row of another bundle.
LEMMA CollisionIsCaused ==
  ASSUME SharedInv, NEW r \in Registrars, GetDocument(r), pc'[r] = "collision"
  PROVE  \E o \in Registrars : Disagrees(o, r)
<1> DEFINE d == Current(r).document
<1>1. /\ pc[r] = "document" /\ done[r] < Len(job[r].files) /\ TypeOK
      /\ documents[d] # None /\ ~SameProvenance(documents[d], r)
  BY DEF SharedInv, GetDocument, TypeOK, Goto
<1>2. d \in Documents
  BY <1>1, CurrentIsFile
<1>3. PICK o \in Registrars : \E j \in 1..done[o] : Author(d, o, j)
  BY <1>1, <1>2 DEF SharedInv, RowsHaveAuthors
<1>4. PICK j \in 1..done[o] : Author(d, o, j)
  BY <1>3
<1>5. o # r
  BY <1>1, <1>4, AuthorIsAnother DEF Documenting
<1> QED  BY <1>1, <1>4, <1>5 DEF Disagrees, Author, SameProvenance

\* A registration that has ended takes no step, and what turned it away remains.
LEMMA CauseStays ==
  ASSUME SharedInv, NEW r \in Registrars, register_intake_bundle(r) \/ Crash(r),
         NEW o \in Registrars, o # r \/ pc[r] \in Finished, Cause(o), Identifies(o)
  PROVE  Cause(o)' /\ Identifies(o)'
<1>1. TypeOK /\ job' = job /\ use' = use /\ Others(r)
  BY AnyStep DEF SharedInv, StepOf, Grows
<1>2. o # r
  BY DEF register_intake_bundle, Resolve, PersistParties, PersistDocuments, ResolveFirm,
       ResolveFund, Receive, GetFirm, CreateFirm, AliasFirm, GetFund, CreateFund, MergeFund,
       GetDocument, Put, RecordDocument, Finish, Crash, Idle, Finished
<1>3. Same(o) /\ Current(o)' = Current(o)
  BY <1>1, <1>2 DEF Others, Same, Current
<1>4. \A x \in Registrars : Forestalls(x, o) => Forestalls(x, o)'
  BY <1>1, Onward DEF Forestalls, ShareDocument, Lists
<1>5. pc[o] = "collision" => \A x \in Registrars : Disagrees(x, o) => Disagrees(x, o)'
  <2> SUFFICES ASSUME NEW x \in Registrars, Disagrees(x, o) PROVE Disagrees(x, o)'
    OBVIOUS
  <2>1. fund[x] # None => fund'[x] = fund[x]
    BY IdentityIsSettled
  <2>2. done[x] > 0 /\ done[x] \in Nat
    BY <1>1 DEF Disagrees, TypeOK
  <2>3. fund[x] # None
    BY <2>2, NoneIsNoValue DEF SharedInv, Local, Known
  <2>4. done'[x] \in Nat /\ done[x] <= done'[x]
    BY <1>1, DoneGrows, AnyStep DEF StepOf, TypeOK
  <2>5. PICK j \in 1..done[x] :
             /\ job[x].files[j].document = Current(o).document
             /\ \/ job[x].files[j].payload # Current(o).payload
                \/ job[x].channel # job[o].channel
                \/ fund[x] # fund[o]
    BY DEF Disagrees
  <2>6. j \in 1..done'[x]
    BY <2>2, <2>4, <2>5
  <2> QED  BY <1>1, <1>3, <2>1, <2>3, <2>5, <2>6 DEF Disagrees, Same
<1>6. pc[o] = "integrity_error" => \A x \in Registrars : Races(x, o) => Races(x, o)'
  BY <1>1, <1>3, Onward, IdentityIsSettled
     DEF Races, ShareDocument, Lists, Same, Received, Identifies
<1>7. Identifies(o)'
  BY <1>3 DEF Identifies, Same
<1>8. Cause(o)'
  BY <1>1, <1>3, <1>4, <1>5, <1>6, PinsStay DEF Cause, Same
<1> QED  BY <1>7, <1>8

\* What turns a registration away is there when it is.
LEMMA CauseArises ==
  ASSUME CauseInv, NEW r \in Registrars, register_intake_bundle(r) \/ Crash(r)
  PROVE  Cause(r)' /\ Identifies(r)'
<1>1. /\ SharedInv /\ NamesInv /\ Made /\ Cause(r) /\ Identifies(r)
      /\ TypeOK /\ Local(r) /\ job' = job /\ use' = use
  BY AnyStep DEF CauseInv, NamesInv, SharedInv, StepOf, Grows
<1>2. job[r].firmName \in Names /\ job[r].fundName \in Names
  BY <1>1, JobIsBundle DEF Bundle
<1>3. CASE ResolveFirm(r)
  <2>1. CASE pc'[r] = "ambiguous"
    <3>1. job[r].firmId = None /\ Ambiguous(FirmMatches(job[r].firmName))
      BY <1>1, <1>3, <2>1 DEF ResolveFirm, Goto, TypeOK
    <3>2. FirmPinned(Norm[job[r].firmName])'
      BY <1>1, <1>2, <3>1, AmbiguityIsPinned, PinsStay
    <3> QED  BY <1>1, <2>1, <3>1, <3>2 DEF Cause, Identifies
  <2>2. CASE pc'[r] # "ambiguous"
    <3>1. pc'[r] = "resolve_fund"
      BY <1>1, <1>3, <2>2 DEF ResolveFirm, Goto, TypeOK
    <3> QED  BY <3>1 DEF Cause, Identifies
  <2> QED  BY <2>1, <2>2
<1>4. CASE ResolveFund(r)
  <2>1. CASE pc'[r] = "ambiguous"
    <3>1. job[r].fundId = None /\ Ambiguous(FundMatches(firm[r], job[r].fundName))
      BY <1>1, <1>4, <2>1 DEF ResolveFund, Goto, TypeOK
    <3>2. firm[r] \in Ids
      BY <1>1, <1>4 DEF ResolveFund, Local, Known
    <3>3. FundPinned(Norm[job[r].fundName])'
      BY <1>1, <1>2, <3>1, <3>2, AmbiguityIsPinned, PinsStay
    <3> QED  BY <1>1, <2>1, <3>1, <3>3 DEF Cause, Identifies
  <2>2. CASE pc'[r] # "ambiguous"
    <3>1. pc'[r] = "receive"
      BY <1>1, <1>4, <2>2 DEF ResolveFund, Goto, TypeOK
    <3> QED  BY <3>1 DEF Cause, Identifies
  <2> QED  BY <2>1, <2>2
<1>5. CASE Receive(r)
  <2>1. CASE pc'[r] = "duplicate"
    <3>1. ~Receivable(use.service_of[r], job[r]) /\ UNCHANGED service /\ ~Received(r)
      BY <1>1, <1>5, <2>1 DEF Receive, Received, Goto, TypeOK
    <3>2. use.service_of[r] \in Services
      BY <1>1, UsesAreUses DEF TypeOK, Use
    <3>3. TwoAlike(job[r].files) \/ \E o \in Registrars : Forestalls(o, r)
      <4>1. CASE job[r].package \in packages[use.service_of[r]]
        BY <1>1, <3>1, <3>2, <4>1 DEF Made, HandedIn, Forestalls
      <4>2. CASE \E k \in 1..Len(job[r].files) :
                   owners[use.service_of[r]][job[r].files[k].document] # None
        <5>1. PICK k \in 1..Len(job[r].files) :
                owners[use.service_of[r]][job[r].files[k].document] # None
          BY <4>2
        <5>2. job[r].files[k].document \in Documents /\ Lists(r, job[r].files[k].document)
          BY <1>1, JobIsBundle DEF Lists
        <5> QED  BY <1>1, <3>1, <3>2, <5>1, <5>2 DEF Made, HandedIn, Forestalls, ShareDocument
      <4>3. CASE \E k \in 1..Len(job[r].files) : \E j \in 1..(k - 1) :
                   job[r].files[j].document = job[r].files[k].document
        <5>1. PICK k \in 1..Len(job[r].files) : \E j \in 1..(k - 1) :
                   job[r].files[j].document = job[r].files[k].document
          BY <4>3
        <5>2. PICK j \in 1..(k - 1) : job[r].files[j].document = job[r].files[k].document
          BY <5>1
        <5>3. j \in 1..Len(job[r].files) /\ j # k
          BY <1>1, <5>1, <5>2, JobIsBundle
        <5> QED  BY <5>1, <5>2, <5>3 DEF TwoAlike
      <4> QED  BY <3>1, <4>1, <4>2, <4>3 DEF Receivable
    <3>4. TwoAlike(job'[r].files) \/ \E o \in Registrars : Forestalls(o, r)'
      BY <1>1, <3>3, Onward DEF Forestalls, ShareDocument, Lists
    <3> QED  BY <2>1, <3>4 DEF Cause, Identifies
  <2>2. CASE pc'[r] # "duplicate"
    <3>1. pc'[r] = "firm"
      BY <1>1, <1>5, <2>2 DEF Receive, Goto, TypeOK
    <3> QED  BY <3>1 DEF Cause, Identifies
  <2> QED  BY <2>1, <2>2
<1>6. CASE GetDocument(r)
  <2>1. CASE pc'[r] = "unreadable"
    <3>1. Unreadable(r) /\ Current(r)' = Current(r)
      BY <1>1, <1>6, <2>1 DEF GetDocument, Goto, TypeOK, Current
    <3> QED  BY <2>1, <3>1 DEF Cause, Identifies, Unreadable
  <2>2. CASE pc'[r] = "collision"
    <3>1. PICK o \in Registrars : Disagrees(o, r)
      BY <1>1, <1>6, <2>2, CollisionIsCaused
    <3>2. Disagrees(o, r)'
      BY <1>1, <1>6, <3>1 DEF GetDocument, Disagrees, Current, identity
    <3>3. firm'[r] # None /\ fund'[r] # None
      BY <1>1, <1>6, NoneIsNoValue DEF GetDocument, Local, Known, Documenting, identity
    <3> QED  BY <2>2, <3>2, <3>3 DEF Cause, Identifies
  <2>3. CASE pc'[r] \notin {"unreadable", "collision"}
    <3>1. pc'[r] = "put"
      BY <1>1, <1>6, <2>3 DEF GetDocument, Goto, TypeOK
    <3> QED  BY <3>1 DEF Cause, Identifies
  <2> QED  BY <2>1, <2>2, <2>3
<1>7. CASE CreateFirm(r) \/ CreateFund(r) \/ RecordDocument(r)
  <2>1. firm[r] \in Ids /\ fund[r] \in Ids /\ firm' = firm /\ fund' = fund
    BY <1>1, <1>7 DEF CreateFirm, CreateFund, RecordDocument, Local, Known, Parties,
         Documenting, identity
  <2>2. CASE pc'[r] = "integrity_error"
    <3>1. \E o \in Registrars : Races(o, r)
      <4>1. CASE CreateFirm(r)
        <5>1. firms[firm[r]] # None /\ pc[r] = "create_firm"
          BY <1>1, <2>2, <4>1 DEF CreateFirm, Goto, TypeOK
        <5>2. PICK o \in Registrars : MadeFirm(o, firm[r])
          BY <1>1, <2>1, <5>1 DEF Made
        <5> QED  BY <5>1, <5>2 DEF MadeFirm, BeforeFirm, Races
      <4>2. CASE CreateFund(r)
        <5>1. funds[fund[r]] # None /\ pc[r] = "create_fund"
          BY <1>1, <2>2, <4>2 DEF CreateFund, Goto, TypeOK
        <5>2. PICK o \in Registrars : MadeFund(o, fund[r])
          BY <1>1, <2>1, <5>1 DEF Made
        <5> QED  BY <5>1, <5>2 DEF MadeFund, BeforeFund, Races
      <4>3. CASE RecordDocument(r)
        <5>1. documents[Current(r).document] # None /\ pc[r] \in Documenting
          BY <1>1, <2>2, <4>3 DEF RecordDocument, Goto, TypeOK, Documenting
        <5>2. pc[r] \in AtDocument
          BY <4>3 DEF RecordDocument, AtDocument
        <5>3. PICK o \in Registrars : \E j \in 1..done[o] : Author(Current(r).document, o, j)
          BY <1>1, <5>1, <5>2, AtDocumentFacts DEF SharedInv, RowsHaveAuthors
        <5>3a. PICK j \in 1..done[o] : Author(Current(r).document, o, j)
          BY <5>3
        <5>4. o # r /\ j \in 1..Len(job[o].files) /\ Current(r).document \in Documents
          BY <1>1, <5>1, <5>2, <5>3a, AuthorIsAnother DEF Local, Counted
        <5>5. Lists(o, Current(r).document) /\ Lists(r, Current(r).document)
          <6>1. done[r] + 1 \in 1..Len(job[r].files)
            BY <1>1, <5>2, CurrentIsFile DEF Local, Counted
          <6> QED  BY <5>3a, <5>4, <6>1 DEF Lists, Author, Current
        <5>6. Received(o)
          <6>1. done[o] \in Nat
            BY <1>1 DEF TypeOK
          <6> QED  BY <1>1, <5>3a, <6>1 DEF Made
        <5> QED  BY <5>4, <5>5, <5>6 DEF Races, ShareDocument
      <4> QED  BY <1>7, <4>1, <4>2, <4>3
    <3>2. \E o \in Registrars : Races(o, r)'
      BY <1>1, <2>1, <3>1, Onward, IdentityIsSettled, NoneIsNoValue
         DEF Races, ShareDocument, Lists, Received
    <3> QED  BY <2>1, <2>2, <3>2, NoneIsNoValue DEF Cause, Identifies
  <2>3. CASE pc'[r] # "integrity_error"
    <3>1. pc'[r] \in {"fund", "document"}
      BY <1>1, <1>7, <2>3 DEF CreateFirm, CreateFund, RecordDocument, Goto, TypeOK
    <3> QED  BY <3>1 DEF Cause, Identifies
  <2> QED  BY <2>2, <2>3
<1>8. CASE GetFirm(r) \/ AliasFirm(r) \/ GetFund(r) \/ MergeFund(r) \/ Put(r) \/ Finish(r)
           \/ Crash(r)
  <2>1. pc'[r] \in {"create_firm", "alias_firm", "fund", "create_fund", "merge_fund", "document",
                    "create_document", "update_document", "accepted", "dead"}
    BY <1>1, <1>8 DEF GetFirm, AliasFirm, GetFund, MergeFund, Put, Recording, Finish, Crash,
         Goto, TypeOK
  <2> QED  BY <2>1 DEF Cause, Identifies
<1> QED  BY <1>3, <1>4, <1>5, <1>6, <1>7, <1>8
         DEF register_intake_bundle, Resolve, PersistParties, PersistDocuments

LEMMA CausesAlways == Spec => []CauseInv
<1>1. Init => CauseInv
  <2>1. Init => \A r \in Registrars : Cause(r) /\ Identifies(r)
    BY DEF Init, Cause, Identifies
  <2>2. Init => Made
    BY DEF Init, Made, Parties, Documenting
  <2>3. Init => NamesInv
    BY SharedInit DEF Init, NamesInv, FirmsLead, FundsLead
  <2> QED  BY <2>1, <2>2, <2>3 DEF CauseInv
<1>2. CauseInv /\ NamesInv' /\ [Next]_vars => CauseInv'
  <2> SUFFICES ASSUME CauseInv, NamesInv', [Next]_vars PROVE CauseInv'
    OBVIOUS
  <2>1. CASE UNCHANGED vars
    <3>1. Made'
      BY <2>1 DEF vars, service, identity, CauseInv, Made, MadeFirm, MadeFund, HandedIn, Received,
                  Lists
    <3>2. ASSUME NEW r \in Registrars PROVE Cause(r)' /\ Identifies(r)'
      BY <2>1 DEF vars, service, identity, CauseInv, Cause, Identifies, FirmPinned, FundPinned,
                  Forestalls, Disagrees, Races, Received, ShareDocument, Lists, Current
    <3> QED  BY <3>1, <3>2 DEF CauseInv
  <2>2. CASE Next
    <3>1. PICK r \in Registrars : register_intake_bundle(r) \/ Crash(r)
      BY <2>2 DEF Next
    <3> QED  BY <3>1, MadeStep, CauseStays, CauseArises DEF CauseInv, NamesInv
  <2> QED  BY <2>1, <2>2
<1> QED  BY <1>1, <1>2, NamesAlways, PTL DEF Spec

(***************************************************************************)
(* Whatever registrations race or die, one that fails has its cause in a   *)
(* bundle, its own or another's; an integrity error comes only of races.   *)
(***************************************************************************)
THEOREM FailuresHaveCause == Spec => []FailsOnlyForCause
<1>1. CauseInv /\ IInv => FailsOnlyForCause
  BY DEF IInv, SerialInv, HeldIsCurrent, CauseInv, Cause, FailsOnlyForCause
<1> QED  BY <1>1, InvAlways, CausesAlways, PTL
=============================================================================
