----------------------------- MODULE PipelineMC -----------------------------
(***************************************************************************)
(* A small instance of Pipeline with the threshold policy that is shipped  *)
(* (config/extraction_thresholds.yaml), two days to a month, and bundles   *)
(* of up to three of these files, in every order of submission:            *)
(*   pdf, pptx      primary documents                                      *)
(*   torn           a PDF by name whose bytes are something else           *)
(*   record         a workbook that is the track record                    *)
(*   other          another workbook, first by name                        *)
(*   disguised      a track record by name that is a PDF                   *)
(*   deck           a presentation submitted as the track record           *)
(*   composite      a text whose name marks the series                     *)
(***************************************************************************)
EXTENDS Pipeline

MakeFile(name, ext, format, track_record, tagged) ==
  [name |-> name, ext |-> ext, format |-> format, track_record |-> track_record,
   tagged |-> tagged]

Pdf       == MakeFile(1, "pdf", "pdf", FALSE, FALSE)
Pptx      == MakeFile(2, "pptx", "pptx", FALSE, FALSE)
Torn      == MakeFile(3, "pdf", "other", FALSE, FALSE)
Other     == MakeFile(4, "xlsx", "xlsx", FALSE, FALSE)
Record    == MakeFile(5, "xlsx", "xlsx", TRUE, FALSE)
Disguised == MakeFile(6, "xlsx", "pdf", TRUE, FALSE)
DeckRecord == MakeFile(7, "pptx", "pptx", TRUE, FALSE)
Composite == MakeFile(8, "docx", "other", FALSE, TRUE)

Collections ==
  {{Pdf}, {Torn}, {Pptx, Record}, {Pdf, Record}, {Pptx, Other}, {Pptx, Disguised},
   {Pdf, DeckRecord}, {Torn, Pptx}, {Pptx, Record, Composite}, {Pdf, Pptx, Record},
   {Pptx, Other, Record}, {Pptx, Record, Disguised}}

BundlesMC == UNION {SetToSeqs(c) : c \in Collections}

AllStated == ToSet(StandardFields)

Says(type, stated, paged, legible) ==
  [type |-> type, stated |-> stated, paged |-> paged, legible |-> legible]

ContentsMC ==
  {Says(t, s, s, TRUE) : t \in {"pitchbook", "tear_sheet", "monthly_letter", "ddq", "unknown"},
     s \in {AllStated, AllStated \ {"aum"}, AllStated \ {"fee"}, {"net_return"}, {}}} \cup
  {Says(t, AllStated, p, l) : t \in {"tear_sheet", "unknown"},
     p \in {AllStated, AllStated \ {"fee"}}, l \in BOOLEAN}

MonthMC == [d \in 1..8 |-> (d + 1) \div 2]

WorkbooksMC ==
  [days : {{}, {1}, {1, 3}, {1, 4, 5}, {1, 3, 7}, {1, 2, 5}, {2, 3, 6, 7}}, flat : BOOLEAN]

Limits(auto, key, coverage, mandatory, mandatoryFields) ==
  [field_auto_accept_min |-> auto, key_field_confidence_min |-> key,
   document_key_field_coverage_min |-> coverage, mandatory_field_min |-> mandatory,
   mandatory_fields |-> mandatoryFields]

BaseConfigMC == Limits(85, 75, 80, 60, {"fee", "net_return", "aum"})

ProfilesMC ==
  [pitchbook |->
     [key_fields |-> {"fee", "net_return", "aum"}, config |-> BaseConfigMC],
   tear_sheet |->
     [key_fields |-> {"net_return", "aum"}, config |-> Limits(85, 75, 100, 60, {"aum"})],
   monthly_letter |->
     [key_fields |-> {"net_return", "market_update"},
      config |-> Limits(85, 75, 50, 60, {"net_return"})],
   ddq |->
     [key_fields |-> {"fee", "aum", "inception_date"},
      config |-> Limits(85, 75, 80, 60, {"fee", "aum"})]]

-----------------------------------------------------------------------------
(***************************************************************************)
(* Calls of the orchestrator by others: policies from no attempts to three *)
(* (nothing in RetryPolicy keeps a limit from being negative), the same or *)
(* different providers, and documents that say of the assets 0, 100, 104,  *)
(* 109 or "n/a".  At 5% 100 agrees with 104, and 104 with 109, but 100     *)
(* does not with 109.                                                      *)
(***************************************************************************)
TotalLimitsMC == -1..3

FallbackLimitsMC == -1..2

Field(key, text, confidence, source) ==
  [key |-> key, text |-> text, confidence |-> confidence, source |-> source]

TextsMC == {0, 2, 100, 104, 109, 999}

NumberMC == [t \in TextsMC |-> IF t = 999 THEN NotANumber ELSE t]

Assets ==
  {Field("aum", 100, 90, 1), Field("aum", 104, 90, 2), Field("aum", 109, 90, 1),
   Field("aum", 109, 60, 2), Field("aum", 999, 90, 2)}

Fields == Assets \cup {Field("aum", 0, 60, 1), Field("fee", 2, 90, 1)}

\* No document, one, two that may agree, and a third that may not.
DeliveriesMC ==
  {<<>>} \cup
  {<<<<f>>>> : f \in Fields} \cup
  {<<<<f, g>>>> : f, g \in Fields} \cup
  {<<<<f>>, <<g>>>> : f, g \in Fields} \cup
  {<<<<f, g>>, <<h>>>> : f, g, h \in {a \in Assets : a.confidence = 90}}

PolicyMC == Limits(85, 75, 50, 60, {"aum"})
=============================================================================
