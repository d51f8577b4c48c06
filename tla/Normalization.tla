----------------------------- MODULE Normalization -----------------------------
(***************************************************************************)
(* What becomes of a raw payload: the metadata a snapshot carries, the     *)
(* mapping of the fields, its validation, and the canonical records.       *)
(*                                                                         *)
(* A payload has a content type, a body and metadata.  Of a body we keep   *)
(* its JSON type, whether it looks like a bundle of exchange-rate pages,   *)
(* the shape the generic mapping finds in it, and what the extractor of    *)
(* its dataset makes of it (SourcePages, ReportRows, ExchangeRates).       *)
(***************************************************************************)
EXTENDS SourcePages

CurrentVersion == 1
LegacyVersion == 0

\* format: "bundle", "legacy html" or "none".
Metadata(version, format) == [version |-> version, format |-> format]
NoMetadata == Metadata(LegacyVersion - 1, "none")

\* intact: all keys of the content are there, and the status is a number.
\* readable: a file that holds it is one a snapshot can be parsed from.
Payload(type, body, metadata) ==
  [type |-> type, body |-> body, metadata |-> metadata, intact |-> TRUE, readable |-> TRUE]
Body(json, shape, extracted) ==
  [json |-> json, shape |-> shape, extracted |-> extracted, bundle |-> FALSE]
-----------------------------------------------------------------------------
(***************************************************************************)
(* Snapshot metadata.                                                      *)
(***************************************************************************)
\* Only the exchange rates have had two formats.
InferredFormat(dataset, payload) ==
  CASE dataset = "exchange rates" /\ payload.body.bundle -> "bundle"
    [] dataset = "exchange rates" /\ payload.body.json = "str" -> "legacy html"
    [] OTHER -> "none"

WithMetadata(dataset, payload, assumeLegacy) ==
  LET inferred == InferredFormat(dataset, payload)
      old      == payload.metadata
  IN  [payload EXCEPT !.metadata =
        IF old = NoMetadata
        THEN Metadata(IF assumeLegacy THEN LegacyVersion ELSE CurrentVersion, inferred)
        ELSE Metadata(old.version, IF old.format = "none" THEN inferred ELSE old.format)]

\* Faulty variant: any other version than the current one is refused.
WrongVersion(metadata) == metadata.version # CurrentVersion
TooNew(metadata) == metadata.version > CurrentVersion

Compatibility(dataset, payload) ==
  LET metadata == WithMetadata(dataset, payload, TRUE).metadata
  IN  CASE TooNew(metadata) -> {"incompatible", "unsupported version"}
        [] ~TooNew(metadata) /\ dataset = "exchange rates"
             /\ metadata.format = "legacy html" -> {"incompatible", "refresh required"}
        [] OTHER -> {}
-----------------------------------------------------------------------------
(***************************************************************************)
(* The field mapping.                                                      *)
(***************************************************************************)
\* "none" where the content is not what its type says, an error of the mapping.
KindOfBody(payload) ==
  LET json == payload.body.json
  IN  CASE ~payload.intact -> "none"
        [] payload.intact /\ payload.type = "json" ->
             IF json \in {"dict", "list"} THEN "json" ELSE "none"
        [] payload.intact /\ payload.type \in {"html", "text"} ->
             IF json = "str" THEN payload.type ELSE "none"
        [] OTHER -> "none"

\* The datasets with an extractor of their own for bodies of that kind.
Extractable(kind) ==
  CASE kind = "json" -> {"budget", "pos by city", "pos weekly", "exchange rates", "deposits"}
    [] kind = "html" -> {"cpi", "gdp", "unemployment", "pos weekly", "repo rate",
                         "reverse repo rate", "exchange rates", "money supply weekly"}
    [] kind = "text" -> {}

HasExtractor(dataset, kind, json) ==
  /\ dataset \in Extractable(kind)
  /\ kind = "json" => (json = "dict" \/ (json = "list" /\ dataset = "deposits"))

\* structured: "raw" where the body itself is the structured body, "rows" where
\* the extracted rows are, "absent" where there is none.
Mapping(kind, structured, shape, limitations, rows) ==
  [kind |-> kind, structured |-> structured, shape |-> shape, limitations |-> limitations,
   derivable |-> shape # "none", rows |-> rows, failed |-> FALSE]
FailedMapping == [Mapping("none", "absent", "none", {}, <<>>) EXCEPT !.failed = TRUE]

GenericLimitation(kind) == IF kind = "json" THEN "shape" ELSE "text or html"

LimitedMapping(kind, limitations) ==
  Mapping(kind, IF kind = "json" THEN "raw" ELSE "absent", "none",
          {GenericLimitation(kind)} \cup limitations, <<>>)

ExtractedMapping(kind, extracted) ==
  CASE extracted.status = "raised" -> FailedMapping
    [] extracted.status = "invalid" -> LimitedMapping(kind, {"extractor", "sanity"})
    [] extracted.status = "none" -> LimitedMapping(kind, {"extractor"})
    [] extracted.status = "rows" -> Mapping(kind, "rows", "rows", {}, extracted.rows)

\* A JSON body in a supported shape is its own rows.
GenericMapping(kind, body) ==
  IF kind = "json" /\ body.shape # "none"
  THEN Mapping(kind, "raw", body.shape, {}, body.extracted.rows)
  ELSE LimitedMapping(kind, {})

FieldMapping(dataset, payload) ==
  LET kind == KindOfBody(payload)
      body == payload.body
  IN  CASE kind = "none" -> FailedMapping
        [] kind # "none" /\ Compatibility(dataset, payload) # {} ->
             LimitedMapping(kind, Compatibility(dataset, payload))
        [] kind # "none" /\ Compatibility(dataset, payload) = {} ->
             IF HasExtractor(dataset, kind, body.json)
             THEN ExtractedMapping(kind, body.extracted)
             ELSE GenericMapping(kind, body)
-----------------------------------------------------------------------------
(***************************************************************************)
(* The validation of a mapping, and the pipeline.                          *)
(***************************************************************************)
\* The structured body has the shape the mapping declares.
ShapeFits(mapping, body) ==
  CASE mapping.shape = "none" -> TRUE
    [] mapping.shape = "rows" ->
         mapping.structured = "rows" \/ (mapping.structured = "raw" /\ body.shape = "rows")
    [] mapping.shape = "top level" ->
         mapping.structured = "raw" /\ body.json = "list" /\ body.shape = "top level"

DerivableMapping(mapping, body) ==
  /\ mapping.derivable
  /\ mapping.limitations = {}
  /\ mapping.structured # "absent"
  /\ ShapeFits(mapping, body)

IsLimitedMapping(mapping) ==
  /\ ~mapping.derivable
  /\ mapping.shape = "none"
  /\ GenericLimitation(mapping.kind) \in mapping.limitations

\* What has rows must be derivable, and anything else limited, or the mapping
\* is rejected.
Validation(mapping, body) ==
  LET extracted == \/ mapping.kind = "json" /\ mapping.structured = "rows"
                   \/ mapping.kind # "json"
                        /\ (mapping.derivable \/ mapping.shape # "none"
                              \/ mapping.structured # "absent")
  IN  CASE mapping.shape # "none" /\ DerivableMapping(mapping, body) -> "record_derivable"
        [] ~extracted /\ IsLimitedMapping(mapping) -> "limited"
        [] OTHER -> "rejected"

Normalized(status, stage, records, limitations) ==
  [status |-> status, stage |-> stage, records |-> records, limitations |-> limitations]

Normalize(dataset, payload) ==
  LET mapping == FieldMapping(dataset, payload)
      verdict == Validation(mapping, payload.body)
  IN  CASE mapping.failed -> Normalized("failed", "mapping", <<>>, {})
        [] ~mapping.failed /\ verdict = "rejected" ->
             Normalized("failed", "validation", <<>>, {})
        [] ~mapping.failed /\ verdict # "rejected" ->
             Normalized(verdict, "none",
                        IF verdict = "limited" THEN <<>> ELSE mapping.rows,
                        mapping.limitations)
=============================================================================
