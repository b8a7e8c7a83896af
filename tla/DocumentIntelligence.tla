------------------------ MODULE DocumentIntelligence ------------------------
(***************************************************************************)
(* From the OCR text of a document to the evidence the other stages use:   *)
(* src/parser.py and src/document_intelligence.                            *)
(*                                                                         *)
(* A text is its labelled lines, in order, and the marks found in it.  A   *)
(* value is abstracted to what the program tells apart: a date is a date   *)
(* or Malformed, a document number is the type whose pattern it matches    *)
(* or Malformed, a declared type is a supported type or another word.      *)
(***************************************************************************)
EXTENDS Integers, Sequences, FiniteSets

CONSTANTS
    Dates,        \* the dates of the instance, ordered as integers
    Names,        \* values of full_name
    Addresses,    \* values of address
    Malformed,    \* a date or a document number that does not parse
    Absent,       \* None: no such line, no such value
    Blank         \* the empty string: a label with nothing after it

ASSUME DatesAssumption == Dates \subseteq Int
ASSUME ValuesAssumption ==
    /\ Absent # Blank
    /\ {Malformed, Absent, Blank} \cap (Dates \cup Names \cup Addresses) = {}
    /\ Malformed \notin {Absent, Blank}

SupportedTypes == {"passport", "national_id", "driving_licence"}

ASSUME WordsAssumption == {Malformed, Absent, Blank} \cap (SupportedTypes \cup {"other"}) = {}

CanonicalFields == {"full_name", "date_of_birth", "document_number", "issue_date",
                    "expiry_date", "address", "nationality"}
DateFields == {"date_of_birth", "issue_date", "expiry_date"}
MandatoryFields == {"full_name", "date_of_birth", "document_number", "expiry_date"}

\* The substrings looked for in a text.  "degraded" and "rotated" are the whole
\* capture labels, the two words are the same words anywhere else in the text.
Marks == {"tampered", "degraded", "degraded_word", "rotated", "rotated_word", "unlabelled"}

Values(key) ==
    CASE key = "document_type"   -> SupportedTypes \cup {"other"}
      [] key = "document_number" -> SupportedTypes \cup {Malformed}
      [] key \in DateFields      -> Dates \cup {Malformed}
      [] key = "full_name"       -> Names
      [] key = "address"         -> Addresses
      [] key = "nationality"     -> {"country"}

\* A text: labelled lines, each with a value of its label or with none, and marks.
IsText(text) ==
    /\ text.lines \in Seq({text.lines[i] : i \in DOMAIN text.lines})
    /\ \A i \in DOMAIN text.lines :
          /\ text.lines[i].key \in CanonicalFields \cup {"document_type"}
          /\ text.lines[i].value \in Values(text.lines[i].key) \cup {Blank}
    /\ text.marks \subseteq Marks

-----------------------------------------------------------------------------
(* The parser: a repeated label overwrites the value read before it. *)

Parsed(text) ==
    [key \in CanonicalFields \cup {"document_type"} |->
        LET at == {i \in DOMAIN text.lines : text.lines[i].key = key}
        IN  IF at = {} THEN Absent
            ELSE text.lines[CHOOSE i \in at : \A j \in at : j <= i].value]

\* Python's truth of fields.get(key).
Present(fields, key) == fields[key] \notin {Absent, Blank}

PresentAmong(fields, keys) == {key \in keys : Present(fields, key)}

-----------------------------------------------------------------------------
(* Classification, quality and evidence. *)

Inferred(fields) ==
    IF fields["document_number"] \in SupportedTypes THEN fields["document_number"] ELSE "unknown"

ClassifyDocument(fields) ==
    IF ~Present(fields, "document_type") THEN Inferred(fields)
    ELSE IF fields["document_type"] \in SupportedTypes THEN fields["document_type"]
    ELSE "unknown"

FieldsByType(type) ==
    IF type = "unknown" THEN {}
    ELSE (CanonicalFields \ {"address", "nationality"})
            \cup {IF type = "passport" THEN "nationality" ELSE "address"}

AssessQualityMisnamed(text, present, expected) ==
    IF 2 * present < expected THEN "unreadable" ELSE "normal"

AssessQuality(text, present, expected) ==
    CASE text.lines = <<>> /\ text.marks = {} -> "incomplete_unreadable"
      [] 2 * present < expected               -> "incomplete_unreadable"
      [] OTHER -> IF "degraded" \in text.marks THEN "degraded"
                  ELSE IF "rotated" \in text.marks THEN "rotated" ELSE "normal"

Qualities == {"normal", "degraded", "rotated", "incomplete_unreadable"}

\* build_document_evidence: every field the type's schema expects, found or not; of
\* a document of unknown type only the fields found.
BuildDocumentEvidence(text) ==
    LET fields == Parsed(text)
        type == ClassifyDocument(fields)
        found == PresentAmong(fields, CanonicalFields)
        names == IF type = "unknown" THEN found ELSE FieldsByType(type)
    IN  [type    |-> type,
         fields  |-> [name \in names |-> IF name \in found THEN fields[name] ELSE Absent],
         quality |-> AssessQuality(text, Cardinality(found), Cardinality(FieldsByType(type)))]

\* field is not None and field.value is not None
Extracted(evidence, name) == name \in DOMAIN evidence.fields /\ evidence.fields[name] # Absent

=============================================================================
