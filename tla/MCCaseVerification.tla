------------------------- MODULE MCCaseVerification --------------------------
(***************************************************************************)
(* The cases of the model: a clean case of nought to three documents and   *)
(* the cases that deviate from it in an application value, a line or a     *)
(* mark, one or two documents at a time.                                   *)
(***************************************************************************)
EXTENDS CaseProperties

CONSTANTS n1, n2, n3, a1, a2, a3

mcDates == 0..5
mcReferenceDate == 3
mcNames == {n1, n2, n3}
mcAddresses == {a1, a2, a3}

\* n2 is another spelling of n1; n3 is near n1 in one order of the two only.
mcNameVerdict ==
    [p \in mcNames \X mcNames |->
        IF p \in {<<n1, n2>>, <<n2, n1>>} THEN "NORMALIZED_MATCH"
        ELSE IF p = <<n1, n3>> THEN "FUZZY_MATCH" ELSE "CONFLICT"]
mcAddressVerdict ==
    [p \in mcAddresses \X mcAddresses |-> IF a3 \in {p[1], p[2]} THEN "CONFLICT" ELSE "FUZZY_MATCH"]

Labels == <<"document_type", "full_name", "date_of_birth", "document_number",
            "issue_date", "expiry_date", "address", "nationality">>

Written(read) ==
    LET labels == SelectSeq(Labels, LAMBDA k : read[k] # Absent)
    IN  [i \in DOMAIN labels |-> [key |-> labels[i], value |-> read[labels[i]]]]

Clean(type) ==
    [document_type |-> type, full_name |-> n1, date_of_birth |-> 0, document_number |-> type,
     issue_date |-> 2, expiry_date |-> 5,
     address |-> IF type = "passport" THEN Absent ELSE a1,
     nationality |-> IF type = "passport" THEN "country" ELSE Absent]

Text(read) == [lines |-> Written(read), marks |-> {}]

\* A text with one label, of those given, read as another value.
Changed(type, labels) ==
    {Text([Clean(type) EXCEPT ![k] = v]) : <<k, v>> \in
        UNION {{k} \X (Values(k) \cup {Blank, Absent}) : k \in labels}}

Marked(type) == {[Text(Clean(type)) EXCEPT !.marks = {m}] : m \in Marks}

\* A label repeated at the end of the text.
Repeated(type) ==
    {[Text(Clean(type)) EXCEPT !.lines = Append(@, [key |-> k[1], value |-> k[2]])] :
        k \in {<<"expiry_date", 2>>, <<"document_number", Malformed>>, <<"full_name", Blank>>}}

\* Mandatory fields that are missing together.
Sparse(type) ==
    {Text([k \in DOMAIN Clean(type) |-> IF k \in gone THEN Absent ELSE Clean(type)[k]]) :
        gone \in {{"full_name", "expiry_date"},
                  {"full_name", "date_of_birth", "issue_date", "expiry_date"},
                  DOMAIN Clean(type)}}

OneChange(type) == Changed(type, DOMAIN Clean(type)) \cup Marked(type) \cup Repeated(type) \cup Sparse(type)

Personal(type) == Changed(type, {"full_name", "date_of_birth", "address"})

Submissions(changed) ==
    {[full_name |-> s[1], date_of_birth |-> s[2], address |-> s[3]] :
        s \in {<<n1, 0, a1>>} \cup
              IF changed THEN ((mcNames \cup {Absent, Blank}) \X {0} \X {a1})
                              \cup ({n1} \X {1, Malformed, Absent, Blank} \X {a1})
                              \cup ({n1} \X {0} \X {a2, a3, Absent, Blank})
              ELSE {}}

Case(s, texts) == [full_name |-> s.full_name, date_of_birth |-> s.date_of_birth,
                   address |-> s.address, texts |-> texts]

NoDocument == {Case(s, <<>>) : s \in Submissions(TRUE)}

OneDocument ==
    UNION {{Case(s, <<t>>) : s \in Submissions(TRUE), t \in OneChange(type)} :
              type \in {"passport", "national_id"}}

TwoDocuments ==
    UNION {{Case(s, <<t, u>>) : s \in Submissions(FALSE),
                                t \in OneChange(p[1]) \cup {Missing}, u \in Personal(p[2])} :
              p \in {<<"passport", "national_id">>, <<"national_id", "passport">>,
                     <<"national_id", "national_id">>}}

ThreeDocuments ==
    {Case(s, <<t, u, v>>) :
        s \in Submissions(FALSE),
        t \in {Text(Clean("passport"))} \cup Changed("passport", {"date_of_birth"}),
        u \in Changed("national_id", {"date_of_birth", "full_name"}) \cup {Missing},
        v \in Changed("driving_licence", {"date_of_birth", "address"})}

mcApplications == NoDocument \cup OneDocument \cup TwoDocuments \cup ThreeDocuments

=============================================================================
