------------------------- MODULE IdentityResolution -------------------------
(***************************************************************************)
(* src/identity_resolution: whether the application and the documents of a *)
(* case describe one person.  The comparison of two different names or     *)
(* addresses (normalisation, initials, token order, the difflib ratio      *)
(* against its threshold) is a constant: the model needs its verdict only. *)
(* The ratio of difflib depends on the order of its arguments, so a        *)
(* verdict is on an ordered pair.                                          *)
(***************************************************************************)
EXTENDS DocumentIntelligence

CONSTANTS NameVerdict, AddressVerdict

Verdicts == {"NORMALIZED_MATCH", "FUZZY_MATCH", "CONFLICT"}

ASSUME VerdictsAssumption ==
    /\ NameVerdict \in [Names \X Names -> Verdicts]
    /\ AddressVerdict \in [Addresses \X Addresses -> Verdicts]

\* A normalised match is an equality of normalised forms, or token rules that
\* read the same both ways (tokens_compatible, tokens_match_ignoring_order):
\* only the ratio behind the other two verdicts depends on the order.
ASSUME NormalizedSymmetric ==
    /\ \A a, b \in Names :
          NameVerdict[<<a, b>>] = "NORMALIZED_MATCH" => NameVerdict[<<b, a>>] = "NORMALIZED_MATCH"
    /\ \A a, b \in Addresses :
          AddressVerdict[<<a, b>>] = "NORMALIZED_MATCH" => AddressVerdict[<<b, a>>] = "NORMALIZED_MATCH"

Attributes == {"full_name", "date_of_birth", "address"}

StatusRank == [CONFLICT |-> 0, INSUFFICIENT_EVIDENCE |-> 1, FUZZY_MATCH |-> 2,
               NORMALIZED_MATCH |-> 3, EXACT |-> 4]
MatchStatuses == Verdicts \cup {"INSUFFICIENT_EVIDENCE", "EXACT"}

\* The most concerning status; with nothing compared, insufficient evidence.
BestStatus(statuses) ==
    IF statuses = {} THEN "INSUFFICIENT_EVIDENCE"
    ELSE CHOOSE s \in statuses : \A t \in statuses : StatusRank[s] >= StatusRank[t]

WorstStatus(statuses) ==
    IF statuses = {} THEN "INSUFFICIENT_EVIDENCE"
    ELSE CHOOSE s \in statuses : \A t \in statuses : StatusRank[s] <= StatusRank[t]

CompareNames(a, b) == IF a = b THEN "EXACT" ELSE NameVerdict[<<a, b>>]

\* Dates agree or conflict; one that does not parse is evidence of nothing.
CompareDob(a, b) ==
    IF ~({a, b} \subseteq Dates) THEN "INSUFFICIENT_EVIDENCE"
    ELSE IF a = b THEN "EXACT" ELSE "CONFLICT"

CompareAddresses(a, b) == IF a = b THEN "EXACT" ELSE AddressVerdict[<<a, b>>]

Compare(attribute, a, b) ==
    CASE attribute = "full_name"     -> CompareNames(a, b)
      [] attribute = "date_of_birth" -> CompareDob(a, b)
      [] attribute = "address"       -> CompareAddresses(a, b)

\* The sources of an attribute: 0 is the application, the rest the documents.
SourceValue(attribute, submitted, evidences, source) ==
    IF source = 0 THEN submitted[attribute]
    ELSE IF Extracted(evidences[source], attribute) THEN evidences[source].fields[attribute]
    ELSE Absent

Usable(attribute, submitted, evidences) ==
    {source \in 0..Len(evidences) : SourceValue(attribute, submitted, evidences, source) # Absent}

PairwiseNeighbours(attribute, submitted, evidences) ==
    {[attribute |-> attribute,
      status    |-> Compare(attribute, SourceValue(attribute, submitted, evidences, p[1]),
                                       SourceValue(attribute, submitted, evidences, p[2]))] :
        p \in {q \in Usable(attribute, submitted, evidences) \X Usable(attribute, submitted, evidences) :
                 q[2] = q[1] + 1}}

\* Every usable source against every later one.
Pairwise(attribute, submitted, evidences) ==
    {[attribute |-> attribute,
      status    |-> Compare(attribute, SourceValue(attribute, submitted, evidences, p[1]),
                                       SourceValue(attribute, submitted, evidences, p[2]))] :
        p \in {q \in Usable(attribute, submitted, evidences) \X Usable(attribute, submitted, evidences) :
                 q[1] < q[2]}}

\* An empty submitted name or address is not None, so it is compared; its
\* normalised form is None, which the comparison then splits or matches.
Raises(submitted, evidences) ==
    \E attribute \in {"full_name", "address"} :
        /\ submitted[attribute] = Blank
        /\ \E i \in DOMAIN evidences : Extracted(evidences[i], attribute)

ResolveIdentity(submitted, evidences) ==
    [pairs  |-> UNION {Pairwise(attribute, submitted, evidences) : attribute \in Attributes},
     status |-> [attribute \in Attributes |->
                    WorstStatus({p.status : p \in Pairwise(attribute, submitted, evidences)})]]

=============================================================================
