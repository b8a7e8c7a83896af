SPECIFICATION Spec
CONSTANTS
    Dates <- mcDates
    ReferenceDate <- mcReferenceDate
    Names <- mcNames
    Addresses <- mcAddresses
    NameVerdict <- mcNameVerdict
    AddressVerdict <- mcAddressVerdict
    Applications <- mcApplications
    n1 = n1
    n2 = n2
    n3 = n3
    a1 = a1
    a2 = a2
    a3 = a3
    Malformed = Malformed
    Absent = Absent
    Blank = Blank
    Missing = Missing
    NotYet = NotYet
INVARIANTS
    TypeOK
    ApprovedExactlyWhenPassing
    RejectedExactlyOnHardStop
    RulesAgree
    OrderIndependent
    NoDocumentRescues
    NothingCriticalInReview
\* A verification ends with its reply.
CHECK_DEADLOCK FALSE
