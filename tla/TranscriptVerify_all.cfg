SPECIFICATION Spec
CONSTANTS
    first = first  average = average  a = a  b = b  absent = absent
    NameField = {first}
    GpaField = {average}
    Text = {a, b}
    Absent = absent
    MaxLength = 2
    MaxCount = 1
    Transcripts <- AllTranscripts
INVARIANTS VerifiedAgrees OwnIsVerified
CHECK_DEADLOCK FALSE
