--------------------------- MODULE TranscriptVerify ---------------------------
(***************************************************************************)
(* The acknowledgement of a college transcript and its verification.        *)
(*                                                                         *)
(* The recipient summarises the transcript it received; the sender compares *)
(* the summary with the transcript of the row that the acknowledgement      *)
(* names, which need not be the one that was received.  Everything in a     *)
(* document that the schema makes optional may be absent, and reading a     *)
(* field of what is absent is an exception, which refuses the               *)
(* acknowledgement like a difference does.                                  *)
(***************************************************************************)
EXTENDS Naturals, Sequences, SequencesExt

CONSTANTS
    NameField,   \* the optional single fields of a name that are compared
    GpaField,    \* the optional fields of a GPA
    Text,        \* their values, and names
    Absent,
    MaxLength,   \* bound: elements of a list
    MaxCount,    \* bound: courses, and awards, in a place
    Transcripts  \* the transcripts that are exchanged

Fields(F) == [F -> Text \union {Absent}]
List(S) == UNION {[1..n -> S] : n \in 0..MaxLength}
Gpa == Fields(GpaField)

(* compositeName is not compared.                                           *)
Name == [fields : Fields(NameField), middle : List(Text),
         composite : Text \union {Absent}]
Summary == [gpa : Gpa \union {Absent}]
Totals == [courses : 0..MaxCount, awards : 0..MaxCount]
AcademicRecord == [summaries : List(Summary), own : Totals, sessions : List(Totals)]
Transcript == [name : Name, records : Seq(AcademicRecord)]

ASSUME VerifyAssumption ==
    /\ Absent \notin Text /\ MaxLength \in Nat /\ MaxCount \in Nat
    /\ Transcripts \subseteq Transcript

VARIABLES
    sent,      \* the transcript of the row that the acknowledgement names
    received,  \* the transcript that is acknowledged
    ack, pc, matched

vars == <<sent, received, ack, pc, matched>>

-----------------------------------------------------------------------------
(* Building *)

SumOver(seq, Count(_)) == FoldLeft(LAMBDA n, x : n + Count(x), 0, seq)

Total(records, Count(_)) ==
    SumOver(records, LAMBDA r : Count(r.own) + SumOver(r.sessions, Count))
CourseTotal(t) == Total(t.records, LAMBDA c : c.courses)
AwardTotal(t) == Total(t.records, LAMBDA c : c.awards)

(* The records that have summaries.                                         *)
Summarised(t) == {i \in DOMAIN t.records : t.records[i].summaries # <<>>}

(* The last of all summaries.                                               *)
LastAcademicSummary(t) ==
    IF Summarised(t) = {} THEN Absent
    ELSE Last(t.records[Max(Summarised(t))].summaries)

FindFirstAcademicSummary(t) ==
    IF Summarised(t) = {} THEN Absent
    ELSE Head(t.records[Min(Summarised(t))].summaries)

(* buildBaseTranscriptAcknowledgement that sums up the last summary.        *)
BuildOfLast(t) ==
    [name |-> t.name, summary |-> LastAcademicSummary(t),
     courses |-> CourseTotal(t), awards |-> AwardTotal(t)]

(* buildBaseTranscriptAcknowledgement                                       *)
Build(t) ==
    [name |-> t.name, summary |-> FindFirstAcademicSummary(t),
     courses |-> CourseTotal(t), awards |-> AwardTotal(t)]

-----------------------------------------------------------------------------
(* Verifying *)

(* A field that the transcript lacks is not compared.                       *)
FieldsAgree(inAck, inTranscript) ==
    \A f \in DOMAIN inTranscript :
        inTranscript[f] # Absent => inAck[f] = inTranscript[f]

(* The middle names that both have are compared, and their number is not.   *)
CommonMiddleNames(inAck, inTranscript) ==
    \A i \in DOMAIN inAck \intersect DOMAIN inTranscript : inAck[i] = inTranscript[i]

(* Different numbers are a difference, or an exception while comparing.     *)
MiddleNamesAgree(inAck, inTranscript) ==
    /\ Len(inAck) = Len(inTranscript)
    /\ \A i \in DOMAIN inTranscript : inAck[i] = inTranscript[i]

VerifyName ==
    /\ pc = "name"
    /\ matched' = (/\ FieldsAgree(ack.name.fields, sent.name.fields)
                   /\ MiddleNamesAgree(ack.name.middle, sent.name.middle))
    /\ pc' = IF Len(ack.name.middle) < Len(sent.name.middle) THEN "done" ELSE "gpa"
    /\ UNCHANGED <<sent, received, ack>>

(* The acknowledgement has no summary: nothing is compared.                 *)
SkipGPA ==
    /\ pc = "gpa" /\ ack.summary = Absent
    /\ pc' = "awards"
    /\ UNCHANGED <<sent, received, ack, matched>>

(* The GPA of the transcript; a summary that is not there has none.          *)
SentGPA ==
    LET s == FindFirstAcademicSummary(sent) IN IF s = Absent THEN Absent ELSE s.gpa

(* Only a field of the transcript that is there is looked for in the         *)
(* acknowledgement.                                                         *)
GPAReadable ==
    IF SentGPA = Absent THEN FALSE
    ELSE ack.summary.gpa # Absent \/ \A f \in GpaField : SentGPA[f] = Absent

VerifyGPA ==
    /\ pc = "gpa" /\ ack.summary # Absent /\ GPAReadable
    /\ matched' = (matched /\ (ack.summary.gpa # Absent =>
                                  FieldsAgree(ack.summary.gpa, SentGPA)))
    /\ pc' = "awards"
    /\ UNCHANGED <<sent, received, ack>>

(* The transcript has no summary, or one of the GPAs is missing.            *)
GPAFails ==
    /\ pc = "gpa" /\ ack.summary # Absent /\ ~GPAReadable
    /\ matched' = FALSE
    /\ pc' = "done"
    /\ UNCHANGED <<sent, received, ack>>

VerifyAwards ==
    /\ pc = "awards"
    /\ matched' = (matched /\ ack.awards = AwardTotal(sent))
    /\ pc' = "courses"
    /\ UNCHANGED <<sent, received, ack>>

VerifyCourses ==
    /\ pc = "courses"
    /\ matched' = (matched /\ ack.courses = CourseTotal(sent))
    /\ pc' = "done"
    /\ UNCHANGED <<sent, received, ack>>

-----------------------------------------------------------------------------
Init ==
    /\ sent \in Transcripts
    /\ received \in Transcripts
    /\ ack = Build(received)
    /\ pc = "name"
    /\ matched = TRUE

Next ==
    VerifyName \/ SkipGPA \/ VerifyGPA \/ GPAFails \/ VerifyAwards \/ VerifyCourses

Spec == Init /\ [][Next]_vars

-----------------------------------------------------------------------------
(* Properties *)

Verified == pc = "done" /\ matched

(* verifyTranscript: an acknowledgement that is accepted agrees with the     *)
(* transcript in all that the transcript says of the compared fields, in the *)
(* totals, and in the GPA unless the acknowledgement has no summary, although *)
(* fields, lists and summaries may be absent.                               *)
VerifiedAgrees ==
    Verified =>
        /\ FindFirstAcademicSummary(received) # Absent =>
              /\ SentGPA # Absent
              /\ \A f \in GpaField : SentGPA[f] # Absent =>
                    FindFirstAcademicSummary(received).gpa[f] = SentGPA[f]
        /\ \A f \in NameField : sent.name.fields[f] \in {Absent, received.name.fields[f]}
        /\ sent.name.middle = received.name.middle
        /\ CourseTotal(sent) = CourseTotal(received)
        /\ AwardTotal(sent) = AwardTotal(received)

(* The acknowledgement of the transcript that was sent is accepted, unless   *)
(* its first summary has no GPA.                                            *)
OwnIsVerified ==
    pc = "done" /\ received = sent /\ (ack.summary = Absent \/ SentGPA # Absent)
        => matched

(* Why both hold: the acknowledgement is what was built from the received    *)
(* transcript; while nothing has differed, every comparison that is behind   *)
(* has found agreement, and a comparison with the own transcript never       *)
(* differs.                                                                 *)
VerifyTypeOK ==
    /\ sent \in Transcripts /\ received \in Transcripts
    /\ ack = Build(received)
    /\ pc \in {"name", "gpa", "awards", "courses", "done"}
    /\ matched \in BOOLEAN

NamesAgree ==
    /\ \A f \in NameField : sent.name.fields[f] \in {Absent, received.name.fields[f]}
    /\ sent.name.middle = received.name.middle

GPAsAgree ==
    FindFirstAcademicSummary(received) # Absent =>
        /\ SentGPA # Absent
        /\ \A f \in GpaField : SentGPA[f] # Absent =>
              FindFirstAcademicSummary(received).gpa[f] = SentGPA[f]

(* What matches so far agrees in what has been compared.                    *)
ComparedAgrees ==
    matched =>
        /\ pc # "name" => NamesAgree
        /\ pc \in {"awards", "courses", "done"} => GPAsAgree
        /\ pc \in {"courses", "done"} => AwardTotal(sent) = AwardTotal(received)
        /\ pc = "done" => CourseTotal(sent) = CourseTotal(received)

(* The own transcript, unless its first summary has no GPA, matches at       *)
(* every step.                                                              *)
OwnMatches ==
    received = sent /\ (ack.summary = Absent \/ SentGPA # Absent) => matched

VerifyInv == VerifyTypeOK /\ ComparedAgrees /\ OwnMatches

(* TranscriptAcknowledgementTests.testVerification: what is built from a     *)
(* transcript is verified against it.                                       *)
BuiltIsVerified == pc = "done" /\ received = sent => matched
=============================================================================
