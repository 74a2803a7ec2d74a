------------------------- MODULE TranscriptVerifyProofs -------------------------
(***************************************************************************)
(* Proofs about TranscriptVerify: what the verification of an               *)
(* acknowledgement accepts agrees with the transcript, and it accepts what   *)
(* was built from the transcript itself, for every set of transcripts, every *)
(* set of compared fields, and lists of every length.                       *)
(***************************************************************************)
EXTENDS TranscriptVerify, WellFoundedInduction, TLAPS

-----------------------------------------------------------------------------
(* Lemmas *)

(* A set of natural numbers has a least element, which Min chooses.         *)
LEMMA MinIsLeast ==
    ASSUME NEW S \in SUBSET Nat, S # {}
    PROVE  Min(S) \in S
<1>1. \E x \in S : \A y \in S : ~(<<y, x>> \in OpToRel(<, Nat))
    BY NatLessThanWellFounded, WFMin
<1>2. PICK x \in S : \A y \in S : ~(<<y, x>> \in OpToRel(<, Nat))
    BY <1>1
<1>3. \A y \in S : x <= y
  <2>1. TAKE y \in S
  <2>2. SUFFICES ASSUME y < x PROVE FALSE
        OBVIOUS
  <2>3. <<y, x>> \in OpToRel(<, Nat)
        BY <2>2 DEF OpToRel
  <2> QED BY <2>3, <1>2
<1> QED BY <1>3 DEF Min

(* A list that is not empty begins with one of its elements.                *)
LEMMA HeadOfList ==
    ASSUME NEW S, NEW l \in List(S), l # <<>>
    PROVE  Head(l) \in S
<1>1. PICK n \in 0..MaxLength : l \in [1..n -> S]
    BY DEF List
<1>2. n # 0
    BY <1>1
<1>3. n \in Nat /\ 1 \in 1..n
    BY <1>1, <1>2, VerifyAssumption
<1> QED BY <1>1, <1>3

(* findFirstAcademicSummary returns a summary, or null.                     *)
LEMMA FirstSummary ==
    ASSUME NEW t \in Transcripts
    PROVE  FindFirstAcademicSummary(t) \in Summary \union {Absent}
<1>1. t.records \in Seq(AcademicRecord)
    BY VerifyAssumption DEF Transcript
<1>2. CASE Summarised(t) = {}
    BY <1>2 DEF FindFirstAcademicSummary
<1>3. CASE Summarised(t) # {}
  <2>1. Summarised(t) \in SUBSET Nat
        BY <1>1 DEF Summarised
  <2> DEFINE i == Min(Summarised(t))
  <2>2. i \in Summarised(t)
        BY <2>1, <1>3, MinIsLeast
  <2>3. i \in DOMAIN t.records /\ t.records[i].summaries # <<>>
        BY <2>2 DEF Summarised
  <2>4. t.records[i] \in AcademicRecord
        BY <2>3, <1>1
  <2>5. t.records[i].summaries \in List(Summary)
        BY <2>4 DEF AcademicRecord
  <2>6. Head(t.records[i].summaries) \in Summary
        BY <2>5, <2>3, HeadOfList
  <2> QED BY <2>6, <1>3 DEF FindFirstAcademicSummary
<1> QED BY <1>2, <1>3

(* The GPA of the transcript's first summary, when there is one.            *)
LEMMA SentGPAType ==
    ASSUME sent \in Transcripts
    PROVE  /\ SentGPA \in Gpa \union {Absent}
           /\ SentGPA # Absent => DOMAIN SentGPA = GpaField
<1> DEFINE s == FindFirstAcademicSummary(sent)
<1>1. s \in Summary \union {Absent}
    BY FirstSummary
<1>2. SentGPA \in Gpa \union {Absent}
  <2>1. CASE s = Absent
        BY <2>1 DEF SentGPA
  <2>2. CASE s # Absent
    <3>1. s \in Summary
          BY <1>1, <2>2
    <3>2. s.gpa \in Gpa \union {Absent}
          BY <3>1 DEF Summary
    <3> QED BY <3>2, <2>2 DEF SentGPA
  <2> QED BY <2>1, <2>2
<1>3. ASSUME SentGPA \in Gpa PROVE DOMAIN SentGPA = GpaField
    BY <1>3 DEF Gpa, Fields
<1> QED BY <1>2, <1>3

(* The name of a transcript: its fields, and its list of middle names.      *)
LEMMA NameType ==
    ASSUME NEW t \in Transcripts
    PROVE  /\ DOMAIN t.name.fields = NameField
           /\ \E n \in Nat : t.name.middle \in [1..n -> Text]
<1>1. t.name \in Name
    BY VerifyAssumption DEF Transcript
<1>2. DOMAIN t.name.fields = NameField
    BY <1>1 DEF Name, Fields
<1>3. \E n \in 0..MaxLength : t.name.middle \in [1..n -> Text]
    BY <1>1 DEF Name, List
<1> QED BY <1>2, <1>3, VerifyAssumption

(* Names that verifyName finds equal agree.                                 *)
LEMMA NamesCompared ==
    ASSUME VerifyTypeOK,
           FieldsAgree(ack.name.fields, sent.name.fields),
           MiddleNamesAgree(ack.name.middle, sent.name.middle)
    PROVE  NamesAgree
<1>1. ack.name = received.name
    BY DEF VerifyTypeOK, Build
<1>2. sent \in Transcripts /\ received \in Transcripts
    BY DEF VerifyTypeOK
<1>3. ASSUME NEW f \in NameField
      PROVE  sent.name.fields[f] \in {Absent, received.name.fields[f]}
    BY <1>1, <1>2, NameType DEF FieldsAgree
<1>4. sent.name.middle = received.name.middle
  <2>1. PICK n \in Nat : sent.name.middle \in [1..n -> Text]
        BY <1>2, NameType
  <2>2. PICK m \in Nat : received.name.middle \in [1..m -> Text]
        BY <1>2, NameType
  <2>3. Len(sent.name.middle) = n /\ Len(received.name.middle) = m
        BY <2>1, <2>2
  <2>4. n = m
        BY <2>3, <1>1 DEF MiddleNamesAgree
  <2>5. \A i \in 1..n : sent.name.middle[i] = received.name.middle[i]
        BY <2>1, <1>1 DEF MiddleNamesAgree
  <2> QED BY <2>1, <2>2, <2>4, <2>5
<1> QED BY <1>3, <1>4 DEF NamesAgree

(* The own name is found equal.                                             *)
LEMMA OwnNameMatches ==
    ASSUME VerifyTypeOK, received = sent
    PROVE  /\ FieldsAgree(ack.name.fields, sent.name.fields)
           /\ MiddleNamesAgree(ack.name.middle, sent.name.middle)
BY DEF VerifyTypeOK, Build, FieldsAgree, MiddleNamesAgree

(* GPAs that verifyGPA finds equal agree.                                   *)
LEMMA GPAsCompared ==
    ASSUME VerifyTypeOK, ack.summary # Absent, GPAReadable,
           ack.summary.gpa # Absent => FieldsAgree(ack.summary.gpa, SentGPA)
    PROVE  GPAsAgree
<1>1. ack.summary = FindFirstAcademicSummary(received)
    BY DEF VerifyTypeOK, Build
<1>2. SentGPA # Absent
    BY DEF GPAReadable
<1>3. DOMAIN SentGPA = GpaField
    BY <1>2, SentGPAType DEF VerifyTypeOK
<1>4. ASSUME NEW f \in GpaField, SentGPA[f] # Absent
      PROVE  ack.summary.gpa[f] = SentGPA[f]
  <2>1. ack.summary.gpa # Absent
        BY <1>2, <1>4 DEF GPAReadable
  <2> QED BY <2>1, <1>3, <1>4 DEF FieldsAgree
<1> QED BY <1>1, <1>2, <1>4 DEF GPAsAgree

(* The own GPA, if there is one, is found equal.                            *)
LEMMA OwnGPAMatches ==
    ASSUME VerifyTypeOK, received = sent, ack.summary # Absent, SentGPA # Absent
    PROVE  GPAReadable /\ FieldsAgree(ack.summary.gpa, SentGPA)
<1>1. ack.summary.gpa = SentGPA
    BY DEF VerifyTypeOK, Build, SentGPA
<1> QED BY <1>1 DEF GPAReadable, FieldsAgree

-----------------------------------------------------------------------------
(* The invariant *)

(* Before the comparison there is nothing that has differed.                *)
LEMMA InitVerify == Init => VerifyInv
BY DEF Init, VerifyInv, VerifyTypeOK, ComparedAgrees, OwnMatches

(* The transcripts and the acknowledgement stay what they are.              *)
LEMMA NextVerifyTypeOK == VerifyTypeOK /\ [Next]_vars => VerifyTypeOK'
<1> SUFFICES ASSUME VerifyTypeOK, [Next]_vars PROVE VerifyTypeOK'
    OBVIOUS
<1>1. UNCHANGED <<sent, received, ack>>
    BY DEF Next, vars, VerifyName, SkipGPA, VerifyGPA, GPAFails, VerifyAwards, VerifyCourses
<1>2. pc' \in {"name", "gpa", "awards", "courses", "done"} /\ matched' \in BOOLEAN
  <2>1. CASE VerifyName
        BY <2>1 DEF VerifyName
  <2>2. CASE SkipGPA
        BY <2>2 DEF SkipGPA, VerifyTypeOK
  <2>3. CASE VerifyGPA
        BY <2>3 DEF VerifyGPA
  <2>4. CASE GPAFails
        BY <2>4 DEF GPAFails
  <2>5. CASE VerifyAwards
        BY <2>5 DEF VerifyAwards
  <2>6. CASE VerifyCourses
        BY <2>6 DEF VerifyCourses
  <2>7. CASE UNCHANGED vars
        BY <2>7 DEF vars, VerifyTypeOK
  <2> QED BY <2>1, <2>2, <2>3, <2>4, <2>5, <2>6, <2>7 DEF Next
<1> QED BY <1>1, <1>2 DEF VerifyTypeOK

(* What is compared later does not change what has been compared.           *)
LEMMA ComparedStays ==
    ASSUME UNCHANGED <<sent, received, ack>>
    PROVE  /\ NamesAgree' <=> NamesAgree
           /\ GPAsAgree' <=> GPAsAgree
           /\ SentGPA' = SentGPA
           /\ AwardTotal(sent)' = AwardTotal(sent)
           /\ AwardTotal(received)' = AwardTotal(received)
           /\ CourseTotal(sent)' = CourseTotal(sent)
           /\ CourseTotal(received)' = CourseTotal(received)
BY DEF NamesAgree, GPAsAgree, SentGPA

(* Every comparison adds its agreement, and the own transcript passes it.   *)
LEMMA NextCompared ==
    VerifyInv /\ [Next]_vars => ComparedAgrees' /\ OwnMatches'
<1> SUFFICES ASSUME VerifyInv, [Next]_vars PROVE ComparedAgrees' /\ OwnMatches'
    OBVIOUS
<1> USE DEF VerifyInv
<1>1. CASE VerifyName
  <2>1. UNCHANGED <<sent, received, ack>> /\ pc' \in {"done", "gpa"}
        BY <1>1 DEF VerifyName
  <2>2. matched' => NamesAgree
        BY <1>1, NamesCompared DEF VerifyName
  <2>3. matched' => pc' = "gpa"
    <3>1. SUFFICES ASSUME MiddleNamesAgree(ack.name.middle, sent.name.middle)
                   PROVE  ~(Len(ack.name.middle) < Len(sent.name.middle))
          BY <1>1 DEF VerifyName
    <3>2. ack.name = received.name /\ sent \in Transcripts /\ received \in Transcripts
          BY DEF VerifyTypeOK, Build
    <3>3. PICK n \in Nat : sent.name.middle \in [1..n -> Text]
          BY <3>2, NameType
    <3>4. Len(sent.name.middle) = n
          BY <3>3
    <3> QED BY <3>1, <3>4 DEF MiddleNamesAgree
  <2>4. ComparedAgrees'
        BY <2>1, <2>2, <2>3, ComparedStays DEF ComparedAgrees
  <2>5. OwnMatches'
        BY <1>1, <2>1, OwnNameMatches DEF OwnMatches, VerifyName
  <2> QED BY <2>4, <2>5
<1>2. CASE SkipGPA
  <2>1. UNCHANGED <<sent, received, ack, matched>> /\ pc = "gpa" /\ pc' = "awards" /\ ack.summary = Absent
        BY <1>2 DEF SkipGPA
  <2>2. GPAsAgree
        BY <2>1 DEF VerifyTypeOK, Build, GPAsAgree
  <2>3. ComparedAgrees'
        BY <2>1, <2>2, ComparedStays DEF ComparedAgrees
  <2>4. OwnMatches'
        BY <2>1, ComparedStays DEF OwnMatches
  <2> QED BY <2>3, <2>4
<1>3. CASE VerifyGPA
  <2>1. UNCHANGED <<sent, received, ack>> /\ pc = "gpa" /\ pc' = "awards"
        BY <1>3 DEF VerifyGPA
  <2>2. matched' => matched /\ GPAsAgree
        BY <1>3, GPAsCompared DEF VerifyGPA
  <2>3. ComparedAgrees'
        BY <2>1, <2>2, ComparedStays DEF ComparedAgrees
  <2>4. OwnMatches'
        BY <1>3, <2>1, ComparedStays, OwnGPAMatches DEF OwnMatches, VerifyGPA
  <2> QED BY <2>3, <2>4
<1>4. CASE GPAFails
  <2>1. UNCHANGED <<sent, received, ack>> /\ ~matched' /\ ack.summary # Absent /\ ~GPAReadable
        BY <1>4 DEF GPAFails
  <2>2. ComparedAgrees'
        BY <2>1 DEF ComparedAgrees
  <2>3. OwnMatches'
        BY <2>1, ComparedStays, OwnGPAMatches DEF OwnMatches
  <2> QED BY <2>2, <2>3
<1>5. CASE VerifyAwards
  <2>1. UNCHANGED <<sent, received, ack>> /\ pc = "awards" /\ pc' = "courses"
        BY <1>5 DEF VerifyAwards
  <2>2. ack.awards = AwardTotal(received)
        BY DEF VerifyTypeOK, Build
  <2>3. matched' = (matched /\ AwardTotal(received) = AwardTotal(sent))
        BY <1>5, <2>2 DEF VerifyAwards
  <2>4. ComparedAgrees'
        BY <2>1, <2>3, ComparedStays DEF ComparedAgrees
  <2>5. OwnMatches'
        BY <2>1, <2>3, ComparedStays DEF OwnMatches
  <2> QED BY <2>4, <2>5
<1>6. CASE VerifyCourses
  <2>1. UNCHANGED <<sent, received, ack>> /\ pc = "courses" /\ pc' = "done"
        BY <1>6 DEF VerifyCourses
  <2>2. ack.courses = CourseTotal(received)
        BY DEF VerifyTypeOK, Build
  <2>3. matched' = (matched /\ CourseTotal(received) = CourseTotal(sent))
        BY <1>6, <2>2 DEF VerifyCourses
  <2>4. ComparedAgrees'
        BY <2>1, <2>3, ComparedStays DEF ComparedAgrees
  <2>5. OwnMatches'
        BY <2>1, <2>3, ComparedStays DEF OwnMatches
  <2> QED BY <2>4, <2>5
<1>7. CASE UNCHANGED vars
  <2>1. UNCHANGED <<sent, received, ack, pc, matched>>
        BY <1>7 DEF vars
  <2>2. ComparedAgrees'
        BY <2>1, ComparedStays DEF ComparedAgrees
  <2>3. OwnMatches'
        BY <2>1, ComparedStays DEF OwnMatches
  <2> QED BY <2>2, <2>3
<1> QED BY <1>1, <1>2, <1>3, <1>4, <1>5, <1>6, <1>7 DEF Next

(* The inductive invariant of a verification: what matches so far agrees in  *)
(* everything that has been compared, and the own transcript matches.        *)
THEOREM VerifyInvariance == Spec => []VerifyInv
<1>1. VerifyInv /\ [Next]_vars => VerifyInv'
    BY NextVerifyTypeOK, NextCompared DEF VerifyInv
<1> QED BY InitVerify, <1>1, PTL DEF Spec

(* An acknowledgement that verifyTranscript accepts agrees with the          *)
(* transcript in all that the transcript says of the compared fields, and in  *)
(* the totals, however many records, summaries and names there are.          *)
THEOREM VerifiedTranscriptsAgree == Spec => []VerifiedAgrees
<1>1. VerifyInv => VerifiedAgrees
    BY DEF VerifyInv, ComparedAgrees, VerifiedAgrees, Verified, NamesAgree, GPAsAgree
<1> QED BY VerifyInvariance, <1>1, PTL

(* The acknowledgement that is built from a transcript passes the            *)
(* verification against it, unless its first summary has no GPA.             *)
THEOREM OwnTranscriptIsVerified == Spec => []OwnIsVerified
<1>1. VerifyInv => OwnIsVerified
    BY DEF VerifyInv, OwnMatches, OwnIsVerified
<1> QED BY VerifyInvariance, <1>1, PTL
================================================================================
