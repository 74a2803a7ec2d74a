----------------------- MODULE OrganizationAccessProofs -----------------------
(***************************************************************************)
(* What holds of OrganizationAccess for any number of pages, requests and   *)
(* token requests.  AccessInv is the inductive invariant.                   *)
(***************************************************************************)
EXTENDS OrganizationAccess, TLAPS

AccessInv ==
    TypeOK /\ DisabledUntilApproved /\ NothingApproved /\ RevokedTokensAreGone

(* The bound of a certificate is a number.                                  *)
LEMMA CertificateBounds ==
    0 \in Certificate /\ \A n \in Certificate : n < MaxCertificates => n + 1 \in Certificate
  BY AccessAssumption DEF Certificate

(* Init establishes the types.                                              *)
LEMMA InitTypeOK == Init => TypeOK
<1> SUFFICES ASSUME Init PROVE TypeOK
  OBVIOUS
<1> USE CertificateBounds DEF Init
<1>1. org \in Organization
  BY DEF Organization
<1>2. page \in [Page -> PageState]
  BY DEF PageState
<1>3. call \in [Call -> CallState]
  BY DEF CallState, NoCall, AllOperations
<1> QED  BY <1>1, <1>2, <1>3 DEF TypeOK

(* Changing the program counter of a request keeps its type.                *)
LEMMA ContinueType ==
  ASSUME call \in [Call -> CallState], NEW c \in Call,
         NEW pc \in {"idle", "sent", "tell", "record", "mail", "report",
                     "answered", "failed", "done"},
         Continue(c, pc)
  PROVE  call' \in [Call -> CallState]
  BY DEF Continue, CallState

(* What a request reports is a report.                                      *)
LEMMA AboutType ==
  ASSUME call \in [Call -> CallState], NEW c \in Call,
         NEW r \in {"registrant", "administrators"}
  PROVE  About(c, r) \in Report
  BY DEF About, Report, CallState

(* Every step keeps the types.                                              *)
LEMMA NextTypeOK == TypeOK /\ [Next]_vars => TypeOK'
<1> SUFFICES ASSUME TypeOK, [Next]_vars PROVE TypeOK'
  OBVIOUS
<1> USE DEF tables, history
<1>1. CASE \E p \in Page : Open(p)
  BY <1>1 DEF TypeOK, Open, PageState, Organization
<1>2. ASSUME NEW c \in Call, NEW op \in AllOperations, NEW p \in Page \union {"none"},
             NEW e \in BOOLEAN, NEW n \in Certificate, Send(c, op, p, e, n)
      PROVE  TypeOK'
  BY <1>2 DEF TypeOK, Send, CallState
<1>3. CASE \E c \in Call : SubmitRegistration(c)
  BY <1>3, <1>2, CertificateBounds DEF SubmitRegistration, AllOperations
<1>4. CASE \E c \in Call, p \in Page : ClickEnabled(c, p)
  <2> PICK c \in Call, p \in Page : ClickEnabled(c, p)
    BY <1>4
  <2>1. page[p].certificate \in Certificate
    BY DEF TypeOK, PageState
  <2> QED  BY <2>1, <1>2 DEF ClickEnabled, AllOperations
<1>5. CASE \E c \in Call, p \in Page : ClickCertificate(c, p)
  BY <1>5, <1>2, CertificateBounds DEF ClickCertificate, AllOperations
<1>6. CASE \E c \in Call, p \in Page : ClickSecret(c, p)
  BY <1>6, <1>2, CertificateBounds DEF ClickSecret, AllOperations
<1>7. CASE \E c \in Call, p \in Page : ClickSave(c, p)
  <2> PICK c \in Call, p \in Page : ClickSave(c, p)
    BY <1>7
  <2>1. page[p].enabled \in BOOLEAN
    BY DEF TypeOK, PageState
  <2> QED  BY <2>1, <1>2, CertificateBounds DEF ClickSave, AllOperations
<1>8. CASE \E c \in Call : Answer(c)
  <2> PICK c \in Call : Answer(c)
    BY <1>8
  <2>1. call' \in [Call -> CallState]
    BY DEF TypeOK, Answer, CallState
  <2>2. page' \in [Page -> PageState]
    <3>1. call[c].enabled \in BOOLEAN /\ call[c].certificate \in Certificate
      BY DEF TypeOK, CallState
    <3>2. ASSUME NEW p \in Page
          PROVE  /\ [page[p] EXCEPT !.enabled = call[c].enabled] \in PageState
                 /\ [page[p] EXCEPT !.certificate = call[c].certificate] \in PageState
      BY <3>1 DEF TypeOK, PageState
    <3> QED  BY <3>2 DEF TypeOK, Answer
  <2> QED  BY <2>1, <2>2 DEF TypeOK, Answer
<1>9. CASE \E c \in Call : Fail(c)
  BY <1>9 DEF TypeOK, Fail, CallState
<1>10. ASSUME NEW c \in Call, Handle(c) PROVE TypeOK'
  <2>1. CASE Register(c)
    BY <2>1, ContinueType DEF TypeOK, Register, Organization
  <2>2. CASE SetEnabled(c)
    <3>1. call[c].enabled \in BOOLEAN /\ call[c].certificate \in Certificate
      BY DEF TypeOK, CallState
    <3>2. call' \in [Call -> CallState]
      BY <2>2, ContinueType DEF TypeOK, SetEnabled
    <3>3. org' \in Organization
      BY <2>2, <3>1 DEF TypeOK, SetEnabled, Organization
    <3>4. token' \in Nat /\ revocations' \in Nat
      BY <2>2 DEF TypeOK, SetEnabled, Revoke, Disabled
    <3>5. /\ approved' \in BOOLEAN /\ explicit' \in BOOLEAN /\ resaved' \in BOOLEAN
          /\ reviewed' \in Certificate
      BY <2>2, <3>1 DEF TypeOK, SetEnabled, Disabled
    <3> QED  BY <2>2, <3>2, <3>3, <3>4, <3>5 DEF TypeOK, SetEnabled
  <2>3. CASE SetSecret(c)
    BY <2>3, ContinueType DEF TypeOK, SetSecret, Organization
  <2>4. CASE Update(c)
    <3>1. call[c].enabled \in BOOLEAN
      BY DEF TypeOK, CallState
    <3>2. explicit' \in BOOLEAN /\ resaved' \in BOOLEAN
      BY <2>4, <3>1 DEF TypeOK, Update
    <3> QED  BY <2>4, <3>1, <3>2, ContinueType DEF TypeOK, Update, Organization
  <2>5. ASSUME NEW op \in Certificates, SetCertificate(c, op) PROVE TypeOK'
    <3> USE <2>5 DEF SetCertificate, StoreCertificate
    <3>1. org.certificate + 1 \in Certificate
      BY CertificateBounds DEF TypeOK, Organization
    <3>2. call' \in [Call -> CallState]
      <4> DEFINE next == [call[c] EXCEPT !.pc = "report",
                                         !.certificate = org.certificate + 1]
      <4>1. next \in CallState
        BY <3>1 DEF TypeOK, CallState
      <4>2. call' = [call EXCEPT ![c] = next]
        BY DEF TypeOK
      <4> QED  BY <4>1, <4>2 DEF TypeOK
    <3>3. org' \in Organization
      BY <3>1 DEF TypeOK, Organization
    <3>4. token' \in Nat /\ revocations' \in Nat
      BY DEF TypeOK, Revoke, Disabled
    <3>5. /\ approved' \in BOOLEAN /\ explicit' \in BOOLEAN /\ resaved' \in BOOLEAN
          /\ reviewed' \in Certificate
      BY DEF TypeOK, Disabled
    <3> QED  BY <3>2, <3>3, <3>4, <3>5 DEF TypeOK
  <2>6. CASE TellRegistrant(c)
    BY <2>6, ContinueType, AboutType DEF TypeOK, TellRegistrant
  <2>7. CASE RecordMail(c)
    BY <2>7, ContinueType, AboutType DEF TypeOK, RecordMail
  <2>8. CASE StoreMessage(c)
    BY <2>8, ContinueType, AboutType DEF TypeOK, StoreMessage
  <2>9. CASE MailAdministrators(c)
    BY <2>9, ContinueType, AboutType DEF TypeOK, MailAdministrators
  <2> QED
    BY <1>10, <2>1, <2>2, <2>3, <2>4, <2>5, <2>6, <2>7, <2>8, <2>9 DEF Handle
<1>11. CASE \E g \in Grant : LoadClient(g) \/ CreateAccessToken(g) \/ FailGrant(g)
  BY <1>11 DEF TypeOK, LoadClient, CreateAccessToken, FailGrant
<1>13. CASE UNCHANGED vars
  BY <1>13 DEF TypeOK, vars
<1> QED
  BY <1>1, <1>3, <1>4, <1>5, <1>6, <1>7, <1>8, <1>9, <1>10, <1>11, <1>13
  DEF Next

(* The types hold, whatever the pages do.                                   *)
THEOREM TypeCorrect == Spec => []TypeOK
<1> QED  BY InitTypeOK, NextTypeOK, PTL DEF Spec

-----------------------------------------------------------------------------
(* Approval and tokens *)

LEMMA InitAccessInv == Init => AccessInv
  BY InitTypeOK
  DEF Init, AccessInv, DisabledUntilApproved, NothingApproved,
      RevokedTokensAreGone, NoCall, PagesDisabled, CallsDisabled, GrantsUnchecked

Unreachable ==
    ~org.enabled /\ token = 0 /\ PagesDisabled /\ CallsDisabled /\ GrantsUnchecked

(* Before the approval nothing shows, carries or uses an organization that  *)
(* is enabled, and no step changes that.                                    *)
LEMMA NextApproval ==
  AccessInv /\ [Next]_vars /\ ~approved' => Unreachable'
<1> SUFFICES ASSUME AccessInv, [Next]_vars, ~approved' PROVE Unreachable'
  OBVIOUS
<1>0. TypeOK
  BY DEF AccessInv
<1>1. ~approved
  <2>1. approved => approved'
    BY DEF Next, Open, Send, SubmitRegistration, ClickEnabled, ClickCertificate,
           ClickSecret, ClickSave, Answer, Fail, Handle, Register, SetEnabled,
           SetCertificate, StoreCertificate, SetSecret, Update, TellRegistrant,
           RecordMail, StoreMessage, MailAdministrators, LoadClient,
           CreateAccessToken, FailGrant, Disabled, history, vars
  <2> QED  BY <2>1
<1>2. Unreachable
  BY <1>1 DEF AccessInv, DisabledUntilApproved, NothingApproved, Unreachable
<1>3. ASSUME NEW c \in Call, call[c].op # "enabled" \/ call[c].pc # "sent",
             call[c].pc \notin {"idle", "failed", "done"},
             NEW pc, Continue(c, pc),
             UNCHANGED <<token, page, grant>>, ~org'.enabled
      PROVE  Unreachable'
  <2>1. call[c].op # "enabled"
    BY <1>2, <1>3 DEF Unreachable, CallsDisabled
  <2>2. CallsDisabled'
    BY <1>0, <1>2, <1>3, <2>1 DEF Continue, TypeOK, Unreachable, CallsDisabled
  <2> QED  BY <1>2, <1>3, <2>2 DEF Unreachable, PagesDisabled, GrantsUnchecked
<1>4. ASSUME NEW c \in Call, Continue(c, "failed"), call[c].pc \notin {"idle", "failed", "done"}
      PROVE  CallsDisabled'
  BY <1>0, <1>2, <1>4 DEF Continue, TypeOK, Unreachable, CallsDisabled
<1>5. ASSUME NEW c \in Call, NEW op \in AllOperations, NEW p \in Page \union {"none"},
             NEW e \in BOOLEAN, NEW n \in Certificate, Send(c, op, p, e, n),
             op = "save" => e = FALSE, op = "enabled" => e = TRUE
      PROVE  Unreachable'
  BY <1>0, <1>2, <1>5 DEF Send, TypeOK, tables, history,
   Unreachable, PagesDisabled, CallsDisabled, GrantsUnchecked
<1>6. CASE \E p \in Page : Open(p)
  BY <1>0, <1>2, <1>6 DEF Open, TypeOK, tables,
   Unreachable, PagesDisabled, CallsDisabled, GrantsUnchecked
<1>7. CASE \E c \in Call : SubmitRegistration(c)
  BY <1>7, <1>5, CertificateBounds DEF SubmitRegistration, AllOperations
<1>8. CASE \E c \in Call, p \in Page : ClickEnabled(c, p)
  <2> PICK c \in Call, p \in Page : ClickEnabled(c, p)
    BY <1>8
  <2>1. page[p].certificate \in Certificate
    BY <1>0 DEF TypeOK, PageState
  <2>2. ~page[p].enabled = TRUE
    BY <1>2 DEF Unreachable, PagesDisabled
  <2>3. Send(c, "enabled", p, TRUE, page[p].certificate)
    BY <2>2 DEF ClickEnabled
  <2>4. "enabled" \in AllOperations /\ p \in Page \union {"none"}
    BY DEF AllOperations
  <2> QED  BY <2>1, <2>3, <2>4, <1>5
<1>9. CASE \E c \in Call, p \in Page : ClickCertificate(c, p)
  BY <1>9, <1>5, CertificateBounds DEF ClickCertificate, AllOperations, Certificates
<1>10. CASE \E c \in Call, p \in Page : ClickSecret(c, p)
  BY <1>10, <1>5, CertificateBounds DEF ClickSecret, AllOperations
<1>11. CASE \E c \in Call, p \in Page : ClickSave(c, p)
  <2> PICK c \in Call, p \in Page : ClickSave(c, p)
    BY <1>11
  <2>1. page[p].enabled = FALSE
    BY <1>0, <1>2 DEF TypeOK, PageState, Unreachable, PagesDisabled
  <2>2. Send(c, "save", p, FALSE, 0)
    BY <2>1 DEF ClickSave
  <2> QED  BY <2>2, <1>5, CertificateBounds DEF AllOperations
<1>12. CASE \E c \in Call : Answer(c)
  <2> PICK c \in Call : Answer(c)
    BY <1>12
  <2>1. call[c].op # "enabled"
    BY <1>2 DEF Answer, Unreachable, CallsDisabled
  <2>2. CallsDisabled'
    BY <1>0, <1>2, <2>1 DEF Answer, TypeOK, Unreachable, CallsDisabled
  <2>3. PagesDisabled'
    BY <1>0, <1>2, <2>1
    DEF Answer, TypeOK, CallState, PageState, Unreachable, PagesDisabled
  <2> QED  BY <1>2, <2>2, <2>3 DEF Answer, tables,
   Unreachable, PagesDisabled, CallsDisabled, GrantsUnchecked
<1>13. CASE \E c \in Call : Fail(c)
  BY <1>2, <1>13, <1>4 DEF Fail, Continue, tables,
   Unreachable, PagesDisabled, CallsDisabled, GrantsUnchecked
<1>14. ASSUME NEW c \in Call, Handle(c) PROVE Unreachable'
  <2>1. CASE Register(c)
    <3>1. ~org'.enabled
      BY <2>1, <1>0, <1>2
      DEF Register, Handling, TypeOK, Organization, Unreachable, CallsDisabled
    <3> QED  BY <2>1, <3>1, <1>3 DEF Register, Handling
  <2>2. CASE SetEnabled(c)
    BY <2>2, <1>2 DEF SetEnabled, Handling, Unreachable, CallsDisabled
  <2>3. CASE SetSecret(c)
    <3>1. ~org'.enabled
      BY <2>3, <1>0, <1>2
      DEF SetSecret, Handling, TypeOK, Organization, Unreachable, CallsDisabled
    <3> QED  BY <2>3, <3>1, <1>3 DEF SetSecret, Handling
  <2>4. CASE Update(c)
    <3>1. ~org'.enabled
      BY <2>4, <1>0, <1>2
      DEF Update, Handling, TypeOK, Organization, Unreachable, CallsDisabled
    <3> QED  BY <2>4, <3>1, <1>3 DEF Update, Handling
  <2>5. ASSUME NEW op \in Certificates, SetCertificate(c, op) PROVE Unreachable'
    <3> USE <2>5 DEF SetCertificate, StoreCertificate
    <3>1. CallsDisabled'
      BY <1>0, <1>2
      DEF TypeOK, CallState, Handling, Certificates, Unreachable, CallsDisabled
    <3>2. ~org'.enabled /\ token' = 0
      BY <1>0 DEF TypeOK, Organization, Revoke
    <3> QED  BY <1>2, <3>1, <3>2 DEF Unreachable, PagesDisabled, CallsDisabled, GrantsUnchecked
  <2>6. CASE TellRegistrant(c)
    <3>1. ~org'.enabled
      BY <2>6, <1>2 DEF TellRegistrant, Unreachable
    <3> QED  BY <2>6, <3>1, <1>3 DEF TellRegistrant
  <2>7. CASE RecordMail(c)
    <3>1. ~org'.enabled
      BY <2>7, <1>2 DEF RecordMail, Unreachable
    <3> QED  BY <2>7, <3>1, <1>3 DEF RecordMail
  <2>8. CASE StoreMessage(c)
    <3>1. ~org'.enabled
      BY <2>8, <1>2 DEF StoreMessage, Unreachable
    <3> QED  BY <2>8, <3>1, <1>3 DEF StoreMessage
  <2>9. CASE MailAdministrators(c)
    <3>1. ~org'.enabled
      BY <2>9, <1>2 DEF MailAdministrators, Unreachable
    <3> QED  BY <2>9, <3>1, <1>3 DEF MailAdministrators
  <2> QED
    BY <1>14, <2>1, <2>2, <2>3, <2>4, <2>5, <2>6, <2>7, <2>8, <2>9 DEF Handle
<1>15. CASE \E g \in Grant : LoadClient(g) \/ CreateAccessToken(g) \/ FailGrant(g)
  BY <1>15, <1>2
  DEF Unreachable, GrantsUnchecked, LoadClient, CreateAccessToken, FailGrant
<1>17. CASE UNCHANGED vars
  BY <1>17, <1>2 DEF vars, tables, history,
   Unreachable, PagesDisabled, CallsDisabled, GrantsUnchecked
<1> QED
  BY <1>6, <1>7, <1>8, <1>9, <1>10, <1>11, <1>12, <1>13, <1>14, <1>15, <1>17
  DEF Next

(* A token that is stored belongs to the time since the last revocation.    *)
LEMMA NextTokens == AccessInv /\ [Next]_vars => RevokedTokensAreGone'
<1> SUFFICES ASSUME AccessInv, [Next]_vars PROVE RevokedTokensAreGone'
  OBVIOUS
<1> USE DEF RevokedTokensAreGone
<1>1. RevokedTokensAreGone
  BY DEF AccessInv
<1>2. CASE UNCHANGED <<token, revocations>>
  BY <1>1, <1>2
<1>3. ASSUME NEW c \in Call, Handle(c) PROVE RevokedTokensAreGone'
  BY <1>1, <1>3
  DEF Handle, Register, SetEnabled, SetCertificate, StoreCertificate, SetSecret,
      Update, TellRegistrant, RecordMail, StoreMessage, MailAdministrators, Revoke,
      Disabled, history
<1>4. ASSUME NEW g \in Grant, CreateAccessToken(g) PROVE RevokedTokensAreGone'
  BY <1>1, <1>4 DEF CreateAccessToken, history
<1> QED
  BY <1>2, <1>3, <1>4
  DEF Next, Open, Send, SubmitRegistration, ClickEnabled, ClickCertificate,
      ClickSecret, ClickSave, Answer, Fail, LoadClient, FailGrant,
      tables, history, vars

LEMMA NextAccessInv == AccessInv /\ [Next]_vars => AccessInv'
  BY NextTypeOK, NextApproval, NextTokens
  DEF AccessInv, DisabledUntilApproved, NothingApproved, Unreachable

LEMMA AccessInvHolds == Spec => []AccessInv
  BY InitAccessInv, NextAccessInv, PTL DEF Spec

(* documentation.html: an organization remains disabled, and without a       *)
(* token, until setEnabledForOrganization enables it.                        *)
THEOREM NothingBeforeApproval == Spec => []DisabledUntilApproved
<1>1. AccessInv => DisabledUntilApproved
  BY DEF AccessInv
<1> QED  BY <1>1, AccessInvHolds, PTL

(* Until the Enable button was served, no page shows the organization        *)
(* enabled, no request would enable it but that button's, and no token       *)
(* request is past loadClientByClientId.                                    *)
THEOREM NothingIsApproved == Spec => []NothingApproved
<1>1. AccessInv => NothingApproved
  BY DEF AccessInv
<1> QED  BY <1>1, AccessInvHolds, PTL

(* revokeOAuthTokens leaves no token of before, however late the OAuth       *)
(* library stores one.                                                       *)
THEOREM RevocationIsComplete == Spec => []RevokedTokensAreGone
<1>1. AccessInv => RevokedTokensAreGone
  BY DEF AccessInv
<1> QED  BY <1>1, AccessInvHolds, PTL

-----------------------------------------------------------------------------
(* Who enables                                                              *)

(* No step enables the organization otherwise.                              *)
LEMMA NextEnabled ==
  TypeOK /\ EnabledByAdministrator /\ [Next]_vars => EnabledByAdministrator'
<1> SUFFICES ASSUME TypeOK, EnabledByAdministrator, [Next]_vars
             PROVE  org'.enabled => explicit' \/ resaved'
  BY DEF EnabledByAdministrator
<1>0. org.enabled => explicit \/ resaved
  BY DEF EnabledByAdministrator
<1>1. CASE UNCHANGED <<org, explicit, resaved>>
  BY <1>0, <1>1
<1>2. ASSUME NEW c \in Call, Handle(c) PROVE org'.enabled => explicit' \/ resaved'
  <2>1. CASE Register(c)
    BY <2>1, <1>0 DEF Register, TypeOK, Organization
  <2>2. CASE SetEnabled(c)
    BY <2>2, <1>0 DEF SetEnabled, Disabled, TypeOK, Organization
  <2>3. CASE SetSecret(c)
    BY <2>3, <1>0 DEF SetSecret, TypeOK, Organization, history
  <2>4. CASE Update(c)
    BY <2>4 DEF Update, TypeOK, Organization
  <2>5. ASSUME NEW op \in Certificates, SetCertificate(c, op)
        PROVE  org'.enabled => explicit' \/ resaved'
    BY <2>5 DEF SetCertificate, StoreCertificate, TypeOK, Organization
  <2>6. CASE TellRegistrant(c) \/ RecordMail(c) \/ StoreMessage(c) \/ MailAdministrators(c)
    BY <2>6, <1>0
    DEF TellRegistrant, RecordMail, StoreMessage, MailAdministrators, history
  <2> QED  BY <1>2, <2>1, <2>2, <2>3, <2>4, <2>5, <2>6 DEF Handle
<1> QED
  BY <1>1, <1>2
  DEF Next, Open, Send, SubmitRegistration, ClickEnabled, ClickCertificate,
      ClickSecret, ClickSave, Answer, Fail, LoadClient, CreateAccessToken,
      FailGrant, tables, history, vars

(* documentation.html: "a PESC administrator must review the organization's *)
(* information and explicitly enable the organization".  Once it was disabled, *)
(* only that, or saveOrg of a page that still showed it enabled, enables it. *)
THEOREM OnlyAdministratorsEnable == Spec => []EnabledByAdministrator
<1>1. Init => EnabledByAdministrator
  BY DEF Init, EnabledByAdministrator
<1> QED  BY <1>1, InitTypeOK, NextTypeOK, NextEnabled, PTL DEF Spec

-----------------------------------------------------------------------------
(* The reports                                                              *)

(* How far the reports of a request have come.  A registration is mailed     *)
(* before its message is stored, a certificate after it.                    *)
ReportedBy(c) ==
    LET made == About(c, "administrators") IN
    /\ call[c].op \in Certificates =>
          /\ call[c].pc \notin {"tell", "record"}
          /\ call[c].pc \in {"mail", "answered", "done"} => made \in messages
          /\ call[c].pc \in {"answered", "done"} => made \in mails
    /\ call[c].op = "registration" =>
          /\ call[c].pc \in {"report", "answered", "done"} => made \in mails
          /\ call[c].pc \in {"answered", "done"} => made \in messages

Reported == \A c \in Call : ReportedBy(c)

(* No step takes a report back: only the request that moves has to be looked *)
(* at.                                                                      *)
LEMMA OthersReported ==
  ASSUME Reported, NEW c \in Call, \A d \in Call \ {c} : call'[d] = call[d],
         messages \subseteq messages', mails \subseteq mails', ReportedBy(c)'
  PROVE  Reported'
  BY DEF Reported, ReportedBy, About

LEMMA NextReported == TypeOK /\ Reported /\ [Next]_vars => Reported'
<1> SUFFICES ASSUME TypeOK, Reported, [Next]_vars PROVE Reported'
  OBVIOUS
<1> USE DEF ReportedBy, About, Certificates
<1>0. \A c \in Call : ReportedBy(c)
  BY DEF Reported
<1>1. ASSUME NEW c \in Call, NEW op, NEW p, NEW e, NEW n, Send(c, op, p, e, n)
      PROVE  Reported'
  <2>1. ReportedBy(c)'
    BY <1>1 DEF Send, TypeOK
  <2> QED  BY <1>1, <2>1, OthersReported DEF Send, TypeOK, tables
<1>2. CASE \E c \in Call : SubmitRegistration(c)
  BY <1>2, <1>1 DEF SubmitRegistration
<1>3. CASE \E c \in Call, p \in Page :
             ClickEnabled(c, p) \/ ClickCertificate(c, p) \/ ClickSecret(c, p) \/ ClickSave(c, p)
  BY <1>3, <1>1 DEF ClickEnabled, ClickCertificate, ClickSecret, ClickSave
<1>4. CASE UNCHANGED <<call, messages, mails>>
  BY <1>0, <1>4 DEF Reported
<1>5. ASSUME NEW c \in Call, Answer(c) \/ Fail(c) PROVE Reported'
  <2>1. ReportedBy(c)'
    BY <1>0, <1>5 DEF Answer, Fail, tables, TypeOK, CallState
  <2> QED  BY <1>5, <2>1, OthersReported DEF Answer, Fail, tables, TypeOK, CallState
<1>6. ASSUME NEW c \in Call, Handle(c) PROVE Reported'
  <2>1. CASE Register(c) \/ SetEnabled(c) \/ SetSecret(c) \/ Update(c)
    <3> USE DEF Register, SetEnabled, SetSecret, Update, Handling, Continue
    <3>1. ReportedBy(c)'
      BY <2>1, <1>0 DEF TypeOK, CallState
    <3> QED  BY <2>1, <3>1, OthersReported DEF TypeOK, CallState
  <2>2. ASSUME NEW op \in Certificates, SetCertificate(c, op) PROVE Reported'
    <3> USE <2>2 DEF SetCertificate, StoreCertificate, Handling
    <3>1. ReportedBy(c)'
      BY <1>0 DEF TypeOK, CallState
    <3> QED  BY <3>1, OthersReported DEF TypeOK, CallState
  <2>3. CASE TellRegistrant(c) \/ RecordMail(c)
    <3> USE DEF TellRegistrant, RecordMail, Continue
    <3>1. ReportedBy(c)'
      BY <2>3, <1>0 DEF TypeOK, CallState
    <3> QED  BY <2>3, <3>1, OthersReported DEF TypeOK, CallState
  <2>4. CASE StoreMessage(c)
    <3> USE <2>4 DEF StoreMessage, Continue
    <3>1. ReportedBy(c)'
      BY <1>0 DEF TypeOK, CallState
    <3> QED  BY <3>1, OthersReported DEF TypeOK, CallState
  <2>5. CASE MailAdministrators(c)
    <3> USE <2>5 DEF MailAdministrators, Continue
    <3>1. ReportedBy(c)'
      BY <1>0 DEF TypeOK, CallState
    <3> QED  BY <3>1, OthersReported DEF TypeOK, CallState
  <2> QED  BY <1>6, <2>1, <2>2, <2>3, <2>4, <2>5 DEF Handle
<1> QED
  BY <1>2, <1>3, <1>4, <1>5, <1>6
  DEF Next, Open, LoadClient, CreateAccessToken, FailGrant, tables, vars

(* SIGNING_CERTIFICATION_CHANGED_MESSAGE: every registration and every       *)
(* certificate that was answered was reported, in a message and in a mail.  *)
THEOREM ChangesAreReported == Spec => []AnsweredIsReported
<1>1. Init => Reported
  BY DEF Init, Reported, ReportedBy, NoCall
<1>2. Reported => AnsweredIsReported
  BY DEF Reported, ReportedBy, AnsweredIsReported
<1> QED  BY <1>1, <1>2, InitTypeOK, NextTypeOK, NextReported, PTL DEF Spec
=============================================================================
