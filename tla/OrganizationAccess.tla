-------------------------- MODULE OrganizationAccess --------------------------
(***************************************************************************)
(* Approval of one organization of the directory, and what hangs on it.     *)
(*                                                                         *)
(* A registered organization is disabled until a system administrator       *)
(* enables it; a new certificate disables it again.  While it is enabled    *)
(* the directory serves its public key and issues access tokens to its      *)
(* network server.  Browser pages hold copies of the organization that are  *)
(* never refreshed, and send requests that the server handles in any order; *)
(* every request is a transaction, with the reports about it in later ones. *)
(* Tokens are issued by the OAuth library: it asks for the client, and      *)
(* stores the token in another transaction.                                 *)
(*                                                                         *)
(* Nothing here relates two organizations, so the module follows one.       *)
(***************************************************************************)
EXTENDS Naturals

CONSTANTS
    Page,             \* visits of a page that shows the organization
    AdminPage,        \* those of a system administrator
    Call,             \* requests that pages send
    Grant,            \* requests for an access token
    Operations,       \* the operations that the pages use
    MaxCertificates   \* bound: certificates that are stored

Certificates == {"signing-certificate", "network-certificate"}
AllOperations == Certificates \union {"registration", "enabled", "oauth-secret", "save"}

ASSUME AccessAssumption ==
    /\ AdminPage \subseteq Page
    /\ Operations \subseteq AllOperations
    /\ MaxCertificates \in Nat

VARIABLES
    org,        \* the row of the organization
    token,      \* oauth_access_token: 0, or the revocations before it was stored + 1
    messages,   \* messages to the administrators, as what they are about
    mails,      \* e-mails handed to the mail service, whose threads send them
    page,       \* self.org and self.certificateInfo of the pages
    call,       \* the requests, their threads and their answers
    grant,      \* the threads of the token endpoint
    revocations,\* history: how often the organization was disabled by a handler
    approved,   \* history: an administrator enabled it at least once
    explicit,   \* history: an administrator enabled it since it was last disabled
    resaved,    \* history: so did the save of a page that showed it enabled
    reviewed    \* history: the certificate on the page that enabled it last

tables == <<org, token, messages, mails>>
history == <<revocations, approved, explicit, resaved, reviewed>>
vars == <<tables, page, call, grant, history>>

Certificate == 0..MaxCertificates
Organization ==
    [exists : BOOLEAN, enabled : BOOLEAN, certificate : Certificate,
     secret : BOOLEAN]
PageState == [open : BOOLEAN, enabled : BOOLEAN, certificate : Certificate]
CallState ==
    [pc : {"idle", "sent", "tell", "record", "mail", "report", "answered",
           "failed", "done"},
     op : AllOperations, page : Page \union {"none"}, enabled : BOOLEAN,
     certificate : Certificate]

NoCall == [pc |-> "idle", op |-> "save", page |-> "none", enabled |-> FALSE,
           certificate |-> 0]

(* What messages and e-mails say: to whom, after which operation, and about  *)
(* which certificate.                                                       *)
Report ==
    {"registrant", "administrators"} \X AllOperations \X Certificate

TypeOK ==
    /\ org \in Organization
    /\ token \in Nat /\ revocations \in Nat
    /\ messages \subseteq Report
    /\ mails \subseteq Report
    /\ page \in [Page -> PageState]
    /\ call \in [Call -> CallState]
    /\ grant \in [Grant -> {"idle", "checked", "ended"}]
    /\ approved \in BOOLEAN /\ explicit \in BOOLEAN /\ resaved \in BOOLEAN
    /\ reviewed \in Certificate

Init ==
    /\ org = [exists |-> FALSE, enabled |-> FALSE, certificate |-> 0, secret |-> FALSE]
    /\ token = 0
    /\ messages = {} /\ mails = {}
    /\ page = [p \in Page |-> [open |-> FALSE, enabled |-> FALSE, certificate |-> 0]]
    /\ call = [c \in Call |-> NoCall]
    /\ grant = [g \in Grant |-> "idle"]
    /\ revocations = 0
    /\ approved = FALSE /\ explicit = FALSE /\ resaved = FALSE /\ reviewed = 0

-----------------------------------------------------------------------------
(* The pages *)

(* find, getCertificate: a page is loaded once.                             *)
Open(p) ==
    /\ ~page[p].open /\ org.exists
    /\ page' = [page EXCEPT ![p] = [open |-> TRUE, enabled |-> org.enabled,
                                    certificate |-> org.certificate]]
    /\ UNCHANGED <<tables, call, grant, history>>

Send(c, op, p, enabled, certificate) ==
    /\ op \in Operations /\ call[c].pc = "idle"
    /\ call' = [call EXCEPT ![c] = [pc |-> "sent", op |-> op, page |-> p,
                   enabled |-> enabled, certificate |-> certificate]]
    /\ UNCHANGED <<tables, page, grant, history>>

SubmitRegistration(c) == Send(c, "registration", "none", FALSE, 0)

(* The button shows what the page's copy says.                              *)
ClickEnabled(c, p) ==
    /\ p \in AdminPage /\ page[p].open
    /\ Send(c, "enabled", p, ~page[p].enabled, page[p].certificate)

ClickCertificate(c, p) ==
    /\ page[p].open
    /\ \E op \in Certificates : Send(c, op, p, FALSE, 0)

ClickSecret(c, p) ==
    /\ page[p].open
    /\ Send(c, "oauth-secret", p, FALSE, 0)

(* saveOrg sends the whole of the page's copy.                              *)
ClickSave(c, p) ==
    /\ page[p].open
    /\ Send(c, "save", p, page[p].enabled, 0)

(* The page shows the certificate it stored, but not that the organization  *)
(* is disabled now: only the answer to the Enable button changes that.      *)
Answer(c) ==
    /\ call[c].pc = "answered"
    /\ call' = [call EXCEPT ![c].pc = "done"]
    /\ page' =
        CASE call[c].op = "enabled" ->
               [page EXCEPT ![call[c].page].enabled = call[c].enabled]
          [] call[c].op \in Certificates ->
               [page EXCEPT ![call[c].page].certificate = call[c].certificate]
          [] OTHER -> page
    /\ UNCHANGED <<tables, grant, history>>

(* The request or its answer is lost, or its thread ends in an exception or *)
(* a crash; no handler of the pages changes anything then.                  *)
Fail(c) ==
    /\ call[c].pc \in {"sent", "tell", "record", "mail", "report", "answered"}
    /\ call' = [call EXCEPT ![c].pc = "failed"]
    /\ UNCHANGED <<tables, page, grant, history>>

-----------------------------------------------------------------------------
(* The handlers of the directory *)

Handling(c, op) == call[c].pc = "sent" /\ call[c].op = op

Continue(c, pc) == call' = [call EXCEPT ![c].pc = pc]

(* Without the deletion of the tokens.                                      *)
KeepTokens == UNCHANGED token

(* revokeOAuthTokens                                                        *)
Revoke == token' = 0

(* A handler disables the organization.                                     *)
Disabled ==
    /\ revocations' = revocations + 1
    /\ explicit' = FALSE /\ resaved' = FALSE
    /\ UNCHANGED <<approved, reviewed>>

(* As create does for the organizations of an administrator.                *)
RegisterEnabled(c) ==
    /\ Handling(c, "registration") /\ ~org.exists
    /\ org' = [org EXCEPT !.exists = TRUE, !.enabled = TRUE]
    /\ Continue(c, "tell")
    /\ UNCHANGED <<token, messages, mails, page, grant, history>>

(* register: the user name is taken when the organization exists (Fail).    *)
Register(c) ==
    /\ Handling(c, "registration") /\ ~org.exists
    /\ org' = [org EXCEPT !.exists = TRUE, !.enabled = FALSE]
    /\ Continue(c, "tell")
    /\ UNCHANGED <<token, messages, mails, page, grant, history>>

SetEnabled(c) ==
    /\ Handling(c, "enabled")
    /\ org' = [org EXCEPT !.enabled = call[c].enabled]
    /\ IF call[c].enabled
       THEN /\ approved' = TRUE /\ explicit' = TRUE
            /\ reviewed' = call[c].certificate
            /\ UNCHANGED <<token, revocations, resaved>>
       ELSE Revoke /\ Disabled
    /\ Continue(c, "answered")
    /\ UNCHANGED <<messages, mails, page, grant>>

StoreCertificate(c, op, enabled) ==
    /\ Handling(c, op)
    /\ org.certificate < MaxCertificates
    /\ org' = [org EXCEPT !.certificate = @ + 1, !.enabled = enabled]
    /\ Revoke /\ Disabled
    /\ call' = [call EXCEPT ![c].pc = "report",
                            ![c].certificate = org.certificate + 1]
    /\ UNCHANGED <<messages, mails, page, grant>>

(* The statement leaves the column enabled alone.                           *)
ReplaceCertificate(c, op) == StoreCertificate(c, op, org.enabled)

(* setSigningCertificate and setNetworkCertificate                          *)
SetCertificate(c, op) == StoreCertificate(c, op, FALSE)

(* setOAuthSecret leaves the tokens alone.                                  *)
SetSecret(c) ==
    /\ Handling(c, "oauth-secret")
    /\ org' = [org EXCEPT !.secret = TRUE]
    /\ Continue(c, "answered")
    /\ UNCHANGED <<token, messages, mails, page, grant, history>>

(* update: the columns of the entity are overwritten, enabled among them;   *)
(* the certificates and the secret are no part of it.                       *)
Update(c) ==
    /\ Handling(c, "save")
    /\ org' = [org EXCEPT !.enabled = call[c].enabled]
    /\ explicit' = (explicit /\ call[c].enabled)
    /\ resaved' = call[c].enabled
    /\ Continue(c, "answered")
    /\ UNCHANGED <<token, messages, mails, page, grant, revocations, approved, reviewed>>

(* As if nobody were addressed.                                             *)
AboutNobody(c, recipient) == <<call[c].op, call[c].certificate>>

About(c, recipient) == <<recipient, call[c].op, call[c].certificate>>

(* createOrganization: the mail to the registrant is handed over, ...       *)
TellRegistrant(c) ==
    /\ call[c].pc = "tell"
    /\ mails' = mails \union {About(c, "registrant")}
    /\ Continue(c, "record")
    /\ UNCHANGED <<org, token, messages, page, grant, history>>

(* ... and stored as a message of the organization.                         *)
RecordMail(c) ==
    /\ call[c].pc = "record"
    /\ messages' = messages \union {About(c, "registrant")}
    /\ Continue(c, "mail")
    /\ UNCHANGED <<org, token, mails, page, grant, history>>

(* The message is stored only for an organization that is enabled.          *)
StoreMessageIfEnabled(c) ==
    /\ call[c].pc = "report"
    /\ messages' = IF org.enabled THEN messages \union {About(c, "administrators")}
                   ELSE messages
    /\ Continue(c, IF call[c].op = "registration" THEN "answered" ELSE "mail")
    /\ UNCHANGED <<org, token, mails, page, grant, history>>

(* createMessage, in a transaction of its own.  It precedes the mail about a *)
(* certificate, and follows the mail about a registration.                  *)
StoreMessage(c) ==
    /\ call[c].pc = "report"
    /\ messages' = messages \union {About(c, "administrators")}
    /\ Continue(c, IF call[c].op = "registration" THEN "answered" ELSE "mail")
    /\ UNCHANGED <<org, token, mails, page, grant, history>>

(* sendEmailToSysAdmins is asynchronous.                                    *)
MailAdministrators(c) ==
    /\ call[c].pc = "mail"
    /\ mails' = mails \union {About(c, "administrators")}
    /\ Continue(c, IF call[c].op = "registration" THEN "report" ELSE "answered")
    /\ UNCHANGED <<org, token, messages, page, grant, history>>

-----------------------------------------------------------------------------
(* The token endpoint *)

(* Only the secret is looked at.                                            *)
LoadClientWithSecret(g) ==
    /\ grant[g] = "idle"
    /\ org.exists /\ org.secret
    /\ grant' = [grant EXCEPT ![g] = "checked"]
    /\ UNCHANGED <<tables, page, call, history>>

(* loadClientByClientId                                                     *)
LoadClient(g) ==
    /\ grant[g] = "idle"
    /\ org.exists /\ org.enabled /\ org.secret
    /\ grant' = [grant EXCEPT ![g] = "checked"]
    /\ UNCHANGED <<tables, page, call, history>>

(* DefaultTokenServices.createAccessToken: a token that exists is reused.   *)
CreateAccessToken(g) ==
    /\ grant[g] = "checked"
    /\ grant' = [grant EXCEPT ![g] = "ended"]
    /\ token' = IF token = 0 THEN revocations + 1 ELSE token
    /\ UNCHANGED <<org, messages, mails, page, call, history>>

FailGrant(g) ==
    /\ grant[g] = "checked"
    /\ grant' = [grant EXCEPT ![g] = "ended"]
    /\ UNCHANGED <<tables, page, call, history>>

-----------------------------------------------------------------------------
Handle(c) ==
    \/ Register(c) \/ SetEnabled(c) \/ SetSecret(c) \/ Update(c)
    \/ \E op \in Certificates : SetCertificate(c, op)
    \/ TellRegistrant(c) \/ RecordMail(c) \/ StoreMessage(c)
    \/ MailAdministrators(c)

Next ==
    \/ \E p \in Page : Open(p)
    \/ \E c \in Call :
          \/ SubmitRegistration(c)
          \/ \E p \in Page :
                \/ ClickEnabled(c, p) \/ ClickCertificate(c, p)
                \/ ClickSecret(c, p) \/ ClickSave(c, p)
          \/ Handle(c) \/ Answer(c) \/ Fail(c)
    \/ \E g \in Grant : LoadClient(g) \/ CreateAccessToken(g) \/ FailGrant(g)

Spec == Init /\ [][Next]_vars

(* The server runs every request it has.                                    *)
FairSpec == Spec /\ \A c \in Call : WF_vars(Handle(c))

-----------------------------------------------------------------------------
(* Properties *)

(* documentation.html: a registered organization "will remain disabled until *)
(* a PESC administrator reviews and approves the information".  Until        *)
(* setEnabledForOrganization enabled it, no save of a stale page, no late    *)
(* request and no token of the OAuth library makes it reachable.             *)
DisabledUntilApproved == ~approved => ~org.enabled /\ token = 0

(* What makes it inductive: no page shows the organization enabled, ...      *)
PagesDisabled == \A p \in Page : ~page[p].enabled

(* ... no save carries that, the Enable button was not served, ...           *)
CallsDisabled ==
    \A c \in Call :
        /\ call[c].op = "save" => ~call[c].enabled
        /\ call[c].op = "enabled" =>
              call[c].enabled /\ call[c].pc \in {"sent", "failed"}

(* ... and no token request has passed the check.                            *)
GrantsUnchecked == \A g \in Grant : grant[g] # "checked"

NothingApproved == ~approved => PagesDisabled /\ CallsDisabled /\ GrantsUnchecked

(* revokeOAuthTokens: a token that was stored before the organization was    *)
(* last disabled by a handler is gone, however the requests interleave.      *)
RevokedTokensAreGone == token # 0 => token = revocations + 1

(* documentation.html: "In each case, a PESC administrator must review the   *)
(* organization's information and explicitly enable the organization": an    *)
(* organization that is enabled was enabled by setEnabledForOrganization     *)
(* after it was last disabled, by whichever request, ...                     *)
EnabledExplicitly == org.enabled => explicit

(* ... or, since then, by saveOrg of a page that showed it enabled: no        *)
(* certificate, secret, token or late request enables it.                    *)
EnabledByAdministrator == org.enabled => explicit \/ resaved

(* The same sentence: the administrator had the certificate that is enabled  *)
(* on the page.                                                              *)
EnabledWasReviewed == org.enabled => reviewed = org.certificate

(* OAuthServerConfig: "Approval is handled via enabling or disabling an      *)
(* organization": while it is disabled it holds no access token.             *)
DisabledHoldsNoToken == ~org.enabled => token = 0

(* SIGNING_CERTIFICATION_CHANGED_MESSAGE "changed and requires approval": a   *)
(* registration or a certificate whose request was answered is in a message  *)
(* and in an e-mail to the administrators, each certificate in its own,      *)
(* although they are made by later transactions than the change.            *)
AnsweredIsReported ==
    \A c \in Call :
        /\ call[c].op \in Certificates \union {"registration"}
        /\ call[c].pc \in {"answered", "done"}
        => About(c, "administrators") \in messages \intersect mails

(* mail/registration.html: "When the status of your application changes, you *)
(* will receive another email." (unless a request fails)                     *)
StatusChangeIsMailed ==
    explicit ~> \/ \E n \in Certificate : <<"registrant", "enabled", n>> \in mails
                \/ \E c \in Call : call[c].pc = "failed"
=============================================================================
