--------------------------- MODULE ServiceProviders ---------------------------
(***************************************************************************)
(* The service providers of one institution, on the page of the institution *)
(* and in the directory.                                                    *)
(*                                                                         *)
(* A page fetches the providers of the institution when it is opened, and   *)
(* all providers when its form is first opened; what is ticked are copies   *)
(* of these organizations.  Closing the form sends the whole set, with the  *)
(* copies, whether it was loaded or changed or not, and the directory       *)
(* replaces the set and merges the copies.  Meanwhile other pages do the    *)
(* same, and uploads link providers one by one.                             *)
(***************************************************************************)
EXTENDS Naturals

CONSTANTS
    Page,        \* visits of the institution's page
    Provider,    \* the organizations that are service providers
    Request,     \* bound: requests under way at a time
    MaxVersion   \* bound: versions of a provider's data

ASSUME ProvidersAssumption == MaxVersion \in Nat

VARIABLES
    links,      \* institutions_service_providers, of the institution
    version,    \* the data of each provider
    page,
    request,
    disturbed,  \* history: pages whose set was not loaded, or not saved, since
                \* it was changed from elsewhere, or with requests that overlap
    ticked      \* history: providers that an upload linked, and that no user
                \* has unticked since

vars == <<links, version, page, request, disturbed, ticked>>

Version == 0..MaxVersion
Copies == UNION {[S -> Version] : S \in SUBSET Provider}
PageState ==
    [open : BOOLEAN, form : BOOLEAN, offered : Copies, selected : Copies]
RequestState ==
    [pc : {"idle", "sent", "served"}, op : {"links", "providers", "save"},
     page : Page \union {"none"}, copies : Copies, alone : BOOLEAN]

NoRequest == [pc |-> "idle", op |-> "links", page |-> "none", copies |-> <<>>,
              alone |-> TRUE]

TypeOK ==
    /\ links \subseteq Provider
    /\ version \in [Provider -> Version]
    /\ page \in [Page -> PageState]
    /\ request \in [Request -> RequestState]
    /\ disturbed \subseteq Page
    /\ ticked \subseteq Provider

Init ==
    /\ links \in SUBSET Provider
    /\ version = [x \in Provider |-> 0]
    /\ page = [p \in Page |-> [open |-> FALSE, form |-> FALSE, offered |-> <<>>,
                               selected |-> <<>>]]
    /\ request = [q \in Request |-> NoRequest]
    /\ disturbed = Page
    /\ ticked = {}

CopiesOf(S) == [x \in S |-> version[x]]
UnderWay(q, p) == request[q].pc \in {"sent", "served"} /\ request[q].page = p

(* Requests about the links: those that overlap lose their order.            *)
Overlapping(q, p) == UnderWay(q, p) /\ request[q].op # "providers"

Send(q, op, p) ==
    /\ request[q].pc = "idle"
    /\ request' = [x \in Request |->
          IF x = q
          THEN [pc |-> "sent", op |-> op, page |-> p, copies |-> page[p].selected,
                alone |-> \A y \in Request : ~Overlapping(y, p)]
          ELSE [request[x] EXCEPT !.alone = @ /\ ~(op # "providers" /\ Overlapping(x, p))]]

-----------------------------------------------------------------------------
(* The pages *)

(* getServiceProvidersForInstitution, when the page is opened.              *)
Open(p, q) ==
    /\ ~page[p].open
    /\ Send(q, "links", p)
    /\ page' = [page EXCEPT ![p].open = TRUE]
    /\ UNCHANGED <<links, version, disturbed, ticked>>

(* setShowServiceProviderForm(true); the list of providers is fetched once.  *)
ShowForm(p, q) ==
    /\ page[p].open /\ ~page[p].form
    /\ page' = [page EXCEPT ![p].form = TRUE]
    /\ IF DOMAIN page[p].offered = {} THEN Send(q, "providers", p) ELSE UNCHANGED request
    /\ UNCHANGED <<links, version, disturbed, ticked>>

(* updateSelectedServiceProviders                                           *)
Toggle(p, x) ==
    /\ page[p].form /\ x \in DOMAIN page[p].offered
    /\ LET selected == page[p].selected
           without == [y \in DOMAIN selected \ {x} |-> selected[y]]
           with == [y \in DOMAIN selected \union {x} |->
                       IF y = x THEN page[p].offered[x] ELSE selected[y]]
           isSelected == x \in DOMAIN selected
       IN  /\ page' = [page EXCEPT ![p].selected = IF isSelected THEN without ELSE with]
           /\ ticked' = IF isSelected THEN ticked \ {x} ELSE ticked
    /\ UNCHANGED <<links, version, request, disturbed>>

(* setShowServiceProviderForm(false)                                        *)
CloseForm(p, q) ==
    /\ page[p].form
    /\ page' = [page EXCEPT ![p].form = FALSE]
    /\ Send(q, "save", p)
    /\ UNCHANGED <<links, version, disturbed, ticked>>

Over(q) == request' = [request EXCEPT ![q] = NoRequest]

(* The fetched set replaces the page's, the form may be open.               *)
ShowLinks(q) ==
    /\ request[q].pc = "served" /\ request[q].op = "links"
    /\ Over(q)
    /\ page' = [page EXCEPT ![request[q].page].selected = request[q].copies]
    /\ disturbed' = IF request[q].alone THEN disturbed \ {request[q].page}
                    ELSE disturbed \union {request[q].page}
    /\ UNCHANGED <<links, version, ticked>>

ShowProviders(q) ==
    /\ request[q].pc = "served" /\ request[q].op = "providers"
    /\ Over(q)
    /\ page' = [page EXCEPT ![request[q].page].offered = request[q].copies]
    /\ UNCHANGED <<links, version, disturbed, ticked>>

(* The answer to a save is not looked at.                                   *)
Saved(q) ==
    /\ request[q].pc = "served" /\ request[q].op = "save"
    /\ Over(q)
    /\ UNCHANGED <<links, version, page, disturbed, ticked>>

(* A request is lost or refused, or its answer lost; the page keeps its set. *)
Fail(q) ==
    /\ request[q].pc \in {"sent", "served"}
    /\ Over(q)
    /\ disturbed' = IF request[q].pc = "sent" /\ request[q].op = "save"
                    THEN disturbed \union {request[q].page} ELSE disturbed
    /\ UNCHANGED <<links, version, page, ticked>>

-----------------------------------------------------------------------------
(* The directory *)

Handling(q, op) == request[q].pc = "sent" /\ request[q].op = op

Answer(q, S) ==
    request' = [request EXCEPT ![q].pc = "served", ![q].copies = CopiesOf(S)]

ServeLinks(q) ==
    /\ Handling(q, "links")
    /\ Answer(q, links)
    /\ UNCHANGED <<links, version, page, disturbed, ticked>>

ServeProviders(q) ==
    /\ Handling(q, "providers")
    /\ Answer(q, Provider)
    /\ UNCHANGED <<links, version, page, disturbed, ticked>>

(* A set that is on its way to a page is outdated.                          *)
StaleAnswers(state) ==
    [x \in Request |->
        IF state[x].op = "links" /\ state[x].pc = "served"
        THEN [state[x] EXCEPT !.alone = FALSE] ELSE state[x]]

Store(q, new) ==
    LET p == request[q].page IN
    /\ Handling(q, "save")
    /\ links' = new
    /\ version' = [x \in Provider |->
          IF x \in DOMAIN request[q].copies THEN request[q].copies[x] ELSE version[x]]
    /\ request' = StaleAnswers([request EXCEPT ![q].pc = "served"])
    /\ disturbed' = IF request[q].alone THEN Page \ {p} ELSE Page
    /\ UNCHANGED <<page, ticked>>

(* The providers are added to the institution's.                            *)
AddServiceProviders(q) == Store(q, links \union DOMAIN request[q].copies)

(* updateServiceProvidersForInstitution: the set is replaced, and every     *)
(* provider in it is merged with the copy.                                  *)
SetServiceProviders(q) == Store(q, DOMAIN request[q].copies)

(* An upload, or createRelation, links a provider.                          *)
Link(x) ==
    /\ links' = links \union {x}
    /\ ticked' = ticked \union {x}
    /\ request' = StaleAnswers(request)
    /\ disturbed' = Page
    /\ UNCHANGED <<version, page>>

(* Somebody edits a provider.                                               *)
Change(x) ==
    /\ version[x] < MaxVersion
    /\ version' = [version EXCEPT ![x] = @ + 1]
    /\ UNCHANGED <<links, page, request, disturbed, ticked>>

-----------------------------------------------------------------------------
Next ==
    \/ \E p \in Page :
          \/ \E q \in Request : Open(p, q) \/ ShowForm(p, q) \/ CloseForm(p, q)
          \/ \E x \in Provider : Toggle(p, x)
    \/ \E q \in Request :
          \/ ServeLinks(q) \/ ServeProviders(q) \/ SetServiceProviders(q)
          \/ ShowLinks(q) \/ ShowProviders(q) \/ Saved(q) \/ Fail(q)
    \/ \E x \in Provider : Link(x) \/ Change(x)

Spec == Init /\ [][Next]_vars

-----------------------------------------------------------------------------
(* Properties *)

Saving(p) == \E q \in Request : request[q].page = p /\ Handling(q, "save")

(* OrganizationController: a page whose form is closed shows the providers    *)
(* that the institution has, from when it was loaded, or last saved, until   *)
(* somebody else changes them.                                              *)
ShownIsStored ==
    \A p \in Page \ disturbed :
        ~page[p].form /\ ~Saving(p) => DOMAIN page[p].selected = links

(* The type invariant, and that pages show what is stored.                   *)
FormInv == TypeOK /\ ShownIsStored

(* Requests that overlap know it, an answer that does not is what is stored, *)
(* and a save that does not is what the page shows, unless its form was      *)
(* opened again.                                                            *)
RequestsHavePages ==
    \A q \in Request : request[q].pc # "idle" => request[q].page \in Page
OverlapsAreKnown ==
    \A p \in Page : \A q, y \in Request :
        Overlapping(q, p) /\ Overlapping(y, p) /\ y # q => ~request[q].alone
AnswersAreStored ==
    \A q \in Request :
        request[q].pc = "served" /\ request[q].op = "links" /\ request[q].alone =>
            DOMAIN request[q].copies = links
SavesAreShown ==
    \A q \in Request :
        LET p == request[q].page IN
        Handling(q, "save") /\ request[q].alone /\ ~page[p].form =>
            DOMAIN request[q].copies = DOMAIN page[p].selected

(* The invariant that the proofs rest on.                                   *)
ProvidersInv ==
    /\ FormInv /\ RequestsHavePages /\ OverlapsAreKnown
    /\ AnswersAreStored /\ SavesAreShown

(* documentation.html: "if two different service providers specify the same  *)
(* institution as one of their serviceable schools, the institution will    *)
(* then be configured to have two different service providers": a provider  *)
(* that an upload linked is one until a user unticks it.                    *)
LinkedStays == ticked \subseteq links

(* ServiceProviderResource: the PUT is to "Update the organization with the   *)
(* given ID", the institution; it takes no provider's data back.            *)
ProvidersKeepTheirData ==
    [][\A x \in Provider : version[x] <= version'[x]]_vars
=============================================================================
