------------------------ MODULE ServiceProvidersProofs ------------------------
(* Theorems about ServiceProviders, for every number of pages, providers,    *)
(* requests and versions.                                                   *)
EXTENDS ServiceProviders, TLAPS

-----------------------------------------------------------------------------
(* Facts about the parts of the state *)

LEMMA CopiesType ==
    ASSUME NEW S \in SUBSET Provider, NEW f \in [S -> Version]
    PROVE  f \in Copies
  BY DEF Copies

LEMMA CopyTypes ==
    ASSUME NEW c \in Copies
    PROVE  /\ DOMAIN c \subseteq Provider
           /\ c \in [DOMAIN c -> Version]
  BY DEF Copies

LEMMA NoCopies == <<>> \in Copies /\ DOMAIN <<>> = {}
  <1>1. <<>> = [x \in {} |-> 0]
    OBVIOUS
  <1>2. [x \in {} |-> 0] \in [{} -> Version]
    OBVIOUS
  <1>3. QED
    BY <1>1, <1>2, CopiesType

LEMMA NoRequestType == NoRequest \in RequestState
  BY NoCopies DEF NoRequest, RequestState

LEMMA PartTypes ==
    ASSUME TypeOK
    PROVE  /\ \A p \in Page :
                 /\ page[p] \in PageState
                 /\ page[p].selected \in Copies /\ page[p].offered \in Copies
           /\ \A q \in Request :
                 /\ request[q] \in RequestState
                 /\ request[q].copies \in Copies /\ request[q].alone \in BOOLEAN
  BY DEF TypeOK, PageState, RequestState

(* A page's request: it overlaps the others about its links, and they it.   *)
LEMMA SendKeeps ==
    ASSUME ProvidersInv, NEW q \in Request, NEW p \in Page,
           NEW op \in {"links", "providers", "save"}, Send(q, op, p), links' = links
    PROVE  /\ request' \in [Request -> RequestState]
           /\ RequestsHavePages' /\ OverlapsAreKnown' /\ AnswersAreStored'
           /\ request'[q].pc = "sent" /\ request'[q].op = op
           /\ request'[q].page = p /\ request'[q].copies = page[p].selected
           /\ request[q].pc = "idle"
           /\ \A x \in Request \ {q} :
                 /\ request'[x].pc = request[x].pc /\ request'[x].op = request[x].op
                 /\ request'[x].page = request[x].page
                 /\ request'[x].copies = request[x].copies
                 /\ request'[x].alone =>
                       request[x].alone /\ ~(op # "providers" /\ Overlapping(x, p))
  <1>1. TypeOK /\ request[q].pc = "idle" /\ page[p].selected \in Copies
    BY PartTypes DEF ProvidersInv, FormInv, Send
  <1> DEFINE alone == \A y \in Request : ~Overlapping(y, p)
             sent == [pc |-> "sent", op |-> op, page |-> p,
                      copies |-> page[p].selected, alone |-> alone]
             met(x) == [request[x] EXCEPT
                           !.alone = @ /\ ~(op # "providers" /\ Overlapping(x, p))]
  <1>2. request' = [x \in Request |-> IF x = q THEN sent ELSE met(x)]
    BY DEF Send
  <1>3. alone \in BOOLEAN
    OBVIOUS
  <1>4. sent \in RequestState
    BY <1>1, <1>3 DEF RequestState
  <1>5. ASSUME NEW x \in Request
        PROVE  /\ met(x) \in RequestState
               /\ met(x).pc = request[x].pc /\ met(x).op = request[x].op
               /\ met(x).page = request[x].page /\ met(x).copies = request[x].copies
               /\ met(x).alone <=>
                     request[x].alone /\ ~(op # "providers" /\ Overlapping(x, p))
    <2>1. request[x] \in RequestState /\ request[x].alone \in BOOLEAN
      BY <1>1, PartTypes
    <2>2. (request[x].alone /\ ~(op # "providers" /\ Overlapping(x, p))) \in BOOLEAN
      OBVIOUS
    <2>3. QED
      BY <2>1, <2>2 DEF RequestState
  <1>6. /\ sent.pc = "sent" /\ sent.op = op /\ sent.page = p
        /\ sent.copies = page[p].selected /\ sent.alone = alone
    OBVIOUS
  <1> HIDE DEF sent, met
  <1>7. request' \in [Request -> RequestState]
    BY <1>2, <1>4, <1>5
  <1>8. request'[q] = sent /\ \A x \in Request \ {q} : request'[x] = met(x)
    BY <1>2
  <1>9. RequestsHavePages'
    BY <1>5, <1>6, <1>8 DEF ProvidersInv, RequestsHavePages
  <1>10. OverlapsAreKnown'
    <2> SUFFICES ASSUME NEW r \in Page, NEW x \in Request, NEW y \in Request, x # y,
                        Overlapping(x, r)', Overlapping(y, r)'
                 PROVE  ~request'[x].alone
      BY DEF OverlapsAreKnown
    <2>1. CASE x = q
      <3>1. r = p /\ op # "providers"
        BY <1>6, <1>8, <2>1 DEF Overlapping, UnderWay
      <3>2. Overlapping(y, p)
        BY <1>5, <1>8, <2>1, <3>1 DEF Overlapping, UnderWay
      <3>3. QED
        BY <1>6, <1>8, <2>1, <3>2
    <2>2. CASE y = q
      <3>1. r = p /\ op # "providers"
        BY <1>6, <1>8, <2>2 DEF Overlapping, UnderWay
      <3>2. Overlapping(x, p)
        BY <1>5, <1>8, <2>2, <3>1 DEF Overlapping, UnderWay
      <3>3. QED
        BY <1>5, <1>8, <2>2, <3>1, <3>2
    <2>3. CASE x # q /\ y # q
      <3>1. Overlapping(x, r) /\ Overlapping(y, r)
        BY <1>5, <1>8, <2>3 DEF Overlapping, UnderWay
      <3>2. QED
        BY <1>5, <1>8, <2>3, <3>1 DEF ProvidersInv, OverlapsAreKnown
    <2>4. QED
      BY <2>1, <2>2, <2>3
  <1>11. AnswersAreStored'
    BY <1>5, <1>6, <1>8 DEF ProvidersInv, AnswersAreStored
  <1>12. QED
    BY <1>1, <1>5, <1>6, <1>7, <1>8, <1>9, <1>10, <1>11

(* The end of a request.                                                    *)
LEMMA OverKeeps ==
    ASSUME ProvidersInv, NEW q \in Request, Over(q), links' = links
    PROVE  /\ request' \in [Request -> RequestState]
           /\ RequestsHavePages' /\ OverlapsAreKnown' /\ AnswersAreStored'
           /\ request'[q].pc = "idle"
           /\ \A x \in Request \ {q} : request'[x] = request[x]
  <1>1. request \in [Request -> RequestState] /\ request' = [request EXCEPT ![q] = NoRequest]
    BY DEF ProvidersInv, FormInv, TypeOK, Over
  <1>2. NoRequest \in RequestState /\ NoRequest.pc = "idle"
    BY NoRequestType DEF NoRequest
  <1> HIDE DEF NoRequest
  <1>3. /\ request' \in [Request -> RequestState] /\ request'[q].pc = "idle"
        /\ \A x \in Request \ {q} : request'[x] = request[x]
    BY <1>1, <1>2
  <1>4. \A x \in Request, p \in Page :
            Overlapping(x, p)' => x # q /\ Overlapping(x, p)
    BY <1>3 DEF Overlapping, UnderWay
  <1>5. RequestsHavePages' /\ AnswersAreStored'
    BY <1>3 DEF ProvidersInv, RequestsHavePages, AnswersAreStored
  <1>6. OverlapsAreKnown'
    BY <1>3, <1>4 DEF ProvidersInv, OverlapsAreKnown
  <1>7. QED
    BY <1>3, <1>5, <1>6

(* An answer with the copies of some providers.                             *)
LEMMA AnswerKeeps ==
    ASSUME ProvidersInv, NEW q \in Request, NEW S \in SUBSET Provider,
           Answer(q, S), request[q].pc = "sent", request[q].op # "save",
           request[q].op = "links" => S = links,
           UNCHANGED <<links, version, page, disturbed, ticked>>
    PROVE  ProvidersInv'
  <1>1. TypeOK /\ request \in [Request -> RequestState] /\ request[q] \in RequestState
    BY DEF ProvidersInv, FormInv, TypeOK
  <1> DEFINE new == [request[q] EXCEPT !.pc = "served", !.copies = CopiesOf(S)]
  <1>2. CopiesOf(S) \in Copies /\ DOMAIN CopiesOf(S) = S
    <2>1. CopiesOf(S) \in [S -> Version]
      BY <1>1 DEF CopiesOf, TypeOK
    <2>2. QED
      BY <2>1, CopiesType DEF CopiesOf
  <1>3. request' = [request EXCEPT ![q] = new]
    BY <1>1 DEF Answer
  <1>4. /\ new \in RequestState /\ new.pc = "served" /\ new.op = request[q].op
        /\ new.page = request[q].page /\ new.alone = request[q].alone
        /\ new.copies = CopiesOf(S)
    BY <1>1, <1>2 DEF RequestState
  <1> HIDE DEF new
  <1>5. /\ request' \in [Request -> RequestState] /\ request'[q] = new
        /\ \A x \in Request \ {q} : request'[x] = request[x]
    BY <1>1, <1>3, <1>4
  <1>6. TypeOK'
    BY <1>1, <1>5 DEF TypeOK
  <1>7. \A p : Saving(p)' <=> Saving(p)
    BY <1>4, <1>5 DEF Saving, Handling
  <1>8. ShownIsStored'
    BY <1>7 DEF ProvidersInv, FormInv, ShownIsStored
  <1>9. RequestsHavePages'
    BY <1>4, <1>5 DEF ProvidersInv, RequestsHavePages
  <1>10. \A x \in Request, p \in Page :
            /\ Overlapping(x, p)' <=> Overlapping(x, p)
            /\ request'[x].alone = request[x].alone
    BY <1>4, <1>5 DEF Overlapping, UnderWay
  <1>11. OverlapsAreKnown'
    BY <1>10 DEF ProvidersInv, OverlapsAreKnown
  <1>12. AnswersAreStored'
    BY <1>2, <1>4, <1>5 DEF ProvidersInv, AnswersAreStored
  <1>13. SavesAreShown'
    BY <1>4, <1>5 DEF ProvidersInv, SavesAreShown, Handling
  <1>14. QED
    BY <1>6, <1>8, <1>9, <1>11, <1>12, <1>13 DEF ProvidersInv, FormInv

-----------------------------------------------------------------------------
(* The pages *)

(* A page changes its form.                                                 *)
LEMMA PageType ==
    ASSUME TypeOK, NEW p \in Page, NEW new \in PageState,
           page' = [page EXCEPT ![p] = new]
    PROVE  /\ page' \in [Page -> PageState] /\ page'[p] = new
           /\ \A r \in Page \ {p} : page'[r] = page[r]
  BY DEF TypeOK

LEMMA OpenStep ==
    ASSUME ProvidersInv, NEW p \in Page, NEW q \in Request, Open(p, q)
    PROVE  ProvidersInv'
  <1>1. /\ TypeOK /\ page[p] \in PageState /\ Send(q, "links", p)
        /\ UNCHANGED <<links, version, disturbed, ticked>>
        /\ page' = [page EXCEPT ![p] = [page[p] EXCEPT !.open = TRUE]]
    BY DEF ProvidersInv, FormInv, TypeOK, Open
  <1>2. /\ page' \in [Page -> PageState]
        /\ \A r \in Page : /\ page'[r].form = page[r].form
                           /\ page'[r].selected = page[r].selected
    BY <1>1 DEF TypeOK, PageState
  <1>3. /\ request' \in [Request -> RequestState]
        /\ RequestsHavePages' /\ OverlapsAreKnown' /\ AnswersAreStored'
        /\ request'[q].op = "links" /\ request[q].pc = "idle"
        /\ \A x \in Request \ {q} :
              /\ request'[x].pc = request[x].pc /\ request'[x].op = request[x].op
              /\ request'[x].page = request[x].page
              /\ request'[x].copies = request[x].copies
              /\ request'[x].alone => request[x].alone
    BY <1>1, SendKeeps
  <1>4. TypeOK'
    BY <1>1, <1>2, <1>3 DEF TypeOK
  <1>5. \A r : Saving(r)' <=> Saving(r)
    BY <1>3 DEF Saving, Handling
  <1>6. ShownIsStored'
    BY <1>1, <1>2, <1>5 DEF ProvidersInv, FormInv, ShownIsStored
  <1>7. SavesAreShown'
    <2> SUFFICES ASSUME NEW x \in Request, Handling(x, "save")', request'[x].alone,
                        ~page'[request'[x].page].form
                 PROVE  DOMAIN request'[x].copies = DOMAIN page'[request'[x].page].selected
      BY DEF SavesAreShown
    <2>1. /\ x # q /\ Handling(x, "save") /\ request[x].alone
          /\ request[x].page \in Page /\ request'[x].page = request[x].page
      BY <1>3 DEF Handling, ProvidersInv, RequestsHavePages
    <2>2. QED
      BY <1>2, <1>3, <2>1 DEF ProvidersInv, SavesAreShown
  <1>8. QED
    BY <1>3, <1>4, <1>6, <1>7 DEF ProvidersInv, FormInv

LEMMA ShowFormStep ==
    ASSUME ProvidersInv, NEW p \in Page, NEW q \in Request, ShowForm(p, q)
    PROVE  ProvidersInv'
  <1>1. /\ TypeOK /\ page[p] \in PageState
        /\ Send(q, "providers", p) \/ request' = request
        /\ UNCHANGED <<links, version, disturbed, ticked>>
        /\ page' = [page EXCEPT ![p] = [page[p] EXCEPT !.form = TRUE]]
    BY DEF ProvidersInv, FormInv, TypeOK, ShowForm
  <1>2. /\ page' \in [Page -> PageState] /\ page'[p].form
        /\ \A r \in Page : /\ page'[r].form = page[r].form \/ r = p
                           /\ page'[r].selected = page[r].selected
    BY <1>1 DEF TypeOK, PageState
  <1>3. /\ request' \in [Request -> RequestState]
        /\ RequestsHavePages' /\ OverlapsAreKnown' /\ AnswersAreStored'
        /\ \A x \in Request :
              \/ /\ request'[x].pc = request[x].pc /\ request'[x].op = request[x].op
                 /\ request'[x].page = request[x].page
                 /\ request'[x].copies = request[x].copies
                 /\ request'[x].alone => request[x].alone
              \/ request'[x].op = "providers" /\ request[x].pc = "idle"
    <2>1. CASE Send(q, "providers", p)
      BY <1>1, <2>1, SendKeeps
    <2>2. CASE request' = request
      BY <1>1, <2>2 DEF ProvidersInv, FormInv, TypeOK, RequestsHavePages,
                        OverlapsAreKnown, Overlapping, UnderWay, AnswersAreStored
    <2>3. QED
      BY <1>1, <2>1, <2>2
  <1>4. TypeOK'
    BY <1>1, <1>2, <1>3 DEF TypeOK
  <1>5. \A r : Saving(r)' <=> Saving(r)
    BY <1>3 DEF Saving, Handling
  <1>6. ShownIsStored'
    BY <1>1, <1>2, <1>5 DEF ProvidersInv, FormInv, ShownIsStored
  <1>7. SavesAreShown'
    <2> SUFFICES ASSUME NEW x \in Request, Handling(x, "save")', request'[x].alone,
                        ~page'[request'[x].page].form
                 PROVE  DOMAIN request'[x].copies = DOMAIN page'[request'[x].page].selected
      BY DEF SavesAreShown
    <2>1. /\ Handling(x, "save") /\ request[x].alone
          /\ request[x].page \in Page /\ request'[x].page = request[x].page
          /\ request'[x].copies = request[x].copies
      BY <1>3 DEF Handling, ProvidersInv, RequestsHavePages
    <2>2. QED
      BY <1>2, <1>3, <2>1 DEF ProvidersInv, SavesAreShown
  <1>8. QED
    BY <1>3, <1>4, <1>6, <1>7 DEF ProvidersInv, FormInv

LEMMA ToggleStep ==
    ASSUME ProvidersInv, NEW p \in Page, NEW x \in Provider, Toggle(p, x)
    PROVE  ProvidersInv'
  <1> DEFINE selected == page[p].selected
             without == [y \in DOMAIN selected \ {x} |-> selected[y]]
             with == [y \in DOMAIN selected \union {x} |->
                         IF y = x THEN page[p].offered[x] ELSE selected[y]]
             set == IF x \in DOMAIN selected THEN without ELSE with
             new == [page[p] EXCEPT !.selected = set]
  <1>1. /\ TypeOK /\ page[p] \in PageState /\ page[p].form
        /\ selected \in Copies /\ page[p].offered \in Copies
        /\ x \in DOMAIN page[p].offered
        /\ UNCHANGED <<links, version, request, disturbed>>
        /\ ticked' \subseteq ticked
    BY PartTypes DEF ProvidersInv, FormInv, Toggle
  <1>2. page' = [page EXCEPT ![p] = new]
    BY <1>1 DEF Toggle, TypeOK
  <1>3. set \in Copies
    <2>1. /\ DOMAIN selected \subseteq Provider /\ selected \in [DOMAIN selected -> Version]
          /\ page[p].offered[x] \in Version
      BY <1>1, CopyTypes
    <2> HIDE DEF selected
    <2>2. without \in [DOMAIN selected \ {x} -> Version]
      BY <2>1
    <2>3. with \in [DOMAIN selected \union {x} -> Version]
      BY <2>1
    <2>4. /\ (DOMAIN selected) \ {x} \in SUBSET Provider
          /\ (DOMAIN selected) \union {x} \in SUBSET Provider
      BY <2>1
    <2> HIDE DEF with, without
    <2>5. QED
      BY <2>2, <2>3, <2>4, CopiesType
  <1> HIDE DEF set
  <1>4. new \in PageState /\ new.form
    BY <1>1, <1>3 DEF PageState
  <1> HIDE DEF new
  <1>5. /\ page' \in [Page -> PageState] /\ page'[p].form
        /\ \A r \in Page \ {p} : page'[r] = page[r]
    BY <1>1, <1>2, <1>4, PageType
  <1>6. TypeOK'
    BY <1>1, <1>5 DEF TypeOK
  <1>7. ShownIsStored'
    BY <1>1, <1>5 DEF ProvidersInv, FormInv, ShownIsStored, Saving, Handling
  <1>8. RequestsHavePages' /\ OverlapsAreKnown' /\ AnswersAreStored'
    BY <1>1 DEF ProvidersInv, RequestsHavePages, OverlapsAreKnown, Overlapping,
                UnderWay, AnswersAreStored
  <1>9. SavesAreShown'
    <2> SUFFICES ASSUME NEW y \in Request, Handling(y, "save"), request[y].alone,
                        ~page'[request[y].page].form
                 PROVE  DOMAIN request[y].copies = DOMAIN page'[request[y].page].selected
      BY <1>1 DEF SavesAreShown, Handling
    <2>1. request[y].page \in Page /\ request[y].page # p
      BY <1>5 DEF ProvidersInv, RequestsHavePages, Handling
    <2>2. QED
      BY <1>5, <2>1 DEF ProvidersInv, SavesAreShown
  <1>10. QED
    BY <1>6, <1>7, <1>8, <1>9 DEF ProvidersInv, FormInv

(* The save that a closing form sends is of what the page shows, and other  *)
(* saves of the page know that they overlap it.                             *)
LEMMA CloseFormStep ==
    ASSUME ProvidersInv, NEW p \in Page, NEW q \in Request, CloseForm(p, q)
    PROVE  ProvidersInv'
  <1>1. /\ TypeOK /\ page[p] \in PageState /\ Send(q, "save", p)
        /\ UNCHANGED <<links, version, disturbed, ticked>>
        /\ page' = [page EXCEPT ![p] = [page[p] EXCEPT !.form = FALSE]]
    BY DEF ProvidersInv, FormInv, TypeOK, CloseForm
  <1>2. /\ page' \in [Page -> PageState]
        /\ \A r \in Page \ {p} : page'[r] = page[r]
        /\ page'[p].selected = page[p].selected
    BY <1>1 DEF TypeOK, PageState
  <1>3. /\ request' \in [Request -> RequestState]
        /\ RequestsHavePages' /\ OverlapsAreKnown' /\ AnswersAreStored'
        /\ request'[q].pc = "sent" /\ request'[q].op = "save"
        /\ request'[q].page = p /\ request'[q].copies = page[p].selected
        /\ request[q].pc = "idle"
        /\ \A x \in Request \ {q} :
              /\ request'[x].pc = request[x].pc /\ request'[x].op = request[x].op
              /\ request'[x].page = request[x].page
              /\ request'[x].copies = request[x].copies
              /\ request'[x].alone => request[x].alone /\ ~Overlapping(x, p)
    BY <1>1, SendKeeps
  <1>4. TypeOK'
    BY <1>1, <1>2, <1>3 DEF TypeOK
  <1>5. Saving(p)' /\ \A r : r # p => (Saving(r)' <=> Saving(r))
    BY <1>3 DEF Saving, Handling
  <1>6. ShownIsStored'
    BY <1>1, <1>2, <1>5 DEF ProvidersInv, FormInv, ShownIsStored
  <1>7. SavesAreShown'
    <2> SUFFICES ASSUME NEW x \in Request, Handling(x, "save")', request'[x].alone,
                        ~page'[request'[x].page].form
                 PROVE  DOMAIN request'[x].copies = DOMAIN page'[request'[x].page].selected
      BY DEF SavesAreShown
    <2>1. CASE x = q
      BY <1>2, <1>3, <2>1
    <2>2. CASE x # q
      <3>1. /\ Handling(x, "save") /\ request[x].alone /\ ~Overlapping(x, p)
            /\ request[x].page \in Page /\ request'[x].page = request[x].page
        BY <1>3, <2>2 DEF Handling, ProvidersInv, RequestsHavePages
      <3>2. request[x].page # p
        BY <3>1 DEF Overlapping, UnderWay, Handling
      <3>3. QED
        BY <1>2, <1>3, <2>2, <3>1, <3>2 DEF ProvidersInv, SavesAreShown
    <2>3. QED
      BY <2>1, <2>2
  <1>8. QED
    BY <1>3, <1>4, <1>6, <1>7 DEF ProvidersInv, FormInv

LEMMA ShowLinksStep ==
    ASSUME ProvidersInv, NEW q \in Request, ShowLinks(q)
    PROVE  ProvidersInv'
  <1> DEFINE p == request[q].page
             new == [page[p] EXCEPT !.selected = request[q].copies]
  <1>1. /\ TypeOK /\ request[q].pc = "served" /\ request[q].op = "links" /\ Over(q)
        /\ p \in Page /\ page[p] \in PageState /\ request[q].copies \in Copies
        /\ UNCHANGED <<links, version, ticked>>
        /\ disturbed' = IF request[q].alone THEN disturbed \ {p} ELSE disturbed \union {p}
    BY PartTypes DEF ProvidersInv, FormInv, ShowLinks, RequestsHavePages, TypeOK
  <1>2. page' = [page EXCEPT ![p] = new]
    BY <1>1 DEF ShowLinks, TypeOK
  <1>3. /\ new \in PageState /\ new.form = page[p].form
        /\ new.selected = request[q].copies
    BY <1>1 DEF PageState
  <1>4. Overlapping(q, p)
    BY <1>1 DEF Overlapping, UnderWay
  <1> HIDE DEF p, new
  <1>5. /\ page' \in [Page -> PageState] /\ page'[p] = new
        /\ \A r \in Page \ {p} : page'[r] = page[r]
    BY <1>1, <1>2, <1>3, PageType
  <1>6. /\ request' \in [Request -> RequestState]
        /\ RequestsHavePages' /\ OverlapsAreKnown' /\ AnswersAreStored'
        /\ request'[q].pc = "idle"
        /\ \A x \in Request \ {q} : request'[x] = request[x]
    BY <1>1, OverKeeps
  <1>7. TypeOK'
    BY <1>1, <1>5, <1>6 DEF TypeOK
  <1>8. \A r : Saving(r)' <=> Saving(r)
    BY <1>1, <1>6 DEF Saving, Handling
  <1>9. ShownIsStored'
    <2> SUFFICES ASSUME NEW r \in Page, r \notin disturbed', ~page'[r].form, ~Saving(r)
                 PROVE  DOMAIN page'[r].selected = links
      BY <1>1, <1>8 DEF ShownIsStored
    <2>1. CASE r = p
      <3>1. request[q].alone
        BY <1>1, <2>1
      <3>2. DOMAIN request[q].copies = links
        BY <1>1, <3>1 DEF ProvidersInv, AnswersAreStored
      <3>3. QED
        BY <1>3, <1>5, <2>1, <3>2
    <2>2. CASE r # p
      BY <1>1, <1>5, <2>2 DEF ProvidersInv, FormInv, ShownIsStored
    <2>3. QED
      BY <2>1, <2>2
  <1>10. SavesAreShown'
    <2> SUFFICES ASSUME NEW x \in Request, Handling(x, "save")', request'[x].alone,
                        ~page'[request'[x].page].form
                 PROVE  DOMAIN request'[x].copies = DOMAIN page'[request'[x].page].selected
      BY DEF SavesAreShown
    <2>1. /\ x # q /\ request'[x] = request[x] /\ Handling(x, "save")
          /\ request[x].page \in Page
      BY <1>6 DEF Handling, ProvidersInv, RequestsHavePages
    <2>2. request[x].page # p
      BY <1>1, <1>4, <2>1 DEF ProvidersInv, OverlapsAreKnown, Overlapping, UnderWay, Handling
    <2>3. QED
      BY <1>5, <2>1, <2>2 DEF ProvidersInv, SavesAreShown
  <1>11. QED
    BY <1>6, <1>7, <1>9, <1>10 DEF ProvidersInv, FormInv

LEMMA ShowProvidersStep ==
    ASSUME ProvidersInv, NEW q \in Request,
           ShowProviders(q) \/ Saved(q)
    PROVE  ProvidersInv'
  <1> DEFINE p == request[q].page
  <1>1. /\ TypeOK /\ request[q].pc = "served" /\ Over(q)
        /\ p \in Page /\ page[p] \in PageState /\ request[q].copies \in Copies
        /\ UNCHANGED <<links, version, ticked, disturbed>>
    BY PartTypes DEF ProvidersInv, FormInv, ShowProviders, Saved, RequestsHavePages, TypeOK
  <1>2. page' = page
        \/ page' = [page EXCEPT ![p] = [page[p] EXCEPT !.offered = request[q].copies]]
    BY <1>1 DEF ShowProviders, Saved, TypeOK
  <1>3. /\ page' \in [Page -> PageState]
        /\ \A r \in Page : /\ page'[r].form = page[r].form
                           /\ page'[r].selected = page[r].selected
    BY <1>1, <1>2 DEF TypeOK, PageState
  <1>4. /\ request' \in [Request -> RequestState]
        /\ RequestsHavePages' /\ OverlapsAreKnown' /\ AnswersAreStored'
        /\ request'[q].pc = "idle"
        /\ \A x \in Request \ {q} : request'[x] = request[x]
    BY <1>1, OverKeeps
  <1>5. TypeOK'
    BY <1>1, <1>3, <1>4 DEF TypeOK
  <1>6. \A r : Saving(r)' <=> Saving(r)
    BY <1>1, <1>4 DEF Saving, Handling
  <1>7. ShownIsStored'
    BY <1>1, <1>3, <1>6 DEF ProvidersInv, FormInv, ShownIsStored
  <1>8. SavesAreShown'
    <2> SUFFICES ASSUME NEW x \in Request, Handling(x, "save")', request'[x].alone,
                        ~page'[request'[x].page].form
                 PROVE  DOMAIN request'[x].copies = DOMAIN page'[request'[x].page].selected
      BY DEF SavesAreShown
    <2>1. /\ x # q /\ request'[x] = request[x] /\ Handling(x, "save")
          /\ request[x].page \in Page
      BY <1>4 DEF Handling, ProvidersInv, RequestsHavePages
    <2>2. QED
      BY <1>3, <2>1 DEF ProvidersInv, SavesAreShown
  <1>9. QED
    BY <1>4, <1>5, <1>7, <1>8 DEF ProvidersInv, FormInv

(* A save that is lost disturbs its page.                                   *)
LEMMA FailStep ==
    ASSUME ProvidersInv, NEW q \in Request, Fail(q)
    PROVE  ProvidersInv'
  <1>1. /\ TypeOK /\ request[q].pc \in {"sent", "served"} /\ Over(q)
        /\ request[q].page \in Page
        /\ UNCHANGED <<links, version, page, ticked>>
        /\ disturbed' = IF request[q].pc = "sent" /\ request[q].op = "save"
                        THEN disturbed \union {request[q].page} ELSE disturbed
    BY DEF ProvidersInv, FormInv, Fail, RequestsHavePages
  <1>2. /\ request' \in [Request -> RequestState]
        /\ RequestsHavePages' /\ OverlapsAreKnown' /\ AnswersAreStored'
        /\ request'[q].pc = "idle"
        /\ \A x \in Request \ {q} : request'[x] = request[x]
    BY <1>1, OverKeeps
  <1>3. TypeOK'
    BY <1>1, <1>2 DEF TypeOK
  <1>4. ShownIsStored'
    <2> SUFFICES ASSUME NEW r \in Page, r \notin disturbed', ~page[r].form, ~Saving(r)'
                 PROVE  DOMAIN page[r].selected = links
      BY <1>1 DEF ShownIsStored
    <2>1. r \notin disturbed
      BY <1>1
    <2>2. ~Saving(r)
      BY <1>1, <1>2 DEF Saving, Handling
    <2>3. QED
      BY <2>1, <2>2 DEF ProvidersInv, FormInv, ShownIsStored
  <1>5. SavesAreShown'
    BY <1>1, <1>2 DEF ProvidersInv, SavesAreShown, Handling
  <1>6. QED
    BY <1>2, <1>3, <1>4, <1>5 DEF ProvidersInv, FormInv

-----------------------------------------------------------------------------
(* The directory *)

LEMMA StaleKeeps ==
    ASSUME NEW state \in [Request -> RequestState]
    PROVE  /\ StaleAnswers(state) \in [Request -> RequestState]
           /\ \A x \in Request :
                 /\ StaleAnswers(state)[x].pc = state[x].pc
                 /\ StaleAnswers(state)[x].op = state[x].op
                 /\ StaleAnswers(state)[x].page = state[x].page
                 /\ StaleAnswers(state)[x].copies = state[x].copies
                 /\ StaleAnswers(state)[x].alone =>
                       state[x].alone /\ ~(state[x].op = "links" /\ state[x].pc = "served")
  <1>1. \A x \in Request : state[x] \in RequestState
    OBVIOUS
  <1>2. QED
    BY <1>1 DEF StaleAnswers, RequestState

(* The set is what the save carried; a page that has sent no other request  *)
(* since shows it, and every other page may be out of date.                 *)
LEMMA SetServiceProvidersStep ==
    ASSUME ProvidersInv, NEW q \in Request, SetServiceProviders(q)
    PROVE  ProvidersInv'
  <1> DEFINE p == request[q].page
             copies == request[q].copies
             served == [request EXCEPT ![q] = [request[q] EXCEPT !.pc = "served"]]
  <1>1. /\ TypeOK /\ Handling(q, "save")
        /\ request \in [Request -> RequestState] /\ request[q] \in RequestState
        /\ p \in Page /\ copies \in Copies
        /\ links' = DOMAIN copies
        /\ version' = [x \in Provider |-> IF x \in DOMAIN copies THEN copies[x] ELSE version[x]]
        /\ disturbed' = IF request[q].alone THEN Page \ {p} ELSE Page
        /\ UNCHANGED <<page, ticked>>
    BY PartTypes DEF ProvidersInv, FormInv, TypeOK, SetServiceProviders, Store,
                     RequestsHavePages, Handling
  <1>2. request' = StaleAnswers(served)
    BY <1>1 DEF SetServiceProviders, Store
  <1>3. /\ served \in [Request -> RequestState]
        /\ served[q].pc = "served" /\ served[q].op = "save" /\ served[q].page = p
        /\ served[q].alone = request[q].alone
        /\ \A x \in Request \ {q} : served[x] = request[x]
    BY <1>1 DEF RequestState, Handling
  <1> HIDE DEF served, p, copies
  <1>4. /\ request' \in [Request -> RequestState]
        /\ request'[q].pc = "served" /\ request'[q].op = "save" /\ request'[q].page = p
        /\ request'[q].alone => request[q].alone
        /\ \A x \in Request \ {q} :
              /\ request'[x].pc = request[x].pc /\ request'[x].op = request[x].op
              /\ request'[x].page = request[x].page
              /\ request'[x].copies = request[x].copies
              /\ request'[x].alone =>
                    request[x].alone /\ ~(request[x].op = "links" /\ request[x].pc = "served")
    BY <1>2, <1>3, StaleKeeps
  <1>5. TypeOK'
    <2>1. DOMAIN copies \subseteq Provider /\ copies \in [DOMAIN copies -> Version]
      BY <1>1, CopyTypes
    <2>2. version' \in [Provider -> Version]
      BY <1>1, <2>1 DEF TypeOK
    <2>3. QED
      BY <1>1, <1>4, <2>1, <2>2 DEF TypeOK
  <1>6. RequestsHavePages'
    BY <1>1, <1>4 DEF ProvidersInv, RequestsHavePages
  <1>7. \A x \in Request, r \in Page : Overlapping(x, r)' => Overlapping(x, r)
    BY <1>1, <1>4 DEF Overlapping, UnderWay, Handling, p
  <1>8. OverlapsAreKnown'
    BY <1>4, <1>7 DEF ProvidersInv, OverlapsAreKnown
  <1>9. AnswersAreStored'
    BY <1>4 DEF AnswersAreStored
  <1>10. SavesAreShown'
    <2> SUFFICES ASSUME NEW x \in Request, Handling(x, "save")', request'[x].alone,
                        ~page[request'[x].page].form
                 PROVE  DOMAIN request'[x].copies = DOMAIN page[request'[x].page].selected
      BY <1>1 DEF SavesAreShown
    <2>1. x # q /\ Handling(x, "save") /\ request[x].alone
      BY <1>4 DEF Handling
    <2>2. QED
      BY <1>4, <2>1 DEF ProvidersInv, SavesAreShown
  <1>11. ShownIsStored'
    <2> SUFFICES ASSUME NEW r \in Page, r \notin disturbed', ~page[r].form
                 PROVE  DOMAIN page[r].selected = links'
      BY <1>1 DEF ShownIsStored
    <2>1. r = p /\ request[q].alone
      BY <1>1
    <2>2. QED
      BY <1>1, <2>1 DEF ProvidersInv, SavesAreShown, p, copies
  <1>12. QED
    BY <1>5, <1>6, <1>8, <1>9, <1>10, <1>11 DEF ProvidersInv, FormInv

(* An upload links a provider: every page may be out of date.               *)
LEMMA LinkStep ==
    ASSUME ProvidersInv, NEW x \in Provider, Link(x)
    PROVE  ProvidersInv'
  <1>1. /\ TypeOK /\ request \in [Request -> RequestState]
        /\ links' = links \union {x} /\ ticked' = ticked \union {x}
        /\ request' = StaleAnswers(request) /\ disturbed' = Page
        /\ UNCHANGED <<version, page>>
    BY DEF ProvidersInv, FormInv, TypeOK, Link
  <1>2. /\ request' \in [Request -> RequestState]
        /\ \A y \in Request :
              /\ request'[y].pc = request[y].pc /\ request'[y].op = request[y].op
              /\ request'[y].page = request[y].page
              /\ request'[y].copies = request[y].copies
              /\ request'[y].alone =>
                    request[y].alone /\ ~(request[y].op = "links" /\ request[y].pc = "served")
    BY <1>1, StaleKeeps
  <1>3. TypeOK' /\ ShownIsStored'
    BY <1>1, <1>2 DEF TypeOK, ShownIsStored
  <1>4. RequestsHavePages' /\ AnswersAreStored'
    BY <1>2 DEF ProvidersInv, RequestsHavePages, AnswersAreStored
  <1>5. \A y \in Request, r \in Page : Overlapping(y, r)' => Overlapping(y, r)
    BY <1>2 DEF Overlapping, UnderWay
  <1>6. OverlapsAreKnown'
    BY <1>2, <1>5 DEF ProvidersInv, OverlapsAreKnown
  <1>7. SavesAreShown'
    BY <1>1, <1>2 DEF ProvidersInv, SavesAreShown, Handling
  <1>8. QED
    BY <1>3, <1>4, <1>6, <1>7 DEF ProvidersInv, FormInv

LEMMA ChangeStep ==
    ASSUME ProvidersInv, NEW x \in Provider, Change(x)
    PROVE  ProvidersInv'
  <1>1. TypeOK /\ UNCHANGED <<links, page, request, disturbed, ticked>>
    BY DEF ProvidersInv, FormInv, Change
  <1>2. version' \in [Provider -> Version]
    BY <1>1, ProvidersAssumption DEF TypeOK, Change, Version
  <1>3. TypeOK'
    BY <1>1, <1>2 DEF TypeOK
  <1>4. QED
    BY <1>1, <1>3 DEF ProvidersInv, FormInv, ShownIsStored, Saving, Handling,
        RequestsHavePages, OverlapsAreKnown, Overlapping, UnderWay, AnswersAreStored,
        SavesAreShown

-----------------------------------------------------------------------------
(* The theorems *)

LEMMA InitInv == Init => ProvidersInv
  <1> SUFFICES ASSUME Init PROVE ProvidersInv
    OBVIOUS
  <1>1. [open |-> FALSE, form |-> FALSE, offered |-> <<>>, selected |-> <<>>] \in PageState
    BY NoCopies DEF PageState
  <1>2. TypeOK
    BY <1>1, NoRequestType, ProvidersAssumption DEF Init, TypeOK, Version
  <1>3. \A q \in Request : request[q].pc = "idle"
    BY DEF Init, NoRequest
  <1>4. ShownIsStored
    BY DEF Init, ShownIsStored
  <1>5. /\ RequestsHavePages /\ OverlapsAreKnown /\ AnswersAreStored /\ SavesAreShown
    BY <1>3 DEF RequestsHavePages, OverlapsAreKnown, Overlapping, UnderWay,
                AnswersAreStored, SavesAreShown, Handling
  <1>6. QED
    BY <1>2, <1>4, <1>5 DEF ProvidersInv, FormInv

LEMMA NextInv == ProvidersInv /\ [Next]_vars => ProvidersInv'
  <1> SUFFICES ASSUME ProvidersInv, [Next]_vars PROVE ProvidersInv'
    OBVIOUS
  <1>1. ASSUME NEW p \in Page, NEW q \in Request,
               Open(p, q) \/ ShowForm(p, q) \/ CloseForm(p, q)
        PROVE  ProvidersInv'
    BY <1>1, OpenStep, ShowFormStep, CloseFormStep
  <1>2. ASSUME NEW p \in Page, NEW x \in Provider, Toggle(p, x)
        PROVE  ProvidersInv'
    BY <1>2, ToggleStep
  <1>3. ASSUME NEW q \in Request, ServeLinks(q) \/ ServeProviders(q)
        PROVE  ProvidersInv'
    <2>1. links \in SUBSET Provider
      BY DEF ProvidersInv, FormInv, TypeOK
    <2>2. CASE ServeLinks(q)
      BY <2>1, <2>2, AnswerKeeps DEF ServeLinks, Handling
    <2>3. CASE ServeProviders(q)
      BY <2>3, AnswerKeeps DEF ServeProviders, Handling
    <2>4. QED
      BY <1>3, <2>2, <2>3
  <1>4. ASSUME NEW q \in Request,
               \/ SetServiceProviders(q) \/ ShowLinks(q) \/ ShowProviders(q)
               \/ Saved(q) \/ Fail(q)
        PROVE  ProvidersInv'
    BY <1>4, SetServiceProvidersStep, ShowLinksStep, ShowProvidersStep, FailStep
  <1>5. ASSUME NEW x \in Provider, Link(x) \/ Change(x)
        PROVE  ProvidersInv'
    BY <1>5, LinkStep, ChangeStep
  <1>6. CASE UNCHANGED vars
    BY <1>6 DEF vars, ProvidersInv, FormInv, TypeOK, ShownIsStored, Saving, Handling,
        RequestsHavePages, OverlapsAreKnown, Overlapping, UnderWay, AnswersAreStored,
        SavesAreShown
  <1>7. QED
    BY <1>1, <1>2, <1>3, <1>4, <1>5, <1>6 DEF Next

(* The inductive invariant: requests of a page that overlap know it.        *)
THEOREM ProvidersInvariance == Spec => []ProvidersInv
  BY InitInv, NextInv, PTL DEF Spec

(* A page whose form is closed, and whose set was loaded or saved without   *)
(* another request of the page on its way, shows the providers that the     *)
(* institution has, until somebody else changes them.                       *)
THEOREM PagesShowTheProviders == Spec => []FormInv
  <1>1. ProvidersInv => FormInv
    BY DEF ProvidersInv
  <1>2. QED
    BY <1>1, ProvidersInvariance, PTL
================================================================================
