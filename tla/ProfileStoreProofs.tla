------------------------- MODULE ProfileStoreProofs -------------------------
(***************************************************************************)
(* Proofs about the profile store, for any scopes, operators, pods, edits  *)
(* and bounds: type correctness, no lost update, that a validated overlay  *)
(* stays sound until a document above it moves, that the narrowest document*)
(* decides over a rule, and that the job intervals cover what is active.   *)
(***************************************************************************)
EXTENDS ProfileStore, WellFoundedInduction, TLAPS

Busy(c) == req[c].at # "idle"
Asked == MaxRequest - left.request
Fields == {"at", "pod", "scope", "edit", "against", "body", "version", "base",
           "born"}

(* Shapes of the functions, and how versions and revisions are bounded: a  *)
(* request costs one of the bound and raises a version by one.             *)
DocsTyped ==
  /\ DOMAIN docs = Scope /\ rev \in Nat
  /\ \A s \in Scope : docs[s] # Absent =>
       /\ docs[s].version \in Nat /\ 1 <= docs[s].version
       /\ docs[s].version <= Asked + 1
       /\ docs[s].born \in Nat /\ docs[s].rev \in Nat
       /\ docs[s].born <= docs[s].rev /\ docs[s].rev <= rev

ReqTyped ==
  /\ DOMAIN req = Client
  /\ \A c \in Client :
       /\ req[c].at \in {"idle", "load", "check", "write", "delete"}
       /\ Busy(c) =>
            /\ DOMAIN req[c] = Fields /\ req[c].scope \in Scope
            /\ req[c].version \in Nat /\ req[c].version <= Asked
            /\ req[c].born \in Nat /\ req[c].born <= rev

RestTyped ==
  /\ DOMAIN read = Pod /\ \A p \in Pod : DOMAIN read[p] \subseteq Equipment
  /\ left \in [request : 0..MaxRequest, fail : 0..MaxFail]

Typed == DocsTyped /\ ReqTyped /\ RestTyped

(* A request that expects a version of a document still being the one it   *)
(* saw born expects no later version than the stored one, and if it is the *)
(* same version the request is based on what is stored.                    *)
BaseIsStored ==
  \A c \in Client :
    (Busy(c) /\ docs[req[c].scope] # Absent
       /\ docs[req[c].scope].born = req[c].born /\ req[c].edit.op # "create")
      => /\ req[c].version <= docs[req[c].scope].version
         /\ req[c].version = docs[req[c].scope].version
              => docs[req[c].scope].rev = req[c].base
-----------------------------------------------------------------------------
LEMMA InitTyped == Init => Typed /\ BaseIsStored
  <1> SUFFICES ASSUME Init PROVE Typed /\ BaseIsStored
    OBVIOUS
  <1>1. DocsTyped
    BY StoreAssumption DEF Init, DocsTyped, Doc, Asked
  <1>2. ReqTyped /\ BaseIsStored
    BY DEF Init, ReqTyped, BaseIsStored, NoRequest, Busy
  <1>3. RestTyped
    BY StoreAssumption DEF Init, RestTyped, NoFunction
  <1> QED BY <1>1, <1>2, <1>3 DEF Typed

(* Ask.                                                                    *)
LEMMA AskKeeps ==
  ASSUME Typed, BaseIsStored, NEW c \in Client, NEW p \in Serving,
         NEW s \in Scope, NEW e \in Edit, Ask(c, p, s, e)
  PROVE  Typed' /\ BaseIsStored'
  <1>1. Asked' = Asked + 1 /\ Asked \in Nat
    BY StoreAssumption DEF Ask, Asked, Typed, RestTyped
  <1>2. RestTyped'
    BY StoreAssumption DEF Ask, Typed, RestTyped
  <1>3. DocsTyped'
    BY <1>1 DEF Ask, Typed, DocsTyped
  <1>4. ReqTyped'
    BY <1>1 DEF Ask, Typed, DocsTyped, ReqTyped, Busy, Fields
  <1>5. BaseIsStored'
    BY DEF Ask, Typed, DocsTyped, ReqTyped, BaseIsStored, Busy
  <1> QED BY <1>2, <1>3, <1>4, <1>5 DEF Typed

(* A request moves on, ends or stays, and no document changes.             *)
LEMMA ReqMovesKeeps ==
  ASSUME Typed, BaseIsStored, NEW c \in Client, Busy(c), UNCHANGED <<docs, rev>>,
         Asked' = Asked,
         NEW q, req' = [req EXCEPT ![c] = q],
         \/ q = NoRequest
         \/ /\ DOMAIN q = Fields /\ q.at \in {"check", "write"}
            /\ q.scope = req[c].scope /\ q.version = req[c].version
            /\ q.born = req[c].born /\ q.edit = req[c].edit
            /\ \/ q.base = req[c].base
               \/ docs[q.scope] # Absent /\ q.base = docs[q.scope].rev
  PROVE  DocsTyped' /\ ReqTyped' /\ BaseIsStored'
  <1>1. DocsTyped'
    BY DEF Typed, DocsTyped
  <1>2. ReqTyped'
    BY DEF Typed, ReqTyped, Busy, NoRequest
  <1>3. BaseIsStored'
    BY DEF Typed, ReqTyped, DocsTyped, BaseIsStored, Busy, NoRequest
  <1> QED BY <1>1, <1>2, <1>3

LEMMA LoadKeeps ==
  ASSUME Typed, BaseIsStored, NEW c \in Client, LoadOverlay(c)
  PROVE  Typed' /\ BaseIsStored'
  <1> DEFINE d == docs[req[c].scope]
             q == IF d = Absent THEN NoRequest
                  ELSE IF ~Applicable(req[c].edit, d.body) THEN NoRequest
                  ELSE [req[c] EXCEPT !.at = "check",
                          !.body = Applied(req[c].edit, d.body), !.base = d.rev]
  <1>1. Busy(c) /\ UNCHANGED <<docs, rev, read, left>>
          /\ req' = [req EXCEPT ![c] = q] /\ Asked' = Asked
    BY DEF LoadOverlay, Busy, Asked
  <1>2. \/ q = NoRequest
        \/ /\ DOMAIN q = Fields /\ q.at = "check"
           /\ q.scope = req[c].scope /\ q.version = req[c].version
           /\ q.born = req[c].born /\ q.edit = req[c].edit
           /\ docs[q.scope] # Absent /\ q.base = docs[q.scope].rev
    BY <1>1 DEF Typed, ReqTyped, Fields
  <1>3. DocsTyped' /\ ReqTyped' /\ BaseIsStored'
    <2> HIDE DEF q
    <2> QED BY <1>1, <1>2, ReqMovesKeeps
  <1>4. RestTyped'
    BY <1>1 DEF Typed, RestTyped
  <1> QED BY <1>3, <1>4 DEF Typed

LEMMA ValidateKeeps ==
  ASSUME Typed, BaseIsStored, NEW c \in Client, ValidateComposed(c)
  PROVE  Typed' /\ BaseIsStored'
  <1> DEFINE next == [req[c] EXCEPT !.at = "write",
                                    !.against = Above(req[c].scope)]
  <1>1. Busy(c) /\ UNCHANGED <<docs, rev, read, left>> /\ Asked' = Asked
          /\ \/ req' = [req EXCEPT ![c] = NoRequest]
             \/ req' = [req EXCEPT ![c] = next]
    BY DEF ValidateComposed, Busy, Asked
  <1>2. /\ DOMAIN next = Fields /\ next.at = "write"
        /\ next.scope = req[c].scope /\ next.version = req[c].version
        /\ next.born = req[c].born /\ next.edit = req[c].edit
        /\ next.base = req[c].base
    BY <1>1 DEF Typed, ReqTyped, Fields
  <1>3. DocsTyped' /\ ReqTyped' /\ BaseIsStored'
    <2> HIDE DEF next
    <2>1. CASE req' = [req EXCEPT ![c] = NoRequest]
      BY <1>1, <2>1, ReqMovesKeeps
    <2>2. CASE req' = [req EXCEPT ![c] = next]
      BY <1>1, <1>2, <2>2, ReqMovesKeeps
    <2> QED BY <1>1, <2>1, <2>2
  <1>4. RestTyped'
    BY <1>1 DEF Typed, RestTyped
  <1> QED BY <1>3, <1>4 DEF Typed

-----------------------------------------------------------------------------
(* What a write of request c may leave at its scope.                       *)
Written(c, d) ==
  \/ d = Absent
  \/ d = Created(c)
  \/ Matches(c) /\ d = Replacement(c)

LEMMA WrittenFields ==
  ASSUME NEW c \in Client, NEW d, Written(c, d), d # Absent,
         Typed, Busy(c)
  PROVE  /\ d.rev = rev + 1
         /\ \/ d.version = 1 /\ d.born = rev + 1
            \/ /\ d.version = req[c].version + 1 /\ Matches(c)
               /\ d.born = docs[req[c].scope].born
  BY DEF Written, Created, Replacement, Doc

LEMMA WriteKeeps ==
  ASSUME Typed, BaseIsStored, NEW c \in Client, Busy(c), NEW d, Written(c, d),
         Writes(req[c].scope, d), req' = [req EXCEPT ![c] = NoRequest],
         Asked' = Asked
  PROVE  DocsTyped' /\ ReqTyped' /\ BaseIsStored'
  <1>1. req[c].scope \in Scope /\ rev' = rev + 1 /\ rev \in Nat
          /\ docs' = [docs EXCEPT ![req[c].scope] = d] /\ DOMAIN docs = Scope
    BY DEF Typed, ReqTyped, DocsTyped, Writes
  <1>2. Asked \in Nat
    BY StoreAssumption DEF Typed, RestTyped, Asked
  <1>3. d # Absent =>
          /\ d.rev = rev + 1
          /\ \/ d.version = 1 /\ d.born = rev + 1
             \/ /\ d.version = req[c].version + 1 /\ docs[req[c].scope] # Absent
                /\ docs[req[c].scope].version = req[c].version
                /\ d.born = docs[req[c].scope].born
    BY WrittenFields DEF Matches
  <1>4. DocsTyped'
    BY <1>1, <1>2, <1>3 DEF Typed, DocsTyped, ReqTyped
  <1>5. ReqTyped'
    BY <1>1 DEF Typed, ReqTyped, Busy, NoRequest
  <1>6. BaseIsStored'
    <2> SUFFICES ASSUME NEW k \in Client, Busy(k)', docs'[req'[k].scope] # Absent,
                        docs'[req'[k].scope].born = req'[k].born,
                        req'[k].edit.op # "create"
                 PROVE  /\ req'[k].version <= docs'[req'[k].scope].version
                        /\ req'[k].version = docs'[req'[k].scope].version
                             => docs'[req'[k].scope].rev = req'[k].base
      BY DEF BaseIsStored
    <2>1. k # c /\ req'[k] = req[k] /\ Busy(k)
      BY DEF Typed, ReqTyped, Busy, NoRequest
    <2>2. CASE req[k].scope # req[c].scope
      BY <1>1, <2>1, <2>2 DEF BaseIsStored, Typed, ReqTyped
    <2>3. CASE req[k].scope = req[c].scope
      <3>1. docs'[req[k].scope] = d /\ d # Absent
        BY <1>1, <2>1, <2>3
      <3>2. d.born = req[k].born /\ req[k].born <= rev /\ req[k].born \in Nat
              /\ req[k].version \in Nat /\ req[c].version \in Nat
        BY <2>1, <3>1 DEF Typed, ReqTyped
      <3>3. docs[req[c].scope] # Absent /\ d.version = req[c].version + 1
              /\ docs[req[c].scope].version = req[c].version
              /\ d.born = docs[req[c].scope].born
        BY <1>1, <1>3, <3>1, <3>2
      <3>4. req[k].version <= req[c].version
        BY <2>1, <2>3, <3>2, <3>3 DEF BaseIsStored
      <3> QED BY <2>1, <2>3, <3>1, <3>2, <3>3, <3>4
    <2> QED BY <2>2, <2>3
  <1> QED BY <1>4, <1>5, <1>6

-----------------------------------------------------------------------------
(* Soundness.  View is what request or document s was validated with, as   *)
(* long as the documents it names are still the ones of then.              *)
Unmoved(s, against) ==
  \A t \in Parents(s) : against[t] # Absent =>
    docs[t] # Absent /\ docs[t].rev = against[t]

View(s, against, body) ==
  [n \in 1..(Rank(s) + 1) |->
     IF Cascade(s)[n] = s THEN body
     ELSE IF Cascade(s)[n] \notin Scope \/ against[Cascade(s)[n]] = Absent THEN Absent
     ELSE docs[Cascade(s)[n]].body]

Passed(s, against, body) ==
  /\ \A t \in Parents(s) : against[t] = Absent
                             \/ (against[t] \in Nat /\ against[t] <= rev)
  /\ Unmoved(s, against) => Sound(FoldProfiles(View(s, against, body)))

Validated ==
  \A against, body :
    /\ \A s \in Scope :
         (docs[s] # Absent /\ docs[s].against = against /\ docs[s].body = body)
           => Passed(s, against, body)
    /\ \A c \in Client :
         (req[c].at = "write" /\ req[c].against = against /\ req[c].body = body)
           => Passed(req[c].scope, against, body)

(* The cascade of a scope is the scope and its parents.                    *)
LEMMA CascadeParents ==
  ASSUME NEW s \in Scope, NEW n \in 1..(Rank(s) + 1), Cascade(s)[n] # s,
         Cascade(s)[n] \in Scope
  PROVE  Cascade(s)[n] \in Parents(s)
  <1>1. Rank(s) \in Nat
    BY DEF Rank
  <1>2. n \in 1..Rank(s)
    BY <1>1, ScopeAssumption
  <1> QED BY <1>2 DEF Parents

(* Folding with what is stored is folding with the view of right now.      *)
LEMMA ViewIsFound ==
  ASSUME Typed, NEW s \in Scope, NEW body,
         NEW b, b = [Body EXCEPT ![s] = body]
  PROVE  Collected(b, s) = View(s, Above(s), body)
  <1>1. DOMAIN b = Scope /\ b[s] = body
          /\ \A t \in Scope \ {s} : b[t] = IF docs[t] = Absent THEN Absent
                                           ELSE docs[t].body
    BY DEF Body
  <1>2. ASSUME NEW t \in Parents(s)
        PROVE  t \in Scope /\ t # s /\ (Above(s)[t] = Absent <=> docs[t] = Absent)
    BY StoreAssumption DEF Parents, Above, Typed, DocsTyped
  <1>3. \A n \in 1..(Rank(s) + 1) :
          (Cascade(s)[n] # s /\ Cascade(s)[n] \in Scope)
            => Cascade(s)[n] \in Parents(s)
    BY CascadeParents
  <1> QED BY <1>1, <1>2, <1>3 DEF Collected, View

(* Writes outdate what named the document they change and nothing else.    *)
LEMMA PassedSurvives ==
  ASSUME Typed, NEW w \in Scope, NEW d, rev' = rev + 1,
         docs' = [docs EXCEPT ![w] = d], d # Absent => d.rev = rev + 1,
         NEW s \in Scope, NEW against, NEW body, Passed(s, against, body)
  PROVE  Passed(s, against, body)'
  <1>1. rev \in Nat /\ DOMAIN docs = Scope
    BY DEF Typed, DocsTyped
  <1>2. ASSUME NEW t \in Parents(s)
        PROVE  t \in Scope
                 /\ (against[t] = Absent \/ (against[t] \in Nat /\ against[t] <= rev))
    BY DEF Parents, Passed
  <1>3. ASSUME Unmoved(s, against)'
        PROVE  /\ Unmoved(s, against)
               /\ \A t \in Parents(s) : against[t] # Absent => t # w
    BY <1>1, <1>2, <1>3 DEF Unmoved
  <1>4. ASSUME Unmoved(s, against)'
        PROVE  View(s, against, body)' = View(s, against, body)
    <2>1. \A n \in 1..(Rank(s) + 1) :
            (Cascade(s)[n] # s /\ Cascade(s)[n] \in Scope)
              => Cascade(s)[n] \in Parents(s)
      BY CascadeParents
    <2>2. \A t \in Parents(s) : against[t] # Absent => docs'[t] = docs[t]
      BY <1>1, <1>2, <1>3, <1>4
    <2> QED BY <2>1, <2>2 DEF View
  <1>5. \A t \in Parents(s) : against[t] = Absent
                               \/ (against[t] \in Nat /\ against[t] <= rev')
    BY <1>1, <1>2
  <1> QED BY <1>3, <1>4, <1>5 DEF Passed

LEMMA PassedStays ==
  ASSUME UNCHANGED <<docs, rev>>, NEW s, NEW against, NEW body,
         Passed(s, against, body)
  PROVE  Passed(s, against, body)'
  BY DEF Passed, Unmoved, View

LEMMA InitValidated == Init => Validated
  <1> SUFFICES ASSUME Init, NEW against, NEW body, NEW s \in Scope,
                      docs[s] # Absent, docs[s].against = against,
                      docs[s].body = body
               PROVE  Passed(s, against, body)
    BY DEF Init, NoRequest, Validated
  <1>1. PICK b \in Stored :
          docs = [t \in Scope |-> IF t \notin DOMAIN b THEN Absent
                    ELSE Doc(b[t], 1, 0, 0,
                             [u \in Parents(t) |->
                                IF u \in DOMAIN b THEN 0 ELSE Absent])]
    BY DEF Init
  <1>2. s \in DOMAIN b /\ body = b[s]
          /\ against = [u \in Parents(s) |-> IF u \in DOMAIN b THEN 0 ELSE Absent]
    BY <1>1 DEF Doc
  <1>3. rev = 0 /\ 0 # Absent /\ 0 <= rev
    BY StoreAssumption DEF Init
  <1>4. DOMAIN b \subseteq Scope /\ Sound(FoldProfiles(Collected(b, s)))
    BY <1>2, StoredAssumption
  <1>5. \A n \in 1..(Rank(s) + 1) :
          (Cascade(s)[n] # s /\ Cascade(s)[n] \in Scope)
            => Cascade(s)[n] \in Parents(s)
    BY CascadeParents
  <1>6. \A t \in Parents(s) : t \in Scope /\ t # s
    BY DEF Parents
  <1>7. \A t \in DOMAIN b : docs[t].body = b[t]
    BY <1>1, <1>4 DEF Doc
  <1>8. View(s, against, body) = Collected(b, s)
    BY <1>2, <1>3, <1>4, <1>5, <1>6, <1>7 DEF View, Collected
  <1> QED BY <1>2, <1>3, <1>4, <1>8 DEF Passed

(* A step that changes no document, and requests only as it may.           *)
LEMMA ValidatedStays ==
  ASSUME Typed, Validated, UNCHANGED <<docs, rev>>,
         \A c \in Client : req'[c].at = "write" => req'[c] = req[c]
  PROVE  Validated'
  BY PassedStays DEF Validated

LEMMA ValidateValidated ==
  ASSUME Typed, Validated, NEW c \in Client, ValidateComposed(c)
  PROVE  Validated'
  <1> DEFINE q == req[c]
  <1>1. UNCHANGED <<docs, rev>> /\ q.at = "check" /\ q.scope \in Scope
    BY DEF ValidateComposed, Typed, ReqTyped, Busy
  <1>2. CASE req' = [req EXCEPT ![c] = NoRequest]
    <2>1. \A k \in Client : req'[k].at = "write" => req'[k] = req[k]
      BY <1>2 DEF NoRequest, Typed, ReqTyped
    <2> QED BY <1>1, <2>1, ValidatedStays
  <1>3. CASE /\ Sound(FoldProfiles(Collected([Body EXCEPT ![q.scope] = q.body],
                                             q.scope)))
             /\ req' = [req EXCEPT ![c] = [q EXCEPT !.at = "write",
                                             !.against = Above(q.scope)]]
    <2>1. req'[c].scope = q.scope /\ req'[c].body = q.body
            /\ req'[c].against = Above(q.scope)
            /\ \A k \in Client \ {c} : req'[k] = req[k]
      BY <1>1, <1>3 DEF Typed, ReqTyped, Busy, Fields
    <2>2. PICK s, body, against : s \in Scope /\
            s = q.scope /\ body = q.body /\ against = Above(s)
      BY <1>1
    <2>3. Sound(FoldProfiles(View(s, against, body)))
      BY <1>3, <2>2, ViewIsFound
    <2>4. \A t \in Parents(s) : against[t] = Absent
                                 \/ (against[t] \in Nat /\ against[t] <= rev)
      BY <2>2 DEF Above, Parents, Typed, DocsTyped
    <2>5. Passed(s, against, body)
      BY <2>3, <2>4 DEF Passed
    <2>6. Passed(s, against, body)'
      BY <1>1, <2>5, PassedStays
    <2> QED BY <1>1, <2>1, <2>2, <2>6, PassedStays DEF Validated
  <1> QED BY <1>2, <1>3 DEF ValidateComposed

LEMMA WriteValidated ==
  ASSUME Typed, Validated, NEW c \in Client, Busy(c), NEW d, Written(c, d),
         d # Absent => req[c].at = "write",
         Writes(req[c].scope, d), req' = [req EXCEPT ![c] = NoRequest]
  PROVE  Validated'
  <1>1. PICK w \in Scope : w = req[c].scope
    BY DEF Typed, ReqTyped
  <1>2. rev' = rev + 1 /\ docs' = [docs EXCEPT ![w] = d] /\ DOMAIN docs = Scope
    BY <1>1 DEF Writes, Typed, DocsTyped
  <1>3. d # Absent => d.rev = rev + 1 /\ d.against = req[c].against
                       /\ d.body = req[c].body
    BY DEF Written, Created, Replacement, Doc
  <1>4. ASSUME NEW against, NEW body, NEW s \in Scope, docs'[s] # Absent,
               docs'[s].against = against, docs'[s].body = body
        PROVE  Passed(s, against, body)'
    <2>1. Passed(s, against, body)
      BY <1>1, <1>2, <1>3, <1>4 DEF Validated
    <2> QED BY <1>2, <1>3, <2>1, PassedSurvives
  <1>5. ASSUME NEW against, NEW body, NEW k \in Client, req'[k].at = "write",
               req'[k].against = against, req'[k].body = body
        PROVE  Passed(req[k].scope, against, body)'
    <2>1. req'[k] = req[k]
      BY <1>5 DEF Typed, ReqTyped, NoRequest
    <2>2. PICK s \in Scope : s = req[k].scope
      BY <1>5, <2>1 DEF Typed, ReqTyped, Busy
    <2>3. Passed(s, against, body)
      BY <1>5, <2>1, <2>2 DEF Validated
    <2>4. Passed(s, against, body)'
      BY <1>2, <1>3, <2>3, PassedSurvives
    <2> QED BY <2>1, <2>2, <2>4
  <1> QED BY <1>4, <1>5 DEF Validated

-----------------------------------------------------------------------------
IndInv == Typed /\ BaseIsStored /\ Validated

(* The four writes of a request: what they store, if they store at all.    *)
LEMMA StoreSteps ==
  ASSUME Typed, NEW c \in Client,
         Create(c) \/ ReplaceWithVersion(c) \/ DeleteByScope(c) \/ AnswerLost(c)
  PROVE  /\ Busy(c) /\ req' = [req EXCEPT ![c] = NoRequest] /\ UNCHANGED read
         /\ Asked' = Asked /\ left' \in [request : 0..MaxRequest, fail : 0..MaxFail]
         /\ \/ UNCHANGED <<docs, rev>>
            \/ \E d : /\ Writes(req[c].scope, d) /\ Written(c, d)
                      /\ d # Absent => req[c].at = "write"
  <1>1. CASE Create(c)
    BY <1>1 DEF Create, Creates, Finish, Busy, Asked, Written, Typed, RestTyped
  <1>2. CASE ReplaceWithVersion(c)
    BY <1>2 DEF ReplaceWithVersion, Replaces, Finish, Busy, Asked, Written,
                Typed, RestTyped
  <1>3. CASE DeleteByScope(c)
    BY <1>3 DEF DeleteByScope, Finish, Busy, Asked, Written, Typed, RestTyped
  <1>4. CASE AnswerLost(c)
    <2>1. left.fail \in 0..MaxFail /\ left.fail > 0 /\ left.request \in 0..MaxRequest
            /\ left' = [left EXCEPT !.fail = @ - 1]
            /\ left \in [request : 0..MaxRequest, fail : 0..MaxFail]
      BY <1>4 DEF AnswerLost, Typed, RestTyped
    <2>2. left' \in [request : 0..MaxRequest, fail : 0..MaxFail] /\ Asked' = Asked
      BY <2>1, StoreAssumption DEF Asked
    <2> QED BY <1>4, <2>2 DEF AnswerLost, Creates, Replaces, Busy, Written
  <1> QED BY <1>1, <1>2, <1>3, <1>4

LEMMA StoreKeeps ==
  ASSUME IndInv, NEW c \in Client,
         Create(c) \/ ReplaceWithVersion(c) \/ DeleteByScope(c) \/ AnswerLost(c)
  PROVE  IndInv'
  <1>1. /\ Busy(c) /\ req' = [req EXCEPT ![c] = NoRequest] /\ UNCHANGED read
        /\ Asked' = Asked /\ left' \in [request : 0..MaxRequest, fail : 0..MaxFail]
        /\ \/ UNCHANGED <<docs, rev>>
           \/ \E d : /\ Writes(req[c].scope, d) /\ Written(c, d)
                     /\ d # Absent => req[c].at = "write"
    BY StoreSteps DEF IndInv
  <1>2. RestTyped'
    BY <1>1 DEF IndInv, Typed, RestTyped
  <1>3. CASE UNCHANGED <<docs, rev>>
    <2>1. DocsTyped' /\ ReqTyped' /\ BaseIsStored'
      BY <1>1, <1>3, ReqMovesKeeps DEF IndInv
    <2>2. \A k \in Client : req'[k].at = "write" => req'[k] = req[k]
      BY <1>1 DEF NoRequest, IndInv, Typed, ReqTyped
    <2>3. Validated'
      BY <1>3, <2>2, ValidatedStays DEF IndInv
    <2> QED BY <1>2, <2>1, <2>3 DEF IndInv, Typed
  <1>4. CASE \E d : /\ Writes(req[c].scope, d) /\ Written(c, d)
                    /\ d # Absent => req[c].at = "write"
    <2>1. PICK d : /\ Writes(req[c].scope, d) /\ Written(c, d)
                   /\ d # Absent => req[c].at = "write"
      BY <1>4
    <2>2. DocsTyped' /\ ReqTyped' /\ BaseIsStored'
      BY <1>1, <2>1, WriteKeeps DEF IndInv
    <2>3. Validated'
      BY <1>1, <2>1, WriteValidated DEF IndInv
    <2> QED BY <1>2, <2>2, <2>3 DEF IndInv, Typed
  <1> QED BY <1>1, <1>3, <1>4

LEMMA FailKeeps ==
  ASSUME IndInv, NEW c \in Client, RequestFails(c)
  PROVE  IndInv'
  <1>1. Busy(c) /\ req' = [req EXCEPT ![c] = NoRequest]
          /\ UNCHANGED <<docs, rev, read>>
    BY DEF RequestFails, Busy
  <1>2. left.fail \in 0..MaxFail /\ left.fail > 0 /\ left.request \in 0..MaxRequest
          /\ left' = [left EXCEPT !.fail = @ - 1]
          /\ left \in [request : 0..MaxRequest, fail : 0..MaxFail]
    BY DEF RequestFails, IndInv, Typed, RestTyped
  <1>3. left' \in [request : 0..MaxRequest, fail : 0..MaxFail] /\ Asked' = Asked
    BY <1>2, StoreAssumption DEF Asked
  <1>4. DocsTyped' /\ ReqTyped' /\ BaseIsStored'
    BY <1>1, <1>3, ReqMovesKeeps DEF IndInv
  <1>5. RestTyped'
    BY <1>1, <1>3 DEF IndInv, Typed, RestTyped
  <1>6. \A k \in Client : req'[k].at = "write" => req'[k] = req[k]
    BY <1>1 DEF NoRequest, IndInv, Typed, ReqTyped
  <1>7. Validated'
    BY <1>1, <1>6, ValidatedStays DEF IndInv
  <1> QED BY <1>4, <1>5, <1>7 DEF IndInv, Typed

(* Reads and caches.                                                       *)
LEMMA AnalysisKeeps ==
  ASSUME IndInv, NEW p \in Pod, NEW e \in Equipment,
         ResolveReads(p, e) \/ ResolveFills(p, e) \/ CacheExpires(p, e)
  PROVE  IndInv'
  <1>1. UNCHANGED <<docs, req, rev, left>>
    BY DEF ResolveReads, ResolveFills, CacheExpires
  <1>2. DocsTyped' /\ ReqTyped' /\ BaseIsStored'
    BY <1>1 DEF IndInv, Typed, DocsTyped, ReqTyped, BaseIsStored, Busy, Asked
  <1>3. Validated'
    BY <1>1, ValidatedStays DEF IndInv
  <1>4. RestTyped'
    BY <1>1 DEF ResolveReads, ResolveFills, CacheExpires, IndInv, Typed, RestTyped,
                NoFunction
  <1> QED BY <1>2, <1>3, <1>4 DEF IndInv, Typed

LEMMA IndInvStep == IndInv /\ [Next]_vars => IndInv'
  <1> SUFFICES ASSUME IndInv, [Next]_vars PROVE IndInv'
    OBVIOUS
  <1>1. ASSUME NEW c \in Client, NEW p \in Serving, NEW s \in Scope,
               NEW e \in Edit, Ask(c, p, s, e)
        PROVE  IndInv'
    <2>1. Typed' /\ BaseIsStored'
      BY <1>1, AskKeeps DEF IndInv
    <2>2. \A k \in Client : req'[k].at = "write" => req'[k] = req[k]
      BY <1>1 DEF Ask, IndInv, Typed, ReqTyped
    <2>3. Validated'
      BY <1>1, <2>2, ValidatedStays DEF IndInv, Ask
    <2> QED BY <2>1, <2>3 DEF IndInv
  <1>2. ASSUME NEW c \in Client, LoadOverlay(c)
        PROVE  IndInv'
    <2>1. Typed' /\ BaseIsStored'
      BY <1>2, LoadKeeps DEF IndInv
    <2>2. \A k \in Client : req'[k].at = "write" => req'[k] = req[k]
      BY <1>2 DEF LoadOverlay, NoRequest, IndInv, Typed, ReqTyped, Busy, Fields
    <2>3. Validated'
      BY <1>2, <2>2, ValidatedStays DEF IndInv, LoadOverlay
    <2> QED BY <2>1, <2>3 DEF IndInv
  <1>3. ASSUME NEW c \in Client, ValidateComposed(c)
        PROVE  IndInv'
    BY <1>3, ValidateKeeps, ValidateValidated DEF IndInv
  <1>4. CASE UNCHANGED vars
    <2>1. DocsTyped' /\ ReqTyped' /\ RestTyped' /\ BaseIsStored'
      BY <1>4 DEF vars, IndInv, Typed, DocsTyped, ReqTyped, RestTyped,
                  BaseIsStored, Busy, Asked
    <2>2. Validated'
      BY <1>4, ValidatedStays DEF IndInv, vars
    <2> QED BY <2>1, <2>2 DEF IndInv, Typed
  <1> QED
    BY <1>1, <1>2, <1>3, <1>4, StoreKeeps, FailKeeps, AnalysisKeeps
    DEF Next, RequestStep

(* repository.py:112, profiles.py:107: the invariant the theorems below    *)
(* rest on.                                                                *)
THEOREM StoreInvariance == Spec => []IndInv
  <1>1. Init => IndInv
    BY InitTyped, InitValidated DEF IndInv
  <1> QED BY <1>1, IndInvStep, PTL DEF Spec

(* Versions grow by one per accepted request and start at 1.               *)
THEOREM StoreTypeCorrect == Spec => []TypeOK
  <1>1. IndInv => TypeOK
    <2> SUFFICES ASSUME IndInv PROVE TypeOK
      OBVIOUS
    <2>1. Asked \in 0..MaxRequest
      BY StoreAssumption DEF IndInv, Typed, RestTyped, Asked
    <2>2. ASSUME NEW s \in Scope, docs[s] # Absent
          PROVE  /\ docs[s].version \in 1..(MaxRequest + 1)
                 /\ docs[s].born <= docs[s].rev /\ docs[s].rev <= rev
      BY <2>1, <2>2, StoreAssumption DEF IndInv, Typed, DocsTyped
    <2> QED BY <2>2 DEF IndInv, Typed, DocsTyped, ReqTyped, RestTyped, TypeOK
  <1> QED BY <1>1, StoreInvariance, PTL

(* profiles.py:7: a stored overlay composes soundly with the documents     *)
(* above it until one of those changes.                                    *)
THEOREM OverlaysStaySound == Spec => []SoundUntilParentMoves
  <1>1. IndInv => SoundUntilParentMoves
    <2> SUFFICES ASSUME IndInv, NEW s \in Scope, docs[s] # Absent,
                        docs[s].against = Above(s)
                 PROVE  Sound(FoldProfiles(Collected(Body, s)))
      BY DEF SoundUntilParentMoves
    <2>1. PICK against, body : against = docs[s].against /\ body = docs[s].body
      OBVIOUS
    <2>2. Unmoved(s, against)
      BY <2>1 DEF Unmoved, Above
    <2>3. Sound(FoldProfiles(View(s, Above(s), body)))
      BY <2>1, <2>2 DEF IndInv, Validated, Passed
    <2>4. Body = [Body EXCEPT ![s] = body]
      BY <2>1 DEF Body
    <2> QED BY <2>3, <2>4, ViewIsFound DEF IndInv
  <1> QED BY <1>1, StoreInvariance, PTL

(* profiles.py:6: of the edits of several operators none is lost.          *)
THEOREM NoUpdateIsLost == Spec => NoLostUpdate
  <1> DEFINE Kept ==
        \A c \in Client :
          (req[c].at \in {"write", "delete"} /\ req'[c].at = "idle" /\ rev' # rev
             /\ req[c].edit.op # "create" /\ docs[req[c].scope].born = req[c].born)
            => docs[req[c].scope].rev = req[c].base
  <1>1. IndInv /\ [Next]_vars => [Kept]_vars
    <2> SUFFICES ASSUME IndInv, Next, NEW c \in Client,
                        req[c].at \in {"write", "delete"}, req'[c].at = "idle",
                        rev' # rev, req[c].edit.op # "create",
                        docs[req[c].scope].born = req[c].born
                 PROVE  docs[req[c].scope].rev = req[c].base
      BY DEF vars
    <2>1. PICK k \in Client : \/ Create(k) \/ ReplaceWithVersion(k)
                              \/ DeleteByScope(k) \/ AnswerLost(k)
      BY DEF Next, RequestStep, Ask, LoadOverlay, ValidateComposed, RequestFails,
             ResolveReads, ResolveFills, CacheExpires
    <2>2. req' = [req EXCEPT ![k] = NoRequest]
      BY <2>1, StoreSteps DEF IndInv
    <2>3. k = c
      BY <2>2 DEF IndInv, Typed, ReqTyped
    <2>4. Matches(c)
      BY <2>1, <2>3 DEF Create, Creates, ReplaceWithVersion, DeleteByScope,
                        AnswerLost, Finish
    <2> QED BY <2>4 DEF IndInv, Typed, ReqTyped, Busy, BaseIsStored, Matches
  <1> QED BY <1>1, StoreInvariance, PTL DEF Spec, NoLostUpdate

-----------------------------------------------------------------------------
(* Induction: a set of numbers with 0 and all successors has them all.     *)

LEMMA LeastNat ==
  ASSUME NEW T, T \subseteq Nat, T # {}
  PROVE  \E x \in T : \A y \in T : x <= y
  <1> DEFINE R == {ss \in Nat \X Nat : ss[1] < ss[2]}
  <1>1. IsWellFoundedOn(R, Nat)
    BY NatLessThanWellFounded DEF OpToRel
  <1>2. \E x \in T : \A y \in T : ~ (<<y, x>> \in R)
    <2> HIDE DEF R
    <2> QED BY <1>1, WFMin
  <1>3. PICK x \in T : \A y \in T : ~ (<<y, x>> \in R)
    BY <1>2
  <1>4. ASSUME NEW y \in T PROVE x <= y
    <2>1. ~ (<<y, x>> \in R) /\ x \in Nat /\ y \in Nat
      BY <1>3
    <2>2. <<y, x>> \in Nat \X Nat /\ <<y, x>>[1] = y /\ <<y, x>>[2] = x
      BY <2>1
    <2>3. ~(y < x)
      BY <2>1, <2>2
    <2> QED BY <2>1, <2>3
  <1> QED BY <1>4

LEMMA SetInduction ==
  ASSUME NEW S, 0 \in S, \A n \in Nat : n \in S => n + 1 \in S
  PROVE  Nat \subseteq S
  <1>1. SUFFICES ASSUME Nat \ S # {} PROVE FALSE
    OBVIOUS
  <1>2. PICK x \in Nat \ S : \A y \in Nat \ S : x <= y
    BY <1>1, LeastNat
  <1>3. x # 0 /\ x - 1 \in Nat
    BY <1>2
  <1>4. x - 1 \in S
    BY <1>2, <1>3
  <1> QED BY <1>2, <1>3, <1>4

-----------------------------------------------------------------------------
(* What the fold of the documents of a cascade makes of a rule.            *)

IsFold(f, bodies, n) ==
  f = [i \in 0..n |-> IF i = 0 THEN Nothing
                      ELSE IF bodies[i] = Absent THEN f[i - 1]
                      ELSE FoldStep(f[i - 1], bodies[i])]

LEMMA FoldExists ==
  ASSUME NEW bodies, NEW n \in Nat
  PROVE  \E f : IsFold(f, bodies, n)
  <1> DEFINE S == {m \in Nat : \E f : IsFold(f, bodies, m)}
  <1>1. 0 \in S
    <2>1. IsFold([i \in 0..0 |-> Nothing], bodies, 0)
      BY DEF IsFold
    <2> QED BY <2>1
  <1>2. ASSUME NEW m \in Nat, m \in S PROVE m + 1 \in S
    <2>1. PICK f : IsFold(f, bodies, m)
      BY <1>2
    <2> DEFINE d == bodies[m + 1]
               new == IF d = Absent THEN f[m] ELSE FoldStep(f[m], d)
               g == [i \in 0..(m + 1) |-> IF i = m + 1 THEN new ELSE f[i]]
    <2>2. g[m + 1] = new /\ \A i \in 0..m : g[i] = f[i]
      OBVIOUS
    <2>3. \A i \in 0..m : f[i] = IF i = 0 THEN Nothing
                                 ELSE IF bodies[i] = Absent THEN f[i - 1]
                                 ELSE FoldStep(f[i - 1], bodies[i])
      BY <2>1 DEF IsFold
    <2>4. ASSUME NEW i \in 0..(m + 1)
          PROVE  g[i] = IF i = 0 THEN Nothing
                        ELSE IF bodies[i] = Absent THEN g[i - 1]
                        ELSE FoldStep(g[i - 1], bodies[i])
      <3>1. CASE i = m + 1
        <4>1. i - 1 = m /\ i # 0 /\ g[i - 1] = f[m] /\ bodies[i] = d
          BY <2>2, <3>1
        <4> QED BY <2>2, <3>1, <4>1
      <3>2. CASE i \in 1..m
        <4>1. g[i] = f[i] /\ g[i - 1] = f[i - 1] /\ i # 0
          BY <2>2, <3>2
        <4> QED BY <2>3, <3>2, <4>1
      <3>3. CASE i = 0
        BY <2>2, <2>3, <3>3
      <3> QED BY <3>1, <3>2, <3>3
    <2>5. DOMAIN g = 0..(m + 1) /\ g = [i \in DOMAIN g |-> g[i]]
      OBVIOUS
    <2> HIDE DEF g
    <2>6. IsFold(g, bodies, m + 1)
      BY <2>4, <2>5 DEF IsFold
    <2> QED BY <2>6
  <1> HIDE DEF S
  <1>3. Nat \subseteq S
    BY <1>1, <1>2, SetInduction
  <1> QED BY <1>3 DEF S

LEMMA FoldProfilesIsFold ==
  ASSUME NEW bodies, Len(bodies) \in Nat
  PROVE  \E f : IsFold(f, bodies, Len(bodies))
                  /\ FoldProfiles(bodies) = f[Len(bodies)]
  <1> DEFINE F == CHOOSE f : IsFold(f, bodies, Len(bodies))
  <1>1. IsFold(F, bodies, Len(bodies))
    BY FoldExists
  <1>2. FoldProfiles(bodies) = F[Len(bodies)]
    BY DEF FoldProfiles, IsFold
  <1> QED BY <1>1, <1>2

(* bodies[i] is the narrowest of the first n documents that declares r.    *)
Declares(d, r) == d # Absent /\ r \in DOMAIN d.rules
Narrowest(bodies, n, r, i) ==
  Declares(bodies[i], r) /\ \A j \in (i + 1)..n : ~Declares(bodies[j], r)

(* It decides what the fold knows of the rule.                             *)
Decides(rules, r, d) ==
  /\ rules[r].interval = d.rules[r].interval /\ rules[r].enabled \in BOOLEAN
  /\ rules[r].enabled <=> d.enabled /\ d.rules[r].enabled
Decided(rules, bodies, n) ==
  \A r \in DOMAIN rules :
    \E i \in 1..n : Narrowest(bodies, n, r, i) /\ Decides(rules, r, bodies[i])

LEMMA FoldDecides ==
  ASSUME NEW N \in Nat, NEW bodies, NEW f, IsFold(f, bodies, N),
         \A i \in 1..N : bodies[i] # Absent => IsBody(bodies[i])
  PROVE  Decided(f[N].rules, bodies, N)
  <1> DEFINE S == {n \in Nat : n <= N => Decided(f[n].rules, bodies, n)}
  <1>0. \A i \in 0..N : f[i] = IF i = 0 THEN Nothing
                               ELSE IF bodies[i] = Absent THEN f[i - 1]
                               ELSE FoldStep(f[i - 1], bodies[i])
    BY DEF IsFold
  <1>1. 0 \in S
    <2>1. f[0] = Nothing
      BY <1>0
    <2>2. DOMAIN Nothing.rules = {}
      BY DEF Nothing, NoFunction
    <2> QED BY <2>1, <2>2 DEF Decided
  <1>2. ASSUME NEW n \in Nat, n \in S PROVE n + 1 \in S
    <2> SUFFICES ASSUME n + 1 <= N PROVE Decided(f[n + 1].rules, bodies, n + 1)
      OBVIOUS
    <2> DEFINE d == bodies[n + 1]
               old == f[n].rules
    <2>1. Decided(old, bodies, n)
      BY <1>2
    <2>2. f[n + 1] = IF d = Absent THEN f[n] ELSE FoldStep(f[n], d)
      <3>1. n + 1 \in 0..N /\ n + 1 # 0 /\ (n + 1) - 1 = n
        OBVIOUS
      <3> QED BY <1>0, <3>1
    <2>3. ASSUME NEW r \in DOMAIN old, ~Declares(d, r),
                 NEW rules, rules[r] = old[r]
          PROVE  \E i \in 1..(n + 1) : /\ Narrowest(bodies, n + 1, r, i)
                                       /\ Decides(rules, r, bodies[i])
      <3>1. PICK i \in 1..n : Narrowest(bodies, n, r, i) /\ Decides(old, r, bodies[i])
        BY <2>1, <2>3 DEF Decided
      <3>2. \A j \in (i + 1)..(n + 1) : j \in (i + 1)..n \/ j = n + 1
        OBVIOUS
      <3>3. Narrowest(bodies, n + 1, r, i)
        BY <2>3, <3>1, <3>2 DEF Narrowest
      <3>4. Decides(rules, r, bodies[i])
        BY <2>3, <3>1 DEF Decides
      <3> QED BY <3>3, <3>4
    <2>4. CASE d = Absent
      <3>1. f[n + 1].rules = old /\ \A r : ~Declares(d, r)
        BY <2>2, <2>4 DEF Declares
      <3> QED BY <2>3, <3>1 DEF Decided
    <2>5. CASE d # Absent
      <3> DEFINE own == [r \in DOMAIN d.rules |->
                           [d.rules[r] EXCEPT !.enabled = d.enabled /\ @]]
                 rules == f[n + 1].rules
      <3>1. rules = Updated(old, own)
        BY <2>2, <2>5 DEF FoldStep
      <3>2. /\ DOMAIN rules = DOMAIN own \cup DOMAIN old /\ DOMAIN own = DOMAIN d.rules
            /\ \A r \in DOMAIN own : rules[r] = own[r]
            /\ \A r \in DOMAIN old \ DOMAIN own : rules[r] = old[r]
        BY <3>1 DEF Updated
      <3>3. IsBody(d)
        BY <2>5
      <3>4. ASSUME NEW r \in DOMAIN d.rules
            PROVE  Decides(rules, r, d)
        <4>1. /\ rules[r] = [d.rules[r] EXCEPT !.enabled = d.enabled /\ @]
              /\ d.enabled \in BOOLEAN /\ d.rules[r].enabled \in BOOLEAN
              /\ "interval" \in DOMAIN d.rules[r] /\ "enabled" \in DOMAIN d.rules[r]
          BY <3>2, <3>3, <3>4 DEF IsBody, IsRule
        <4> HIDE DEF rules, d
        <4>2. /\ rules[r].interval = d.rules[r].interval
              /\ rules[r].enabled = (d.enabled /\ d.rules[r].enabled)
          BY <4>1
        <4> QED BY <4>1, <4>2 DEF Decides
      <3>5. ASSUME NEW r \in DOMAIN rules
            PROVE  \E i \in 1..(n + 1) : /\ Narrowest(bodies, n + 1, r, i)
                                         /\ Decides(rules, r, bodies[i])
        <4>1. CASE r \in DOMAIN d.rules
          <5>1. n + 1 \in 1..(n + 1) /\ ((n + 1) + 1)..(n + 1) = {}
            OBVIOUS
          <5>2. Narrowest(bodies, n + 1, r, n + 1)
            BY <2>5, <4>1, <5>1 DEF Narrowest, Declares
          <5> QED BY <3>4, <4>1, <5>1, <5>2
        <4>2. CASE r \notin DOMAIN d.rules
          <5>1. r \in DOMAIN old /\ rules[r] = old[r] /\ ~Declares(d, r)
            BY <3>2, <3>5, <4>2 DEF Declares
          <5> HIDE DEF rules, old, d
          <5> QED BY <2>3, <5>1
        <4> QED BY <4>1, <4>2
      <3> QED BY <3>5 DEF Decided
    <2> QED BY <2>4, <2>5
  <1> HIDE DEF S
  <1>3. Nat \subseteq S
    BY <1>1, <1>2, SetInduction
  <1> QED BY <1>3 DEF S

-----------------------------------------------------------------------------
(* Documents keep the shape their schema asks for.                         *)

ItemOps == {"add", "update", "remove", "put"}
ShapeInv ==
  /\ \A s \in Scope : docs[s] # Absent => IsBody(docs[s].body)
  /\ \A c \in Client :
       /\ req[c].at \in {"check", "write"} => IsBody(req[c].body)
       /\ req[c].at = "load" => req[c].edit \in Edit /\ req[c].edit.op \in ItemOps

LEMMA AppliedShape ==
  ASSUME NEW e \in Edit, e.op \in ItemOps, NEW b, IsBody(b)
  PROVE  IsBody(Applied(e, b))
  <1> DEFINE part == IF e.op = "remove"
                     THEN [i \in DOMAIN b[e.part] \ {e.id} |-> b[e.part][i]]
                     ELSE Updated(b[e.part], [i \in {e.id} |-> e.value])
             a == [b EXCEPT ![e.part] = part]
  <1>1. Applied(e, b) = a
    BY DEF Applied
  <1>2. e.part \in {"measures", "rules", "notify"}
          /\ (e.op # "remove" /\ e.part = "rules" => IsRule(e.value))
    BY EditAssumption DEF ItemOps
  <1>3. {"enabled", "rules"} \subseteq DOMAIN a /\ a.enabled = b.enabled
    BY <1>2 DEF IsBody
  <1>4. \A r \in DOMAIN a.rules : IsRule(a.rules[r])
    <2>1. CASE e.part # "rules"
      <3>1. a.rules = b.rules
        BY <2>1 DEF IsBody
      <3> QED BY <3>1 DEF IsBody
    <2>2. CASE e.part = "rules"
      <3>1. a.rules = part /\ \A r \in DOMAIN b.rules : IsRule(b.rules[r])
        BY <2>2 DEF IsBody
      <3>2. CASE e.op = "remove"
        <4>1. part = [i \in DOMAIN b.rules \ {e.id} |-> b.rules[i]]
          BY <2>2, <3>2
        <4> QED BY <3>1, <4>1
      <3>3. CASE e.op # "remove"
        <4>1. part = Updated(b.rules, [i \in {e.id} |-> e.value])
          BY <2>2, <3>3
        <4>2. \A r \in DOMAIN part : part[r] = e.value
                                     \/ (r \in DOMAIN b.rules /\ part[r] = b.rules[r])
          BY <4>1 DEF Updated
        <4> HIDE DEF part, a
        <4> QED BY <1>2, <2>2, <3>1, <3>3, <4>2
      <3> QED BY <3>2, <3>3
    <2> QED BY <2>1, <2>2
  <1> HIDE DEF a
  <1> QED BY <1>1, <1>3, <1>4 DEF IsBody

LEMMA ShapeInit == Init => ShapeInv
  <1> SUFFICES ASSUME Init PROVE ShapeInv
    OBVIOUS
  <1>1. PICK b \in Stored :
          docs = [s \in Scope |-> IF s \notin DOMAIN b THEN Absent
                    ELSE Doc(b[s], 1, 0, 0,
                             [t \in Parents(s) |->
                                IF t \in DOMAIN b THEN 0 ELSE Absent])]
    BY DEF Init
  <1>2. \A s \in Scope : docs[s] # Absent => IsBody(docs[s].body)
    BY <1>1, StoredAssumption DEF Doc
  <1> QED BY <1>2 DEF Init, NoRequest, ShapeInv

(* A request that moves on without a write.                                *)
LEMMA ShapeMoves ==
  ASSUME Typed, ShapeInv, NEW c \in Client, NEW q, UNCHANGED docs,
         req' = [req EXCEPT ![c] = q],
         q.at \in {"check", "write"} => IsBody(q.body),
         q.at = "load" => q.edit \in Edit /\ q.edit.op \in ItemOps
  PROVE  ShapeInv'
  <1>1. DOMAIN req = Client
    BY DEF Typed, ReqTyped
  <1> QED BY <1>1 DEF ShapeInv

LEMMA ShapeAsk ==
  ASSUME Typed, ShapeInv, NEW c \in Client, NEW p \in Serving, NEW s \in Scope,
         NEW e \in Edit, Ask(c, p, s, e)
  PROVE  ShapeInv'
  <1> DEFINE seen == docs[s]
             q == [at |-> CASE e.op \in {"create", "replace"} -> "check"
                            [] e.op = "delete" -> "delete"
                            [] OTHER -> "load",
                   pod |-> p, scope |-> s, edit |-> e, against |-> NoFunction,
                   body |-> IF e.op \in {"create", "replace"} THEN e.body ELSE Absent,
                   version |-> IF seen = Absent THEN 0 ELSE seen.version,
                   base |-> IF seen = Absent THEN 0 ELSE seen.rev,
                   born |-> IF seen = Absent THEN 0 ELSE seen.born]
  <1>1. req' = [req EXCEPT ![c] = q] /\ UNCHANGED docs
    BY DEF Ask
  <1>2. CASE e.op \in {"create", "replace"}
    <2>1. q.at = "check" /\ q.body = e.body
      BY <1>2
    <2>2. IsBody(e.body)
      BY <1>2, EditAssumption
    <2> HIDE DEF q
    <2> QED BY <1>1, <2>1, <2>2, ShapeMoves
  <1>3. CASE e.op = "delete"
    <2>1. q.at = "delete"
      BY <1>3
    <2> HIDE DEF q
    <2> QED BY <1>1, <2>1, ShapeMoves
  <1>4. CASE e.op \in ItemOps
    <2>1. q.at = "load" /\ q.edit = e
      BY <1>4 DEF ItemOps
    <2> HIDE DEF q
    <2> QED BY <1>1, <1>4, <2>1, ShapeMoves
  <1> QED BY <1>2, <1>3, <1>4, EditAssumption DEF ItemOps

LEMMA ShapeEnds ==
  ASSUME Typed, ShapeInv, NEW c \in Client, UNCHANGED docs,
         req' = [req EXCEPT ![c] = NoRequest]
  PROVE  ShapeInv'
  <1>1. NoRequest.at = "idle"
    BY DEF NoRequest
  <1> QED BY <1>1, ShapeMoves

LEMMA ShapeLoad ==
  ASSUME Typed, ShapeInv, NEW c \in Client, LoadOverlay(c)
  PROVE  ShapeInv'
  <1> DEFINE d == docs[req[c].scope]
             q == [req[c] EXCEPT !.at = "check",
                     !.body = Applied(req[c].edit, d.body), !.base = d.rev]
  <1>1. /\ req[c].at = "load" /\ UNCHANGED docs
        /\ \/ req' = [req EXCEPT ![c] = NoRequest]
           \/ d # Absent /\ req' = [req EXCEPT ![c] = q]
    BY DEF LoadOverlay
  <1>2. CASE req' = [req EXCEPT ![c] = NoRequest]
    BY <1>1, <1>2, ShapeEnds
  <1>3. CASE d # Absent /\ req' = [req EXCEPT ![c] = q]
    <2>1. DOMAIN req[c] = Fields /\ req[c].scope \in Scope
      BY <1>1 DEF Typed, ReqTyped, Busy
    <2>2. q.at = "check" /\ q.body = Applied(req[c].edit, d.body)
      BY <2>1 DEF Fields
    <2>3. req[c].edit \in Edit /\ req[c].edit.op \in ItemOps /\ IsBody(d.body)
      BY <1>1, <1>3, <2>1 DEF ShapeInv
    <2>4. IsBody(Applied(req[c].edit, d.body))
      BY <2>3, AppliedShape
    <2> HIDE DEF q
    <2> QED BY <1>1, <1>3, <2>2, <2>4, ShapeMoves
  <1> QED BY <1>1, <1>2, <1>3

LEMMA ShapeValidate ==
  ASSUME Typed, ShapeInv, NEW c \in Client, ValidateComposed(c)
  PROVE  ShapeInv'
  <1> DEFINE q == [req[c] EXCEPT !.at = "write", !.against = Above(req[c].scope)]
  <1>1. /\ req[c].at = "check" /\ UNCHANGED docs
        /\ \/ req' = [req EXCEPT ![c] = NoRequest]
           \/ req' = [req EXCEPT ![c] = q]
    BY DEF ValidateComposed
  <1>2. CASE req' = [req EXCEPT ![c] = NoRequest]
    BY <1>1, <1>2, ShapeEnds
  <1>3. CASE req' = [req EXCEPT ![c] = q]
    <2>1. DOMAIN req[c] = Fields
      BY <1>1 DEF Typed, ReqTyped, Busy
    <2>2. q.at = "write" /\ q.body = req[c].body
      BY <2>1 DEF Fields
    <2>3. IsBody(req[c].body)
      BY <1>1 DEF ShapeInv
    <2> HIDE DEF q
    <2> QED BY <1>1, <1>3, <2>2, <2>3, ShapeMoves
  <1> QED BY <1>1, <1>2, <1>3

LEMMA ShapeStore ==
  ASSUME Typed, ShapeInv, NEW c \in Client,
         Create(c) \/ ReplaceWithVersion(c) \/ DeleteByScope(c) \/ AnswerLost(c)
  PROVE  ShapeInv'
  <1>1. /\ Busy(c) /\ req' = [req EXCEPT ![c] = NoRequest]
        /\ \/ UNCHANGED <<docs, rev>>
           \/ \E d : /\ Writes(req[c].scope, d) /\ Written(c, d)
                     /\ d # Absent => req[c].at = "write"
    BY StoreSteps
  <1>2. CASE UNCHANGED docs
    BY <1>1, <1>2, ShapeEnds
  <1>3. ASSUME NEW d, Writes(req[c].scope, d), Written(c, d),
               d # Absent => req[c].at = "write"
        PROVE  ShapeInv'
    <2>1. docs' = [docs EXCEPT ![req[c].scope] = d] /\ DOMAIN docs = Scope
            /\ DOMAIN req = Client
      BY <1>3 DEF Writes, Typed, DocsTyped, ReqTyped
    <2>2. d # Absent => d.body = req[c].body /\ IsBody(req[c].body)
      BY <1>3 DEF Written, Created, Replacement, Doc, ShapeInv
    <2>3. \A s \in Scope : docs'[s] # Absent => IsBody(docs'[s].body)
      BY <2>1, <2>2 DEF ShapeInv
    <2>4. NoRequest.at = "idle"
      BY DEF NoRequest
    <2> QED BY <1>1, <2>1, <2>3, <2>4 DEF ShapeInv
  <1> QED BY <1>1, <1>2, <1>3

LEMMA ShapeStep ==
  ASSUME Typed, ShapeInv, [Next]_vars
  PROVE  ShapeInv'
  <1>1. ASSUME NEW c \in Client, RequestStep(c) \/ AnswerLost(c) PROVE ShapeInv'
    BY <1>1, ShapeLoad, ShapeValidate, ShapeStore DEF RequestStep
  <1>2. ASSUME NEW c \in Client, RequestFails(c) PROVE ShapeInv'
    BY <1>2, ShapeEnds DEF RequestFails
  <1>3. CASE UNCHANGED <<docs, req>>
    BY <1>3 DEF ShapeInv
  <1>4. ASSUME NEW p \in Pod, NEW e \in Equipment,
               ResolveReads(p, e) \/ ResolveFills(p, e) \/ CacheExpires(p, e)
        PROVE  ShapeInv'
    BY <1>3, <1>4 DEF ResolveReads, ResolveFills, CacheExpires
  <1> QED BY <1>1, <1>2, <1>3, <1>4, ShapeAsk DEF Next, vars

THEOREM ShapeInvariance == Spec => []ShapeInv
  <1>1. IndInv /\ ShapeInv /\ [Next]_vars => ShapeInv'
    BY ShapeStep DEF IndInv
  <1> QED BY <1>1, ShapeInit, StoreInvariance, PTL DEF Spec

-----------------------------------------------------------------------------
(* The effective profile of an equipment.                                  *)

LEMMA CascadeRanks ==
  ASSUME NEW s \in Scope
  PROVE  /\ Rank(s) \in 0..3 /\ Cascade(s)[Rank(s) + 1] = s
         /\ \A n \in 1..(Rank(s) + 1) : /\ Rank(Cascade(s)[n]) = n - 1
                                        /\ Cascade(s)[n][1] \in {s[1], "*"}
  <1>1. Rank(s) \in 0..3 /\ Cascade(s)[Rank(s) + 1] = s
    BY ScopeAssumption DEF Rank
  <1> DEFINE c == <<<<"*", "*", "*">>, <<s[1], "*", "*">>, <<s[1], s[2], "*">>, s>>
  <1>2. \A n \in 1..(Rank(s) + 1) : Cascade(s)[n] = c[n]
    BY <1>1 DEF Cascade
  <1>3. ASSUME NEW n \in 1..(Rank(s) + 1)
        PROVE  Rank(Cascade(s)[n]) = n - 1 /\ Cascade(s)[n][1] \in {s[1], "*"}
    <2>0. Cascade(s)[n] = c[n] /\ n \in 1..4
      BY <1>1, <1>2
    <2>1. CASE n = 1
      BY <2>0, <2>1 DEF Rank
    <2>2. CASE n = 2
      <3>1. s[1] # "*"
        BY <2>2 DEF Rank
      <3> QED BY <2>0, <2>2, <3>1 DEF Rank
    <2>3. CASE n = 3
      <3>1. s[1] # "*" /\ s[2] # "*"
        BY <2>3 DEF Rank
      <3> QED BY <2>0, <2>3, <3>1 DEF Rank
    <2>4. CASE n = 4
      <3>1. Rank(s) = 3 /\ c[n] = s
        BY <1>1, <2>4
      <3> QED BY <2>0, <2>4, <3>1
    <2> QED BY <2>0, <2>1, <2>2, <2>3, <2>4
  <1> QED BY <1>1, <1>3

(* Its rules are those of the narrowest documents that declare them.       *)
LEMMA EffectiveDecided ==
  ASSUME ShapeInv, NEW e \in Scope, Effective(Body, e) # Absent
  PROVE  /\ Active(Effective(Body, e)) =
              {r \in DOMAIN Effective(Body, e).rules :
                 Effective(Body, e).rules[r].enabled}
         /\ \A r \in DOMAIN Effective(Body, e).rules :
              \E i \in 1..(Rank(e) + 1) :
                /\ Cascade(e)[i] \in Scope
                /\ Declares(Body[Cascade(e)[i]], r)
                /\ \A j \in 1..(Rank(e) + 1) :
                     (Cascade(e)[j] \in Scope /\ Declares(Body[Cascade(e)[j]], r))
                       => j <= i
                /\ Decides(Effective(Body, e).rules, r, Body[Cascade(e)[i]])
  <1> DEFINE N == Rank(e) + 1
             c == Collected(Body, e)
             prof == Effective(Body, e)
  <1>1. N \in 1..4
    BY CascadeRanks
  <1>2. DOMAIN c = 1..N /\ Len(c) = N
          /\ \A n \in 1..N : c[n] = IF Cascade(e)[n] \in Scope
                                    THEN Body[Cascade(e)[n]] ELSE Absent
    <2>1. DOMAIN Body = Scope
      BY DEF Body
    <2>2. c = [n \in 1..N |-> IF Cascade(e)[n] \in Scope
                              THEN Body[Cascade(e)[n]] ELSE Absent]
      BY <2>1 DEF Collected
    <2> HIDE DEF c, N
    <2>3. N \in Nat
      BY <1>1
    <2>4. DOMAIN c = 1..N
      BY <2>2
    <2>5. Len(c) = N
      BY <2>2, <2>3, <2>4
    <2> QED BY <2>2, <2>4, <2>5
  <1>3. \A n \in 1..N : c[n] # Absent => IsBody(c[n])
    <2>1. \A t \in Scope : Body[t] # Absent => IsBody(Body[t])
      BY DEF Body, ShapeInv
    <2> QED BY <1>2, <2>1
  <1>4. PICK f : IsFold(f, c, N) /\ FoldProfiles(c) = f[N]
    BY <1>1, <1>2, FoldProfilesIsFold
  <1>5. prof.rules = f[N].rules
    BY <1>4 DEF Effective
  <1>6. Decided(prof.rules, c, N)
    <2> HIDE DEF N, c, prof
    <2>1. N \in Nat
      BY <1>1
    <2>2. Decided(f[N].rules, c, N)
      BY <1>3, <1>4, <2>1, FoldDecides
    <2> QED BY <1>5, <2>2
  <1>7. ASSUME NEW r \in DOMAIN prof.rules
        PROVE  \E i \in 1..N :
                 /\ Cascade(e)[i] \in Scope
                 /\ Declares(Body[Cascade(e)[i]], r)
                 /\ \A j \in 1..N :
                      (Cascade(e)[j] \in Scope /\ Declares(Body[Cascade(e)[j]], r))
                        => j <= i
                 /\ Decides(prof.rules, r, Body[Cascade(e)[i]])
    <2>1. PICK i \in 1..N : Narrowest(c, N, r, i) /\ Decides(prof.rules, r, c[i])
      BY <1>6, <1>7 DEF Decided
    <2>2. Declares(c[i], r) /\ c[i] # Absent
      BY <2>1 DEF Narrowest, Declares
    <2>3. Cascade(e)[i] \in Scope /\ c[i] = Body[Cascade(e)[i]]
      BY <1>2, <2>2
    <2>4. ASSUME NEW j \in 1..N, Cascade(e)[j] \in Scope,
                 Declares(Body[Cascade(e)[j]], r)
          PROVE  j <= i
      <3>1. Declares(c[j], r)
        BY <1>2, <2>4
      <3>2. ~(j \in (i + 1)..N)
        BY <2>1, <3>1 DEF Narrowest
      <3> QED BY <1>1, <3>2
    <2> QED BY <2>1, <2>2, <2>3, <2>4
  <1> QED BY <1>7 DEF Active

(* The job intervals of a process include those of the active rules of     *)
(* each of its equipment (repository.py:246).                              *)
THEOREM ScheduleCoversAll == Spec => []ScheduleCovers
  <1>1. ShapeInv => ScheduleCovers
    <2> SUFFICES ASSUME ShapeInv, NEW e \in Equipment, Effective(Body, e) # Absent,
                        NEW r \in Active(Effective(Body, e))
                 PROVE  Effective(Body, e).rules[r].interval
                          \in SchedulingIntervals(Body, e[1])
      BY DEF ScheduleCovers
    <2> DEFINE rules == Effective(Body, e).rules
    <2>0. e \in Scope
      BY StoreAssumption
    <2>1. r \in DOMAIN rules /\ rules[r].enabled
      BY DEF Active
    <2>2. PICK i \in 1..(Rank(e) + 1) :
            /\ Cascade(e)[i] \in Scope /\ Declares(Body[Cascade(e)[i]], r)
            /\ Decides(rules, r, Body[Cascade(e)[i]])
      BY <2>0, <2>1, EffectiveDecided
    <2> HIDE DEF rules
    <2>3. PICK t \in Scope : t = Cascade(e)[i]
      BY <2>2
    <2>4. /\ Body[t] # Absent /\ r \in DOMAIN Body[t].rules
          /\ Body[t].enabled /\ Body[t].rules[r].enabled
          /\ rules[r].interval = Body[t].rules[r].interval
      BY <2>1, <2>2, <2>3 DEF Declares, Decides
    <2>5. t[1] \in {e[1], "*"}
      BY <2>0, <2>2, <2>3, CascadeRanks
    <2>6. r \in Active(Body[t]) /\ DOMAIN Body = Scope
      BY <2>4 DEF Active, Body
    <2>7. rules[r].interval \in SchedulingIntervals(Body, e[1])
      BY <2>4, <2>5, <2>6 DEF SchedulingIntervals
    <2> QED BY <2>7 DEF rules
  <1> QED BY <1>1, ShapeInvariance, PTL

(* A rule is on exactly if it is on in the narrowest document that         *)
(* declares it and that document is on (models.py:485).                    *)
THEOREM NarrowestAlwaysDecides == Spec => []NarrowestDecides
  <1>1. ShapeInv => NarrowestDecides
    <2> SUFFICES ASSUME ShapeInv, NEW e \in Equipment, Effective(Body, e) # Absent
                 PROVE  LET prof == Effective(Body, e)
                            docsOf(r) == {s \in Parents(e) \cup {e} :
                              Body[s] # Absent /\ r \in DOMAIN Body[s].rules}
                            narrowest(r) == CHOOSE s \in docsOf(r) :
                              \A t \in docsOf(r) : Rank(t) <= Rank(s)
                        IN  Active(prof) = {r \in DOMAIN prof.rules :
                              /\ Body[narrowest(r)].enabled
                              /\ Body[narrowest(r)].rules[r].enabled}
      BY DEF NarrowestDecides
    <2> DEFINE prof == Effective(Body, e)
               docsOf(r) == {s \in Parents(e) \cup {e} :
                               Body[s] # Absent /\ r \in DOMAIN Body[s].rules}
               narrowest(r) == CHOOSE s \in docsOf(r) :
                                 \A t \in docsOf(r) : Rank(t) <= Rank(s)
    <2>0. e \in Scope /\ Rank(e) \in 0..3 /\ Cascade(e)[Rank(e) + 1] = e
            /\ \A n \in 1..(Rank(e) + 1) : Rank(Cascade(e)[n]) = n - 1
      BY StoreAssumption, CascadeRanks
    <2>1. ASSUME NEW r
          PROVE  docsOf(r) = {s \in Scope : Declares(Body[s], r)
                                /\ \E n \in 1..(Rank(e) + 1) : s = Cascade(e)[n]}
      <3>1. Parents(e) \cup {e} = {s \in Scope : \E n \in 1..(Rank(e) + 1) :
                                                   s = Cascade(e)[n]}
        <4>1. \A n \in 1..(Rank(e) + 1) : n \in 1..Rank(e) \/ n = Rank(e) + 1
          BY <2>0
        <4>2. \A n \in 1..Rank(e) : n \in 1..(Rank(e) + 1)
          BY <2>0
        <4>3. Rank(e) + 1 \in 1..(Rank(e) + 1)
          BY <2>0
        <4> QED BY <2>0, <4>1, <4>2, <4>3 DEF Parents
      <3> QED BY <3>1 DEF Declares
    <2>2. ASSUME NEW r \in DOMAIN prof.rules
          PROVE  prof.rules[r].enabled <=> /\ Body[narrowest(r)].enabled
                                           /\ Body[narrowest(r)].rules[r].enabled
      <3>1. PICK i \in 1..(Rank(e) + 1) :
              /\ Cascade(e)[i] \in Scope /\ Declares(Body[Cascade(e)[i]], r)
              /\ \A j \in 1..(Rank(e) + 1) :
                   (Cascade(e)[j] \in Scope /\ Declares(Body[Cascade(e)[j]], r))
                     => j <= i
              /\ Decides(prof.rules, r, Body[Cascade(e)[i]])
        BY <2>0, <2>2, EffectiveDecided
      <3> DEFINE D == docsOf(r)
                 t == Cascade(e)[i]
      <3>2. t \in D
        BY <2>1, <3>1
      <3>3. ASSUME NEW s \in D PROVE Rank(s) <= Rank(t) /\ (Rank(s) = Rank(t) => s = t)
        <4>1. PICK j \in 1..(Rank(e) + 1) : s = Cascade(e)[j]
          BY <2>1, <3>3
        <4>2. s \in Scope /\ Declares(Body[s], r)
          BY <2>1, <3>3
        <4>3. j <= i /\ Rank(s) = j - 1 /\ Rank(t) = i - 1
          BY <2>0, <3>1, <4>1, <4>2
        <4>4. i \in Nat /\ j \in Nat
          BY <2>0
        <4>5. Rank(s) <= Rank(t) /\ (Rank(s) = Rank(t) => i = j)
          BY <4>3, <4>4
        <4> QED BY <4>1, <4>5
      <3>4. narrowest(r) = t
        <4> HIDE DEF D, t
        <4>0. \A s \in D : Rank(t) <= Rank(s) => Rank(s) = Rank(t)
          <5> TAKE s \in D
          <5>1. Rank(s) \in Nat /\ Rank(t) \in Nat
            BY DEF Rank
          <5> QED BY <3>3, <5>1
        <4>1. (CHOOSE s \in D : \A u \in D : Rank(u) <= Rank(s)) = t
          BY <3>2, <3>3, <4>0
        <4> QED BY <4>1 DEF D
      <3>5. Decides(prof.rules, r, Body[t])
        BY <3>1
      <3> QED BY <3>4, <3>5 DEF Decides
    <2>3. Active(prof) = {r \in DOMAIN prof.rules : prof.rules[r].enabled}
      BY <2>0, EffectiveDecided
    <2> HIDE DEF narrowest, prof
    <2>4. Active(prof) = {r \in DOMAIN prof.rules :
                            /\ Body[narrowest(r)].enabled
                            /\ Body[narrowest(r)].rules[r].enabled}
      BY <2>2, <2>3
    <2> QED BY <2>4 DEF narrowest, prof
  <1> QED BY <1>1, ShapeInvariance, PTL
=============================================================================
