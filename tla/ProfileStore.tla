---------------------------- MODULE ProfileStore ----------------------------
(***************************************************************************)
(* The collection of scope documents and everyone who touches it: requests *)
(* of the profile API and the effective profiles that the pods cache for   *)
(* their analysis.                                                         *)
(*                                                                         *)
(* A request awaits Mongo up to three times (load, validation, write), so  *)
(* other requests and reads come in between.                               *)
(***************************************************************************)
EXTENDS ProfileCascade

CONSTANTS
  Pod,        \* instances
  Serving,    \* those the profile API is called on
  Client,     \* operators at work
  Edit,       \* what they may ask for, see Request
  Equipment,  \* scopes of single equipment that are analysed
  Stored,     \* what may be stored at first: bodies of scopes
  MaxRequest, \* bound: requests
  MaxFail     \* bound: requests that lose Mongo

ASSUME StoreAssumption ==
  /\ Serving \subseteq Pod /\ Equipment \subseteq Scope
  /\ MaxRequest \in Nat /\ MaxFail \in Nat /\ Absent \notin Nat

(* What the schema of a document makes sure of (MonitorProfile, Rule).     *)
IsRule(r) == {"interval", "enabled"} \subseteq DOMAIN r /\ r.enabled \in BOOLEAN
IsBody(b) == /\ {"enabled", "rules"} \subseteq DOMAIN b /\ b.enabled \in BOOLEAN
             /\ \A r \in DOMAIN b.rules : IsRule(b.rules[r])

ASSUME EditAssumption ==
  \A e \in Edit :
    /\ e.op \in {"create", "replace", "delete", "add", "update", "remove", "put"}
    /\ e.op \in {"create", "replace"} => IsBody(e.body)
    /\ e.op \in {"add", "update", "remove", "put"} =>
         e.part \in {"measures", "rules", "notify"}
    /\ (e.op \in {"add", "update", "put"} /\ e.part = "rules") => IsRule(e.value)

(* What was stored by hand before the first request composes soundly.      *)
ASSUME StoredAssumption ==
  \A b \in Stored : DOMAIN b \subseteq Scope
    /\ \A s \in DOMAIN b : IsBody(b[s]) /\ Sound(FoldProfiles(Collected(b, s)))

VARIABLES
  docs,   \* Mongo: the document of each scope, or Absent
  req,    \* the request of a client
  read,   \* resolve_profile of a pod between its read and its cache entry
  cache,  \* _resolve_cache of a pod, by equipment
  rev,    \* history: number of the latest write
  left    \* what is left of the bounds

vars == <<docs, req, read, cache, rev, left>>

Body == [s \in Scope |-> IF docs[s] = Absent THEN Absent ELSE docs[s].body]
NoRequest == [at |-> "idle"]
Empty == [e \in Equipment |-> Absent]

(* Ranges of the variables.                                                *)
TypeOK ==
  /\ \A s \in Scope : docs[s] # Absent =>
       /\ docs[s].version \in 1..(MaxRequest + 1)
       /\ docs[s].born <= docs[s].rev /\ docs[s].rev <= rev
  /\ \A c \in Client :
       req[c].at \in {"idle", "load", "check", "write", "delete"}
  /\ \A p \in Pod : DOMAIN read[p] \subseteq Equipment
  /\ rev \in Nat
  /\ left \in [request : 0..MaxRequest, fail : 0..MaxFail]

(* A document and its history: the write that made it, the one that made  *)
(* the first document since the version started over, and the documents   *)
(* above it that it was validated against.                                *)
Doc(body, version, born, r, against) ==
  [body |-> body, version |-> version, born |-> born, rev |-> r,
   against |-> against]
Parents(s) == {t \in Scope : t # s /\ \E n \in 1..Rank(s) : t = Cascade(s)[n]}
Above(s) == [t \in Parents(s) |->
               IF docs[t] = Absent THEN Absent ELSE docs[t].rev]

Init ==
  /\ \E b \in Stored :
       docs = [s \in Scope |-> IF s \notin DOMAIN b THEN Absent
                 ELSE Doc(b[s], 1, 0, 0,
                          [t \in Parents(s) |->
                             IF t \in DOMAIN b THEN 0 ELSE Absent])]
  /\ req = [c \in Client |-> NoRequest]
  /\ read = [p \in Pod |-> NoFunction] /\ cache = [p \in Pod |-> Empty]
  /\ rev = 0
  /\ left = [request |-> MaxRequest, fail |-> MaxFail]

Writes(s, d) == docs' = [docs EXCEPT ![s] = d] /\ rev' = rev + 1
Clear(p) == cache' = [cache EXCEPT ![p] = Empty]

-----------------------------------------------------------------------------
(* Requests.                                                               *)

(* A client looks at the document of a scope and asks pod p for an edit of *)
(* it: create, replace or delete of the whole document, or add, update,    *)
(* remove or put of one item of a part of it.                              *)
Ask(c, p, s, e) ==
  /\ req[c].at = "idle" /\ left.request > 0
  /\ left' = [left EXCEPT !.request = @ - 1]
  /\ e.op # "create" => docs[s] # Absent
  /\ LET seen == docs[s]
     IN  req' = [req EXCEPT ![c] =
           [at |-> CASE e.op \in {"create", "replace"} -> "check"
                     [] e.op = "delete" -> "delete"
                     [] OTHER -> "load",
            pod |-> p, scope |-> s, edit |-> e, against |-> NoFunction,
            body |-> IF e.op \in {"create", "replace"} THEN e.body ELSE Absent,
            version |-> IF seen = Absent THEN 0 ELSE seen.version,
            base |-> IF seen = Absent THEN 0 ELSE seen.rev,
            born |-> IF seen = Absent THEN 0 ELSE seen.born]]
  /\ UNCHANGED <<docs, read, cache, rev>>

(* 409 for what is there already, 404 for what is not.                     *)
Applicable(e, b) ==
  CASE e.op = "add" -> e.id \notin DOMAIN b[e.part]
    [] e.op \in {"update", "remove"} -> e.id \in DOMAIN b[e.part]
    [] e.op = "put" -> TRUE

Applied(e, b) ==
  [b EXCEPT ![e.part] =
     IF e.op = "remove" THEN [i \in DOMAIN @ \ {e.id} |-> @[i]]
     ELSE Updated(@, [i \in {e.id} |-> e.value])]

(* _load_overlay and the edit of an item endpoint.  The version that will  *)
(* be expected is the client's, not that of the document loaded here.      *)
LoadOverlay(c) ==
  LET q == req[c]
      d == docs[q.scope]
  IN  /\ q.at = "load"
      /\ req' = [req EXCEPT ![c] =
           IF d = Absent THEN NoRequest
           ELSE IF ~Applicable(q.edit, d.body) THEN NoRequest
           ELSE [q EXCEPT !.at = "check", !.body = Applied(q.edit, d.body),
                          !.base = d.rev]]
      /\ UNCHANGED <<docs, read, cache, rev, left>>

(* Mutant: the overlay is not folded with the documents above it.          *)
ValidateOverlayAlone(c) ==
  LET q == req[c]
  IN  /\ q.at = "check"
      /\ req' = [req EXCEPT ![c] = IF ~Sound(q.body) THEN NoRequest
                  ELSE [q EXCEPT !.at = "write", !.against = Above(q.scope)]]
      /\ UNCHANGED <<docs, read, cache, rev, left>>

(* _validate_composed: the overlay folded with what is stored above it.    *)
(* What is stored below it is not looked at.                               *)
ValidateComposed(c) ==
  LET q == req[c]
      composed == Collected([Body EXCEPT ![q.scope] = q.body], q.scope)
  IN  /\ q.at = "check"
      /\ req' = [req EXCEPT ![c] =
           IF ~Sound(FoldProfiles(composed)) THEN NoRequest
           ELSE [q EXCEPT !.at = "write", !.against = Above(q.scope)]]
      /\ UNCHANGED <<docs, read, cache, rev, left>>

(* The write of a request, and the end of it.                              *)
Finish(c, ok, d) ==
  /\ IF ok THEN Writes(req[c].scope, d) /\ Clear(req[c].pod)
     ELSE UNCHANGED <<docs, rev, cache>>
  /\ req' = [req EXCEPT ![c] = NoRequest]
  /\ UNCHANGED <<read, left>>

Creates(c) == req[c].at = "write" /\ req[c].edit.op = "create"
Replaces(c) == req[c].at = "write" /\ req[c].edit.op # "create"
Vacant(c) == docs[req[c].scope] = Absent
Created(c) == Doc(req[c].body, 1, rev + 1, rev + 1, req[c].against)

(* ProfileRepository.create: the unique index on the scope decides.        *)
Create(c) == Creates(c) /\ Finish(c, Vacant(c), Created(c))

Matches(c) == docs[req[c].scope] # Absent
                /\ docs[req[c].scope].version = req[c].version
Replacement(c) == Doc(req[c].body, req[c].version + 1,
                      docs[req[c].scope].born, rev + 1, req[c].against)

(* Mutant: the update does not name the version.                           *)
ReplaceUnconditionally(c) ==
  Replaces(c) /\ Finish(c, ~Vacant(c), Replacement(c))

(* Mutant: the version moves on by more than one.                          *)
ReplaceSkipsVersion(c) ==
  /\ Replaces(c)
  /\ Finish(c, Matches(c), [Replacement(c) EXCEPT !.version = @ + 1])

(* replace_with_version: one update that names the expected version; 409   *)
(* or 404 if it finds nothing.                                             *)
ReplaceWithVersion(c) ==
  Replaces(c) /\ Finish(c, Matches(c), Replacement(c))

(* delete_overlay: nothing is validated.                                   *)
DeleteByScope(c) ==
  /\ req[c].at = "delete" /\ Finish(c, Matches(c), Absent)

(* Mongo does not answer: 503.                                             *)
RequestFails(c) ==
  /\ req[c].at # "idle" /\ left.fail > 0
  /\ left' = [left EXCEPT !.fail = @ - 1]
  /\ req' = [req EXCEPT ![c] = NoRequest]
  /\ UNCHANGED <<docs, read, cache, rev>>

(* The answer is lost after the write happened: 503 all the same, and the  *)
(* cache is not cleared.                                                   *)
AnswerLost(c) ==
  /\ left.fail > 0 /\ left' = [left EXCEPT !.fail = @ - 1]
  /\ \/ Creates(c) /\ Vacant(c) /\ Writes(req[c].scope, Created(c))
     \/ Replaces(c) /\ Matches(c) /\ Writes(req[c].scope, Replacement(c))
     \/ req[c].at = "delete" /\ Matches(c) /\ Writes(req[c].scope, Absent)
  /\ req' = [req EXCEPT ![c] = NoRequest]
  /\ UNCHANGED <<read, cache>>

-----------------------------------------------------------------------------
(* Analysis.                                                               *)

(* resolve_profile misses its cache and reads.                             *)
ResolveReads(p, e) ==
  /\ read[p] = NoFunction /\ cache[p][e] = Absent
  /\ read' = [read EXCEPT ![p] = [x \in {e} |-> Effective(Body, x)]]
  /\ UNCHANGED <<docs, req, cache, rev, left>>

(* It folds and remembers what it read; no document, no entry.             *)
ResolveFills(p, e) ==
  /\ e \in DOMAIN read[p]
  /\ cache' = [cache EXCEPT ![p][e] = read[p][e]]
  /\ read' = [read EXCEPT ![p] = NoFunction]
  /\ UNCHANGED <<docs, req, rev, left>>

(* Mutant: a used entry lives on.                                          *)
ExpireUnused(p, e) == cache[p][e] # Absent /\ UNCHANGED vars

(* The time of a cache entry is up.                                        *)
CacheExpires(p, e) ==
  /\ cache[p][e] # Absent
  /\ cache' = [cache EXCEPT ![p][e] = Absent]
  /\ UNCHANGED <<docs, req, read, rev, left>>

-----------------------------------------------------------------------------
RequestStep(c) ==
  \/ LoadOverlay(c) \/ ValidateComposed(c) \/ Create(c) \/ ReplaceWithVersion(c)
  \/ DeleteByScope(c)

Next ==
  \/ \E c \in Client :
       \/ \E p \in Serving, s \in Scope, e \in Edit : Ask(c, p, s, e)
       \/ RequestStep(c) \/ RequestFails(c) \/ AnswerLost(c)
  \/ \E p \in Pod :
       \E e \in Equipment :
         ResolveReads(p, e) \/ ResolveFills(p, e) \/ CacheExpires(p, e)

(* Time passes.  Requests and reads may die half way.                      *)
Fairness == \A p \in Pod, e \in Equipment : WF_vars(CacheExpires(p, e))

Spec == Init /\ [][Next]_vars /\ Fairness

-----------------------------------------------------------------------------
(* Properties.                                                             *)

(* profiles.py:6: a write or a delete is based on the revision it replaces:*)
(* a change somebody else made in between is never lost, unless the        *)
(* document was deleted and created again since the client looked at it,   *)
(* which starts its version over.                                          *)
NoLostUpdate ==
  [][\A c \in Client :
       (req[c].at \in {"write", "delete"} /\ req'[c].at = "idle" /\ rev' # rev
          /\ req[c].edit.op # "create" /\ docs[req[c].scope].born = req[c].born)
         => docs[req[c].scope].rev = req[c].base]_vars

(* repository.py:246: the job intervals of a process include those of the  *)
(* active rules of each of its equipment, at whichever scope a rule and    *)
(* the documents that switch it on and off live.                           *)
ScheduleCovers ==
  LET body == Body
  IN  \A e \in Equipment :
        LET prof == Effective(body, e)
        IN  prof # Absent =>
              {prof.rules[r].interval : r \in Active(prof)}
                \subseteq SchedulingIntervals(body, e[1])

(* models.py:485: a rule is on exactly if it is on in the narrowest        *)
(* document that declares it and that document is on.                      *)
NarrowestDecides ==
  LET body == Body
  IN  \A e \in Equipment :
        LET prof == Effective(body, e)
            docsOf(r) == {s \in Parents(e) \cup {e} :
                            body[s] # Absent /\ r \in DOMAIN body[s].rules}
            narrowest(r) == CHOOSE s \in docsOf(r) :
                              \A t \in docsOf(r) : Rank(t) <= Rank(s)
        IN  prof # Absent =>
              Active(prof) = {r \in DOMAIN prof.rules :
                /\ body[narrowest(r)].enabled
                /\ body[narrowest(r)].rules[r].enabled}

(* profiles.py:7: an overlay composes soundly with the documents above it  *)
(* for as long as none of those changes after it was validated.            *)
SoundUntilParentMoves ==
  \A s \in Scope : (docs[s] # Absent /\ docs[s].against = Above(s)) =>
    Sound(FoldProfiles(Collected(Body, s)))

(* repository.py:239: a read under way while a write clears the cache can  *)
(* put the old profile back, and other pods are not told of a write; once  *)
(* writes stop every pod works with the stored profiles for good.          *)
EditsReachEveryPod ==
  <>[](\A p \in Pod, e \in Equipment :
         cache[p][e] # Absent => cache[p][e] = Effective(Body, e))
=============================================================================
