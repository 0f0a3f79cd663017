------------------------- MODULE SystemConfiguration -------------------------
(***************************************************************************)
(* The configuration of the system and what follows from it: each change   *)
(* stores a new configuration document and is announced on the event bus;  *)
(* one listener renews the rules that let errors of validation pass, the   *)
(* other gives objects of the organisation its new identity.  Requests     *)
(* that write objects, and the scheduled validation of all objects, read   *)
(* configuration and rules meanwhile.  The process may stop anywhere and   *)
(* start again.                                                            *)
(*                                                                         *)
(* The errors of an object that matter are the two that rules are made     *)
(* for: it was modified by another organisation than MITRE, and its        *)
(* ATT&CK ID has a prefix.                                                 *)
(***************************************************************************)
EXTENDS Naturals, Sequences, FiniteSets

CONSTANTS
  Requests,     \* the requests that may be in flight at a time
  Boot,         \* the process that checks the configuration at the start
  Ops,          \* what requests may ask for
  Identities,   \* the identities there may be
  Mitre,        \* the identity of MITRE, the one the data model asks for
  Placeholders, \* the identities that may be made as placeholders
  Objects,
  TypeOf,       \* the STIX type of an object
  Types,        \* the types that have ATT&CK IDs
  Static,       \* the rules of the file of static rules: [field, type]
  InitDocs,     \* the objects stored before the first start, by a migration
  MaxDocs,      \* bound on the number of stored versions
  MaxChanges,   \* bound on the number of requests
  MaxPasses,    \* bound on the number of passes of the scheduled validation
  MaxStops,     \* bound on the number of times the process stops
  None

ASSUME IdentityAssumption == None \notin Identities /\ Placeholders \subseteq Identities
ASSUME BootAssumption     == Boot \notin Requests

VARIABLES
  configs,   \* the configuration documents, by created_at
  known,     \* the identities that are stored
  rules,     \* the rules: [field, type, reason]
  docs,      \* the stored versions of objects, by modified; deleted ones leave a gap
  req,       \* the state of each request
  mode,      \* how far the start of the process has come
  pass,      \* the scheduled validation
  bounds,    \* auxiliary: how many requests, passes and stops there were
  last,      \* auxiliary: the value each setting was given last
  touched,   \* auxiliary: objects or rules changed since the last pass began
  spoilt     \* auxiliary: what went wrong that the properties excuse

vars == <<configs, known, rules, docs, req, mode, pass, bounds, last, touched, spoilt>>

Settings == {"identity", "namespace", "markings", "account"}

NoConfig == [s \in Settings |-> None]

Newest == IF configs = <<>> THEN NoConfig ELSE configs[Len(configs)]

-----------------------------------------------------------------------------
(***************************************************************************)
(* Rules and verdicts.                                                     *)
(***************************************************************************)
ModifiedBy == "x_mitre_modified_by_ref"
ExternalId == "external_id"

Rule(field, type, reason) == [field |-> field, type |-> type, reason |-> reason]

\* The unique index: one rule for a field, an error and a type.
With(rs, rule) ==
  IF \E x \in rs : x.field = rule.field /\ x.type = rule.type THEN rs ELSE rs \cup {rule}

Document(object, author, editor, flaws) ==
  [object |-> object, author |-> author, editor |-> editor, flaws |-> flaws,
   verdict |-> {}, whole |-> TRUE]

Gap == Document(None, None, None, {})

\* What the migration stores are whole versions, and static rules let a known error pass.
ASSUME MigrationAssumption ==
  InitDocs \in Seq([object: Objects, author: Identities, editor: Identities, flaws: SUBSET {ExternalId},
                    verdict: SUBSET {"shape", ModifiedBy, ExternalId}, whole: {TRUE}])
ASSUME StaticAssumption ==
  Static \subseteq [field: {ModifiedBy, ExternalId}, type: Types \cup {"all"}]

\* What the data model finds wrong.
Errors(d) ==
  IF ~d.whole THEN {"shape"}
  ELSE d.flaws \cup (IF d.editor # Mitre THEN {ModifiedBy} ELSE {})

Matches(rule, error, type) == rule.field = error /\ rule.type \in {"all", type}

\* checkBypassRule, over the rules of the moment.
Remaining(d, rs) ==
  {e \in Errors(d) : ~\E rule \in rs : Matches(rule, e, TypeOf[d.object])}

Slots == {k \in 1..Len(docs) : docs[k] # Gap}

VersionsOf(o) == {k \in Slots : docs[k].object = o /\ docs[k].whole}

LatestOf(o) == {k \in VersionsOf(o) : \A l \in VersionsOf(o) : l <= k}

-----------------------------------------------------------------------------
(***************************************************************************)
(* Requests.                                                               *)
(***************************************************************************)
Idle ==
  [phase |-> "idle", op |-> None, value |-> None, config |-> NoConfig, chain |-> {},
   wipe |-> FALSE, make |-> {}, walk |-> "done", queue |-> {}, doc |-> Gap, slot |-> 0]

\* rules and docs are changed by these two only.
SetRules(rs) == rules' = rs /\ touched' = (touched \/ rs # rules)
SetDocs(ds)  == docs' = ds /\ touched' = (touched \/ ds # docs)

Goes(r, state) == req' = [req EXCEPT ![r] = state]

Ends(r) == Goes(r, Idle)

Begins(r, op) ==
  /\ mode = "up"
  /\ req[r].phase = "idle"
  /\ op \in Ops
  /\ bounds.changes < MaxChanges
  /\ bounds' = [bounds EXCEPT !.changes = @ + 1]

NoPass == [phase |-> "idle", rules |-> {}, at |-> 0, doc |-> Gap]

Init ==
  /\ configs = <<>>
  /\ known = Identities \ Placeholders
  /\ rules = {}
  /\ docs = InitDocs
  /\ req = [r \in Requests \cup {Boot} |-> Idle]
  /\ mode = "identity"
  /\ pass = NoPass
  /\ bounds = [changes |-> 0, passes |-> 0, stops |-> 0]
  /\ last = NoConfig
  /\ touched = TRUE
  /\ spoilt = {}

-----------------------------------------------------------------------------
(***************************************************************************)
(* Changing a setting.                                                     *)
(***************************************************************************)
Setter(op, value) == [Idle EXCEPT !.phase = "read", !.op = op, !.value = value]

Values(op) ==
  CASE op = "identity" -> known
    [] op = "namespace" -> {"prefix", None}
    [] op = "markings" -> {"marking"}

BeginSet(r) ==
  /\ \E op \in {"identity", "namespace", "markings"} : \E value \in Values(op) :
       Begins(r, op) /\ Goes(r, Setter(op, value))
  /\ UNCHANGED <<configs, known, rules, docs, mode, pass, last, touched, spoilt>>

\* A first configuration must name an identity; setting the same identity does nothing.
ReadConfig(r) ==
  LET q == req[r] IN
  /\ q.phase = "read"
  /\ IF \/ configs = <<>> /\ q.op # "identity"
        \/ q.op = "identity" /\ Newest.identity = q.value
     THEN Ends(r)
     ELSE Goes(r, [q EXCEPT !.phase = "save", !.config = Newest])
  /\ UNCHANGED <<configs, known, rules, docs, mode, pass, bounds, last, touched, spoilt>>

\* A slip to rule out: the namespace is not copied.
Overridden_DropsNamespace(config, op, value) ==
  [config EXCEPT !.namespace = None, ![op] = value]

\* _createNewConfigVersion: a copy with one setting replaced.
Overridden(config, op, value) == [config EXCEPT ![op] = value]

Announced(op) == op \in {"identity", "namespace"}

\* Auxiliary: another change was stored between the read and the save, or another change
\* of the namespace is being taken up.
Overtakes(r) ==
  (IF req[r].config # Newest THEN {"overtaken"} ELSE {})
  \cup (IF req[r].op = "namespace"
           /\ \E p \in Requests \ {r} : req[p].op = "namespace" /\ req[p].phase # "idle"
        THEN {"crossed"} ELSE {})

SaveConfig(r) ==
  LET q == req[r] IN
  /\ q.phase = "save"
  /\ configs' = Append(configs, Overridden(q.config, q.op, q.value))
  /\ last' = [last EXCEPT ![q.op] = q.value]
  /\ spoilt' = spoilt \cup Overtakes(r)
  /\ IF Announced(q.op) THEN Goes(r, [q EXCEPT !.phase = "chain"]) ELSE Ends(r)
  /\ UNCHANGED <<known, rules, docs, mode, pass, bounds, touched>>

Keys(q) ==
  CASE q.op = "identity" -> {Rule(ModifiedBy, t, "identity") : t \in Types}
    [] q.op = "namespace" /\ q.value # None -> {Rule(ExternalId, t, "namespace") : t \in Types}
    [] OTHER -> {}

\* retrieveAllDistinctIdentityRefs
Chain == {configs[i].identity : i \in DOMAIN configs}

\* The chain of identities is read after the configuration is saved, then the event is
\* emitted.  The service of the objects is not loaded yet when the process starts, and
\* passes over the very first identity.
Emit(r) ==
  LET q == req[r] IN
  /\ q.phase = "chain"
  /\ Goes(r, [q EXCEPT
       !.phase = "emit",
       !.chain = Chain,
       !.wipe = TRUE,
       !.make = Keys(q),
       !.walk = IF q.op = "identity" /\ r # Boot /\ q.config.identity # None THEN "list" ELSE "done"])
  /\ UNCHANGED <<configs, known, rules, docs, mode, pass, bounds, last, touched, spoilt>>

\* A slip to rule out: all rules are removed that the system made.
Wiped_All(rs, reason) == {x \in rs : x.reason = "user"}

\* deleteByReason
Wiped(rs, reason) == {x \in rs : x.reason # reason}

WipeRules(r) ==
  /\ req[r].phase = "emit" /\ req[r].wipe
  /\ SetRules(Wiped(rules, req[r].op))
  /\ Goes(r, [req[r] EXCEPT !.wipe = FALSE])
  /\ UNCHANGED <<configs, known, docs, mode, pass, bounds, last, spoilt>>

\* One rule after the other, in a fixed order; one that exists is passed over.
MakeRule(r) ==
  LET rule == CHOOSE x \in req[r].make : TRUE IN
  /\ req[r].phase = "emit" /\ ~req[r].wipe /\ req[r].make # {}
  /\ SetRules(With(rules, rule))
  /\ Goes(r, [req[r] EXCEPT !.make = @ \ {rule}])
  /\ UNCHANGED <<configs, known, docs, mode, pass, bounds, last, spoilt>>

\* A listener that fails is logged, and the request succeeds.
MakeRulesFails(r) ==
  /\ req[r].phase = "emit" /\ (req[r].wipe \/ req[r].make # {})
  /\ bounds.stops < MaxStops
  /\ bounds' = [bounds EXCEPT !.stops = @ + 1]
  /\ spoilt' = spoilt \cup {"rules"}
  /\ Goes(r, [req[r] EXCEPT !.wipe = FALSE, !.make = {}])
  /\ UNCHANGED <<configs, known, rules, docs, mode, pass, last, touched>>

\* retrieveAllLatestByOrgIdentityRefs: a version without a modified comes last.
Affected(chain) ==
  {docs[k] : k \in {l \in Slots :
     /\ docs[l].author \in chain \/ docs[l].editor \in chain
     /\ \/ l \in LatestOf(docs[l].object)
        \/ VersionsOf(docs[l].object) = {}}}

ListAffected(r) ==
  /\ req[r].phase = "emit" /\ req[r].walk = "list"
  /\ Goes(r, [req[r] EXCEPT !.walk = "save", !.queue = Affected(req[r].chain)])
  /\ UNCHANGED <<configs, known, rules, docs, mode, pass, bounds, last, touched, spoilt>>

\* The document is made with the model that all types share, which has no place for
\* modified, x_mitre_modified_by_ref and the fields of the type, and does not say which
\* model of a type the document is of, so that they are left out.
Renamed(d, q) ==
  [d EXCEPT !.author = IF d.author \in q.chain THEN q.value ELSE d.author,
            !.editor = None, !.flaws = {}, !.whole = FALSE]

\* The unique index admits one version without a modified.
SaveAffected(r) ==
  LET q == req[r] IN
  /\ q.phase = "emit" /\ q.walk = "save"
  /\ \E d \in q.queue :
       /\ IF \E k \in Slots : docs[k].object = d.object /\ ~docs[k].whole
          THEN SetDocs(docs)
          ELSE SetDocs(Append(docs, Renamed(d, q)))
       /\ Goes(r, [q EXCEPT !.queue = @ \ {d}])
  /\ UNCHANGED <<configs, known, rules, mode, pass, bounds, last, spoilt>>

\* All listeners are done.
Finish(r) ==
  /\ req[r].phase = "emit"
  /\ ~req[r].wipe /\ req[r].make = {} /\ req[r].walk # "list" /\ req[r].queue = {}
  /\ Ends(r)
  /\ UNCHANGED <<configs, known, rules, docs, mode, pass, bounds, last, touched, spoilt>>

-----------------------------------------------------------------------------
(***************************************************************************)
(* The start of the process.                                               *)
(***************************************************************************)
Booting(state) == req' = [req EXCEPT ![Boot] = state]

\* retrieveOrganizationIdentity, retrieveAnonymousUserAccount
IdentityIsSet == Newest.identity \in known
AccountIsSet == Newest.account # None

\* checkForOrganizationIdentity: one that is missing is replaced by a placeholder.
CheckIdentity ==
  /\ mode = "identity" /\ req[Boot].phase = "idle"
  /\ IF IdentityIsSet
     THEN mode' = "account" /\ UNCHANGED <<known, req>>
     ELSE \E p \in Placeholders \ known :
            /\ known' = known \cup {p}
            /\ Booting(Setter("identity", p))
            /\ UNCHANGED mode
  /\ UNCHANGED <<configs, rules, docs, pass, bounds, last, touched, spoilt>>

\* checkForAnonymousUserAccount, when users are anonymous.
CheckAccount ==
  /\ mode = "account" /\ req[Boot].phase = "idle"
  /\ IF AccountIsSet
     THEN mode' = "static" /\ UNCHANGED req
     ELSE Booting(Setter("account", "account")) /\ UNCHANGED mode
  /\ UNCHANGED <<configs, known, rules, docs, pass, bounds, last, touched, spoilt>>

\* loadStaticRules: those that exist already, whoever made them, are passed over.
LoadStaticRules ==
  /\ mode = "static"
  /\ SetRules(rules \cup {Rule(s.field, s.type, "static") :
                s \in {s \in Static : ~\E x \in rules : x.field = s.field /\ x.type = s.type}})
  /\ mode' = "up"
  /\ UNCHANGED <<configs, known, docs, req, pass, bounds, last, spoilt>>

\* The process stops and starts again: what was in flight is lost.
Restart ==
  /\ bounds.stops < MaxStops
  /\ bounds' = [bounds EXCEPT !.stops = @ + 1]
  /\ spoilt' = IF \E r \in DOMAIN req : req[r].phase \in {"chain", "emit"}
               THEN spoilt \cup {"rules"} ELSE spoilt
  /\ req' = [r \in DOMAIN req |-> Idle]
  /\ pass' = NoPass
  /\ touched' = TRUE
  /\ mode' = "identity"
  /\ UNCHANGED <<configs, known, rules, docs, last>>

-----------------------------------------------------------------------------
(***************************************************************************)
(* Objects, rules and identities are written by other requests.            *)
(***************************************************************************)
\* create: the identity is read, the hooks run, then the object is validated.
BeginCreate(r) ==
  /\ Begins(r, "create")
  /\ \E o \in Objects, flaws \in SUBSET {ExternalId} :
       LET author == IF LatestOf(o) = {} THEN Newest.identity
                     ELSE docs[CHOOSE k \in LatestOf(o) : TRUE].author
       IN Goes(r, [Idle EXCEPT !.phase = "validate", !.op = "create",
                               !.doc = Document(o, author, Newest.identity, flaws)])
  /\ UNCHANGED <<configs, known, rules, docs, mode, pass, last, touched, spoilt>>

\* An object that does not pass is not stored.
Create(r) ==
  /\ req[r].phase = "validate"
  /\ Len(docs) < MaxDocs
  /\ IF Remaining(req[r].doc, rules) = {} THEN SetDocs(Append(docs, req[r].doc)) ELSE SetDocs(docs)
  /\ Ends(r)
  /\ UNCHANGED <<configs, known, rules, mode, pass, bounds, last, spoilt>>

\* composeForImport: an object that does not pass is stored with what was found.
Import(r) ==
  /\ Begins(r, "import")
  /\ Len(docs) < MaxDocs
  /\ \E o \in Objects, i \in Identities \ Placeholders, flaws \in SUBSET {ExternalId} :
       LET d == Document(o, i, i, flaws)
       IN SetDocs(Append(docs, [d EXCEPT !.verdict = Remaining(d, rules)]))
  /\ UNCHANGED <<configs, known, rules, req, mode, pass, last, spoilt>>

\* updateFull: the version is read, composed with what the request brings, validated
\* and saved in place.
BeginPut(r) ==
  /\ Begins(r, "put")
  /\ \E k \in Slots, flaws \in SUBSET {ExternalId} :
       /\ docs[k].whole
       /\ Goes(r, [Idle EXCEPT !.phase = "put", !.op = "put", !.slot = k,
                               !.doc = [docs[k] EXCEPT !.flaws = flaws]])
  /\ UNCHANGED <<configs, known, rules, docs, mode, pass, last, touched, spoilt>>

\* The errors that were stored are unset, whether or not the version read had any.
Put(r) ==
  LET q == req[r] IN
  /\ q.phase = "put"
  /\ IF Remaining(q.doc, rules) = {} /\ docs[q.slot] # Gap
     THEN SetDocs([docs EXCEPT ![q.slot] = [q.doc EXCEPT !.verdict = {}]])
     ELSE SetDocs(docs)
  /\ Ends(r)
  /\ UNCHANGED <<configs, known, rules, mode, pass, bounds, last, spoilt>>

DeleteVersion(r) ==
  /\ Begins(r, "delete")
  /\ \E k \in Slots : docs[k].whole /\ SetDocs([docs EXCEPT ![k] = Gap])
  /\ UNCHANGED <<configs, known, rules, req, mode, pass, last, spoilt>>

DeleteIdentity(r) ==
  /\ Begins(r, "forget")
  /\ \E i \in known \ {Mitre} : known' = known \ {i}
  /\ UNCHANGED <<configs, rules, docs, req, mode, pass, last, touched, spoilt>>

\* A rule of a user, for one type or all.
CreateRule(r) ==
  /\ Begins(r, "allow")
  /\ \E field \in {ModifiedBy, ExternalId}, type \in Types \cup {"all"} :
       SetRules(With(rules, Rule(field, type, "user")))
  /\ UNCHANGED <<configs, known, docs, req, mode, pass, last, spoilt>>

\* deleteById, of any rule.
DeleteRule(r) ==
  /\ Begins(r, "disallow")
  /\ \E rule \in rules :
       /\ SetRules(rules \ {rule})
       /\ spoilt' = IF rule.type \in Types THEN spoilt \cup {"rules"} ELSE spoilt
  /\ UNCHANGED <<configs, known, docs, req, mode, pass, last>>

-----------------------------------------------------------------------------
(***************************************************************************)
(* validateObjects, every night: the rules are loaded once, then the       *)
(* versions are read one by one, and the verdict written back.             *)
(***************************************************************************)
StartPass ==
  /\ mode = "up" /\ pass.phase = "idle"
  /\ bounds.passes < MaxPasses
  /\ bounds' = [bounds EXCEPT !.passes = @ + 1]
  /\ pass' = [NoPass EXCEPT !.phase = "read", !.rules = rules, !.at = 1]
  /\ touched' = FALSE
  /\ UNCHANGED <<configs, known, rules, docs, req, mode, last, spoilt>>

\* The rules could not be loaded: the pass goes on without.
StartPassBlind ==
  /\ mode = "up" /\ pass.phase = "idle"
  /\ bounds.passes < MaxPasses /\ bounds.stops < MaxStops
  /\ bounds' = [bounds EXCEPT !.passes = @ + 1, !.stops = @ + 1]
  /\ pass' = [NoPass EXCEPT !.phase = "read", !.at = 1]
  /\ touched' = TRUE
  /\ UNCHANGED <<configs, known, rules, docs, req, mode, last, spoilt>>

ReadNext ==
  /\ pass.phase = "read"
  /\ pass' = IF pass.at > Len(docs) THEN NoPass
             ELSE IF docs[pass.at] = Gap THEN [pass EXCEPT !.at = @ + 1]
             ELSE [pass EXCEPT !.phase = "write", !.doc = docs[pass.at]]
  /\ UNCHANGED <<configs, known, rules, docs, req, mode, bounds, last, touched, spoilt>>

\* A slip to rule out: a version without errors is passed over.
Verdict_NeverCleared(stored, found) ==
  IF found = {} \/ Cardinality(stored) = Cardinality(found) THEN stored ELSE found

\* What to store, given what was stored and what was found: errors are only replaced by
\* another number of errors.
Verdict(stored, found) ==
  IF Cardinality(stored) = Cardinality(found) THEN stored ELSE found

\* updateOne writes the verdict to whatever is stored there by now.
WriteVerdict ==
  LET found == Remaining(pass.doc, pass.rules)
      verdict == Verdict(pass.doc.verdict, found)
  IN /\ pass.phase = "write"
     /\ docs' = IF verdict # pass.doc.verdict /\ docs[pass.at] # Gap
                THEN [docs EXCEPT ![pass.at].verdict = verdict]
                ELSE docs
     /\ pass' = [pass EXCEPT !.phase = "read", !.at = @ + 1, !.doc = Gap]
     /\ UNCHANGED <<configs, known, rules, req, mode, bounds, last, touched, spoilt>>

-----------------------------------------------------------------------------
Next ==
  \/ \E r \in Requests \cup {Boot} :
       \/ ReadConfig(r) \/ SaveConfig(r) \/ Emit(r)
       \/ WipeRules(r) \/ MakeRule(r) \/ MakeRulesFails(r)
       \/ ListAffected(r) \/ SaveAffected(r) \/ Finish(r)
  \/ \E r \in Requests :
       \/ BeginSet(r) \/ BeginCreate(r) \/ Create(r) \/ Import(r) \/ BeginPut(r) \/ Put(r)
       \/ DeleteVersion(r) \/ DeleteIdentity(r) \/ CreateRule(r) \/ DeleteRule(r)
  \/ CheckIdentity \/ CheckAccount \/ LoadStaticRules \/ Restart
  \/ StartPass \/ StartPassBlind \/ ReadNext \/ WriteVerdict

Spec == Init /\ [][Next]_vars

-----------------------------------------------------------------------------
(***************************************************************************)
(* Properties.                                                             *)
(***************************************************************************)
Quiet == mode = "up" /\ \A r \in DOMAIN req : req[r].phase = "idle"

\* A change of one setting leaves the others as they were set last, and a restart all of
\* them, although every change stores all settings anew; unless a change was stored over
\* one it had not read.
SettingsKept ==
  "overtaken" \notin spoilt => \A s \in Settings : Newest[s] = last[s]

HasRule(field, type) == \E x \in rules : x.field = field /\ x.type = type

\* Once the changes of settings are taken up, whatever order their listeners took, every
\* type has its rule for objects of another organisation than MITRE, and has one for
\* prefixed ATT&CK IDs exactly if the namespace has a prefix, apart from rules of users
\* and of the file; unless a listener was cut short, a rule deleted, or two changes of
\* the namespace crossed.
RulesFollowSettings ==
  Quiet /\ "rules" \notin spoilt =>
    /\ \A t \in Types : HasRule(ModifiedBy, t)
    /\ spoilt = {} =>
         IF Newest.namespace # None
         THEN \A t \in Types : HasRule(ExternalId, t)
         ELSE ~\E x \in rules : x.reason = "namespace"

\* After a pass during which neither rules nor objects changed, a version bears a verdict
\* exactly if the data model finds errors in it that no rule allows, whatever the imports,
\* updates, propagations and earlier passes left there.
PassSettles ==
  pass.phase = "idle" /\ ~touched =>
    \A k \in Slots : docs[k].verdict = {} <=> Remaining(docs[k], rules) = {}

\* attack-objects-service.js:206: "creating new versions of affected objects": when a
\* change of identity is taken up, the newest version of no object names an identity
\* the organisation had before as its author.
AuthorsFollow ==
  Quiet /\ spoilt = {} =>
    \A o \in Objects : \A k \in LatestOf(o) :
      docs[k].author \in Chain => docs[k].author = Newest.identity

=============================================================================
