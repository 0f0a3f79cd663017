--------------------- MODULE SystemConfigurationProofs ---------------------
(***************************************************************************)
(* Proofs about SystemConfiguration, for any number of requests, any       *)
(* objects and any bounds: settings are kept, the rules follow them, and   *)
(* an undisturbed pass of the validation leaves the right verdicts.        *)
(***************************************************************************)
EXTENDS SystemConfiguration, FiniteSetTheorems, SequenceTheorems, TLAPS

-----------------------------------------------------------------------------
(***************************************************************************)
(* Types.                                                                  *)
(***************************************************************************)
Given == Identities \cup {None, "prefix", "marking", "account"}

Config == [Settings -> Given]

ErrorNames == {"shape", ModifiedBy, ExternalId}

Documents ==
  [object: Objects \cup {None}, author: Given, editor: Given, flaws: SUBSET {ExternalId},
   verdict: SUBSET ErrorNames, whole: BOOLEAN]

RuleSet ==
  [field: {ModifiedBy, ExternalId}, type: Types \cup {"all"},
   reason: {"identity", "namespace", "static", "user"}]

Request ==
  [phase: {"idle", "read", "save", "chain", "emit", "validate", "put"},
   op: Settings \cup {None, "create", "put"},
   value: Given, config: Config, chain: SUBSET Given, wipe: BOOLEAN, make: SUBSET RuleSet,
   walk: {"done", "list", "save"}, queue: SUBSET Documents, doc: Documents, slot: Nat]

PassSet == [phase: {"idle", "read", "write"}, rules: SUBSET RuleSet, at: Nat, doc: Documents]

Bounds == [changes: Nat, passes: Nat, stops: Nat]

Askers == Requests \cup {Boot}

TypeOK ==
  /\ configs \in Seq(Config)
  /\ known \subseteq Identities
  /\ rules \subseteq RuleSet
  /\ docs \in Seq(Documents)
  /\ req \in [Askers -> Request]
  /\ mode \in {"identity", "account", "static", "up"}
  /\ pass \in PassSet
  /\ pass.phase # "idle" => pass.at > 0
  /\ bounds \in Bounds
  /\ last \in Config
  /\ touched \in BOOLEAN
  /\ spoilt \subseteq {"overtaken", "crossed", "rules"}

-----------------------------------------------------------------------------
(***************************************************************************)
(* The inductive invariants.                                               *)
(***************************************************************************)
\* What was set last is what is configured, unless a change was stored over another.
Kept == "overtaken" \notin spoilt => Newest = last

\* A change of a setting is for a setting, the first of them for the identity, and its
\* listeners make the rules of its reason.
Asking(q) ==
  /\ q.phase \in {"read", "save", "chain", "emit"} => q.op \in Settings
  /\ q.phase = "save" /\ configs = <<>> => q.op = "identity"
  /\ q.phase \in {"chain", "emit"} => Announced(q.op)
  /\ q.phase = "emit" => q.make \subseteq Keys(q)
  /\ q.phase = "emit" /\ q.wipe => q.make = Keys(q)

Asked ==
  /\ \A r \in Askers : Asking(req[r])
  /\ req[Boot].phase # "idle" => req[Boot].op \in {"identity", "account"}
  /\ mode # "identity" => configs # <<>>

\* Who made a rule tells what it is for.
RulesNamed ==
  \A x \in rules :
    /\ x.reason = "identity" => x.field = ModifiedBy
    /\ x.reason = "namespace" => x.field = ExternalId

FieldOf(op) == IF op = "identity" THEN ModifiedBy ELSE ExternalId

\* A request whose listeners have not yet removed, or not yet made, the rules of op.
Wiping(r, op) == req[r].op = op /\ (req[r].phase = "chain" \/ (req[r].phase = "emit" /\ req[r].wipe))

Owing(r, t, op) ==
  Wiping(r, op) \/ (req[r].phase = "emit" /\ Rule(FieldOf(op), t, op) \in req[r].make)

\* The type has its rule, or a request will make it.
Due(t, op) == HasRule(FieldOf(op), t) \/ \E r \in Askers : Owing(r, t, op)

\* Once there is a configuration, there is an identity to make rules for.
IdentityDue == configs # <<>> /\ "rules" \notin spoilt => \A t \in Types : Due(t, "identity")

Announcing(r) == req[r].op = "namespace" /\ req[r].phase \in {"chain", "emit"}

\* One change of the namespace is taken up at a time, and it is the newest.
OneNamespace ==
  /\ \A r, p \in Askers : Announcing(r) /\ Announcing(p) => r = p
  /\ \A r \in Askers : Announcing(r) => req[r].value = Newest.namespace

NamespaceDue ==
  IF Newest.namespace # None
  THEN \A t \in Types : Due(t, "namespace")
  ELSE (\E x \in rules : x.reason = "namespace") => \E r \in Askers : Wiping(r, "namespace")

NamespaceFollows == spoilt = {} => OneNamespace /\ NamespaceDue

\* A version bears a verdict exactly if it has errors no rule allows.
Settled(k) == docs[k].verdict = {} <=> Remaining(docs[k], rules) = {}

PassInv ==
  /\ ~touched =>
       /\ pass.phase = "idle" => \A k \in Slots : Settled(k)
       /\ pass.phase # "idle" => pass.rules = rules /\ \A k \in Slots : k < pass.at => Settled(k)
       /\ pass.phase = "write" => pass.at \in 1 .. Len(docs) /\ pass.doc = docs[pass.at]

IInv ==
  /\ TypeOK
  /\ Asked
  /\ Kept
  /\ RulesNamed
  /\ IdentityDue
  /\ NamespaceFollows
  /\ PassInv

-----------------------------------------------------------------------------
(***************************************************************************)
(* The actions, by what they are about.                                    *)
(***************************************************************************)
Setting(r) ==
  \/ ReadConfig(r) \/ SaveConfig(r) \/ Emit(r) \/ WipeRules(r) \/ MakeRule(r)
  \/ MakeRulesFails(r) \/ ListAffected(r) \/ SaveAffected(r) \/ Finish(r)

Writing(r) ==
  \/ BeginSet(r) \/ BeginCreate(r) \/ Create(r) \/ Import(r) \/ BeginPut(r) \/ Put(r)
  \/ DeleteVersion(r) \/ DeleteIdentity(r) \/ CreateRule(r) \/ DeleteRule(r)

Running ==
  \/ CheckIdentity \/ CheckAccount \/ LoadStaticRules \/ Restart
  \/ StartPass \/ StartPassBlind \/ ReadNext \/ WriteVerdict

LEMMA NextCases ==
  Next <=> (\E r \in Askers : Setting(r)) \/ (\E r \in Requests : Writing(r)) \/ Running
  BY DEF Next, Askers, Setting, Writing, Running

-----------------------------------------------------------------------------
(***************************************************************************)
(* What the operators of the model return.                                 *)
(***************************************************************************)
LEMMA IdleTyped == Idle \in Request /\ Idle.phase = "idle" /\ Gap \in Documents /\ NoConfig \in Config
  BY DEF Idle, Request, Gap, Document, Documents, NoConfig, Config, Given, ErrorNames

LEMMA NewestTyped == ASSUME TypeOK PROVE Newest \in Config
  BY IdleTyped, ElementOfSeq, EmptySeq DEF TypeOK, Newest

LEMMA SetterTyped ==
  ASSUME NEW op \in Settings, NEW value \in Given
  PROVE  Setter(op, value) \in Request /\ Setter(op, value).phase = "read"
         /\ Setter(op, value).op = op /\ Setter(op, value).value = value
  BY IdleTyped DEF Setter, Idle, Request, Settings

LEMMA ValuesTyped ==
  ASSUME TypeOK, NEW op \in {"identity", "namespace", "markings"}
  PROVE  Values(op) \subseteq Given
  BY DEF TypeOK, Values, Given

LEMMA OverriddenTyped ==
  ASSUME NEW c \in Config, NEW op \in Settings, NEW value \in Given
  PROVE  /\ Overridden(c, op, value) \in Config
         /\ Overridden(c, op, value)[op] = value
         /\ \A s \in Settings \ {op} : Overridden(c, op, value)[s] = c[s]
  BY DEF Overridden, Config

LEMMA KeysTyped ==
  ASSUME NEW q \in Request
  PROVE  /\ Keys(q) \subseteq RuleSet
         /\ \A x \in Keys(q) : x.reason = q.op
         /\ \A x \in Keys(q) : x.field = IF q.op = "identity" THEN ModifiedBy ELSE ExternalId
  BY DEF Keys, Rule, RuleSet, Request, ModifiedBy, ExternalId

LEMMA RemainingTyped ==
  ASSUME NEW d \in Documents, NEW rs
  PROVE  Remaining(d, rs) \subseteq ErrorNames
  BY DEF Remaining, Errors, Documents, ErrorNames

LEMMA RenamedTyped ==
  ASSUME NEW d \in Documents, NEW q \in Request
  PROVE  Renamed(d, q) \in Documents
  BY DEF Renamed, Documents, Request, Given

LEMMA GoesTyped ==
  ASSUME TypeOK, NEW r \in Askers, NEW q \in Request, Goes(r, q)
  PROVE  req' \in [Askers -> Request] /\ req'[r] = q /\ \A p \in Askers \ {r} : req'[p] = req[p]
  BY DEF TypeOK, Goes

LEMMA EndsTyped ==
  ASSUME TypeOK, NEW r \in Askers, Ends(r)
  PROVE  req' \in [Askers -> Request] /\ req'[r] = Idle /\ \A p \in Askers \ {r} : req'[p] = req[p]
  BY IdleTyped, GoesTyped DEF Ends

LEMMA BoundsTyped ==
  ASSUME NEW b \in Bounds
  PROVE  /\ [b EXCEPT !.changes = @ + 1] \in Bounds
         /\ [b EXCEPT !.stops = @ + 1] \in Bounds
         /\ [b EXCEPT !.passes = @ + 1] \in Bounds
         /\ [b EXCEPT !.passes = @ + 1, !.stops = @ + 1] \in Bounds
  <1>1. b.changes \in Nat /\ b.passes \in Nat /\ b.stops \in Nat
    BY DEF Bounds
  <1>2. /\ [b EXCEPT !.changes = @ + 1] = [b EXCEPT !.changes = b.changes + 1]
        /\ [b EXCEPT !.stops = @ + 1] = [b EXCEPT !.stops = b.stops + 1]
        /\ [b EXCEPT !.passes = @ + 1] = [b EXCEPT !.passes = b.passes + 1]
    OBVIOUS
  <1>3. [b EXCEPT !.passes = @ + 1, !.stops = @ + 1]
          = [b EXCEPT !.passes = b.passes + 1, !.stops = b.stops + 1]
    BY DEF Bounds
  <1>4. b.changes + 1 \in Nat /\ b.passes + 1 \in Nat /\ b.stops + 1 \in Nat
    BY <1>1
  <1>5. \A n, k \in Nat : /\ [b EXCEPT !.changes = n] \in Bounds
                          /\ [b EXCEPT !.stops = n] \in Bounds
                          /\ [b EXCEPT !.passes = n] \in Bounds
                          /\ [b EXCEPT !.passes = n, !.stops = k] \in Bounds
    BY DEF Bounds
  <1> QED
    BY <1>2, <1>3, <1>4, <1>5

LEMMA NoPassTyped == NoPass \in PassSet /\ NoPass.phase = "idle"
  BY IdleTyped DEF NoPass, PassSet

LEMMA StartTyped ==
  ASSUME NEW rs \in SUBSET RuleSet
  PROVE  /\ [NoPass EXCEPT !.phase = "read", !.rules = rs, !.at = 1] \in PassSet
         /\ [NoPass EXCEPT !.phase = "read", !.rules = rs, !.at = 1].at = 1
         /\ [NoPass EXCEPT !.phase = "read", !.rules = rs, !.at = 1].phase = "read"
         /\ [NoPass EXCEPT !.phase = "read", !.rules = rs, !.at = 1].rules = rs
         /\ [NoPass EXCEPT !.phase = "read", !.at = 1] \in PassSet
         /\ [NoPass EXCEPT !.phase = "read", !.at = 1].at = 1
  BY IdleTyped DEF NoPass, PassSet

LEMMA AppendTyped ==
  ASSUME TypeOK, NEW d \in Documents
  PROVE  Append(docs, d) \in Seq(Documents)
  BY AppendProperties DEF TypeOK

LEMMA ReplacedOutside ==
  ASSUME NEW S, NEW s \in Seq(S), NEW k, k \notin DOMAIN s, NEW e
  PROVE  [s EXCEPT ![k] = e] = s
  <1>1. s \in [1 .. Len(s) -> S] /\ DOMAIN s = 1 .. Len(s)
    BY LenProperties
  <1> QED
    BY <1>1

LEMMA ReplacedTyped ==
  ASSUME TypeOK, NEW k \in DOMAIN docs, NEW d \in Documents
  PROVE  [docs EXCEPT ![k] = d] \in Seq(Documents)
  BY ExceptSeq, LenProperties DEF TypeOK

-----------------------------------------------------------------------------
(***************************************************************************)
(* Types are kept.                                                         *)
(***************************************************************************)
LEMMA InitTyped == Init => TypeOK
  <1> SUFFICES ASSUME Init PROVE TypeOK
    OBVIOUS
  <1>1. configs \in Seq(Config) /\ last \in Config
    BY IdleTyped, EmptySeq DEF Init
  <1>2. docs \in Seq(Documents)
    BY MigrationAssumption, SeqMonotonic DEF Init, Documents, Given, ErrorNames
  <1>3. /\ req \in [Askers -> Request] /\ NoPass.phase = "idle"
        /\ NoPass \in PassSet
    BY IdleTyped, NoPassTyped DEF Init, Askers
  <1> QED
    BY <1>1, <1>2, <1>3, IdentityAssumption DEF Init, TypeOK, Bounds

LEMMA SettingTyped ==
  ASSUME TypeOK, NEW r \in Askers, Asking(req[r]), Setting(r)
  PROVE  TypeOK'
  <1> DEFINE q == req[r]
  <1>1. q \in Request /\ q.config \in Config /\ Newest \in Config
    BY NewestTyped DEF TypeOK, Request
  <1>2. CASE ReadConfig(r)
    <2>1. [q EXCEPT !.phase = "save", !.config = Newest] \in Request
      BY <1>1 DEF Request
    <2>2. req' \in [Askers -> Request]
      BY <1>2, <2>1, GoesTyped, EndsTyped DEF ReadConfig
    <2> QED
      BY <1>2, <2>2 DEF ReadConfig, TypeOK
  <1>3. CASE SaveConfig(r)
    <2>1. q.op \in Settings /\ q.value \in Given
      BY <1>1, <1>3 DEF Asking, SaveConfig, Request
    <2>2. configs' \in Seq(Config)
      BY <1>1, <1>3, <2>1, OverriddenTyped, AppendProperties DEF SaveConfig, TypeOK
    <2>3. last' \in Config
      BY <1>3, <2>1 DEF SaveConfig, TypeOK, Config
    <2>4. [q EXCEPT !.phase = "chain"] \in Request
      BY <1>1 DEF Request
    <2>5. req' \in [Askers -> Request]
      BY <1>3, <2>4, GoesTyped, EndsTyped DEF SaveConfig
    <2> QED
      BY <1>3, <2>2, <2>3, <2>5 DEF SaveConfig, Overtakes, TypeOK
  <1>4. CASE Emit(r)
    <2>1. Chain \subseteq Given
      BY ElementOfSeq, LenProperties DEF Chain, TypeOK, Config, Settings
    <2>2. Keys(q) \subseteq RuleSet
      BY <1>1, KeysTyped
    <2>3. [q EXCEPT !.phase = "emit", !.chain = Chain, !.wipe = TRUE, !.make = Keys(q),
             !.walk = IF q.op = "identity" /\ r # Boot /\ q.config.identity # None
                      THEN "list" ELSE "done"] \in Request
      BY <1>1, <2>1, <2>2 DEF Request
    <2>4. req' \in [Askers -> Request]
      BY <1>4, <2>3, GoesTyped DEF Emit
    <2> QED
      BY <1>4, <2>4 DEF Emit, TypeOK
  <1>5. CASE WipeRules(r)
    <2>1. [q EXCEPT !.wipe = FALSE] \in Request
      BY <1>1 DEF Request
    <2>2. req' \in [Askers -> Request]
      BY <1>5, <2>1, GoesTyped DEF WipeRules
    <2> QED
      BY <1>5, <2>2 DEF WipeRules, TypeOK, SetRules, Wiped
  <1>6. CASE MakeRule(r)
    <2> DEFINE rule == CHOOSE x \in q.make : TRUE
    <2>1. rule \in q.make /\ rule \in RuleSet
      BY <1>1, <1>6 DEF MakeRule, Request
    <2>2. [q EXCEPT !.make = @ \ {rule}] \in Request
      BY <1>1 DEF Request
    <2>3. req' \in [Askers -> Request]
      BY <1>6, <2>2, GoesTyped DEF MakeRule
    <2> QED
      BY <1>6, <2>1, <2>3 DEF MakeRule, TypeOK, SetRules, With
  <1>7. CASE MakeRulesFails(r)
    <2>1. [q EXCEPT !.wipe = FALSE, !.make = {}] \in Request
      BY <1>1 DEF Request
    <2>2. req' \in [Askers -> Request]
      BY <1>7, <2>1, GoesTyped DEF MakeRulesFails
    <2>3. bounds' \in Bounds
      BY <1>7, BoundsTyped DEF MakeRulesFails, TypeOK
    <2> QED
      BY <1>7, <2>2, <2>3 DEF MakeRulesFails, TypeOK
  <1>8. CASE ListAffected(r)
    <2>1. Affected(q.chain) \subseteq Documents
      BY ElementOfSeq DEF Affected, Slots, TypeOK
    <2>2. [q EXCEPT !.walk = "save", !.queue = Affected(q.chain)] \in Request
      BY <1>1, <2>1 DEF Request
    <2>3. req' \in [Askers -> Request]
      BY <1>8, <2>2, GoesTyped DEF ListAffected
    <2> QED
      BY <1>8, <2>3 DEF ListAffected, TypeOK
  <1>9. CASE SaveAffected(r)
    <2>1. PICK d \in q.queue :
            /\ docs' = docs \/ docs' = Append(docs, Renamed(d, q))
            /\ touched' \in BOOLEAN
            /\ Goes(r, [q EXCEPT !.queue = @ \ {d}])
      BY <1>9 DEF SaveAffected, SetDocs, TypeOK
    <2>2. d \in Documents
      BY <1>1 DEF Request
    <2>3. docs' \in Seq(Documents)
      BY <1>1, <2>1, <2>2, RenamedTyped, AppendTyped DEF TypeOK
    <2>4. [q EXCEPT !.queue = @ \ {d}] \in Request
      BY <1>1 DEF Request
    <2>5. req' \in [Askers -> Request]
      BY <2>1, <2>4, GoesTyped
    <2> QED
      BY <1>9, <2>1, <2>3, <2>5 DEF SaveAffected, TypeOK
  <1>10. CASE Finish(r)
    BY <1>10, EndsTyped DEF Finish, TypeOK
  <1> QED
    BY <1>2, <1>3, <1>4, <1>5, <1>6, <1>7, <1>8, <1>9, <1>10 DEF Setting

LEMMA BeginsTyped ==
  ASSUME TypeOK, NEW r, NEW op, Begins(r, op)
  PROVE  bounds' \in Bounds /\ mode = "up" /\ req[r].phase = "idle"
  BY BoundsTyped DEF TypeOK, Begins

LEMMA DocumentTyped ==
  ASSUME NEW o \in Objects, NEW a \in Given, NEW e \in Given, NEW flaws \in SUBSET {ExternalId}
  PROVE  Document(o, a, e, flaws) \in Documents
  BY DEF Document, Documents

LEMMA WritingTyped ==
  ASSUME TypeOK, NEW r \in Requests, Writing(r)
  PROVE  TypeOK'
  <1> DEFINE q == req[r]
  <1>1. r \in Askers /\ q \in Request /\ Newest \in Config
    BY NewestTyped DEF TypeOK, Askers
  <1>2. CASE BeginSet(r)
    <2>1. PICK op \in {"identity", "namespace", "markings"} :
            \E value \in Values(op) : Begins(r, op) /\ Goes(r, Setter(op, value))
      BY <1>2 DEF BeginSet
    <2>2. PICK value \in Values(op) : Begins(r, op) /\ Goes(r, Setter(op, value))
      BY <2>1
    <2>3. Setter(op, value) \in Request
      BY <2>2, ValuesTyped, SetterTyped DEF Settings
    <2>4. req' \in [Askers -> Request]
      BY <1>1, <2>2, <2>3, GoesTyped
    <2> QED
      BY <1>2, <2>2, <2>4, BeginsTyped DEF BeginSet, TypeOK
  <1>3. CASE BeginCreate(r)
    <2>1. PICK o \in Objects, flaws \in SUBSET {ExternalId} :
            Goes(r, [Idle EXCEPT !.phase = "validate", !.op = "create",
                       !.doc = Document(o, IF LatestOf(o) = {} THEN Newest.identity
                                           ELSE docs[CHOOSE k \in LatestOf(o) : TRUE].author,
                                        Newest.identity, flaws)])
      BY <1>3 DEF BeginCreate
    <2> DEFINE author == IF LatestOf(o) = {} THEN Newest.identity
                         ELSE docs[CHOOSE k \in LatestOf(o) : TRUE].author
    <2>2. Newest.identity \in Given
      BY <1>1 DEF Config, Settings
    <2>3. \A k \in LatestOf(o) : docs[k].author \in Given
      <3>1. \A k \in LatestOf(o) : k \in 1 .. Len(docs)
        BY DEF LatestOf, VersionsOf, Slots
      <3>2. \A k \in 1 .. Len(docs) : docs[k] \in Documents
        BY ElementOfSeq DEF TypeOK
      <3> QED
        BY <3>1, <3>2 DEF Documents
    <2>30. author \in Given
      <3>1. CASE LatestOf(o) = {}
        BY <2>2, <3>1
      <3>2. CASE LatestOf(o) # {}
        BY <2>3, <3>2
      <3> QED
        BY <3>1, <3>2
    <2>4. Document(o, author, Newest.identity, flaws) \in Documents
      BY <2>2, <2>30, DocumentTyped
    <2>5. [Idle EXCEPT !.phase = "validate", !.op = "create",
             !.doc = Document(o, author, Newest.identity, flaws)] \in Request
      BY <2>4, IdleTyped DEF Request
    <2>6. req' \in [Askers -> Request]
      BY <1>1, <2>1, <2>5, GoesTyped
    <2> QED
      BY <1>3, <2>6, BeginsTyped DEF BeginCreate, TypeOK
  <1>4. CASE Create(r)
    <2>1. q.doc \in Documents
      BY <1>1 DEF Request
    <2>2. docs' \in Seq(Documents) /\ touched' \in BOOLEAN
      BY <1>4, <2>1, AppendTyped DEF Create, SetDocs, TypeOK
    <2> QED
      BY <1>1, <1>4, <2>2, EndsTyped DEF Create, TypeOK
  <1>5. CASE Import(r)
    <2>1. PICK o \in Objects, i \in Identities, flaws \in SUBSET {ExternalId} :
            SetDocs(Append(docs, [Document(o, i, i, flaws) EXCEPT
                                    !.verdict = Remaining(Document(o, i, i, flaws), rules)]))
      BY <1>5 DEF Import
    <2> DEFINE d == Document(o, i, i, flaws)
    <2>2. d \in Documents
      BY DocumentTyped DEF Given
    <2>3. [d EXCEPT !.verdict = Remaining(d, rules)] \in Documents
      BY <2>2, RemainingTyped DEF Documents
    <2>4. docs' \in Seq(Documents) /\ touched' \in BOOLEAN
      BY <2>1, <2>3, AppendTyped DEF SetDocs, TypeOK
    <2> QED
      BY <1>5, <2>4, BeginsTyped DEF Import, TypeOK
  <1>6. CASE BeginPut(r)
    <2>1. PICK k \in Slots, flaws \in SUBSET {ExternalId} :
            Goes(r, [Idle EXCEPT !.phase = "put", !.op = "put", !.slot = k,
                                 !.doc = [docs[k] EXCEPT !.flaws = flaws]])
      BY <1>6 DEF BeginPut
    <2>2. k \in Nat /\ docs[k] \in Documents
      BY ElementOfSeq, LenProperties DEF Slots, TypeOK
    <2>3. [docs[k] EXCEPT !.flaws = flaws] \in Documents
      BY <2>2 DEF Documents
    <2>4. [Idle EXCEPT !.phase = "put", !.op = "put", !.slot = k,
             !.doc = [docs[k] EXCEPT !.flaws = flaws]] \in Request
      BY <2>2, <2>3, IdleTyped DEF Request
    <2>5. req' \in [Askers -> Request]
      BY <1>1, <2>1, <2>4, GoesTyped
    <2> QED
      BY <1>6, <2>5, BeginsTyped DEF BeginPut, TypeOK
  <1>7. CASE Put(r)
    <2> DEFINE d == [q.doc EXCEPT !.verdict = {}]
    <2>1. ASSUME docs' = [docs EXCEPT ![q.slot] = d]
          PROVE  docs' \in Seq(Documents)
      <3>1. CASE q.slot \in DOMAIN docs
        <4>1. docs[q.slot] \in Documents /\ q.doc \in Documents
          BY <1>1, <3>1, ElementOfSeq, LenProperties DEF TypeOK, Request
        <4>2. d \in Documents
          BY <4>1 DEF Documents
        <4> QED
          BY <2>1, <3>1, <4>2, ReplacedTyped
      <3>2. CASE q.slot \notin DOMAIN docs
        <4> HIDE DEF d
        <4>1. [docs EXCEPT ![q.slot] = d] = docs
          BY <3>2, ReplacedOutside DEF TypeOK
        <4> QED
          BY <2>1, <4>1 DEF TypeOK
      <3> QED
        BY <3>1, <3>2
    <2>2. docs' \in Seq(Documents) /\ touched' \in BOOLEAN
      BY <1>7, <2>1 DEF Put, SetDocs, TypeOK
    <2> QED
      BY <1>1, <1>7, <2>2, EndsTyped DEF Put, TypeOK
  <1>8. CASE DeleteVersion(r)
    <2>1. docs' \in Seq(Documents) /\ touched' \in BOOLEAN
      BY <1>8, IdleTyped, ReplacedTyped, LenProperties DEF DeleteVersion, SetDocs, Slots, TypeOK
    <2> QED
      BY <1>8, <2>1, BeginsTyped DEF DeleteVersion, TypeOK
  <1>9. CASE DeleteIdentity(r)
    BY <1>9, BeginsTyped DEF DeleteIdentity, TypeOK
  <1>10. CASE CreateRule(r)
    <2>1. rules' \subseteq RuleSet /\ touched' \in BOOLEAN
      BY <1>10 DEF CreateRule, SetRules, With, Rule, RuleSet, TypeOK
    <2> QED
      BY <1>10, <2>1, BeginsTyped DEF CreateRule, TypeOK
  <1>11. CASE DeleteRule(r)
    <2>1. rules' \subseteq RuleSet /\ touched' \in BOOLEAN /\ spoilt' \in {spoilt, spoilt \cup {"rules"}}
      BY <1>11 DEF DeleteRule, SetRules, TypeOK
    <2> QED
      BY <1>11, <2>1, BeginsTyped DEF DeleteRule, TypeOK
  <1> QED
    BY <1>2, <1>3, <1>4, <1>5, <1>6, <1>7, <1>8, <1>9, <1>10, <1>11 DEF Writing

LEMMA ProcessTyped ==
  ASSUME TypeOK, Running
  PROVE  TypeOK'
  <1>1. Boot \in Askers /\ NoPass \in PassSet /\ NoPass.phase = "idle"
    BY NoPassTyped DEF Askers
  <1>2. CASE CheckIdentity
    <2>1. CASE req' = req /\ known' = known
      BY <1>2, <2>1 DEF CheckIdentity, TypeOK
    <2>2. ASSUME NEW p \in Placeholders, known' = known \cup {p}, Booting(Setter("identity", p)), mode' = mode
          PROVE  TypeOK'
      <3>1. Setter("identity", p) \in Request
        BY IdentityAssumption, SetterTyped DEF Given, Settings
      <3>2. req' \in [Askers -> Request]
        BY <1>1, <2>2, <3>1 DEF Booting, TypeOK
      <3> QED
        BY <1>2, <2>2, <3>2, IdentityAssumption DEF CheckIdentity, TypeOK
    <2> QED
      BY <1>2, <2>1, <2>2 DEF CheckIdentity
  <1>3. CASE CheckAccount
    <2>1. Setter("account", "account") \in Request
      BY SetterTyped DEF Given, Settings
    <2>2. req' \in [Askers -> Request]
      BY <1>1, <1>3, <2>1 DEF CheckAccount, Booting, TypeOK
    <2> QED
      BY <1>3, <2>2 DEF CheckAccount, TypeOK
  <1>4. CASE LoadStaticRules
    <2>1. rules' \subseteq RuleSet /\ touched' \in BOOLEAN
      BY <1>4, StaticAssumption DEF LoadStaticRules, SetRules, Rule, RuleSet, TypeOK
    <2> QED
      BY <1>4, <2>1 DEF LoadStaticRules, TypeOK
  <1>5. CASE Restart
    <2>1. req' \in [Askers -> Request]
      BY <1>5, IdleTyped DEF Restart, TypeOK
    <2>2. bounds' \in Bounds
      BY <1>5, BoundsTyped DEF Restart, TypeOK
    <2> QED
      BY <1>1, <1>5, <2>1, <2>2 DEF Restart, TypeOK
  <1>6. CASE StartPass
    <2>1. bounds' \in Bounds
      BY <1>6, BoundsTyped DEF StartPass, TypeOK
    <2>2. pass' \in PassSet /\ pass'.at = 1
      BY <1>6, StartTyped DEF StartPass, TypeOK
    <2> QED
      <3>1. pass'.phase # "idle" => pass'.at > 0
        BY <2>2
      <3>2. touched' = FALSE /\ UNCHANGED <<configs, known, rules, docs, req, mode, last, spoilt>>
        BY <1>6 DEF StartPass
      <3> QED
        BY <2>1, <2>2, <3>1, <3>2 DEF TypeOK
  <1>7. CASE StartPassBlind
    <2>1. bounds' \in Bounds
      BY <1>7, BoundsTyped DEF StartPassBlind, TypeOK
    <2>2. pass' \in PassSet /\ pass'.at = 1
      BY <1>7, StartTyped DEF StartPassBlind, TypeOK
    <2> QED
      BY <1>7, <2>1, <2>2 DEF StartPassBlind, TypeOK
  <1>8. CASE ReadNext
    <2>1. pass.at \in Nat
      BY DEF TypeOK, PassSet
    <2>2. pass.at <= Len(docs) /\ pass.at > 0 => docs[pass.at] \in Documents
      BY <2>1, ElementOfSeq, LenProperties DEF TypeOK
    <2>3. pass \in PassSet /\ pass.at > 0
      BY <1>8 DEF ReadNext, TypeOK
    <2>4. CASE pass.at > Len(docs)
      BY <1>1, <1>8, <2>4 DEF ReadNext, TypeOK
    <2>5. CASE pass.at <= Len(docs) /\ docs[pass.at] = Gap
      <3>1. pass' = [pass EXCEPT !.at = pass.at + 1]
        BY <1>8, <2>1, <2>5, LenProperties DEF ReadNext, TypeOK
      <3>2. pass.at + 1 \in Nat /\ pass.at + 1 > 0
        BY <2>1
      <3>3. pass' \in PassSet /\ pass'.at > 0
        BY <2>3, <3>1, <3>2 DEF PassSet
      <3> QED
        BY <1>8, <3>3 DEF ReadNext, TypeOK
    <2>6. CASE pass.at <= Len(docs) /\ docs[pass.at] # Gap
      <3>1. pass' = [pass EXCEPT !.phase = "write", !.doc = docs[pass.at]]
        BY <1>8, <2>1, <2>6, LenProperties DEF ReadNext, TypeOK
      <3>2. pass' \in PassSet /\ pass'.at > 0
        BY <2>2, <2>3, <2>6, <3>1 DEF PassSet
      <3> QED
        BY <1>8, <3>2 DEF ReadNext, TypeOK
    <2> QED
      BY <2>1, <2>4, <2>5, <2>6, LenProperties DEF TypeOK
  <1>9. CASE WriteVerdict
    <2> DEFINE found == Remaining(pass.doc, pass.rules)
               verdict == Verdict(pass.doc.verdict, found)
    <2>1. verdict \subseteq ErrorNames
      BY RemainingTyped DEF Verdict, TypeOK, Documents, PassSet
    <2>2. docs' \in Seq(Documents)
      <3>1. CASE docs' = docs
        BY <3>1 DEF TypeOK
      <3>2. CASE docs' = [docs EXCEPT ![pass.at].verdict = verdict]
        <4>1. CASE pass.at \in DOMAIN docs
          <5>1. docs[pass.at] \in Documents
            BY <4>1, ElementOfSeq, LenProperties DEF TypeOK
          <5>2. [docs[pass.at] EXCEPT !.verdict = verdict] \in Documents
            BY <2>1, <5>1 DEF Documents
          <5> QED
            BY <3>2, <4>1, <5>2, ReplacedTyped
        <4>2. CASE pass.at \notin DOMAIN docs
          <5> DEFINE d == [docs[pass.at] EXCEPT !.verdict = verdict]
          <5>1. docs' = [docs EXCEPT ![pass.at] = d]
            BY <3>2
          <5> HIDE DEF d
          <5>2. [docs EXCEPT ![pass.at] = d] = docs
            BY <4>2, ReplacedOutside DEF TypeOK
          <5> QED
            BY <5>1, <5>2 DEF TypeOK
        <4> QED
          BY <4>1, <4>2
      <3> QED
        BY <1>9, <3>1, <3>2 DEF WriteVerdict
    <2>3. pass \in PassSet /\ pass.at > 0 /\ pass.at \in Nat
      BY <1>9 DEF WriteVerdict, TypeOK, PassSet
    <2>4. pass' = [pass EXCEPT !.phase = "read", !.at = pass.at + 1, !.doc = Gap]
      BY <1>9 DEF WriteVerdict
    <2>5. pass.at + 1 \in Nat /\ pass.at + 1 > 0
      BY <2>3
    <2>6. pass' \in PassSet /\ pass'.at > 0
      BY <2>3, <2>4, <2>5, IdleTyped DEF PassSet
    <2> QED
      BY <1>9, <2>2, <2>6 DEF WriteVerdict, TypeOK
  <1> QED
    BY <1>2, <1>3, <1>4, <1>5, <1>6, <1>7, <1>8, <1>9 DEF Running

LEMMA TypedStep ==
  ASSUME TypeOK, Asked, [Next]_vars
  PROVE  TypeOK'
  <1>1. CASE Next
    BY <1>1, NextCases, SettingTyped, WritingTyped, ProcessTyped DEF Asked
  <1>2. CASE UNCHANGED vars
    BY <1>2 DEF vars, TypeOK
  <1> QED
    BY <1>1, <1>2

-----------------------------------------------------------------------------
(***************************************************************************)
(* What requests are about.                                                *)
(***************************************************************************)
LEMMA KeysSame ==
  ASSUME NEW q, NEW n, n.op = q.op, n.value = q.value
  PROVE  Keys(n) = Keys(q)
  BY DEF Keys

LEMMA IdleAsking == ASSUME NEW n, n.phase \notin {"read", "save", "chain", "emit"} PROVE Asking(n)
  BY DEF Asking

\* One request goes on, for the same setting or a new one.
LEMMA AskedGoes ==
  ASSUME TypeOK, Asked, NEW r \in Askers, NEW n \in Request, Goes(r, n), Asking(n),
         r = Boot /\ n.phase # "idle" => n.op \in {"identity", "account"},
         UNCHANGED <<configs, mode>>
  PROVE  Asked'
  <1>1. req'[r] = n /\ \A p \in Askers \ {r} : req'[p] = req[p]
    BY GoesTyped
  <1>2. \A p \in Askers : Asking(req[p])'
    BY <1>1 DEF Asked, Asking
  <1>3. Boot \in Askers
    BY DEF Askers
  <1> QED
    BY <1>1, <1>2, <1>3 DEF Asked

LEMMA AskedEnds ==
  ASSUME TypeOK, Asked, NEW r \in Askers, Ends(r), UNCHANGED mode, configs # <<>> => configs' # <<>>
  PROVE  Asked'
  <1>1. req'[r] = Idle /\ \A p \in Askers \ {r} : req'[p] = req[p]
    BY EndsTyped
  <1>2. \A p \in Askers : Asking(req[p])'
    BY <1>1, IdleTyped DEF Asked, Asking
  <1>3. Boot \in Askers
    BY DEF Askers
  <1> QED
    BY <1>1, <1>2, <1>3, IdleTyped DEF Asked

LEMMA SettingAsked ==
  ASSUME TypeOK, Asked, NEW r \in Askers, Setting(r)
  PROVE  Asked'
  <1> DEFINE q == req[r]
  <1>1. q \in Request /\ Asking(q) /\ Newest \in Config
    BY NewestTyped DEF TypeOK, Asked
  <1>2. r = Boot /\ q.phase # "idle" => q.op \in {"identity", "account"}
    BY DEF Asked
  <1>3. CASE ReadConfig(r)
    <2> DEFINE n == [q EXCEPT !.phase = "save", !.config = Newest]
    <2>1. n \in Request /\ n.phase = "save" /\ n.op = q.op
      BY <1>1 DEF Request
    <2>2. CASE Ends(r)
      BY <1>3, <2>2, AskedEnds DEF ReadConfig
    <2>3. CASE Goes(r, n) /\ ~(configs = <<>> /\ q.op # "identity")
      <3>1. Asking(n) /\ (r = Boot /\ n.phase # "idle" => n.op \in {"identity", "account"})
        BY <1>1, <1>2, <1>3, <2>1, <2>3 DEF ReadConfig, Asking
      <3> HIDE DEF n
      <3> QED
        BY <1>3, <2>1, <2>3, <3>1, AskedGoes DEF ReadConfig
    <2> QED
      BY <1>3, <2>2, <2>3 DEF ReadConfig
  <1>4. CASE SaveConfig(r)
    <2>1. configs' # <<>>
      <3>1. Overridden(q.config, q.op, q.value) \in Config
        BY <1>1, <1>4, OverriddenTyped DEF SaveConfig, Asking, Request
      <3> QED
        BY <1>4, <3>1, AppendProperties DEF SaveConfig, TypeOK
    <2>2. CASE Ends(r)
      BY <1>4, <2>1, <2>2, AskedEnds DEF SaveConfig
    <2>3. CASE Announced(q.op) /\ Goes(r, [q EXCEPT !.phase = "chain"])
      <3>0. PICK n : n = [q EXCEPT !.phase = "chain"] /\ Goes(r, n)
        BY <2>3
      <3>1. n \in Request /\ n.phase = "chain" /\ n.op = q.op
        BY <1>1, <3>0 DEF Request
      <3>2. Asking(n)'
        BY <1>1, <1>4, <2>3, <3>1 DEF SaveConfig, Asking
      <3>3. req'[r] = n /\ \A p \in Askers \ {r} : req'[p] = req[p]
        BY <3>0, <3>1, GoesTyped
      <3>4. \A p \in Askers : Asking(req[p])'
        BY <2>1, <3>2, <3>3 DEF Asked, Asking
      <3>5. Boot \in Askers
        BY DEF Askers
      <3>6. (req[Boot].phase # "idle" => req[Boot].op \in {"identity", "account"})'
        <4>1. q.phase # "idle"
          BY <1>4 DEF SaveConfig
        <4>2. CASE r = Boot
          BY <1>2, <3>1, <3>3, <4>1, <4>2
        <4>3. CASE r # Boot
          BY <3>3, <3>5, <4>3 DEF Asked
        <4> QED
          BY <4>2, <4>3
      <3> QED
        BY <2>1, <3>4, <3>6 DEF Asked
    <2> QED
      BY <1>4, <2>2, <2>3 DEF SaveConfig
  <1>5. CASE Emit(r)
    <2>1. PICK n : /\ n = [q EXCEPT !.phase = "emit", !.chain = Chain, !.wipe = TRUE, !.make = Keys(q),
                             !.walk = IF q.op = "identity" /\ r # Boot /\ q.config.identity # None
                                      THEN "list" ELSE "done"]
                   /\ Goes(r, n)
      BY <1>5 DEF Emit
    <2>2. n.phase = "emit" /\ n.op = q.op /\ n.value = q.value /\ n.make = Keys(q)
      BY <1>1, <2>1 DEF Request
    <2>3. n \in Request
      <3>1. Chain \subseteq Given
        BY ElementOfSeq, LenProperties DEF Chain, TypeOK, Config, Settings
      <3>2. Keys(q) \subseteq RuleSet
        BY <1>1, KeysTyped
      <3> QED
        BY <1>1, <2>1, <3>1, <3>2 DEF Request
    <2>4. Keys(n) = Keys(q)
      BY <2>2, KeysSame
    <2>5. Asking(n)
      BY <1>1, <1>5, <2>2, <2>4 DEF Emit, Asking
    <2> QED
      BY <1>2, <1>5, <2>1, <2>2, <2>3, <2>5, AskedGoes DEF Emit
  <1>6. ASSUME NEW n \in Request, Goes(r, n), q.phase = "emit", n.phase = "emit", n.op = q.op,
               n.value = q.value, n.make \subseteq q.make, n.wipe => q.wipe /\ n.make = q.make,
               UNCHANGED <<configs, mode>>
        PROVE  Asked'
    <2>1. Keys(n) = Keys(q)
      BY <1>6, KeysSame
    <2>2. Asking(n)
      BY <1>1, <1>6, <2>1 DEF Asking
    <2> QED
      BY <1>2, <1>6, <2>2, AskedGoes
  <1>7. CASE WipeRules(r)
    <2> DEFINE n == [q EXCEPT !.wipe = FALSE]
    <2>1. n \in Request /\ n.phase = q.phase /\ n.op = q.op /\ n.value = q.value /\ n.make = q.make /\ ~n.wipe
      BY <1>1 DEF Request
    <2> HIDE DEF n
    <2> QED
      BY <1>6, <1>7, <2>1 DEF WipeRules, n
  <1>8. CASE MakeRule(r)
    <2> DEFINE n == [q EXCEPT !.make = @ \ {CHOOSE x \in q.make : TRUE}]
    <2>1. n \in Request /\ n.phase = q.phase /\ n.op = q.op /\ n.value = q.value
          /\ n.make \subseteq q.make /\ n.wipe = q.wipe
      BY <1>1 DEF Request
    <2>2. Goes(r, n)
      BY <1>8 DEF MakeRule
    <2> HIDE DEF n
    <2> QED
      BY <1>6, <1>8, <2>1, <2>2 DEF MakeRule
  <1>9. CASE MakeRulesFails(r)
    <2> DEFINE n == [q EXCEPT !.wipe = FALSE, !.make = {}]
    <2>1. n \in Request /\ n.phase = q.phase /\ n.op = q.op /\ n.value = q.value /\ n.make = {} /\ ~n.wipe
      BY <1>1 DEF Request
    <2>2. Goes(r, n)
      BY <1>9 DEF MakeRulesFails
    <2> HIDE DEF n
    <2> QED
      BY <1>6, <1>9, <2>1, <2>2 DEF MakeRulesFails
  <1>10. CASE ListAffected(r)
    <2> DEFINE n == [q EXCEPT !.walk = "save", !.queue = Affected(q.chain)]
    <2>1. Affected(q.chain) \subseteq Documents
      BY ElementOfSeq DEF Affected, Slots, TypeOK
    <2>2. n \in Request /\ n.phase = q.phase /\ n.op = q.op /\ n.value = q.value /\ n.make = q.make
          /\ n.wipe = q.wipe
      BY <1>1, <2>1 DEF Request
    <2>3. Goes(r, n)
      BY <1>10 DEF ListAffected
    <2> HIDE DEF n
    <2> QED
      BY <1>6, <1>10, <2>2, <2>3 DEF ListAffected
  <1>11. CASE SaveAffected(r)
    <2>1. PICK d \in q.queue : Goes(r, [q EXCEPT !.queue = @ \ {d}])
      BY <1>11 DEF SaveAffected
    <2> DEFINE n == [q EXCEPT !.queue = @ \ {d}]
    <2>2. n \in Request /\ n.phase = q.phase /\ n.op = q.op /\ n.value = q.value /\ n.make = q.make
          /\ n.wipe = q.wipe
      BY <1>1 DEF Request
    <2>3. Goes(r, n)
      BY <2>1
    <2> HIDE DEF n
    <2> QED
      BY <1>6, <1>11, <2>2, <2>3 DEF SaveAffected
  <1>12. CASE Finish(r)
    BY <1>12, AskedEnds DEF Finish
  <1> QED
    BY <1>3, <1>4, <1>5, <1>7, <1>8, <1>9, <1>10, <1>11, <1>12 DEF Setting

LEMMA WritingAsked ==
  ASSUME TypeOK, Asked, NEW r \in Requests, Writing(r)
  PROVE  Asked'
  <1>1. r \in Askers /\ r # Boot
    BY BootAssumption DEF Askers
  <1>2. ASSUME NEW n, Goes(r, n), n.phase \in {"idle", "read", "validate", "put"},
               n.phase = "read" => n.op \in Settings, UNCHANGED <<configs, mode>>
        PROVE  Asked'
    <2>1. req'[r] = n /\ \A p \in Askers \ {r} : req'[p] = req[p]
      BY <1>1, <1>2 DEF Goes, TypeOK
    <2>2. Boot \in Askers
      BY DEF Askers
    <2>3. \A p \in Askers : Asking(req[p])'
      BY <1>2, <2>1 DEF Asked, Asking
    <2> QED
      BY <1>1, <1>2, <2>1, <2>2, <2>3 DEF Asked
  <1>3. CASE BeginSet(r)
    <2>1. PICK op \in {"identity", "namespace", "markings"} :
            \E value \in Values(op) : Begins(r, op) /\ Goes(r, Setter(op, value))
      BY <1>3 DEF BeginSet
    <2>2. PICK value \in Values(op) : Goes(r, Setter(op, value))
      BY <2>1
    <2>3. Setter(op, value).phase = "read" /\ Setter(op, value).op \in Settings
      BY ValuesTyped, SetterTyped DEF Settings
    <2> QED
      BY <1>2, <1>3, <2>2, <2>3 DEF BeginSet
  <1>4. CASE BeginCreate(r)
    <2>1. PICK d : Goes(r, [Idle EXCEPT !.phase = "validate", !.op = "create", !.doc = d])
      BY <1>4 DEF BeginCreate
    <2> DEFINE n == [Idle EXCEPT !.phase = "validate", !.op = "create", !.doc = d]
    <2>2. n.phase = "validate"
      BY DEF Idle
    <2> HIDE DEF n
    <2> QED
      BY <1>2, <1>4, <2>1, <2>2 DEF BeginCreate, n
  <1>5. CASE BeginPut(r)
    <2>1. PICK k, d : Goes(r, [Idle EXCEPT !.phase = "put", !.op = "put", !.slot = k, !.doc = d])
      BY <1>5 DEF BeginPut
    <2> DEFINE n == [Idle EXCEPT !.phase = "put", !.op = "put", !.slot = k, !.doc = d]
    <2>2. n.phase = "put"
      BY DEF Idle
    <2> HIDE DEF n
    <2> QED
      BY <1>2, <1>5, <2>1, <2>2 DEF BeginPut, n
  <1>6. CASE Create(r)
    BY <1>1, <1>6, AskedEnds DEF Create
  <1>7. CASE Put(r)
    BY <1>1, <1>7, AskedEnds DEF Put
  <1>8. CASE Import(r) \/ DeleteVersion(r) \/ DeleteIdentity(r) \/ CreateRule(r) \/ DeleteRule(r)
    <2>1. UNCHANGED <<configs, req, mode>>
      BY <1>8 DEF Import, DeleteVersion, DeleteIdentity, CreateRule, DeleteRule
    <2> QED
      BY <2>1 DEF Asked, Asking
  <1> QED
    BY <1>3, <1>4, <1>5, <1>6, <1>7, <1>8 DEF Writing

LEMMA RunningAsked ==
  ASSUME TypeOK, Asked, Running
  PROVE  Asked'
  <1>1. Boot \in Askers
    BY DEF Askers
  <1>2. ASSUME NEW op \in {"identity", "account"}, NEW value \in Given, Booting(Setter(op, value)),
               UNCHANGED <<configs, mode>>
        PROVE  Asked'
    <2>1. Setter(op, value).phase = "read" /\ Setter(op, value).op = op
      BY SetterTyped DEF Settings
    <2>2. req'[Boot] = Setter(op, value) /\ \A p \in Askers \ {Boot} : req'[p] = req[p]
      BY <1>1, <1>2 DEF Booting, TypeOK
    <2>3. \A p \in Askers : Asking(req[p])'
      BY <1>2, <2>1, <2>2 DEF Asked, Asking, Settings
    <2> QED
      BY <1>1, <1>2, <2>1, <2>2, <2>3 DEF Asked
  <1>3. CASE CheckIdentity
    <2>1. CASE IdentityIsSet /\ UNCHANGED <<req, configs>>
      <3>1. configs # <<>>
        BY <2>1, IdentityAssumption DEF IdentityIsSet, Newest, NoConfig, Settings, TypeOK
      <3> QED
        BY <2>1, <3>1 DEF Asked, Asking
    <2>2. ASSUME NEW p \in Placeholders, Booting(Setter("identity", p)), mode' = mode
          PROVE  Asked'
      BY <1>2, <1>3, <2>2, IdentityAssumption DEF CheckIdentity, Given
    <2> QED
      BY <1>3, <2>1, <2>2 DEF CheckIdentity
  <1>4. CASE CheckAccount
    <2>1. CASE UNCHANGED req
      BY <1>4, <2>1 DEF CheckAccount, Asked, Asking
    <2>2. CASE Booting(Setter("account", "account")) /\ UNCHANGED mode
      BY <1>2, <1>4, <2>2 DEF CheckAccount, Given
    <2> QED
      BY <1>4, <2>1, <2>2 DEF CheckAccount
  <1>5. CASE LoadStaticRules
    BY <1>5 DEF LoadStaticRules, Asked, Asking
  <1>6. CASE Restart
    <2>1. \A p \in Askers : req'[p] = Idle
      BY <1>6 DEF Restart, TypeOK
    <2> QED
      BY <1>1, <1>6, <2>1, IdleTyped DEF Restart, Asked, Asking
  <1>7. CASE StartPass \/ StartPassBlind \/ ReadNext \/ WriteVerdict
    <2>1. UNCHANGED <<configs, req, mode>>
      BY <1>7 DEF StartPass, StartPassBlind, ReadNext, WriteVerdict
    <2> QED
      BY <2>1 DEF Asked, Asking
  <1> QED
    BY <1>3, <1>4, <1>5, <1>6, <1>7 DEF Running

LEMMA AskedStep ==
  ASSUME TypeOK, Asked, [Next]_vars
  PROVE  Asked'
  <1>1. CASE Next
    BY <1>1, NextCases, SettingAsked, WritingAsked, RunningAsked
  <1>2. CASE UNCHANGED vars
    BY <1>2 DEF vars, Asked, Asking
  <1> QED
    BY <1>1, <1>2

-----------------------------------------------------------------------------
(***************************************************************************)
(* Settings are kept.                                                      *)
(***************************************************************************)
LEMMA NewestSaved ==
  ASSUME TypeOK, NEW c \in Config, configs' = Append(configs, c)
  PROVE  Newest' = c /\ configs' # <<>>
  <1>1. configs' # <<>> /\ Len(configs') = Len(configs) + 1 /\ configs'[Len(configs) + 1] = c
    BY AppendProperties DEF TypeOK
  <1> QED
    BY <1>1 DEF Newest

LEMMA Saving ==
  ASSUME TypeOK, Asked, NEW r \in Askers, SaveConfig(r)
  PROVE  /\ req[r].op \in Settings /\ req[r].value \in Given /\ req[r].config \in Config
         /\ Newest' = Overridden(req[r].config, req[r].op, req[r].value)
         /\ Newest'[req[r].op] = req[r].value
         /\ \A s \in Settings \ {req[r].op} : Newest'[s] = req[r].config[s]
  <1>1. req[r].op \in Settings /\ req[r].value \in Given /\ req[r].config \in Config
    BY DEF SaveConfig, Asked, Asking, TypeOK, Request
  <1>2. Overridden(req[r].config, req[r].op, req[r].value) \in Config
    BY <1>1, OverriddenTyped
  <1> QED
    BY <1>1, <1>2, NewestSaved, OverriddenTyped DEF SaveConfig

\* Only a save changes what is configured.
LEMMA ConfigsStand ==
  ASSUME Next, ~\E r \in Askers : SaveConfig(r)
  PROVE  UNCHANGED <<configs, last>> /\ Newest' = Newest
  <1>1. UNCHANGED <<configs, last>>
    <2>1. CASE \E r \in Askers : Setting(r)
      BY <2>1 DEF Setting, ReadConfig, Emit, WipeRules, MakeRule, MakeRulesFails, ListAffected,
                  SaveAffected, Finish
    <2>2. CASE \E r \in Requests : Writing(r)
      BY <2>2 DEF Writing, BeginSet, BeginCreate, Create, Import, BeginPut, Put, DeleteVersion,
                  DeleteIdentity, CreateRule, DeleteRule
    <2>3. CASE Running
      BY <2>3 DEF Running, CheckIdentity, CheckAccount, LoadStaticRules, Restart, StartPass,
                  StartPassBlind, ReadNext, WriteVerdict
    <2> QED
      BY <2>1, <2>2, <2>3, NextCases
  <1> QED
    BY <1>1 DEF Newest

\* What went wrong is not forgotten.
LEMMA SpoiltStays ==
  ASSUME Next
  PROVE  spoilt \subseteq spoilt'
  <1>1. CASE \E r \in Askers : Setting(r)
    BY <1>1 DEF Setting, ReadConfig, SaveConfig, Emit, WipeRules, MakeRule, MakeRulesFails,
                ListAffected, SaveAffected, Finish
  <1>2. CASE \E r \in Requests : Writing(r)
    BY <1>2 DEF Writing, BeginSet, BeginCreate, Create, Import, BeginPut, Put, DeleteVersion,
                DeleteIdentity, CreateRule, DeleteRule
  <1>3. CASE Running
    BY <1>3 DEF Running, CheckIdentity, CheckAccount, LoadStaticRules, Restart, StartPass,
                StartPassBlind, ReadNext, WriteVerdict
  <1> QED
    BY <1>1, <1>2, <1>3, NextCases

LEMMA KeptStep ==
  ASSUME TypeOK, Asked, Kept, [Next]_vars
  PROVE  Kept'
  <1>1. CASE UNCHANGED vars
    BY <1>1 DEF vars, Kept, Newest
  <1>2. ASSUME NEW r \in Askers, SaveConfig(r), "overtaken" \notin spoilt'
        PROVE  Newest' = last'
    <2>1. req[r].config = Newest /\ Newest = last
      BY <1>2 DEF SaveConfig, Overtakes, Kept
    <2>2. last' = [last EXCEPT ![req[r].op] = req[r].value]
      BY <1>2 DEF SaveConfig
    <2> QED
      BY <1>2, <2>1, <2>2, Saving DEF Overridden
  <1>3. ASSUME Next, ~\E r \in Askers : SaveConfig(r)
        PROVE  Kept'
    BY <1>3, ConfigsStand, SpoiltStays DEF Kept
  <1> QED
    BY <1>1, <1>2, <1>3 DEF Kept

-----------------------------------------------------------------------------
(***************************************************************************)
(* Rules follow the settings.                                              *)
(***************************************************************************)
Listening(q) == q.phase \in {"chain", "emit"}

\* In the listeners of p nothing happens to rules.
Same(p) ==
  \/ ~Listening(req[p]) /\ ~Listening(req'[p])
  \/ /\ Listening(req[p]) /\ req'[p].phase = req[p].phase
     /\ req'[p].op = req[p].op /\ req'[p].value = req[p].value
     /\ req'[p].wipe = req[p].wipe /\ req'[p].make = req[p].make

Done(p) ==
  req[p].phase = "emit" /\ ~req[p].wipe /\ req[p].make = {} /\ ~Listening(req'[p])

\* No rule goes, and those that come are of users or of the file.
Calm ==
  /\ rules \subseteq rules'
  /\ \A x \in rules' \ rules : x.reason \in {"user", "static"}
  /\ \A p \in Askers : Same(p) \/ Done(p)

LEMMA CalmGoes ==
  ASSUME TypeOK, NEW r \in Askers, NEW n, Goes(r, n), UNCHANGED rules,
         \/ ~Listening(req[r]) /\ ~Listening(n)
         \/ /\ Listening(req[r]) /\ n.phase = req[r].phase
            /\ n.op = req[r].op /\ n.value = req[r].value
            /\ n.wipe = req[r].wipe /\ n.make = req[r].make
         \/ req[r].phase = "emit" /\ ~req[r].wipe /\ req[r].make = {} /\ ~Listening(n)
  PROVE  Calm
  <1>1. req'[r] = n /\ \A p \in Askers \ {r} : req'[p] = req[p]
    BY DEF Goes, TypeOK
  <1>2. \A p \in Askers \ {r} : Same(p)
    BY <1>1 DEF Same
  <1>3. Same(r) \/ Done(r)
    BY <1>1 DEF Same, Done
  <1> QED
    BY <1>2, <1>3 DEF Calm

LEMMA SettingCalm ==
  ASSUME TypeOK, NEW r \in Askers,
         ReadConfig(r) \/ ListAffected(r) \/ SaveAffected(r) \/ Finish(r)
  PROVE  Calm
  <1> DEFINE q == req[r]
  <1>1. q \in Request /\ ~Listening(Idle)
    BY IdleTyped DEF TypeOK, Listening
  <1>2. CASE ReadConfig(r)
    <2> DEFINE n == [q EXCEPT !.phase = "save", !.config = Newest]
    <2>1. ~Listening(n) /\ ~Listening(q)
      BY <1>1, <1>2 DEF Request, Listening, ReadConfig
    <2>2. Goes(r, Idle) \/ Goes(r, n)
      BY <1>2 DEF ReadConfig, Ends
    <2> HIDE DEF n
    <2> QED
      BY <1>1, <1>2, <2>1, <2>2, CalmGoes DEF ReadConfig
  <1>3. CASE ListAffected(r)
    <2> DEFINE n == [q EXCEPT !.walk = "save", !.queue = Affected(q.chain)]
    <2>1. n.phase = q.phase /\ n.op = q.op /\ n.value = q.value /\ n.make = q.make /\ n.wipe = q.wipe
      BY <1>1 DEF Request
    <2>2. Goes(r, n) /\ Listening(q)
      BY <1>3 DEF ListAffected, Listening
    <2> HIDE DEF n
    <2> QED
      BY <1>3, <2>1, <2>2, CalmGoes DEF ListAffected
  <1>4. CASE SaveAffected(r)
    <2>1. PICK d \in q.queue : Goes(r, [q EXCEPT !.queue = @ \ {d}])
      BY <1>4 DEF SaveAffected
    <2> DEFINE n == [q EXCEPT !.queue = @ \ {d}]
    <2>2. n.phase = q.phase /\ n.op = q.op /\ n.value = q.value /\ n.make = q.make /\ n.wipe = q.wipe
      BY <1>1 DEF Request
    <2>3. Goes(r, n) /\ Listening(q)
      BY <1>4, <2>1 DEF SaveAffected, Listening
    <2> HIDE DEF n
    <2> QED
      BY <1>4, <2>2, <2>3, CalmGoes DEF SaveAffected
  <1>5. CASE Finish(r)
    BY <1>1, <1>5, CalmGoes DEF Finish, Ends
  <1> QED
    BY <1>2, <1>3, <1>4, <1>5

LEMMA WritingCalm ==
  ASSUME TypeOK, NEW r \in Requests, Writing(r), ~DeleteRule(r)
  PROVE  Calm
  <1>1. r \in Askers /\ ~Listening(Idle)
    BY IdleTyped DEF Askers, Listening
  <1>2. CASE BeginSet(r)
    <2>1. PICK op \in {"identity", "namespace", "markings"} :
            \E value \in Values(op) : Begins(r, op) /\ Goes(r, Setter(op, value))
      BY <1>2 DEF BeginSet
    <2>2. PICK value \in Values(op) : Begins(r, op) /\ Goes(r, Setter(op, value))
      BY <2>1
    <2>3. ~Listening(Setter(op, value)) /\ ~Listening(req[r])
      BY <2>2, ValuesTyped, SetterTyped DEF Settings, Listening, Begins
    <2> QED
      BY <1>1, <1>2, <2>2, <2>3, CalmGoes DEF BeginSet
  <1>3. CASE BeginCreate(r)
    <2>1. PICK d : Goes(r, [Idle EXCEPT !.phase = "validate", !.op = "create", !.doc = d])
      BY <1>3 DEF BeginCreate
    <2> DEFINE n == [Idle EXCEPT !.phase = "validate", !.op = "create", !.doc = d]
    <2>2. ~Listening(n)
      BY DEF Idle, Listening
    <2> HIDE DEF n
    <2>3. ~Listening(req[r])
      BY <1>3 DEF BeginCreate, Begins, Listening
    <2> QED
      BY <1>1, <1>3, <2>1, <2>2, <2>3, CalmGoes DEF BeginCreate, n
  <1>4. CASE BeginPut(r)
    <2>1. PICK k, d : Goes(r, [Idle EXCEPT !.phase = "put", !.op = "put", !.slot = k, !.doc = d])
      BY <1>4 DEF BeginPut
    <2> DEFINE n == [Idle EXCEPT !.phase = "put", !.op = "put", !.slot = k, !.doc = d]
    <2>2. ~Listening(n)
      BY DEF Idle, Listening
    <2> HIDE DEF n
    <2>3. ~Listening(req[r])
      BY <1>4 DEF BeginPut, Begins, Listening
    <2> QED
      BY <1>1, <1>4, <2>1, <2>2, <2>3, CalmGoes DEF BeginPut, n
  <1>5. CASE Create(r)
    BY <1>1, <1>5, CalmGoes DEF Create, Ends, Listening
  <1>6. CASE Put(r)
    BY <1>1, <1>6, CalmGoes DEF Put, Ends, Listening
  <1>7. CASE Import(r) \/ DeleteVersion(r) \/ DeleteIdentity(r)
    BY <1>7 DEF Import, DeleteVersion, DeleteIdentity, Calm, Same
  <1>8. CASE CreateRule(r)
    <2>1. UNCHANGED req /\ rules \subseteq rules' /\ \A x \in rules' \ rules : x.reason = "user"
      BY <1>8 DEF CreateRule, SetRules, With, Rule
    <2> QED
      BY <2>1 DEF Calm, Same
  <1> QED
    BY <1>2, <1>3, <1>4, <1>5, <1>6, <1>7, <1>8 DEF Writing

LEMMA RunningCalm ==
  ASSUME TypeOK, Running, ~Restart
  PROVE  Calm
  <1>1. Boot \in Askers
    BY DEF Askers
  <1>2. CASE CheckIdentity
    <2>1. CASE UNCHANGED req
      BY <1>2, <2>1 DEF CheckIdentity, Calm, Same
    <2>2. ASSUME NEW p \in Placeholders, Booting(Setter("identity", p))
          PROVE  Calm
      <3>1. ~Listening(Setter("identity", p)) /\ ~Listening(req[Boot])
        BY <1>2, IdentityAssumption, SetterTyped DEF CheckIdentity, Listening, Given, Settings
      <3> QED
        BY <1>1, <1>2, <2>2, <3>1, CalmGoes DEF CheckIdentity, Booting, Goes
    <2> QED
      BY <1>2, <2>1, <2>2 DEF CheckIdentity
  <1>3. CASE CheckAccount
    <2>1. ~Listening(Setter("account", "account")) /\ ~Listening(req[Boot])
      BY <1>3, SetterTyped DEF CheckAccount, Listening, Given, Settings
    <2>2. CASE UNCHANGED req
      BY <1>3, <2>2 DEF CheckAccount, Calm, Same
    <2>3. CASE Booting(Setter("account", "account"))
      BY <1>1, <1>3, <2>1, <2>3, CalmGoes DEF CheckAccount, Booting, Goes
    <2> QED
      BY <1>3, <2>2, <2>3 DEF CheckAccount
  <1>4. CASE LoadStaticRules
    <2>1. UNCHANGED req /\ rules \subseteq rules' /\ \A x \in rules' \ rules : x.reason = "static"
      BY <1>4 DEF LoadStaticRules, SetRules, Rule
    <2> QED
      BY <2>1 DEF Calm, Same
  <1>5. CASE StartPass \/ StartPassBlind \/ ReadNext \/ WriteVerdict
    BY <1>5 DEF StartPass, StartPassBlind, ReadNext, WriteVerdict, Calm, Same
  <1> QED
    BY <1>2, <1>3, <1>4, <1>5 DEF Running

LEMMA StepKinds ==
  ASSUME TypeOK, Next
  PROVE  \/ Calm /\ ~\E r \in Askers : SaveConfig(r)
         \/ \E r \in Askers : SaveConfig(r) \/ Emit(r) \/ WipeRules(r) \/ MakeRule(r) \/ MakeRulesFails(r)
         \/ \E r \in Requests : DeleteRule(r)
         \/ Restart
  BY NextCases, SettingCalm, WritingCalm, RunningCalm DEF Setting

\* What the steps do to the rules and to the request that takes them.
LEMMA SaveEffect ==
  ASSUME TypeOK, NEW r \in Askers, SaveConfig(r)
  PROVE  /\ \A p \in Askers \ {r} : req'[p] = req[p]
         /\ ~Listening(req[r]) /\ UNCHANGED rules
         /\ Listening(req'[r]) <=> Announced(req[r].op)
         /\ Announced(req[r].op) => /\ req'[r].phase = "chain" /\ req'[r].op = req[r].op
                                    /\ req'[r].value = req[r].value
  <1> DEFINE q == req[r]
             n == [q EXCEPT !.phase = "chain"]
  <1>1. q \in Request
    BY DEF TypeOK
  <1>2. n \in Request /\ n.phase = "chain" /\ n.op = q.op /\ n.value = q.value
    BY <1>1 DEF Request
  <1>3. q.phase = "save" /\ UNCHANGED rules /\ IF Announced(q.op) THEN Goes(r, n) ELSE Ends(r)
    BY DEF SaveConfig
  <1> HIDE DEF q, n
  <1>4. CASE Announced(q.op)
    <2>1. req'[r] = n /\ \A p \in Askers \ {r} : req'[p] = req[p]
      BY <1>2, <1>3, <1>4, GoesTyped
    <2> QED
      BY <1>2, <1>3, <1>4, <2>1 DEF Listening, q
  <1>5. CASE ~Announced(q.op)
    <2>1. req'[r] = Idle /\ \A p \in Askers \ {r} : req'[p] = req[p]
      BY <1>3, <1>5, EndsTyped
    <2> QED
      BY <1>3, <1>5, <2>1, IdleTyped DEF Listening, q
  <1> QED
    BY <1>4, <1>5

LEMMA EmitEffect ==
  ASSUME TypeOK, NEW r \in Askers, Emit(r)
  PROVE  /\ \A p \in Askers \ {r} : req'[p] = req[p]
         /\ req[r].phase = "chain" /\ UNCHANGED rules
         /\ req'[r].phase = "emit" /\ req'[r].op = req[r].op /\ req'[r].value = req[r].value
         /\ req'[r].wipe /\ req'[r].make = Keys(req[r])
  <1>1. req[r] \in Request
    BY DEF TypeOK
  <1>2. PICK n : /\ n = [req[r] EXCEPT !.phase = "emit", !.chain = Chain, !.wipe = TRUE,
                           !.make = Keys(req[r]),
                           !.walk = IF req[r].op = "identity" /\ r # Boot /\ req[r].config.identity # None
                                    THEN "list" ELSE "done"]
                 /\ Goes(r, n)
    BY DEF Emit
  <1>3. n.phase = "emit" /\ n.op = req[r].op /\ n.value = req[r].value /\ n.wipe /\ n.make = Keys(req[r])
    BY <1>1, <1>2 DEF Request
  <1>4. req'[r] = n /\ \A p \in Askers \ {r} : req'[p] = req[p]
    BY <1>2 DEF Goes, TypeOK
  <1> QED
    BY <1>3, <1>4 DEF Emit

LEMMA WipeEffect ==
  ASSUME TypeOK, NEW r \in Askers, WipeRules(r)
  PROVE  /\ \A p \in Askers \ {r} : req'[p] = req[p]
         /\ req[r].phase = "emit" /\ req[r].wipe
         /\ rules' = {x \in rules : x.reason # req[r].op}
         /\ req'[r].phase = "emit" /\ req'[r].op = req[r].op /\ req'[r].value = req[r].value
         /\ ~req'[r].wipe /\ req'[r].make = req[r].make
  <1>1. req[r] \in Request
    BY DEF TypeOK
  <1>2. PICK n : n = [req[r] EXCEPT !.wipe = FALSE] /\ Goes(r, n)
    BY DEF WipeRules
  <1>3. n.phase = req[r].phase /\ n.op = req[r].op /\ n.value = req[r].value /\ ~n.wipe
        /\ n.make = req[r].make
    BY <1>1, <1>2 DEF Request
  <1>4. req'[r] = n /\ \A p \in Askers \ {r} : req'[p] = req[p]
    BY <1>2 DEF Goes, TypeOK
  <1> QED
    BY <1>3, <1>4 DEF WipeRules, SetRules, Wiped

LEMMA MakeEffect ==
  ASSUME TypeOK, NEW r \in Askers, MakeRule(r)
  PROVE  /\ \A p \in Askers \ {r} : req'[p] = req[p]
         /\ req[r].phase = "emit" /\ ~req[r].wipe
         /\ req'[r].phase = "emit" /\ req'[r].op = req[r].op /\ req'[r].value = req[r].value
         /\ req'[r].wipe = req[r].wipe
         /\ \E rule \in req[r].make :
              rules' = With(rules, rule) /\ req'[r].make = req[r].make \ {rule}
  <1>1. req[r] \in Request
    BY DEF TypeOK
  <1> DEFINE rule == CHOOSE x \in req[r].make : TRUE
  <1>2. rule \in req[r].make /\ rules' = With(rules, rule) /\ req[r].phase = "emit" /\ ~req[r].wipe
    BY DEF MakeRule, SetRules
  <1>3. PICK n : n = [req[r] EXCEPT !.make = @ \ {rule}] /\ Goes(r, n)
    BY DEF MakeRule
  <1>4. n.phase = req[r].phase /\ n.op = req[r].op /\ n.value = req[r].value /\ n.wipe = req[r].wipe
        /\ n.make = req[r].make \ {rule}
    BY <1>1, <1>3 DEF Request
  <1>5. req'[r] = n /\ \A p \in Askers \ {r} : req'[p] = req[p]
    BY <1>3 DEF Goes, TypeOK
  <1> HIDE DEF rule
  <1> QED
    BY <1>2, <1>4, <1>5

\* Rules that are not spoilt outlive a failure and a restart only if no listener was cut short.
LEMMA RulesUnspoilt ==
  ASSUME TypeOK, Next, "rules" \notin spoilt'
  PROVE  /\ "rules" \notin spoilt
         /\ ~\E r \in Askers : MakeRulesFails(r)
         /\ Restart => UNCHANGED rules /\ \A p \in Askers : ~Listening(req[p]) /\ ~Listening(req'[p])
  <1>1. "rules" \notin spoilt
    BY SpoiltStays
  <1>2. ~\E r \in Askers : MakeRulesFails(r)
    BY DEF MakeRulesFails
  <1>3. ASSUME Restart
        PROVE  UNCHANGED rules /\ \A p \in Askers : ~Listening(req[p]) /\ ~Listening(req'[p])
    <2>1. \A p \in Askers : req'[p] = Idle
      BY <1>3 DEF Restart, TypeOK
    <2>2. \A p \in Askers : ~Listening(req[p])
      BY <1>3 DEF Restart, Listening, TypeOK
    <2> QED
      BY <1>3, <2>1, <2>2, IdleTyped DEF Restart, Listening
  <1> QED
    BY <1>1, <1>2, <1>3

LEMMA NamedStep ==
  ASSUME TypeOK, Asked, RulesNamed, [Next]_vars
  PROVE  RulesNamed'
  <1>1. CASE UNCHANGED vars
    BY <1>1 DEF vars, RulesNamed
  <1>2. CASE Calm
    BY <1>2 DEF Calm, RulesNamed
  <1>3. ASSUME NEW r \in Askers, SaveConfig(r) \/ Emit(r) \/ WipeRules(r) \/ MakeRulesFails(r)
        PROVE  RulesNamed'
    <2>1. rules' \subseteq rules
      BY <1>3, SaveEffect, EmitEffect, WipeEffect DEF MakeRulesFails
    <2> QED
      BY <2>1 DEF RulesNamed
  <1>4. ASSUME NEW r \in Askers, MakeRule(r)
        PROVE  RulesNamed'
    <2>1. PICK rule \in req[r].make : rules' = With(rules, rule)
      BY <1>4, MakeEffect
    <2>2. rule \in Keys(req[r]) /\ req[r] \in Request
      BY <1>4, <2>1, MakeEffect DEF Asked, Asking, TypeOK
    <2>3. rule.reason = req[r].op /\ rule.field = IF req[r].op = "identity" THEN ModifiedBy ELSE ExternalId
      BY <2>2, KeysTyped
    <2>4. rules' \subseteq rules \cup {rule}
      BY <2>1 DEF With
    <2> QED
      BY <2>3, <2>4 DEF RulesNamed
  <1>5. CASE (\E r \in Requests : DeleteRule(r)) \/ Restart
    <2>1. rules' \subseteq rules
      BY <1>5 DEF DeleteRule, SetRules, Restart
    <2> QED
      BY <2>1 DEF RulesNamed
  <1> QED
    BY <1>1, <1>2, <1>3, <1>4, <1>5, StepKinds

\* A rule that is due stays due, if a request that wipes the rules of its reason is to make it.
LEMMA DueKept ==
  ASSUME TypeOK, Asked, RulesNamed, Next, "rules" \notin spoilt',
         NEW op \in {"identity", "namespace"}, NEW t \in Types, Due(t, op),
         \A r \in Askers : req[r].op = op /\ req[r].phase = "emit" =>
           Rule(FieldOf(op), t, op) \in Keys(req[r])
  PROVE  Due(t, op)'
  <1> DEFINE rule == Rule(FieldOf(op), t, op)
  <1>1. ASSUME HasRule(FieldOf(op), t) => HasRule(FieldOf(op), t)',
               \A p \in Askers : Owing(p, t, op) => Owing(p, t, op)'
        PROVE  Due(t, op)'
    BY <1>1 DEF Due
  <1>2. ASSUME rules \subseteq rules'
        PROVE  HasRule(FieldOf(op), t) => HasRule(FieldOf(op), t)'
    BY <1>2 DEF HasRule
  <1>3. CASE Calm
    <2>1. \A p \in Askers : Owing(p, t, op) => Owing(p, t, op)'
      BY <1>3 DEF Calm, Same, Done, Owing, Wiping, Listening
    <2> QED
      BY <1>1, <1>2, <1>3, <2>1 DEF Calm
  <1>4. ASSUME NEW r \in Askers, SaveConfig(r)
        PROVE  Due(t, op)'
    <2>1. \A p \in Askers : Owing(p, t, op) => Owing(p, t, op)'
      BY <1>4, SaveEffect DEF Owing, Wiping, Listening
    <2> QED
      BY <1>1, <1>2, <1>4, <2>1, SaveEffect
  <1>5. ASSUME NEW r \in Askers, Emit(r)
        PROVE  Due(t, op)'
    <2>1. \A p \in Askers : Owing(p, t, op) => Owing(p, t, op)'
      BY <1>5, EmitEffect DEF Owing, Wiping
    <2> QED
      BY <1>1, <1>2, <1>5, <2>1, EmitEffect
  <1>6. ASSUME NEW r \in Askers, WipeRules(r), req[r].op = op
        PROVE  Due(t, op)'
    <2>1. rule \in Keys(req[r]) /\ req[r].make = Keys(req[r])
      BY <1>6, WipeEffect DEF Asked, Asking
    <2>2. Owing(r, t, op)'
      BY <1>6, <2>1, WipeEffect DEF Owing
    <2> QED
      BY <2>2 DEF Due
  <1>7. ASSUME NEW r \in Askers, WipeRules(r), req[r].op # op
        PROVE  Due(t, op)'
    <2>1. \A p \in Askers : Owing(p, t, op) => Owing(p, t, op)'
      BY <1>7, WipeEffect DEF Owing, Wiping
    <2>2. req[r].op \in {"identity", "namespace"}
      BY <1>7, WipeEffect DEF Asked, Asking, Announced
    <2>3. \A x \in rules : x.field = FieldOf(op) => x.reason # req[r].op
      BY <1>7, <2>2 DEF RulesNamed, FieldOf, ModifiedBy, ExternalId
    <2>4. HasRule(FieldOf(op), t) => HasRule(FieldOf(op), t)'
      BY <1>7, <2>3, WipeEffect DEF HasRule
    <2> QED
      BY <1>1, <2>1, <2>4
  <1>8. ASSUME NEW r \in Askers, MakeRule(r)
        PROVE  Due(t, op)'
    <2>1. PICK made \in req[r].make : rules' = With(rules, made) /\ req'[r].make = req[r].make \ {made}
      BY <1>8, MakeEffect
    <2>2. CASE made = rule
      <3>1. \E x \in rules' : x.field = FieldOf(op) /\ x.type = t
        BY <2>1, <2>2 DEF With, Rule
      <3> QED
        BY <3>1 DEF Due, HasRule
    <2>3. CASE made # rule
      <3>1. \A p \in Askers : Owing(p, t, op) => Owing(p, t, op)'
        BY <1>8, <2>1, <2>3, MakeEffect DEF Owing, Wiping
      <3>2. rules \subseteq rules'
        BY <2>1 DEF With
      <3> QED
        BY <1>1, <1>2, <3>1, <3>2
    <2> QED
      BY <2>2, <2>3
  <1>9. ASSUME NEW r \in Requests, DeleteRule(r)
        PROVE  Due(t, op)'
    <2>1. PICK x \in rules : rules' = rules \ {x} /\ x.type \notin Types /\ UNCHANGED req
      BY <1>9 DEF DeleteRule, SetRules
    <2>2. HasRule(FieldOf(op), t) => HasRule(FieldOf(op), t)'
      BY <2>1 DEF HasRule
    <2>3. \A p \in Askers : Owing(p, t, op) => Owing(p, t, op)'
      BY <2>1 DEF Owing, Wiping
    <2> QED
      BY <1>1, <2>2, <2>3
  <1>10. CASE Restart
    <2>1. \A p \in Askers : ~Owing(p, t, op)
      BY <1>10, RulesUnspoilt DEF Owing, Wiping, Listening
    <2> QED
      BY <1>1, <1>2, <1>10, <2>1, RulesUnspoilt
  <1> QED
    BY <1>3, <1>4, <1>5, <1>6, <1>7, <1>8, <1>9, <1>10, StepKinds, RulesUnspoilt

LEMMA IdentityStep ==
  ASSUME TypeOK, Asked, RulesNamed, IdentityDue, [Next]_vars
  PROVE  IdentityDue'
  <1>1. CASE UNCHANGED vars
    BY <1>1 DEF vars, IdentityDue, Due, HasRule, Owing, Wiping
  <1>2. ASSUME Next, configs' # <<>>, "rules" \notin spoilt', NEW t \in Types
        PROVE  Due(t, "identity")'
    <2>1. \A r \in Askers : req[r].op = "identity" => Rule(ModifiedBy, t, "identity") \in Keys(req[r])
      BY DEF Keys
    <2>2. CASE configs # <<>>
      <3>1. Due(t, "identity")
        BY <1>2, <2>2, RulesUnspoilt DEF IdentityDue
      <3> QED
        BY <1>2, <2>1, <3>1, DueKept DEF FieldOf
    <2>3. CASE configs = <<>>
      <3>1. PICK r \in Askers : SaveConfig(r)
        BY <1>2, <2>3, ConfigsStand
      <3>2. req[r].op = "identity"
        BY <2>3, <3>1 DEF SaveConfig, Asked, Asking
      <3>3. Wiping(r, "identity")'
        BY <3>1, <3>2, SaveEffect DEF Wiping, Announced
      <3> QED
        BY <3>3 DEF Due, Owing
    <2> QED
      BY <2>2, <2>3
  <1> QED
    BY <1>1, <1>2 DEF IdentityDue

LEMMA NamespaceStep ==
  ASSUME TypeOK, Asked, RulesNamed, NamespaceFollows, [Next]_vars
  PROVE  NamespaceFollows'
  <1>1. CASE UNCHANGED vars
    BY <1>1 DEF vars, NamespaceFollows, OneNamespace, Announcing, NamespaceDue, Due, HasRule, Owing,
                Wiping, Newest
  <1>2. ASSUME Next, spoilt' = {}
        PROVE  OneNamespace' /\ NamespaceDue'
    <2>1. spoilt = {} /\ "rules" \notin spoilt' /\ OneNamespace /\ NamespaceDue
      BY <1>2, SpoiltStays DEF NamespaceFollows
    <2>2. CASE \E r \in Askers : SaveConfig(r) /\ req[r].op = "namespace"
      <3>1. PICK r \in Askers : SaveConfig(r) /\ req[r].op = "namespace"
        BY <2>2
      <3>2. \A p \in Askers \ {r} : ~(req[p].op = "namespace" /\ req[p].phase # "idle")
        BY <1>2, <3>1 DEF SaveConfig, Overtakes, Asked, Askers
      <3>3. \A p \in Askers \ {r} : ~Announcing(p)'
        BY <3>1, <3>2, SaveEffect DEF Announcing
      <3>4. req'[r].phase = "chain" /\ req'[r].op = "namespace" /\ req'[r].value = Newest'.namespace
        BY <3>1, SaveEffect, Saving DEF Announced
      <3>5. OneNamespace'
        BY <3>3, <3>4 DEF OneNamespace
      <3>6. Wiping(r, "namespace")'
        BY <3>4 DEF Wiping
      <3> QED
        BY <3>5, <3>6 DEF NamespaceDue, Due, Owing
    <2>3. CASE ~\E r \in Askers : SaveConfig(r) /\ req[r].op = "namespace"
      <3>1. Newest'.namespace = Newest.namespace
        <4>1. ASSUME NEW r \in Askers, SaveConfig(r)
              PROVE  Newest'.namespace = Newest.namespace
          <5>1. req[r].config = Newest
            BY <1>2, <4>1 DEF SaveConfig, Overtakes
          <5> QED
            BY <2>3, <4>1, <5>1, Saving DEF Settings
        <4> QED
          BY <1>2, <4>1, ConfigsStand
      <3>2. \A p \in Askers : Announcing(p)' => Announcing(p) /\ req'[p].value = req[p].value
        <4>1. CASE Calm
          BY <4>1 DEF Calm, Same, Done, Announcing, Listening
        <4>2. ASSUME NEW r \in Askers, SaveConfig(r)
              PROVE  \A p \in Askers : Announcing(p)' => Announcing(p) /\ req'[p].value = req[p].value
          BY <2>3, <4>2, SaveEffect DEF Announcing, Listening
        <4>3. ASSUME NEW r \in Askers, Emit(r) \/ WipeRules(r) \/ MakeRule(r)
              PROVE  \A p \in Askers : Announcing(p)' => Announcing(p) /\ req'[p].value = req[p].value
          BY <4>3, EmitEffect, WipeEffect, MakeEffect DEF Announcing
        <4>4. CASE \E r \in Requests : DeleteRule(r)
          BY <4>4 DEF DeleteRule, Announcing
        <4>5. CASE Restart
          BY <1>2, <2>1, <4>5, RulesUnspoilt DEF Announcing, Listening
        <4> QED
          BY <1>2, <2>1, <4>1, <4>2, <4>3, <4>4, <4>5, StepKinds, RulesUnspoilt
      <3>3. OneNamespace'
        BY <2>1, <3>1, <3>2 DEF OneNamespace
      <3>4. ASSUME Newest.namespace # None, NEW t \in Types
            PROVE  Due(t, "namespace")'
        <4>1. \A r \in Askers : req[r].op = "namespace" /\ req[r].phase = "emit" =>
                Rule(ExternalId, t, "namespace") \in Keys(req[r])
          BY <2>1, <3>4 DEF OneNamespace, Announcing, Keys
        <4>2. Due(t, "namespace")
          BY <2>1, <3>4 DEF NamespaceDue
        <4> QED
          BY <1>2, <2>1, <4>1, <4>2, DueKept DEF FieldOf
      <3>5. ASSUME Newest.namespace = None, NEW x \in rules', x.reason = "namespace"
            PROVE  \E r \in Askers : Wiping(r, "namespace")'
        <4>1. x \in rules => \E r \in Askers : Wiping(r, "namespace")
          BY <2>1, <3>5 DEF NamespaceDue
        <4>2. CASE Calm
          <5>1. x \in rules
            BY <3>5, <4>2 DEF Calm
          <5> QED
            BY <4>1, <4>2, <5>1 DEF Calm, Same, Done, Wiping, Listening
        <4>3. ASSUME NEW r \in Askers, SaveConfig(r)
              PROVE  \E p \in Askers : Wiping(p, "namespace")'
          BY <3>5, <4>1, <4>3, SaveEffect DEF Wiping, Listening
        <4>4. ASSUME NEW r \in Askers, Emit(r)
              PROVE  \E p \in Askers : Wiping(p, "namespace")'
          BY <3>5, <4>1, <4>4, EmitEffect DEF Wiping
        <4>5. ASSUME NEW r \in Askers, WipeRules(r)
              PROVE  \E p \in Askers : Wiping(p, "namespace")'
          <5>1. x \in rules /\ req[r].op # "namespace"
            BY <3>5, <4>5, WipeEffect
          <5>2. PICK p \in Askers : Wiping(p, "namespace")
            BY <4>1, <5>1
          <5>3. p # r
            BY <5>1, <5>2 DEF Wiping
          <5> QED
            BY <4>5, <5>2, <5>3, WipeEffect DEF Wiping
        <4>6. ASSUME NEW r \in Askers, MakeRule(r)
              PROVE  \E p \in Askers : Wiping(p, "namespace")'
          <5>1. PICK made \in req[r].make : rules' = With(rules, made)
            BY <4>6, MakeEffect
          <5>2. made \in Keys(req[r]) /\ req[r] \in Request
            BY <4>6, <5>1, MakeEffect DEF Asked, Asking, TypeOK
          <5>3. made.reason # "namespace"
            <6>1. made.reason = req[r].op
              BY <5>2, KeysTyped
            <6>2. req[r].op = "namespace" => req[r].value = None
              BY <2>1, <3>5, <4>6, MakeEffect DEF OneNamespace, Announcing
            <6>3. req[r].op = "namespace" => Keys(req[r]) = {}
              BY <6>2 DEF Keys
            <6> QED
              BY <5>2, <6>1, <6>3
          <5>4. x \in rules
            BY <3>5, <5>1, <5>3 DEF With
          <5> QED
            BY <4>1, <4>6, <5>4, MakeEffect DEF Wiping
        <4>7. CASE \E r \in Requests : DeleteRule(r)
          BY <3>5, <4>1, <4>7 DEF DeleteRule, SetRules, Wiping
        <4>8. CASE Restart
          BY <1>2, <2>1, <3>5, <4>1, <4>8, RulesUnspoilt DEF Wiping, Listening
        <4> QED
          BY <1>2, <2>1, <4>2, <4>3, <4>4, <4>5, <4>6, <4>7, <4>8, StepKinds, RulesUnspoilt
      <3> QED
        BY <3>1, <3>3, <3>4, <3>5 DEF NamespaceDue
    <2> QED
      BY <2>2, <2>3
  <1> QED
    BY <1>1, <1>2 DEF NamespaceFollows

LEMMA RulesFollow == IInv => RulesFollowSettings
  <1> SUFFICES ASSUME IInv, Quiet, "rules" \notin spoilt
               PROVE  /\ \A t \in Types : HasRule(ModifiedBy, t)
                      /\ spoilt = {} =>
                           IF Newest.namespace # None
                           THEN \A t \in Types : HasRule(ExternalId, t)
                           ELSE ~\E x \in rules : x.reason = "namespace"
    BY DEF RulesFollowSettings
  <1>1. \A r \in Askers, op \in {"identity", "namespace"}, t \in Types : ~Owing(r, t, op) /\ ~Wiping(r, op)
    BY DEF Quiet, Owing, Wiping, IInv, TypeOK
  <1>2. \A t \in Types : HasRule(ModifiedBy, t)
    BY <1>1 DEF IInv, IdentityDue, Asked, Quiet, Due, FieldOf
  <1>3. ASSUME spoilt = {}, Newest.namespace # None, NEW t \in Types
        PROVE  HasRule(ExternalId, t)
    BY <1>1, <1>3 DEF IInv, NamespaceFollows, NamespaceDue, Due, FieldOf
  <1>4. ASSUME spoilt = {}, Newest.namespace = None
        PROVE  ~\E x \in rules : x.reason = "namespace"
    <2>1. \A r \in Askers : ~Wiping(r, "namespace")
      BY DEF Quiet, Wiping, IInv, TypeOK
    <2> QED
      BY <1>4, <2>1 DEF IInv, NamespaceFollows, NamespaceDue
  <1> QED
    BY <1>2, <1>3, <1>4

-----------------------------------------------------------------------------
(***************************************************************************)
(* An undisturbed pass of the validation leaves the right verdicts.        *)
(***************************************************************************)
LEMMA ErrorsFinite ==
  ASSUME NEW S \in SUBSET ErrorNames
  PROVE  IsFiniteSet(S) /\ (Cardinality(S) = 0 <=> S = {})
  <1>1. IsFiniteSet(ErrorNames)
    <2>1. IsFiniteSet({}) /\ IsFiniteSet({} \cup {"shape"})
      BY FS_EmptySet, FS_AddElement
    <2>2. IsFiniteSet(({} \cup {"shape"}) \cup {ModifiedBy})
      BY <2>1, FS_AddElement
    <2>3. IsFiniteSet((({} \cup {"shape"}) \cup {ModifiedBy}) \cup {ExternalId})
      BY <2>2, FS_AddElement
    <2>4. ErrorNames = (({} \cup {"shape"}) \cup {ModifiedBy}) \cup {ExternalId}
      BY DEF ErrorNames
    <2> QED
      BY <2>3, <2>4
  <1> QED
    BY <1>1, FS_Subset, FS_EmptySet

\* An equal number of errors stays, which is right if there are none.
LEMMA VerdictRight ==
  ASSUME NEW stored \in SUBSET ErrorNames, NEW found \in SUBSET ErrorNames
  PROVE  Verdict(stored, found) = {} <=> found = {}
  BY ErrorsFinite DEF Verdict

LEMMA RemainingSame ==
  ASSUME NEW d \in Documents, NEW v, NEW rs
  PROVE  Remaining([d EXCEPT !.verdict = v], rs) = Remaining(d, rs)
  <1>1. PICK e : e = [d EXCEPT !.verdict = v]
    OBVIOUS
  <1>2. e.whole = d.whole /\ e.flaws = d.flaws /\ e.editor = d.editor /\ e.object = d.object
    BY <1>1 DEF Documents
  <1>3. Remaining(e, rs) = Remaining(d, rs)
    BY <1>2 DEF Remaining, Errors
  <1> QED
    BY <1>1, <1>3

\* A step that does not touch rules or objects, and is none of the pass, leaves all as it is.
LEMMA Untouched ==
  ASSUME TypeOK, Next, ~touched', ~StartPass, ~ReadNext, ~WriteVerdict
  PROVE  ~touched /\ UNCHANGED <<rules, docs, pass>>
  <1>1. /\ \A rs : SetRules(rs) => ~touched /\ UNCHANGED rules
        /\ \A ds : SetDocs(ds) => ~touched /\ UNCHANGED docs
    BY DEF SetRules, SetDocs, TypeOK
  <1>2. ASSUME NEW r \in Askers, Setting(r)
        PROVE  ~touched /\ UNCHANGED <<rules, docs, pass>>
    <2>1. CASE WipeRules(r) \/ MakeRule(r)
      BY <1>1, <2>1 DEF WipeRules, MakeRule
    <2>2. CASE SaveAffected(r)
      BY <1>1, <2>2 DEF SaveAffected
    <2>3. CASE ReadConfig(r) \/ SaveConfig(r) \/ Emit(r) \/ MakeRulesFails(r) \/ ListAffected(r) \/ Finish(r)
      BY <2>3 DEF ReadConfig, SaveConfig, Emit, MakeRulesFails, ListAffected, Finish, TypeOK
    <2> QED
      BY <1>2, <2>1, <2>2, <2>3 DEF Setting
  <1>3. ASSUME NEW r \in Requests, Writing(r)
        PROVE  ~touched /\ UNCHANGED <<rules, docs, pass>>
    <2>1. CASE CreateRule(r) \/ DeleteRule(r)
      BY <1>1, <2>1 DEF CreateRule, DeleteRule
    <2>2. CASE Create(r) \/ Import(r) \/ Put(r) \/ DeleteVersion(r)
      BY <1>1, <2>2 DEF Create, Import, Put, DeleteVersion
    <2>3. CASE BeginSet(r) \/ BeginCreate(r) \/ BeginPut(r) \/ DeleteIdentity(r)
      BY <2>3 DEF BeginSet, BeginCreate, BeginPut, DeleteIdentity, TypeOK
    <2> QED
      BY <1>3, <2>1, <2>2, <2>3 DEF Writing
  <1>4. CASE Running
    <2>1. CASE LoadStaticRules
      BY <1>1, <2>1 DEF LoadStaticRules
    <2>2. CASE CheckIdentity \/ CheckAccount \/ Restart \/ StartPassBlind
      BY <2>2 DEF CheckIdentity, CheckAccount, Restart, StartPassBlind, TypeOK
    <2> QED
      BY <1>4, <2>1, <2>2 DEF Running
  <1> QED
    BY <1>2, <1>3, <1>4, NextCases

LEMMA PassStep ==
  ASSUME TypeOK, PassInv, [Next]_vars
  PROVE  PassInv'
  <1>1. CASE UNCHANGED vars
    BY <1>1 DEF vars, PassInv, Settled, Slots
  <1>2. CASE Next /\ ~StartPass /\ ~ReadNext /\ ~WriteVerdict
    BY <1>2, Untouched DEF PassInv, Settled, Slots
  <1>3. CASE StartPass
    <2>1. pass'.phase = "read" /\ pass'.at = 1 /\ pass'.rules = rules'
      BY <1>3, StartTyped DEF StartPass, TypeOK
    <2>2. \A k \in Slots' : ~(k < 1)
      BY LenProperties DEF Slots
    <2> QED
      BY <2>1, <2>2 DEF PassInv
  <1>4. ASSUME ReadNext, ~touched'
        PROVE  PassInv'
    <2>1. ~touched /\ UNCHANGED <<rules, docs>> /\ pass.phase = "read" /\ pass.rules = rules
          /\ \A k \in Slots : k < pass.at => Settled(k)
      BY <1>4 DEF ReadNext, PassInv
    <2>2. pass.at \in Nat /\ pass.at > 0 /\ Len(docs) \in Nat /\ pass \in PassSet
      BY <2>1, LenProperties DEF TypeOK, PassSet
    <2>3. CASE pass.at > Len(docs)
      <3>1. pass'.phase = "idle"
        BY <1>4, <2>3, NoPassTyped DEF ReadNext
      <3>2. \A k \in Slots : k < pass.at
        BY <2>2, <2>3 DEF Slots
      <3>3. \A k \in Slots : Settled(k)
        BY <2>1, <3>2
      <3> QED
        BY <2>1, <3>1, <3>3 DEF PassInv, Settled, Slots
    <2>4. CASE pass.at <= Len(docs) /\ docs[pass.at] = Gap
      <3>1. pass'.phase = "read" /\ pass'.at = pass.at + 1 /\ pass'.rules = pass.rules
        BY <1>4, <2>2, <2>4 DEF ReadNext, PassSet
      <3>2. \A k \in Slots : k < pass.at + 1 => k < pass.at
        BY <2>2, <2>4 DEF Slots
      <3> QED
        BY <2>1, <3>1, <3>2 DEF PassInv, Settled, Slots
    <2>5. CASE pass.at <= Len(docs) /\ docs[pass.at] # Gap
      <3>1. pass' = [pass EXCEPT !.phase = "write", !.doc = docs[pass.at]]
        BY <1>4, <2>2, <2>5 DEF ReadNext
      <3>2. pass'.phase = "write" /\ pass'.at = pass.at /\ pass'.rules = pass.rules
            /\ pass'.doc = docs[pass.at]
        BY <2>2, <3>1 DEF PassSet
      <3>3. pass.at \in 1 .. Len(docs)
        BY <2>2, <2>5
      <3> QED
        BY <2>1, <3>2, <3>3 DEF PassInv, Settled, Slots
    <2> QED
      BY <2>2, <2>3, <2>4, <2>5
  <1>5. ASSUME WriteVerdict, ~touched'
        PROVE  PassInv'
    <2> DEFINE found == Remaining(pass.doc, pass.rules)
               verdict == Verdict(pass.doc.verdict, found)
               at == pass.at
    <2>1. /\ ~touched /\ UNCHANGED rules /\ pass.phase = "write" /\ pass.rules = rules
          /\ \A k \in Slots : k < at => Settled(k)
          /\ at \in 1 .. Len(docs) /\ pass.doc = docs[at]
      BY <1>5 DEF WriteVerdict, PassInv
    <2>2. docs[at] \in Documents /\ pass \in PassSet /\ Len(docs) \in Nat /\ at \in Nat
      BY <2>1, ElementOfSeq, LenProperties DEF TypeOK, PassSet
    <2>3. pass'.phase = "read" /\ pass'.rules = pass.rules /\ pass'.at = at + 1
      <3>1. pass' = [pass EXCEPT !.phase = "read", !.at = pass.at + 1, !.doc = Gap]
        BY <1>5 DEF WriteVerdict
      <3> QED
        BY <2>2, <3>1 DEF PassSet
    <2>4. found \in SUBSET ErrorNames /\ docs[at].verdict \in SUBSET ErrorNames
      BY <2>1, <2>2, RemainingTyped DEF Documents
    <2>5. verdict = {} <=> found = {}
      BY <2>1, <2>4, VerdictRight
    <2>6. PICK d : d = [docs[at] EXCEPT !.verdict = verdict]
      OBVIOUS
    <2>7. d \in Documents /\ d.verdict = verdict /\ Remaining(d, rules) = found
      <3>1. verdict \in SUBSET ErrorNames
        BY <2>1, <2>4 DEF Verdict
      <3>2. Remaining(d, rules) = Remaining(docs[at], rules)
        BY <2>2, <2>6, RemainingSame
      <3> HIDE DEF verdict
      <3> QED
        BY <2>1, <2>2, <2>6, <3>1, <3>2 DEF Documents
    <2>8. docs' = docs \/ docs' = [docs EXCEPT ![at] = d]
      <3>1. docs' = docs \/ docs' = [docs EXCEPT ![at].verdict = verdict]
        BY <1>5 DEF WriteVerdict
      <3> HIDE DEF verdict
      <3> QED
        BY <2>6, <3>1
    <2>9. Len(docs') = Len(docs) /\ \A k \in 1 .. Len(docs) : k # at => docs'[k] = docs[k]
      <3>1. CASE docs' = docs
        BY <3>1
      <3>2. CASE docs' = [docs EXCEPT ![at] = d]
        BY <2>1, <2>7, <3>2, ExceptSeq DEF TypeOK
      <3> QED
        BY <2>8, <3>1, <3>2
    <2>10. docs'[at] # Gap => (docs'[at].verdict = {} <=> Remaining(docs'[at], rules) = {})
      <3>1. CASE docs' = [docs EXCEPT ![at] = d]
        <4>1. docs'[at] = d
          BY <2>1, <2>7, <3>1, ExceptSeq DEF TypeOK
        <4> QED
          BY <2>5, <2>7, <4>1
      <3>2. CASE docs' = docs /\ docs[at] # Gap
        <4>1. CASE verdict = pass.doc.verdict
          BY <2>1, <2>5, <3>2, <4>1
        <4>2. CASE verdict # pass.doc.verdict
          <5>1. docs' = [docs EXCEPT ![at].verdict = verdict]
            BY <1>5, <3>2, <4>2 DEF WriteVerdict
          <5>2. docs' = [docs EXCEPT ![at] = d]
            <6> HIDE DEF verdict
            <6> QED
              BY <2>6, <5>1
          <5> QED
            BY <3>1, <5>2
        <4> QED
          BY <4>1, <4>2
      <3> QED
        BY <2>8, <3>1, <3>2
    <2>11. \A k \in Slots' : k < at + 1 => Settled(k)'
      <3> SUFFICES ASSUME NEW k \in 1 .. Len(docs'), docs'[k] # Gap, k < at + 1
                   PROVE  docs'[k].verdict = {} <=> Remaining(docs'[k], rules') = {}
        BY DEF Slots, Settled
      <3>1. CASE k = at
        BY <2>1, <2>10, <3>1
      <3>2. CASE k # at
        <4>1. k < at /\ k \in 1 .. Len(docs) /\ docs'[k] = docs[k]
          BY <2>2, <2>9, <3>2
        <4> QED
          BY <2>1, <4>1 DEF Slots, Settled
      <3> QED
        BY <3>1, <3>2
    <2> QED
      BY <2>1, <2>3, <2>11 DEF PassInv
  <1> QED
    BY <1>1, <1>2, <1>3, <1>4, <1>5 DEF PassInv

-----------------------------------------------------------------------------
(***************************************************************************)
(* The theorems.                                                           *)
(***************************************************************************)
LEMMA InitInv == Init => IInv
  <1> SUFFICES ASSUME Init PROVE IInv
    OBVIOUS
  <1>1. TypeOK
    BY InitTyped
  <1>2. \A r \in Askers : req[r] = Idle
    BY DEF Init, Askers
  <1>3. Boot \in Askers
    BY DEF Askers
  <1>4. Asked
    BY <1>2, <1>3, IdleTyped, IdleAsking DEF Asked, Init
  <1>5. Newest = NoConfig /\ NoConfig.namespace = None
    BY DEF Init, Newest, NoConfig, Settings
  <1>6. Kept /\ RulesNamed /\ IdentityDue /\ PassInv
    BY <1>5 DEF Init, Kept, RulesNamed, IdentityDue, PassInv
  <1>7. \A r \in Askers : ~Announcing(r)
    BY <1>2, IdleTyped DEF Announcing
  <1>8. NamespaceFollows
    BY <1>5, <1>7 DEF Init, NamespaceFollows, OneNamespace, NamespaceDue
  <1> QED
    BY <1>1, <1>4, <1>6, <1>8 DEF IInv

LEMMA NextInv == IInv /\ [Next]_vars => IInv'
  BY TypedStep, AskedStep, KeptStep, NamedStep, IdentityStep, NamespaceStep, PassStep DEF IInv

LEMMA Invariant == Spec => []IInv
  BY InitInv, NextInv, PTL DEF Spec

\* A change of one setting leaves the others as they were set last, however many changes,
\* failures and restarts there are, unless one was stored over another it had not read.
THEOREM SettingsAreKept == Spec => []SettingsKept
  <1>1. IInv => SettingsKept
    BY DEF IInv, Kept, SettingsKept
  <1> QED
    BY <1>1, Invariant, PTL

\* Once the changes of settings are taken up, the rules that let errors pass are those the
\* newest identity and the newest namespace ask for, in whatever order listeners ran.
THEOREM RulesKeepUp == Spec => []RulesFollowSettings
  BY RulesFollow, Invariant, PTL

\* After a pass of the validation that nothing disturbed, a version bears a verdict exactly
\* if it has errors no rule allows, for any number of versions.
THEOREM VerdictsAreRight == Spec => []PassSettles
  <1>1. IInv => PassSettles
    BY DEF IInv, PassInv, Settled, PassSettles
  <1> QED
    BY <1>1, Invariant, PTL

=============================================================================
