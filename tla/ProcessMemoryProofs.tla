------------------------- MODULE ProcessMemoryProofs -------------------------
(***************************************************************************)
(* The conditions helper for every list of conditions, and the isolation of *)
(* the workers' objects for every number of scans, failures and steps.      *)
(***************************************************************************)
EXTENDS ProcessMemory, FilterProofs

-----------------------------------------------------------------------------
(* The conditions helper. *)

(***************************************************************************)
(* What Build promises (condition_builder.go, the comment on Build): a      *)
(* change of the status is dated now and nothing else is; the same for the  *)
(* reason and the message; nothing of a condition is left unset.            *)
(***************************************************************************)
THEOREM BuildDates ==
  ASSUME NEW old, old.lastTransitionTime # 0, old.lastUpdateTime # 0,
         NEW new, new.time # 0
  PROVE  LET c == Build(old, new)
         IN  /\ c.type = new.type
             /\ c.status # "" /\ c.reason # "" /\ c.message # ""
             /\ c.status = old.status => c.lastTransitionTime = old.lastTransitionTime
             /\ c.status # old.status => c.lastTransitionTime = new.time
             /\ c.reason = old.reason /\ c.message = old.message
                  => c.lastUpdateTime = old.lastUpdateTime
             /\ c.reason # old.reason \/ c.message # old.message
                  => c.lastUpdateTime = new.time
BY DEF Build, Condition, Or, Since

\* The condition the loop stops at is one of the type.
LEMMA PositionFinds ==
  ASSUME NEW S, NEW conditions \in Seq(S), NEW type, Has(conditions, type)
  PROVE  /\ Position(conditions, type) \in DOMAIN conditions
         /\ conditions[Position(conditions, type)].type = type
<1> DEFINE At == {i \in DOMAIN conditions : conditions[i].type = type}
<1>1. At # {} /\ At \subseteq Nat
  BY DEF Has
<1>2. PICK i \in At : \A j \in At : i <= j
  <2> DEFINE Less == {ss \in Nat \X Nat : ss[1] < ss[2]}
  <2>1. IsWellFoundedOn(Less, Nat)
    BY NatLessThanWellFounded, Zenon DEF OpToRel
  <2>2. PICK i \in At : \A j \in At : <<j, i>> \notin Less
    <3> HIDE DEF Less
    <3> QED BY <1>1, <2>1, WFMin
  <2>3. \A j \in At : ~(j < i)
    BY <2>2, <1>1
  <2> QED BY <2>3, <1>1
<1> QED BY <1>2 DEF Position

(***************************************************************************)
(* UpdateConditions leaves one condition of the reported type, and one of   *)
(* every other type if there was one: its loop may stop at the first match. *)
(***************************************************************************)
THEOREM UpdateKeepsOnePerType ==
  ASSUME NEW S, NEW conditions \in Seq(S), OnePerType(conditions), NEW new
  PROVE  LET updated == UpdateConditions(conditions, new)
         IN  OnePerType(updated) /\ Has(updated, new.type)
<1> DEFINE updated == UpdateConditions(conditions, new)
<1>0. \A old : Build(old, new).type = new.type
  BY DEF Build, Condition
<1>1. CASE Has(conditions, new.type)
  <2> DEFINE k == Position(conditions, new.type)
             b == Build(conditions[k], new)
  <2>1. k \in DOMAIN conditions /\ conditions[k].type = new.type
    BY <1>1, PositionFinds
  <2>2. updated = [conditions EXCEPT ![k] = b]
    BY <1>1 DEF UpdateConditions
  <2>3. b.type = new.type
    BY <1>0
  <2> HIDE DEF k, b, updated
  <2>4. DOMAIN updated = DOMAIN conditions
    BY <2>2
  <2>5. \A i \in DOMAIN updated : updated[i].type = conditions[i].type
    BY <2>1, <2>2, <2>3
  <2> QED BY <2>1, <2>4, <2>5 DEF OnePerType, Has, updated
<1>2. CASE ~Has(conditions, new.type)
  <2> DEFINE b == Build(ZeroCondition, new)
  <2>1. updated = Append(conditions, b)
    BY <1>2 DEF UpdateConditions
  <2>2. b.type = new.type
    BY <1>0
  <2> HIDE DEF b, updated
  <2>3. /\ DOMAIN updated = DOMAIN conditions \cup {Len(conditions) + 1}
        /\ updated[Len(conditions) + 1] = b
        /\ \A i \in DOMAIN conditions : updated[i] = conditions[i]
    BY <2>1
  <2> QED BY <1>2, <2>2, <2>3 DEF OnePerType, Has, updated
<1> QED BY <1>1, <1>2

-----------------------------------------------------------------------------
(* The generated copies. *)

(***************************************************************************)
(* DeepCopyInto of the two API objects leaves out no reference of their     *)
(* types, at any depth (zz_generated.deepcopy.go against types_*.go).       *)
(***************************************************************************)
THEOREM CopiesAreComplete ==
  /\ ComplianceScanCopies = ComplianceScanRefs
  /\ ComplianceScanSpecCopies = ComplianceScanSpecRefs
  /\ ScheduledComplianceScanCopies = ScheduledComplianceScanRefs
<1>1. OptionsCopies = OptionsRefs
  BY DEF OptionsCopies, OptionsRefs, OptionsConfigMapRefCopies,
         OptionsConfigMapRefRefs
<1>2. RulesetConfigCopies = RulesetConfigRefs
  BY <1>1 DEF RulesetConfigCopies, RulesetConfigRefs, RulesetOptionsCopies,
              RulesetOptionsRefs
<1>3. ComplianceScanSpecCopies = ComplianceScanSpecRefs
  BY <1>2 DEF ComplianceScanSpecCopies, ComplianceScanSpecRefs
<1>4. RulesetSummaryCopies = RulesetSummaryRefs
  BY DEF RulesetSummaryCopies, RulesetSummaryRefs, RulesResultsCopies,
         RulesResultsRefs, RulesFindingsCopies, RulesFindingsRefs
<1>5. ComplianceScanStatusCopies = ComplianceScanStatusRefs
  BY <1>4 DEF ComplianceScanStatusCopies, ComplianceScanStatusRefs,
              OutputStatusCopies, OutputStatusRefs
<1>6. ComplianceScanCopies = ComplianceScanRefs
  BY <1>3, <1>5 DEF ComplianceScanCopies, ComplianceScanRefs
<1>7. ScheduledComplianceScanSpecCopies = ScheduledComplianceScanSpecRefs
  BY <1>3 DEF ScheduledComplianceScanSpecCopies, ScheduledComplianceScanSpecRefs,
              TemplateCopies, TemplateRefs
<1>8. ScheduledComplianceScanCopies = ScheduledComplianceScanRefs
  BY <1>7 DEF ScheduledComplianceScanCopies, ScheduledComplianceScanRefs,
              ScheduledComplianceScanStatusCopies, ScheduledComplianceScanStatusRefs
<1> QED BY <1>3, <1>6, <1>8

-----------------------------------------------------------------------------
(* Isolation: every reference of an object leads to what that object        *)
(* allocated itself. It is inductive: copies are complete, and everything   *)
(* else a step does with references is to drop them or to make new memory.  *)

Record(refs, phase, array, len, label) ==
  [refs |-> refs, phase |-> phase, array |-> array, len |-> len, label |-> label]

IsObject(x) == x = Record(x.refs, x.phase, x.array, x.len, x.label)

\* The references an object may have: those of its type.
Fits(o, path) ==
  o[1] \in {"cached", "local", "base"} =>
    path \in IF o[2] = Parent THEN ScheduledComplianceScanRefs ELSE ComplianceScanRefs

Isolated(o, refs) == \A p \in DOMAIN refs : refs[p] = <<o, p>> /\ Fits(o, p)

Sound(m) == /\ m = [o \in Objects |-> m[o]]
            /\ \A o \in Objects : IsObject(m[o]) /\ Isolated(o, m[o].refs)

LEMMA OwnIsIsolated ==
  ASSUME NEW o, NEW paths, \A p \in paths : Fits(o, p)
  PROVE  Isolated(o, Own(o, paths))
BY DEF Isolated, Own

LEMMA RenewIsIsolated ==
  ASSUME NEW o, NEW refs, Isolated(o, refs), NEW paths, \A p \in paths : Fits(o, p)
  PROVE  Isolated(o, Renew(o, refs, paths))
BY DEF Isolated, Renew

\* An object replaced.
LEMMA ReplaceIsSound ==
  ASSUME NEW m, Sound(m), NEW o \in Objects, NEW x, IsObject(x), Isolated(o, x.refs)
  PROVE  Sound([m EXCEPT ![o] = x])
BY DEF Sound

\* One field of an object replaced.
LEMMA FieldIsSound ==
  ASSUME NEW m, Sound(m), NEW o \in Objects, NEW v
  PROVE  /\ Sound([m EXCEPT ![o].phase = v])
         /\ Sound([m EXCEPT ![o].array = v])
         /\ Sound([m EXCEPT ![o].len = v])
         /\ Sound([m EXCEPT ![o].label = v])
         /\ Isolated(o, v) => Sound([m EXCEPT ![o].refs = v])
<1> DEFINE x == m[o]
<1>1. /\ x = Record(x.refs, x.phase, x.array, x.len, x.label)
      /\ Isolated(o, x.refs)
  BY DEF Sound, IsObject
<1>2. /\ [m EXCEPT ![o].phase = v] = [m EXCEPT ![o] = [x EXCEPT !.phase = v]]
      /\ [m EXCEPT ![o].array = v] = [m EXCEPT ![o] = [x EXCEPT !.array = v]]
      /\ [m EXCEPT ![o].len = v] = [m EXCEPT ![o] = [x EXCEPT !.len = v]]
      /\ [m EXCEPT ![o].label = v] = [m EXCEPT ![o] = [x EXCEPT !.label = v]]
      /\ [m EXCEPT ![o].refs = v] = [m EXCEPT ![o] = [x EXCEPT !.refs = v]]
  OBVIOUS
<1> HIDE DEF x
<1>3. /\ [x EXCEPT !.phase = v] = Record(x.refs, v, x.array, x.len, x.label)
      /\ [x EXCEPT !.array = v] = Record(x.refs, x.phase, v, x.len, x.label)
      /\ [x EXCEPT !.len = v] = Record(x.refs, x.phase, x.array, v, x.label)
      /\ [x EXCEPT !.label = v] = Record(x.refs, x.phase, x.array, x.len, v)
      /\ [x EXCEPT !.refs = v] = Record(v, x.phase, x.array, x.len, x.label)
  BY <1>1 DEF Record
<1>4. ASSUME NEW r, NEW p, NEW a, NEW l, NEW b, Isolated(o, r)
      PROVE  Sound([m EXCEPT ![o] = Record(r, p, a, l, b)])
  <2>1. IsObject(Record(r, p, a, l, b)) /\ Record(r, p, a, l, b).refs = r
    BY DEF IsObject, Record
  <2> QED BY <1>4, <2>1, ReplaceIsSound
<1>5. /\ Sound([m EXCEPT ![o] = Record(x.refs, v, x.array, x.len, x.label)])
      /\ Sound([m EXCEPT ![o] = Record(x.refs, x.phase, v, x.len, x.label)])
      /\ Sound([m EXCEPT ![o] = Record(x.refs, x.phase, x.array, v, x.label)])
      /\ Sound([m EXCEPT ![o] = Record(x.refs, x.phase, x.array, x.len, v)])
      /\ Isolated(o, v) =>
           Sound([m EXCEPT ![o] = Record(v, x.phase, x.array, x.len, x.label)])
  BY <1>1, <1>4
<1>6. /\ Sound([m EXCEPT ![o] = [x EXCEPT !.phase = v]])
      /\ Sound([m EXCEPT ![o] = [x EXCEPT !.array = v]])
      /\ Sound([m EXCEPT ![o] = [x EXCEPT !.len = v]])
      /\ Sound([m EXCEPT ![o] = [x EXCEPT !.label = v]])
      /\ Isolated(o, v) => Sound([m EXCEPT ![o] = [x EXCEPT !.refs = v]])
  BY <1>3, <1>5, Zenon
<1> QED BY <1>2, <1>6, Zenon

SetArray(m, o, array) == [m EXCEPT ![o].array = array]
SetLen(m, o, len) == [m EXCEPT ![o].len = len]

\* Another field than refs leaves the references alone.
LEMMA FieldKeepsRefs ==
  ASSUME NEW m, Sound(m), NEW o \in Objects, NEW v
  PROVE  /\ SetPhase(m, o, v)[o].refs = m[o].refs /\ Sound(SetPhase(m, o, v))
         /\ SetArray(m, o, v)[o].refs = m[o].refs /\ Sound(SetArray(m, o, v))
         /\ SetLen(m, o, v)[o].refs = m[o].refs /\ Sound(SetLen(m, o, v))
<1> DEFINE x == m[o]
<1>1. /\ x = Record(x.refs, x.phase, x.array, x.len, x.label)
      /\ o \in DOMAIN m
  BY DEF Sound, IsObject
<1>2. /\ [m EXCEPT ![o].phase = v][o] = [x EXCEPT !.phase = v]
      /\ [m EXCEPT ![o].array = v][o] = [x EXCEPT !.array = v]
      /\ [m EXCEPT ![o].len = v][o] = [x EXCEPT !.len = v]
  BY <1>1
<1> HIDE DEF x
<1>3. /\ [x EXCEPT !.phase = v].refs = x.refs
      /\ [x EXCEPT !.array = v].refs = x.refs
      /\ [x EXCEPT !.len = v].refs = x.refs
  BY <1>1 DEF Record
<1>4. /\ SetPhase(m, o, v)[o].refs = m[o].refs
      /\ SetArray(m, o, v)[o].refs = m[o].refs
      /\ SetLen(m, o, v)[o].refs = m[o].refs
  BY <1>2, <1>3 DEF x, SetPhase, SetArray, SetLen
<1>5. Sound(SetPhase(m, o, v))
  BY FieldIsSound, Zenon DEF SetPhase
<1>6. Sound(SetArray(m, o, v))
  BY FieldIsSound, Zenon DEF SetArray
<1>7. Sound(SetLen(m, o, v))
  BY FieldIsSound, Zenon DEF SetLen
<1> QED BY <1>4, <1>5, <1>6, <1>7

LEMMA ObjectsOfWorkers ==
  ASSUME NEW w \in Workers
  PROVE  /\ Cached(w) \in Objects /\ Local(w) \in Objects
         /\ Base(w) \in Objects /\ Created(w) \in Objects
         /\ Local(w) # Base(w) /\ Local(w) # Created(w) /\ Local(w) # Cached(w)
         /\ Base(w) # Created(w)
BY DEF Cached, Local, Base, Created, Objects

LEMMA ScansAreWorkers ==
  /\ Parent \in Workers
  /\ \A s \in Scans : s \in Workers /\ s # Parent
BY NamesAssumption DEF Workers

\* What fits the local variable of a worker fits its other copies, and back.
LEMMA CopiesFit ==
  ASSUME NEW w \in Workers, NEW p
  PROVE  /\ Fits(Cached(w), p) <=> Fits(Local(w), p)
         /\ Fits(Base(w), p) <=> Fits(Local(w), p)
         /\ w \in Scans => (Fits(Local(w), p) <=> p \in ComplianceScanRefs)
         /\ w = Parent => (Fits(Local(w), p) <=> p \in ScheduledComplianceScanRefs)
         /\ Fits(Created(w), p)
BY ScansAreWorkers DEF Fits, Cached, Local, Base, Created

LEMMA CopyIsSound ==
  ASSUME NEW m, Sound(m), NEW from \in Objects, NEW to \in Objects, NEW copies,
         \A p \in DOMAIN m[from].refs : p \in copies /\ Fits(to, p)
  PROVE  Sound(Copy(m, from, to, copies))
<1> DEFINE refs == [p \in DOMAIN m[from].refs |->
                      IF p \in copies THEN <<to, p>> ELSE m[from].refs[p]]
           x == Record(refs, m[from].phase, Slice(m, from), m[from].len, m[from].label)
<1>1. Isolated(to, refs)
  BY DEF Isolated
<1>2. IsObject(x) /\ x.refs = refs
  BY DEF IsObject, Record
<1>3. Copy(m, from, to, copies) = [m EXCEPT ![to] = x]
  BY DEF Copy, Record
<1>4. Isolated(to, x.refs)
  BY <1>1, <1>2
<1> HIDE DEF x
<1>5. Sound([m EXCEPT ![to] = x])
  BY <1>2, <1>4, ReplaceIsSound, Zenon
<1> QED BY <1>3, <1>5

LEMMA OverwriteIsSound ==
  ASSUME NEW m, Sound(m), NEW o \in Objects, ConditionsRef \in DOMAIN m[o].refs,
         NEW conditions
  PROVE  /\ Sound(Overwrite(m, o, conditions))
         /\ Overwrite(m, o, conditions)[o].refs = m[o].refs
<1> DEFINE array == conditions \o Cleared(m[o].len - Len(conditions))
           n == Len(conditions)
<1>1. Owner(m, o, ConditionsRef) = o
  BY DEF Owner, Sound, Isolated
<1>2. Overwrite(m, o, conditions) = SetLen(SetArray(m, o, array), o, n)
  <2>1. Overwrite(m, o, conditions) = [m EXCEPT ![o].array = array, ![o].len = n]
    BY <1>1 DEF Overwrite
  <2> HIDE DEF array, n
  <2> QED BY <2>1 DEF SetLen, SetArray
<1> HIDE DEF array, n
<1> QED BY <1>2, FieldKeepsRefs

LEMMA ConditionsRefIsOfScans == ConditionsRef \in ComplianceScanRefs
<1>1. ConditionsRef = <<"status">> \o <<"conditions">>
  BY DEF ConditionsRef
<1>2. <<"conditions">> \in ComplianceScanStatusRefs
  BY DEF ComplianceScanStatusRefs
<1>3. ConditionsRef \in Under("status", ComplianceScanStatusRefs)
  BY <1>1, <1>2 DEF Under
<1> QED BY <1>3 DEF ComplianceScanRefs

LEMMA UpdateIsSound ==
  ASSUME NEW m, Sound(m), NEW s \in Scans, NEW report
  PROVE  /\ Sound(Update(m, Local(s), report))
         /\ ConditionsRef \in DOMAIN Update(m, Local(s), report)[Local(s)].refs
<1> DEFINE o == Local(s)
           updated == UpdateConditions(Slice(m, o), report)
<1>0. o \in Objects /\ ConditionsRef \in ComplianceScanRefs
  BY ScansAreWorkers, ObjectsOfWorkers, ConditionsRefIsOfScans
<1>1. CASE Has(Slice(m, o), report.type)
  <2>1. ConditionsRef \in DOMAIN m[o].refs
    BY <1>1 DEF Has, Slice
  <2>2. Update(m, o, report) = Overwrite(m, o, updated)
    BY <1>1 DEF Update
  <2> HIDE DEF updated
  <2>3. /\ Sound(Overwrite(m, o, updated))
        /\ Overwrite(m, o, updated)[o].refs = m[o].refs
    BY <1>0, <2>1, OverwriteIsSound
  <2> QED BY <2>1, <2>2, <2>3
<1>2. CASE ~Has(Slice(m, o), report.type)
  <2> DEFINE refs == Renew(o, m[o].refs, {ConditionsRef})
             x == Record(refs, m[o].phase, updated, Len(updated), m[o].label)
  <2>1. Update(m, o, report) = [m EXCEPT ![o] = x]
    BY <1>2 DEF Update, Allocate, Record
  <2>2. IsObject(x) /\ x.refs = refs
    BY DEF IsObject, Record
  <2>3. Isolated(o, refs)
    BY <1>0, CopiesFit, ScansAreWorkers, RenewIsIsolated DEF Sound
  <2>4. ConditionsRef \in DOMAIN refs
    BY DEF Renew
  <2>5. Isolated(o, x.refs) /\ ConditionsRef \in DOMAIN x.refs
    BY <2>2, <2>3, <2>4
  <2> HIDE DEF x
  <2>6. [m EXCEPT ![o] = x][o] = x
    BY <1>0 DEF Sound
  <2>7. Sound([m EXCEPT ![o] = x])
    BY <1>0, <2>2, <2>5, ReplaceIsSound, Zenon
  <2> QED BY <2>1, <2>5, <2>6, <2>7
<1> QED BY <1>1, <1>2

LEMMA DecodeIsSound ==
  ASSUME NEW m, Sound(m), NEW o \in Objects, NEW paths, \A p \in paths : Fits(o, p)
  PROVE  /\ Sound(Decode(m, o, paths))
         /\ DOMAIN m[o].refs \subseteq DOMAIN Decode(m, o, paths)[o].refs
<1> DEFINE x == m[o]
           refs == Renew(o, x.refs, paths \ DOMAIN x.refs)
<1>1. Isolated(o, refs)
  BY RenewIsIsolated DEF Sound
<1>2. Decode(m, o, paths) = [m EXCEPT ![o].refs = refs]
  BY DEF Decode
<1>3. DOMAIN x.refs \subseteq DOMAIN refs
  BY DEF Renew
<1>4. /\ x = Record(x.refs, x.phase, x.array, x.len, x.label)
      /\ o \in DOMAIN m
  BY DEF Sound, IsObject
<1> HIDE DEF refs
<1>5. [m EXCEPT ![o].refs = refs][o] = [x EXCEPT !.refs = refs]
  BY <1>4
<1> HIDE DEF x
<1>6. [x EXCEPT !.refs = refs].refs = refs
  BY <1>4 DEF Record
<1>7. Sound([m EXCEPT ![o].refs = refs])
  BY <1>1, FieldIsSound, Zenon
<1> QED BY <1>2, <1>3, <1>5, <1>6, <1>7 DEF x

LEMMA DecodeStatusIsSound ==
  ASSUME NEW m, Sound(m), NEW s \in Scans, NEW st
  PROVE  Sound(DecodeStatus(m, Local(s), st))
<1> DEFINE o == Local(s)
           dated == SetPhase(m, o, st.phase)
           paths == ScanRefs(st) \ {ConditionsRef}
           rest == Decode(dated, o, paths)
<1>1. o \in Objects
  BY ScansAreWorkers, ObjectsOfWorkers
<1>2. Sound(dated) /\ dated[o].refs = m[o].refs
  BY <1>1, FieldKeepsRefs
<1>3. \A p \in paths : Fits(o, p)
  BY ScansAreWorkers, CopiesFit DEF ScanRefs
<1> HIDE DEF dated, paths
<1>4. Sound(rest) /\ DOMAIN dated[o].refs \subseteq DOMAIN rest[o].refs
  BY <1>1, <1>2, <1>3, DecodeIsSound
<1>5. DecodeStatus(m, o, st) = IF ConditionsRef \in DOMAIN m[o].refs
                               THEN Overwrite(rest, o, st.conditions) ELSE rest
  BY DEF DecodeStatus, dated, paths
<1> HIDE DEF rest, o
<1>6. CASE ConditionsRef \in DOMAIN m[o].refs
  <2>1. ConditionsRef \in DOMAIN rest[o].refs
    BY <1>2, <1>4, <1>6
  <2>2. Sound(Overwrite(rest, o, st.conditions))
    BY <1>1, <1>4, <2>1, OverwriteIsSound
  <2> QED BY <1>5, <1>6, <2>2 DEF o
<1>7. CASE ConditionsRef \notin DOMAIN m[o].refs
  BY <1>4, <1>5, <1>7 DEF o
<1> QED BY <1>6, <1>7

LEMMA NoObjectIsIsolated ==
  ASSUME NEW o
  PROVE  IsObject(NoObject) /\ Isolated(o, NoObject.refs)
<1>1. /\ NoObject = Record(<< >>, "", << >>, Len(<< >>), None)
      /\ NoObject.refs = << >>
  BY DEF NoObject, Object, Record
<1>2. IsObject(NoObject)
  BY <1>1 DEF IsObject, Record
<1>3. DOMAIN NoObject.refs = {}
  <2>1. << >> \in Seq({}) /\ Len(<< >>) = 0
    OBVIOUS
  <2>2. DOMAIN << >> = 1..Len(<< >>)
    BY <2>1
  <2>3. DOMAIN << >> = {}
    BY <2>1, <2>2
  <2> QED BY <1>1, <2>3, Zenon
<1> QED BY <1>2, <1>3 DEF Isolated

LEMMA ForgettingIsSound ==
  ASSUME NEW m, Sound(m), NEW w \in Workers
  PROVE  Sound(Used(m, w)) /\ Sound(Forget(m, w))
<1>1. ASSUME NEW n, Sound(n), NEW o \in Objects
      PROVE  Sound([n EXCEPT ![o] = NoObject])
  BY <1>1, NoObjectIsIsolated, ReplaceIsSound, Zenon
<1>2. Local(w) \in Objects /\ Base(w) \in Objects /\ Created(w) \in Objects
  BY ObjectsOfWorkers
<1>3. Sound(Used(m, w))
  BY <1>1, <1>2, Zenon DEF Used
<1> DEFINE m1 == [m EXCEPT ![Local(w)] = NoObject]
           m2 == [m1 EXCEPT ![Base(w)] = NoObject]
<1>4. Sound(m1)
  BY <1>1, <1>2, Zenon
<1>5. Forget(m, w) = [m2 EXCEPT ![Created(w)] = NoObject]
  BY DEF Forget
<1> HIDE DEF m1
<1>6. Sound(m2)
  BY <1>1, <1>2, <1>4, Zenon
<1> HIDE DEF m2
<1>7. Sound([m2 EXCEPT ![Created(w)] = NoObject])
  BY <1>1, <1>2, <1>6, Zenon
<1> QED BY <1>3, <1>5, <1>7

\* A worker's change to its scan, patched from a fresh base.
LEMMA ChangedIsSound ==
  ASSUME Sound(memory), NEW s \in Scans, NEW phase, NEW report
  PROVE  /\ Sound(Changed(s, phase, report))
         /\ ConditionsRef \in DOMAIN Changed(s, phase, report)[Local(s)].refs
<1>1. s \in Workers /\ Local(s) \in Objects /\ Base(s) \in Objects
  BY ScansAreWorkers, ObjectsOfWorkers
<1>2. \A p \in DOMAIN memory[Local(s)].refs :
        p \in ComplianceScanCopies /\ Fits(Base(s), p)
  BY <1>1, CopiesFit, CopiesAreComplete DEF Sound, Isolated
<1>3. Sound(MergeFrom(s))
  BY <1>1, <1>2, CopyIsSound DEF MergeFrom
<1> DEFINE m == Update(MergeFrom(s), Local(s), report)
<1>4. Sound(m) /\ ConditionsRef \in DOMAIN m[Local(s)].refs
  BY <1>3, UpdateIsSound
<1> HIDE DEF m
<1>5. /\ Sound(SetPhase(m, Local(s), phase))
      /\ SetPhase(m, Local(s), phase)[Local(s)].refs = m[Local(s)].refs
  BY <1>1, <1>4, FieldKeepsRefs
<1> QED BY <1>4, <1>5 DEF Changed, m

-----------------------------------------------------------------------------
LEMMA InitIsSound ==
  ASSUME Init
  PROVE  Sound(memory)
<1>1. ASSUME NEW o, NEW paths, NEW phase, NEW array, \A p \in paths : Fits(o, p)
      PROVE  /\ IsObject(Object(Own(o, paths), phase, array, None))
             /\ Isolated(o, Object(Own(o, paths), phase, array, None).refs)
  <2>1. Object(Own(o, paths), phase, array, None)
          = Record(Own(o, paths), phase, array, Len(array), None)
    BY DEF Object, Record
  <2>2. Record(Own(o, paths), phase, array, Len(array), None).refs = Own(o, paths)
    BY DEF Record
  <2>3. IsObject(Record(Own(o, paths), phase, array, Len(array), None))
    BY DEF IsObject, Record
  <2>4. Isolated(o, Own(o, paths))
    BY <1>1, OwnIsIsolated
  <2> QED BY <2>1, <2>2, <2>3, <2>4
<1>2. /\ memory = [o \in Objects |-> memory[o]]
      /\ \A o \in Objects :
           memory[o] = IF o = Shared THEN Object(Own(Shared, {LabelsRef}), "", << >>, None)
                       ELSE IF o = Cached(Parent) THEN CachedParent({})
                       ELSE IF o[1] = "cached" THEN CachedScan(o[2], NewStatus)
                       ELSE NoObject
  BY DEF Init
<1>3. ASSUME NEW o \in Objects
      PROVE  IsObject(memory[o]) /\ Isolated(o, memory[o].refs)
  <2>1. CASE o = Shared
    <3>1. Fits(Shared, LabelsRef)
      BY DEF Fits, Shared
    <3>2. memory[o] = Object(Own(o, {LabelsRef}), "", << >>, None)
      BY <1>2, <2>1
    <3> QED BY <1>1, <2>1, <3>1, <3>2
  <2>2. CASE o # Shared /\ o = Cached(Parent)
    <3>1. \A p \in ParentRefs({}) : Fits(o, p)
      BY <2>2, CopiesFit, ScansAreWorkers DEF ParentRefs
    <3>2. memory[o] = Object(Own(o, ParentRefs({})), "", << >>, None)
      BY <1>2, <2>2 DEF CachedParent
    <3> QED BY <1>1, <3>1, <3>2
  <2>3. CASE o # Shared /\ o # Cached(Parent) /\ o[1] = "cached"
    <3>1. PICK w \in Workers : o = Cached(w)
      BY <2>3 DEF Objects, Cached
    <3>2. w \in Scans /\ o[2] = w
      BY <2>3, <3>1 DEF Workers, Cached
    <3>3. \A p \in ScanRefs(NewStatus) : Fits(o, p)
      BY <3>1, <3>2, CopiesFit DEF ScanRefs
    <3>4. memory[o] = Object(Own(o, ScanRefs(NewStatus)), NewStatus.phase,
                             NewStatus.conditions, None)
      BY <1>2, <2>3, <3>1, <3>2 DEF CachedScan
    <3> QED BY <1>1, <3>3, <3>4
  <2>4. CASE o # Shared /\ o # Cached(Parent) /\ o[1] # "cached"
    BY <1>2, <2>4, NoObjectIsIsolated
  <2> QED BY <2>1, <2>2, <2>3, <2>4
<1> QED BY <1>2, <1>3 DEF Sound

LEMMA DeliverIsSound ==
  ASSUME Sound(memory), NEW w \in Workers, Deliver(w)
  PROVE  Sound(memory')
<1> DEFINE received == IF w = Parent THEN CachedParent(parentRefs)
                                     ELSE CachedScan(w, server[w])
<1>1. memory' = [memory EXCEPT ![Cached(w)] = received]
  BY DEF Deliver
<1>2. PICK paths, phase, array :
        /\ received = Object(Own(Cached(w), paths), phase, array, None)
        /\ \A p \in paths : Fits(Cached(w), p)
  <2>1. CASE w = Parent
    <3>1. \A p \in ParentRefs(parentRefs) : Fits(Cached(w), p)
      BY <2>1, CopiesFit DEF ParentRefs
    <3> QED BY <2>1, <3>1 DEF CachedParent
  <2>2. CASE w # Parent
    <3>1. w \in Scans
      BY <2>2 DEF Workers
    <3>2. \A p \in ScanRefs(server[w]) : Fits(Cached(w), p)
      BY <3>1, CopiesFit DEF ScanRefs
    <3> QED BY <2>2, <3>2 DEF CachedScan
  <2> QED BY <2>1, <2>2
<1> HIDE DEF received
<1>3. received = Record(Own(Cached(w), paths), phase, array, Len(array), None)
  BY <1>2 DEF Object, Record
<1>4. IsObject(received) /\ received.refs = Own(Cached(w), paths)
  BY <1>3 DEF IsObject, Record
<1>5. Isolated(Cached(w), received.refs)
  BY <1>2, <1>4, OwnIsIsolated
<1>6. Sound([memory EXCEPT ![Cached(w)] = received])
  BY <1>4, <1>5, ObjectsOfWorkers, ReplaceIsSound, Zenon
<1> QED BY <1>1, <1>6

LEMMA ScanWorkerIsSound ==
  ASSUME Sound(memory), NEW s \in Scans, ScanWorker(s)
  PROVE  Sound(memory')
<1>0. s \in Workers /\ Local(s) \in Objects /\ Cached(s) \in Objects
        /\ Created(s) \in Objects
  BY ScansAreWorkers, ObjectsOfWorkers
<1>1. CASE ReconcileGet(s)
  <2>1. \A p \in DOMAIN memory[Cached(s)].refs :
          p \in ComplianceScanCopies /\ Fits(Local(s), p)
    BY <1>0, CopiesFit, CopiesAreComplete DEF Sound, Isolated
  <2>2. Sound(Copy(memory, Cached(s), Local(s), ComplianceScanCopies))
    BY <1>0, <2>1, CopyIsSound
  <2> QED BY <1>1, <2>2 DEF ReconcileGet
<1>2. CASE PatchRunning(s)
  <2> DEFINE m == Changed(s, "Running", Report("Completed", "False",
                            "ComplianceScanRunning", "running", now))
  <2>1. Sound(m)
    BY ChangedIsSound
  <2>2. memory' = Used(DecodeStatus(m, Local(s), Patched(m, s)), s) \/ memory' = Used(m, s)
    BY <1>2 DEF PatchRunning
  <2> HIDE DEF m
  <2> QED BY <1>0, <2>1, <2>2, DecodeStatusIsSound, ForgettingIsSound
<1>3. CASE DeployLabels(s)
  <2> DEFINE refs == GetLabels(s)
  <2>1. CASE memory' = [memory EXCEPT ![Created(s)].refs = refs,
                                      ![refs[LabelsRef][1]].label = s]
    <3>1. refs[LabelsRef][1] = Created(s)
      BY DEF GetLabels, Own
    <3>2. Isolated(Created(s), refs)
      BY <1>0, CopiesFit, OwnIsIsolated DEF GetLabels
    <3> DEFINE m == [memory EXCEPT ![Created(s)].refs = refs]
    <3>3. memory' = [m EXCEPT ![Created(s)].label = s]
      <4> HIDE DEF refs
      <4> QED BY <2>1, <3>1
    <3> HIDE DEF refs
    <3>4. Sound(m)
      BY <1>0, <3>2, FieldIsSound, Zenon
    <3> HIDE DEF m
    <3>5. Sound([m EXCEPT ![Created(s)].label = s])
      BY <1>0, <3>4, FieldIsSound, Zenon
    <3> QED BY <3>3, <3>5
  <2>2. CASE UNCHANGED memory
    BY <2>2
  <2> QED BY <1>3, <2>1, <2>2 DEF DeployLabels
<1>4. CASE DeployCreate(s)
  BY <1>4 DEF DeployCreate
<1>5. CASE PatchCompleted(s)
  <2> DEFINE m == Changed(s, "Completed", Report("Completed", "True",
                            "ComplianceScanCompleted", "completed", now))
  <2>1. Sound(m)
    BY ChangedIsSound
  <2>2. memory' = Forget(DecodeStatus(m, Local(s), Patched(m, s)), s) \/ memory' = Used(m, s)
    BY <1>5 DEF PatchCompleted
  <2> HIDE DEF m
  <2> QED BY <1>0, <2>1, <2>2, DecodeStatusIsSound, ForgettingIsSound
<1>6. CASE HandleFailedScan(s)
  <2> DEFINE changed == Changed(s, "Failed", Report("Failed", "True",
                                  "ComplianceScanFailed", "failed", now))
             m == Overwrite(changed, Local(s), WithoutCompleted(Slice(changed, Local(s))))
  <2>1. Sound(changed) /\ ConditionsRef \in DOMAIN changed[Local(s)].refs
    BY ChangedIsSound
  <2>2. memory' = Forget(DecodeStatus(m, Local(s), Patched(m, s)), s) \/ memory' = Forget(m, s)
    BY <1>6 DEF HandleFailedScan
  <2> HIDE DEF changed
  <2>3. Sound(m)
    BY <1>0, <2>1, OverwriteIsSound
  <2> HIDE DEF m
  <2> QED BY <1>0, <2>2, <2>3, DecodeStatusIsSound, ForgettingIsSound
<1> QED BY <1>1, <1>2, <1>3, <1>4, <1>5, <1>6 DEF ScanWorker

LEMMA StatusRefsAreOfParents ==
  {ActiveRef, ScheduledRef, CompletedRef} \subseteq ScheduledComplianceScanRefs
<1>1. /\ ActiveRef = <<"status">> \o <<"active">>
      /\ ScheduledRef = <<"status">> \o <<"lastScheduleTime">>
      /\ CompletedRef = <<"status">> \o <<"lastCompletionTime">>
  BY DEF ActiveRef, ScheduledRef, CompletedRef
<1>2. {ActiveRef, ScheduledRef, CompletedRef}
        \subseteq Under("status", ScheduledComplianceScanStatusRefs)
  BY <1>1 DEF Under, ScheduledComplianceScanStatusRefs
<1> QED BY <1>2 DEF ScheduledComplianceScanRefs

LEMMA ParentWorkerIsSound ==
  ASSUME Sound(memory), ParentWorker
  PROVE  Sound(memory')
<1>0. Parent \in Workers /\ Local(Parent) \in Objects /\ Base(Parent) \in Objects
        /\ Cached(Parent) \in Objects /\ Created(Parent) \in Objects
        /\ Local(Parent) # Base(Parent)
  BY ScansAreWorkers, ObjectsOfWorkers
<1>1. CASE ScheduledGet
  <2>1. \A p \in DOMAIN memory[Cached(Parent)].refs :
          p \in ScheduledComplianceScanCopies /\ Fits(Local(Parent), p)
    BY <1>0, CopiesFit, CopiesAreComplete DEF Sound, Isolated
  <2> QED BY <1>0, <1>1, <2>1, CopyIsSound DEF ScheduledGet
<1>2. ASSUME NEW dropped, NEW set \in SUBSET {ActiveRef, ScheduledRef, CompletedRef},
             NEW ok, PatchParent(dropped, set, ok)
      PROVE  Sound(memory')
  <2> DEFINE m == Copy(memory, Local(Parent), Base(Parent), ScheduledComplianceScanCopies)
             kept == [p \in DOMAIN m[Local(Parent)].refs \ dropped
                        |-> m[Local(Parent)].refs[p]]
             refs == Renew(Local(Parent), kept, set)
             assigned == Assign(dropped, set)
             paths == ParentRefs((parentRefs \ dropped) \cup set)
             decoded == Decode(assigned, Local(Parent), paths)
  <2>1. \A p \in DOMAIN memory[Local(Parent)].refs :
          p \in ScheduledComplianceScanCopies /\ Fits(Base(Parent), p)
    BY <1>0, CopiesFit, CopiesAreComplete DEF Sound, Isolated
  <2>2. Sound(m)
    BY <1>0, <2>1, CopyIsSound
  <2>3. Isolated(Local(Parent), kept)
    <3> HIDE DEF m
    <3> QED BY <1>0, <2>2 DEF Sound, Isolated
  <2>4. \A p \in set : Fits(Local(Parent), p)
    BY <1>0, CopiesFit, StatusRefsAreOfParents
  <2>5. Isolated(Local(Parent), refs)
    BY <2>3, <2>4, RenewIsIsolated
  <2>6. assigned = [m EXCEPT ![Local(Parent)].refs = refs]
    BY DEF Assign
  <2> HIDE DEF m, kept, refs, assigned, paths
  <2>7. Sound(assigned)
    <3>1. Sound([m EXCEPT ![Local(Parent)].refs = refs])
      BY <1>0, <2>2, <2>5, FieldIsSound, Zenon
    <3> QED BY <2>6, <3>1
  <2>8. \A p \in paths : Fits(Local(Parent), p)
    BY <1>0, CopiesFit DEF paths, ParentRefs
  <2>9. Sound(decoded)
    BY <1>0, <2>7, <2>8, DecodeIsSound
  <2>10. memory' \in {Forget(decoded, Parent), Used(decoded, Parent), Forget(memory, Parent)}
    BY <1>2 DEF PatchParent, assigned, paths
  <2> HIDE DEF decoded
  <2> QED BY <1>0, <2>9, <2>10, ForgettingIsSound
<1>3. CASE ClearActive
  BY <1>2, <1>3 DEF ClearActive
<1>4. CASE RecoverActive
  BY <1>2, <1>4 DEF RecoverActive
<1>5. CASE DeployComplianceScan
  <2>1. Isolated(Created(Parent), NewChild)
    <3>1. Under("spec", ComplianceScanSpecRefs) = Under("spec", ComplianceScanSpecCopies)
      BY CopiesAreComplete
    <3>2. \A p \in Under("spec", ComplianceScanSpecRefs) :
            ChildSpec(p) = <<Created(Parent), p>>
      BY <3>1 DEF ChildSpec
    <3>3. \A p : Fits(Created(Parent), p)
      BY <1>0, CopiesFit
    <3> QED BY <3>2, <3>3 DEF NewChild, Renew, Isolated
  <2>2. Sound([memory EXCEPT ![Created(Parent)].refs = NewChild])
    BY <1>0, <2>1, FieldIsSound, Zenon
  <2> QED BY <1>0, <1>5, <2>2, ForgettingIsSound DEF DeployComplianceScan
<1>6. CASE SetActiveScan
  BY <1>2, <1>6 DEF SetActiveScan
<1>7. CASE ScheduledReturn
  BY <1>0, <1>7, ForgettingIsSound DEF ScheduledReturn
<1> QED BY <1>1, <1>3, <1>4, <1>5, <1>6, <1>7 DEF ParentWorker

LEMMA NextIsSound ==
  ASSUME Sound(memory), [Next]_vars
  PROVE  Sound(memory')
<1>1. CASE \E s \in Scans : ScanWorker(s)
  BY <1>1, ScanWorkerIsSound
<1>2. CASE \E s \in Scans : ExporterPatch(s)
  BY <1>2 DEF ExporterPatch
<1>3. CASE \E w \in Workers : Deliver(w)
  BY <1>3, DeliverIsSound
<1>4. CASE ParentWorker
  BY <1>4, ParentWorkerIsSound
<1>5. CASE Tick
  BY <1>5 DEF Tick
<1>6. CASE UNCHANGED vars
  BY <1>6 DEF vars
<1> QED BY <1>1, <1>2, <1>3, <1>4, <1>5, <1>6 DEF Next

LEMMA SoundImpliesNothingShared ==
  ASSUME Sound(memory)
  PROVE  NothingShared
<1> SUFFICES ASSUME NEW w \in Workers, NEW mine \in {Local(w), Created(w)},
                    NEW o \in Objects \ {mine}
             PROVE  Cells(memory, mine) \cap Cells(memory, o) = {}
  BY DEF NothingShared
<1>1. mine \in Objects
  BY ObjectsOfWorkers
<1>2. \A c \in Cells(memory, mine) : c[1] = mine
  BY <1>1 DEF Cells, Range, Sound, Isolated
<1>3. \A c \in Cells(memory, o) : c[1] = o
  BY DEF Cells, Range, Sound, Isolated
<1> QED BY <1>2, <1>3

(***************************************************************************)
(* No object that a worker changes or has decoded into shares memory with   *)
(* the cache, the configuration or another worker's object (NothingShared), *)
(* for any number of scans and however calls fail.                          *)
(***************************************************************************)
THEOREM NothingSharedHolds == Spec => []NothingShared
<1>1. Init => Sound(memory)
  BY InitIsSound
<1>2. Sound(memory) /\ [Next]_vars => Sound(memory)'
  <2> SUFFICES ASSUME Sound(memory), [Next]_vars
               PROVE  Sound(memory')
    OBVIOUS
  <2> QED BY NextIsSound
<1>3. Sound(memory) => NothingShared
  BY SoundImpliesNothingShared
<1> QED BY <1>1, <1>2, <1>3, PTL DEF Spec

-----------------------------------------------------------------------------
(* What the workers' objects and the API server say. As no memory is        *)
(* shared, an object's conditions are those in its own array.               *)

Shown(x) == IF ConditionsRef \in DOMAIN x.refs THEN SubSeq(x.array, 1, x.len)
                                               ELSE << >>

\* A condition without empty fields, dated no later than time.
Complete(c, time) == /\ c \in AllConditions
                     /\ c.lastUpdateTime <= time
                     /\ c.lastTransitionTime <= time

\* The one condition that goes with a phase.
Means(phase, c) ==
  \/ /\ phase = "Running"
     /\ c.type = "Completed" /\ c.status = "False" /\ c.reason = "ComplianceScanRunning"
  \/ /\ phase = "Completed"
     /\ c.type = "Completed" /\ c.status = "True"
  \/ /\ phase = "Failed"
     /\ c.type = "Failed" /\ c.status = "True"

Tells(phase, conditions, time) ==
  \/ phase = "" /\ conditions = << >>
  \/ \E c \in Range(conditions) :
       conditions = <<c>> /\ Complete(c, time) /\ Means(phase, c)

\* The object x of a scan agrees with itself.
Tidy(x, time) == /\ Tells(x.phase, Shown(x), time)
                 /\ x.len = Len(Shown(x))
                 /\ ConditionsRef \in DOMAIN x.refs <=> Shown(x) # << >>

StatusTells(st, time) ==
  /\ st = [phase |-> st.phase, conditions |-> st.conditions, reported |-> st.reported]
  /\ st.reported \in BOOLEAN
  /\ Tells(st.phase, st.conditions, time)

\* The phases of the worker's copy at a point of Reconcile.
PhasesAt(label) ==
  CASE label = "running" -> {""}
    [] label \in {"labels", "create", "completed"} -> {"Running"}
    [] label = "failed" -> {"Running", "Completed"}

CopyFollows(s) ==
  pc[s] \in {"running", "labels", "create", "completed", "failed"} =>
    Tidy(memory[Local(s)], now) /\ memory[Local(s)].phase \in PhasesAt(pc[s])

LabelsFollow(s) ==
  pc[s] = "create" => /\ LabelsRef \in DOMAIN memory[Created(s)].refs
                      /\ memory[Created(s)].label = s

ScanFollows(s) == /\ StatusTells(server[s], now)
                  /\ Tidy(memory[Cached(s)], now)
                  /\ CopyFollows(s)
                  /\ LabelsFollow(s)

ControlTyped ==
  /\ server = [s \in Scans |-> server[s]]
  /\ parentRefs \subseteq {ActiveRef, ScheduledRef, CompletedRef}
  /\ pc \in [Workers -> Labels]
  /\ now \in 1..MaxTime
  /\ faults \in 0..MaxFaults

MemoryInvariant == /\ Sound(memory)
                   /\ ControlTyped
                   /\ \A s \in Scans : ScanFollows(s)

\* Sequences.
LEMMA PrefixOfConcatenation ==
  ASSUME NEW S, NEW T, NEW a \in Seq(S), NEW b \in Seq(T)
  PROVE  SubSeq(a \o b, 1, Len(a)) = a /\ SubSeq(a, 1, Len(a)) = a
OBVIOUS

LEMMA SingletonIsSequence ==
  ASSUME NEW c
  PROVE  /\ <<c>> \in Seq({c}) /\ Len(<<c>>) = 1 /\ DOMAIN <<c>> = {1}
         /\ <<c>>[1] = c /\ Range(<<c>>) = {c} /\ <<c>> # << >>
<1>1. /\ <<c>> \in Seq({c}) /\ Len(<<c>>) = 1 /\ DOMAIN <<c>> = {1}
      /\ <<c>>[1] = c /\ <<c>> # << >>
  OBVIOUS
<1> QED BY <1>1 DEF Range

LEMMA ClearedIsSequence ==
  ASSUME NEW n \in Int
  PROVE  Cleared(n) \in Seq({ZeroCondition})
<1> DEFINE Z == ZeroCondition
<1>1. Cleared(n) = [i \in 1..n |-> Z]
  BY DEF Cleared
<1> HIDE DEF Z
<1>2. CASE n \in Nat
  BY <1>1, <1>2 DEF Z
<1>3. CASE n \notin Nat
  <2>1. 1..n = 1..0
    BY <1>3
  <2>2. Cleared(n) = [i \in 1..0 |-> Z]
    BY <1>1, <2>1
  <2> QED BY <2>2 DEF Z
<1> QED BY <1>2, <1>3

LEMMA TellsSequence ==
  ASSUME NEW phase, NEW conditions, NEW time, Tells(phase, conditions, time)
  PROVE  /\ conditions \in Seq(AllConditions)
         /\ Len(conditions) \in {0, 1}
         /\ phase \in Phases
         /\ conditions = << >> <=> phase = ""
<1>1. CASE phase = "" /\ conditions = << >>
  <2>1. << >> \in Seq(AllConditions) /\ Len(<< >>) = 0
    OBVIOUS
  <2>2. conditions \in Seq(AllConditions) /\ Len(conditions) = 0
    BY <1>1, <2>1, Zenon
  <2> QED BY <1>1, <2>2 DEF Phases
<1>2. CASE \E c \in Range(conditions) :
             conditions = <<c>> /\ Complete(c, time) /\ Means(phase, c)
  <2>1. PICK c : conditions = <<c>> /\ c \in AllConditions /\ Means(phase, c)
    BY <1>2 DEF Complete
  <2>2. phase \in Phases /\ phase # ""
    BY <2>1 DEF Means, Phases
  <2>3. <<c>> \in Seq(AllConditions) /\ Len(<<c>>) = 1 /\ <<c>> # << >>
    BY <2>1
  <2> QED BY <2>1, <2>2, <2>3
<1> QED BY <1>1, <1>2 DEF Tells

-----------------------------------------------------------------------------
(* The conditions helper on the lists the controller meets. *)

LEMMA UpdateNone ==
  ASSUME NEW new
  PROVE  UpdateConditions(<< >>, new) = <<Build(ZeroCondition, new)>>
<1>1. ~Has(<< >>, new.type)
  <2>1. DOMAIN << >> = {}
    OBVIOUS
  <2> QED BY <2>1, Zenon DEF Has
<1> DEFINE b == Build(ZeroCondition, new)
<1>2. UpdateConditions(<< >>, new) = Append(<< >>, b)
  BY <1>1 DEF UpdateConditions
<1> HIDE DEF b
<1>3. Append(<< >>, b) = <<b>>
  OBVIOUS
<1> QED BY <1>2, <1>3 DEF b

LEMMA AppendAtEnd ==
  ASSUME NEW S, NEW a \in Seq(S), NEW x \in S
  PROVE  /\ Append(a, x) \in Seq(S) /\ Len(Append(a, x)) = Len(a) + 1
         /\ \A i \in 1..Len(a) : Append(a, x)[i] = a[i]
         /\ Append(a, x)[Len(a) + 1] = x
OBVIOUS

LEMMA TwoIsAppended ==
  ASSUME NEW S, NEW c \in S, NEW d \in S
  PROVE  Append(<<c>>, d) = <<c, d>>
<1>1. ASSUME NEW one \in Seq(S), Len(one) = 1, one[1] = c,
             NEW two \in Seq(S), Len(two) = 2, two[1] = c, two[2] = d
      PROVE  Append(one, d) = two
  <2>1. /\ Append(one, d) \in Seq(S) /\ Len(Append(one, d)) = Len(one) + 1
        /\ \A i \in 1..Len(one) : Append(one, d)[i] = one[i]
        /\ Append(one, d)[Len(one) + 1] = d
    BY AppendAtEnd, Zenon
  <2>2. Len(Append(one, d)) = 2 /\ Append(one, d)[2] = d
    <3>1. Len(one) + 1 = 2
      BY <1>1
    <3> QED BY <2>1, <3>1, Zenon
  <2>3. Append(one, d)[1] = c
    <3>1. 1 \in 1..Len(one)
      BY <1>1
    <3> QED BY <1>1, <2>1, <3>1, Zenon
  <2> QED BY <1>1, <2>1, <2>2, <2>3
<1>2. /\ <<c>> \in Seq(S) /\ Len(<<c>>) = 1 /\ <<c>>[1] = c
      /\ <<c, d>> \in Seq(S) /\ Len(<<c, d>>) = 2
      /\ <<c, d>>[1] = c /\ <<c, d>>[2] = d
  OBVIOUS
<1> QED BY <1>1, <1>2, Zenon

LEMMA UpdateOne ==
  ASSUME NEW c, NEW new
  PROVE  /\ c.type = new.type => UpdateConditions(<<c>>, new) = <<Build(c, new)>>
         /\ c.type # new.type =>
              UpdateConditions(<<c>>, new) = <<c, Build(ZeroCondition, new)>>
<1>1. Has(<<c>>, new.type) <=> c.type = new.type
  BY SingletonIsSequence DEF Has
<1>2. ASSUME c.type = new.type
      PROVE  UpdateConditions(<<c>>, new) = <<Build(c, new)>>
  <2> DEFINE k == Position(<<c>>, new.type)
  <2>1. k = 1
    <3>1. k \in DOMAIN <<c>>
      BY <1>1, <1>2, SingletonIsSequence, PositionFinds
    <3> QED BY <3>1, SingletonIsSequence
  <2>2. UpdateConditions(<<c>>, new) = [<<c>> EXCEPT ![k] = Build(<<c>>[k], new)]
    BY <1>1, <1>2 DEF UpdateConditions
  <2> DEFINE b == Build(c, new)
  <2>3. UpdateConditions(<<c>>, new) = [<<c>> EXCEPT ![1] = b]
    BY <2>1, <2>2, SingletonIsSequence
  <2> HIDE DEF b
  <2>4. [<<c>> EXCEPT ![1] = b] = <<b>>
    OBVIOUS
  <2> QED BY <2>3, <2>4 DEF b
<1>3. ASSUME c.type # new.type
      PROVE  UpdateConditions(<<c>>, new) = <<c, Build(ZeroCondition, new)>>
  <2> DEFINE b == Build(ZeroCondition, new)
  <2>1. UpdateConditions(<<c>>, new) = Append(<<c>>, b)
    BY <1>1, <1>3 DEF UpdateConditions
  <2> HIDE DEF b
  <2>2. Append(<<c>>, b) = <<c, b>>
    <3>1. c \in {c, b} /\ b \in {c, b}
      OBVIOUS
    <3> QED BY <3>1, TwoIsAppended
  <2> QED BY <2>1, <2>2 DEF b
<1> QED BY <1>2, <1>3

\* handleFailedScan drops the first of two conditions.
LEMMA WithoutTheFirst ==
  ASSUME NEW c, NEW d, c.type = "Completed", d.type # "Completed"
  PROVE  WithoutCompleted(<<c, d>>) = <<d>>
<1> DEFINE seq == <<c, d>>
           keep == {i \in DOMAIN seq : seq[i].type # "Completed"}
           out == Filtered(seq, keep)
<1>1. seq \in Seq({c, d}) /\ Len(seq) = 2 /\ seq[1] = c /\ seq[2] = d /\ DOMAIN seq = 1..2
  OBVIOUS
<1>2. keep = {2}
  BY <1>1
<1>3. WithoutCompleted(<<c, d>>) = out
  BY DEF WithoutCompleted
<1> HIDE DEF seq, keep
<1>4. Kept(keep, 2) = {2}
  BY <1>2 DEF Kept
<1>5. /\ out \in Seq({c, d})
      /\ Len(out) = Cardinality(Kept(keep, 2))
      /\ Picks(out, seq, Kept(keep, 2))
  BY <1>1, FilteredPicks
<1>6. Cardinality({2}) = 1
  BY FS_Singleton
<1> HIDE DEF out
<1>7. Len(out) = 1 /\ out[1] = d
  <2>1. Len(out) = 1
    BY <1>4, <1>5, <1>6
  <2>2. PICK at \in [1..1 -> {2}] : out[1] = seq[at[1]]
    BY <1>4, <1>5, <2>1 DEF Picks
  <2> QED BY <1>1, <2>1, <2>2
<1>8. out = <<d>>
  <2>1. out \in Seq({c, d})
    BY <1>5
  <2> QED BY <1>7, <2>1
<1> QED BY <1>3, <1>8

-----------------------------------------------------------------------------
(* What the operations on the memory make of an object; all others stay.    *)

\* n differs from m in the objects O at most.
Changes(m, n, O) == \A o \in Objects \ O : n[o] = m[o]

LEMMA SliceIsShown ==
  ASSUME NEW m, Sound(m), NEW o \in Objects
  PROVE  Slice(m, o) = Shown(m[o])
<1>1. CASE ConditionsRef \in DOMAIN m[o].refs
  <2>1. Owner(m, o, ConditionsRef) = o
    BY <1>1 DEF Owner, Sound, Isolated
  <2> QED BY <1>1, <2>1 DEF Slice, Shown
<1>2. CASE ConditionsRef \notin DOMAIN m[o].refs
  BY <1>2 DEF Slice, Shown
<1> QED BY <1>1, <1>2

LEMMA ReplaceValue ==
  ASSUME NEW m, Sound(m), NEW o \in Objects, NEW x
  PROVE  [m EXCEPT ![o] = x][o] = x /\ Changes(m, [m EXCEPT ![o] = x], {o})
BY DEF Sound, Changes

LEMMA SetPhaseValue ==
  ASSUME NEW m, Sound(m), NEW o \in Objects, NEW v
  PROVE  /\ SetPhase(m, o, v)[o] =
              Record(m[o].refs, v, m[o].array, m[o].len, m[o].label)
         /\ Changes(m, SetPhase(m, o, v), {o})
<1> DEFINE x == Record(m[o].refs, v, m[o].array, m[o].len, m[o].label)
<1>1. SetPhase(m, o, v) = [m EXCEPT ![o] = x]
  <2> DEFINE y == m[o]
  <2>1. y = Record(y.refs, y.phase, y.array, y.len, y.label)
    BY DEF Sound, IsObject
  <2>2. SetPhase(m, o, v) = [m EXCEPT ![o] = [y EXCEPT !.phase = v]]
    BY DEF SetPhase
  <2> HIDE DEF y
  <2>3. [y EXCEPT !.phase = v] = Record(y.refs, v, y.array, y.len, y.label)
    BY <2>1 DEF Record
  <2> QED BY <2>2, <2>3 DEF y
<1> HIDE DEF x
<1>2. [m EXCEPT ![o] = x][o] = x /\ Changes(m, [m EXCEPT ![o] = x], {o})
  BY ReplaceValue
<1> QED BY <1>1, <1>2 DEF x

LEMMA SetRefsValue ==
  ASSUME NEW m, Sound(m), NEW o \in Objects, NEW v
  PROVE  LET n == [m EXCEPT ![o].refs = v]
         IN  /\ n[o] = Record(v, m[o].phase, m[o].array, m[o].len, m[o].label)
             /\ Changes(m, n, {o})
<1> DEFINE x == Record(v, m[o].phase, m[o].array, m[o].len, m[o].label)
           n == [m EXCEPT ![o].refs = v]
<1>1. n = [m EXCEPT ![o] = x]
  <2> DEFINE y == m[o]
  <2>1. y = Record(y.refs, y.phase, y.array, y.len, y.label)
    BY DEF Sound, IsObject
  <2>2. n = [m EXCEPT ![o] = [y EXCEPT !.refs = v]]
    OBVIOUS
  <2> HIDE DEF y, n
  <2>3. [y EXCEPT !.refs = v] = Record(v, y.phase, y.array, y.len, y.label)
    BY <2>1 DEF Record
  <2> QED BY <2>2, <2>3 DEF y
<1> HIDE DEF x, n
<1>2. [m EXCEPT ![o] = x][o] = x /\ Changes(m, [m EXCEPT ![o] = x], {o})
  BY ReplaceValue
<1> QED BY <1>1, <1>2 DEF x, n

LEMMA RecordFields ==
  ASSUME NEW refs, NEW phase, NEW array, NEW len, NEW label
  PROVE  LET x == Record(refs, phase, array, len, label)
         IN  /\ x.refs = refs /\ x.phase = phase /\ x.array = array
             /\ x.len = len /\ x.label = label
BY DEF Record

LEMMA FullArrayShows ==
  ASSUME NEW S, NEW conditions \in Seq(S), NEW T, NEW rest \in Seq(T),
         NEW refs, ConditionsRef \in DOMAIN refs, NEW phase, NEW label
  PROVE  /\ Shown(Record(refs, phase, conditions \o rest, Len(conditions), label))
              = conditions
         /\ Shown(Record(refs, phase, conditions, Len(conditions), label)) = conditions
<1> DEFINE x == Record(refs, phase, conditions \o rest, Len(conditions), label)
           y == Record(refs, phase, conditions, Len(conditions), label)
<1>1. /\ x.refs = refs /\ x.array = conditions \o rest /\ x.len = Len(conditions)
      /\ y.refs = refs /\ y.array = conditions /\ y.len = Len(conditions)
  <2> DEFINE longer == conditions \o rest
             n == Len(conditions)
  <2> HIDE DEF longer, n
  <2>1. \A a : LET z == Record(refs, phase, a, n, label)
               IN  z.refs = refs /\ z.array = a /\ z.len = n
    BY RecordFields
  <2> QED BY <2>1 DEF longer, n
<1>2. Shown(x) = SubSeq(x.array, 1, x.len) /\ Shown(y) = SubSeq(y.array, 1, y.len)
  BY <1>1 DEF Shown
<1>3. /\ SubSeq(conditions \o rest, 1, Len(conditions)) = conditions
      /\ SubSeq(conditions, 1, Len(conditions)) = conditions
  BY PrefixOfConcatenation
<1> HIDE DEF x, y
<1> QED BY <1>1, <1>2, <1>3 DEF x, y

\* From m to n, the array that the object o has now holds conditions.
Refilled(m, n, o, conditions) ==
  /\ Changes(m, n, {o})
  /\ n[o].phase = m[o].phase /\ n[o].refs = m[o].refs
  /\ n[o].len = Len(conditions) /\ Shown(n[o]) = conditions

LEMMA OverwriteValue ==
  ASSUME NEW m, Sound(m), NEW o \in Objects, ConditionsRef \in DOMAIN m[o].refs,
         m[o].len \in Nat, NEW S, NEW conditions \in Seq(S)
  PROVE  Refilled(m, Overwrite(m, o, conditions), o, conditions)
<1> DEFINE n == Overwrite(m, o, conditions)
           rest == Cleared(m[o].len - Len(conditions))
           array == conditions \o rest
           x == Record(m[o].refs, m[o].phase, array, Len(conditions), m[o].label)
<1>1. Owner(m, o, ConditionsRef) = o
  BY DEF Owner, Sound, Isolated
<1>2. rest \in Seq({ZeroCondition})
  BY ClearedIsSequence
<1>3. n = [m EXCEPT ![o] = x]
  <2> DEFINE y == m[o]
             m1 == [m EXCEPT ![o].array = array]
             k == Len(conditions)
  <2>1. n = [m1 EXCEPT ![o].len = k]
    BY <1>1 DEF Overwrite
  <2> HIDE DEF array, k, rest
  <2>2. y = Record(y.refs, y.phase, y.array, y.len, y.label) /\ o \in DOMAIN m
    BY DEF Sound, IsObject
  <2>3. m1 = [m EXCEPT ![o] = [y EXCEPT !.array = array]]
    OBVIOUS
  <2> HIDE DEF y
  <2>4. [y EXCEPT !.array = array] = Record(y.refs, y.phase, array, y.len, y.label)
    BY <2>2 DEF Record
  <2>5. m1[o] = Record(y.refs, y.phase, array, y.len, y.label)
    BY <2>2, <2>3, <2>4
  <2>6. [m1 EXCEPT ![o].len = k] = [m EXCEPT ![o] = [m1[o] EXCEPT !.len = k]]
    BY <2>2, <2>3
  <2> HIDE DEF m1, n
  <2>7. [m1[o] EXCEPT !.len = k] = Record(y.refs, y.phase, array, k, y.label)
    BY <2>5 DEF Record
  <2> QED BY <2>1, <2>6, <2>7 DEF k, y
<1>4. n[o] = x /\ Changes(m, n, {o})
  <2> HIDE DEF x, n
  <2> QED BY <1>3, ReplaceValue
<1>5. /\ x.refs = m[o].refs /\ x.phase = m[o].phase /\ x.len = Len(conditions)
  BY RecordFields
<1>6. Shown(x) = conditions
  <2> HIDE DEF rest
  <2> QED BY <1>2, FullArrayShows
<1> QED
  <2> HIDE DEF x, n
  <2> QED BY <1>4, <1>5, <1>6 DEF n, Refilled

Copied(m, n, from, to) ==
  /\ Changes(m, n, {to})
  /\ n[to].phase = m[from].phase /\ n[to].len = m[from].len
  /\ DOMAIN n[to].refs = DOMAIN m[from].refs
  /\ Shown(n[to]) = Shown(m[from])

LEMMA CopyValue ==
  ASSUME NEW m, Sound(m), NEW from \in Objects, NEW to \in Objects, NEW copies,
         NEW S, Shown(m[from]) \in Seq(S), m[from].len = Len(Shown(m[from]))
  PROVE  Copied(m, Copy(m, from, to, copies), from, to)
<1> DEFINE n == Copy(m, from, to, copies)
           conditions == Shown(m[from])
           refs == [p \in DOMAIN m[from].refs |->
                      IF p \in copies THEN <<to, p>> ELSE m[from].refs[p]]
           x == Record(refs, m[from].phase, conditions, m[from].len, m[from].label)
<1>1. n = [m EXCEPT ![to] = x]
  BY SliceIsShown DEF Copy, Record
<1>2. n[to] = x /\ Changes(m, n, {to})
  <2> HIDE DEF x, n
  <2> QED BY <1>1, ReplaceValue
<1>3. x.refs = refs /\ x.phase = m[from].phase /\ x.len = m[from].len
  BY RecordFields
<1>4. DOMAIN refs = DOMAIN m[from].refs
  OBVIOUS
<1>5. Shown(x) = conditions
  <2>1. CASE ConditionsRef \in DOMAIN refs
    <3>1. conditions \in Seq(S) /\ m[from].len = Len(conditions)
      OBVIOUS
    <3> HIDE DEF conditions, refs
    <3> QED BY <2>1, <3>1, FullArrayShows
  <2>2. CASE ConditionsRef \notin DOMAIN refs
    <3>1. Shown(x) = << >>
      <4> HIDE DEF x
      <4> QED BY <1>3, <2>2 DEF Shown
    <3>2. conditions = << >>
      BY <1>4, <2>2 DEF Shown
    <3> QED BY <3>1, <3>2
  <2> QED BY <2>1, <2>2
<1> QED
  <2> HIDE DEF x, n, refs
  <2> QED BY <1>2, <1>3, <1>4, <1>5 DEF n, Copied

\* UpdateConditions on an object's conditions, in place or in a new array.
LEMMA UpdateValue ==
  ASSUME NEW m, Sound(m), NEW o \in Objects, NEW report,
         m[o].len \in Nat,
         NEW S, UpdateConditions(Shown(m[o]), report) \in Seq(S)
  PROVE  LET n == Update(m, o, report)
         IN  /\ Changes(m, n, {o})
             /\ n[o].phase = m[o].phase
             /\ ConditionsRef \in DOMAIN n[o].refs
             /\ Shown(n[o]) = UpdateConditions(Shown(m[o]), report)
             /\ n[o].len = Len(UpdateConditions(Shown(m[o]), report))
<1> DEFINE n == Update(m, o, report)
           updated == UpdateConditions(Shown(m[o]), report)
<1>1. Slice(m, o) = Shown(m[o])
  BY SliceIsShown
<1>2. CASE Has(Shown(m[o]), report.type)
  <2>1. ConditionsRef \in DOMAIN m[o].refs
    BY <1>2 DEF Shown, Has
  <2>2. n = Overwrite(m, o, updated)
    BY <1>1, <1>2 DEF Update
  <2>3. updated \in Seq(S)
    OBVIOUS
  <2> HIDE DEF updated, n
  <2>4. Refilled(m, n, o, updated)
    BY <2>1, <2>2, <2>3, OverwriteValue
  <2> QED BY <2>1, <2>4 DEF n, updated, Refilled
<1>3. CASE ~Has(Shown(m[o]), report.type)
  <2> DEFINE refs == Renew(o, m[o].refs, {ConditionsRef})
             x == Record(refs, m[o].phase, updated, Len(updated), m[o].label)
  <2>1. n = [m EXCEPT ![o] = x]
    BY <1>1, <1>3 DEF Update, Allocate, Record
  <2>2. ConditionsRef \in DOMAIN refs
    BY DEF Renew
  <2>3. x.refs = refs /\ x.phase = m[o].phase /\ x.len = Len(updated)
    BY RecordFields
  <2>4. Shown(x) = updated
    <3>1. updated \in Seq(S)
      OBVIOUS
    <3> HIDE DEF updated, refs
    <3> QED BY <2>2, <3>1, FullArrayShows
  <2>5. n[o] = x /\ Changes(m, n, {o})
    <3> HIDE DEF x, n
    <3> QED BY <2>1, ReplaceValue
  <2> HIDE DEF x, n, refs, updated
  <2>6. /\ n[o].phase = m[o].phase /\ ConditionsRef \in DOMAIN n[o].refs
        /\ Shown(n[o]) = updated /\ n[o].len = Len(updated)
    BY <2>2, <2>3, <2>4, <2>5
  <2> QED BY <2>5, <2>6 DEF n, updated
<1> QED BY <1>2, <1>3

LEMMA TidyObject ==
  ASSUME NEW x, NEW time, Tidy(x, time)
  PROVE  /\ Shown(x) \in Seq(AllConditions) /\ x.len = Len(Shown(x))
         /\ x.len \in Nat /\ x.phase \in Phases
         /\ Shown(x) = << >> <=> x.phase = ""
         /\ ConditionsRef \in DOMAIN x.refs <=> x.phase # ""
<1> DEFINE conditions == Shown(x)
<1>1. /\ x.len = Len(conditions)
      /\ ConditionsRef \in DOMAIN x.refs <=> conditions # << >>
  BY DEF Tidy
<1>2. Tells(x.phase, conditions, time)
  BY DEF Tidy
<1> HIDE DEF conditions
<1>3. conditions \in Seq(AllConditions) /\ x.phase \in Phases
  BY <1>2, TellsSequence, Zenon
<1>4. conditions = << >> <=> x.phase = ""
  BY <1>2, TellsSequence, Zenon
<1>5. Len(conditions) \in Nat
  BY <1>3
<1> QED BY <1>1, <1>3, <1>4, <1>5 DEF conditions

\* A worker's change to its scan, and the base of the patch.
Reworked(s, n, phase, conditions) ==
  /\ Changes(memory, n, {Local(s), Base(s)})
  /\ n[Local(s)].phase = phase
  /\ Shown(n[Local(s)]) = conditions
  /\ n[Local(s)].len = Len(conditions)
  /\ n[Base(s)].phase = memory[Local(s)].phase
  /\ Shown(n[Base(s)]) = Shown(memory[Local(s)])

LEMMA ChangedValue ==
  ASSUME Sound(memory), NEW s \in Scans, Tidy(memory[Local(s)], now),
         NEW phase, NEW report,
         NEW S, UpdateConditions(Shown(memory[Local(s)]), report) \in Seq(S)
  PROVE  Reworked(s, Changed(s, phase, report), phase,
                  UpdateConditions(Shown(memory[Local(s)]), report))
<1> DEFINE o == Local(s)
           b == Base(s)
           m == MergeFrom(s)
           u == Update(m, o, report)
           n == Changed(s, phase, report)
           updated == UpdateConditions(Shown(memory[o]), report)
<1>0. s \in Workers /\ o \in Objects /\ b \in Objects /\ o # b
  BY ScansAreWorkers, ObjectsOfWorkers
<1>1. Sound(m)
  <2>1. \A p \in DOMAIN memory[o].refs : p \in ComplianceScanCopies /\ Fits(b, p)
    BY <1>0, CopiesFit, CopiesAreComplete DEF Sound, Isolated
  <2> QED BY <1>0, <2>1, CopyIsSound DEF MergeFrom
<1>2. /\ Changes(memory, m, {b})
      /\ m[b].phase = memory[o].phase /\ Shown(m[b]) = Shown(memory[o])
  <2>1. Shown(memory[o]) \in Seq(AllConditions) /\ memory[o].len = Len(Shown(memory[o]))
    BY TidyObject
  <2> HIDE DEF o, b
  <2>2. Copied(memory, m, o, b)
    BY <1>0, <2>1, CopyValue DEF MergeFrom, o, b
  <2> QED BY <2>2 DEF Copied
<1>3. m[o] = memory[o] /\ m[o].len \in Nat
  <2>1. m[o] = memory[o]
    BY <1>0, <1>2 DEF Changes
  <2> QED BY <2>1, TidyObject
<1>4. Sound(u)
  BY <1>1, UpdateIsSound
<1>5. /\ Changes(m, u, {o}) /\ u[o].phase = m[o].phase
      /\ ConditionsRef \in DOMAIN u[o].refs
      /\ Shown(u[o]) = updated /\ u[o].len = Len(updated)
  <2>1. UpdateConditions(Shown(m[o]), report) \in Seq(S)
    BY <1>3
  <2> HIDE DEF m, o
  <2>2. LET k == Update(m, o, report)
        IN  /\ Changes(m, k, {o})
            /\ k[o].phase = m[o].phase
            /\ ConditionsRef \in DOMAIN k[o].refs
            /\ Shown(k[o]) = UpdateConditions(Shown(m[o]), report)
            /\ k[o].len = Len(UpdateConditions(Shown(m[o]), report))
    BY <1>0, <1>1, <1>3, <2>1, UpdateValue
  <2> QED BY <1>3, <2>2
<1>6. n = SetPhase(u, o, phase)
  BY DEF Changed
<1> DEFINE x == Record(u[o].refs, phase, u[o].array, u[o].len, u[o].label)
<1> HIDE DEF m, u, updated, n
<1>7. n[o] = x /\ Changes(u, n, {o})
  <2> HIDE DEF o
  <2> QED BY <1>0, <1>4, <1>6, SetPhaseValue
<1>8. /\ x.refs = u[o].refs /\ x.phase = phase /\ x.array = u[o].array
      /\ x.len = u[o].len
  BY RecordFields
<1> HIDE DEF x, o, b
<1>9. Shown(x) = Shown(u[o])
  BY <1>8 DEF Shown
<1>10. n[b] = m[b] /\ Changes(memory, n, {o, b})
  BY <1>0, <1>2, <1>5, <1>7 DEF Changes
<1>11. /\ Changes(memory, n, {o, b})
       /\ n[o].phase = phase /\ Shown(n[o]) = updated /\ n[o].len = Len(updated)
       /\ n[b].phase = memory[o].phase /\ Shown(n[b]) = Shown(memory[o])
  BY <1>2, <1>5, <1>7, <1>8, <1>9, <1>10
<1> QED BY <1>11 DEF n, o, b, updated, Reworked

\* The answer of the API server replaces phase and conditions.
Decoded(m, n, o, st) ==
  /\ Changes(m, n, {o})
  /\ n[o].phase = st.phase
  /\ Shown(n[o]) = st.conditions
  /\ n[o].len = Len(st.conditions)
  /\ ConditionsRef \in DOMAIN n[o].refs

LEMMA DecodeStatusValue ==
  ASSUME NEW m, Sound(m), NEW s \in Scans,
         m[Local(s)].len \in Nat, ConditionsRef \in DOMAIN m[Local(s)].refs,
         NEW st, NEW S, st.conditions \in Seq(S)
  PROVE  Decoded(m, DecodeStatus(m, Local(s), st), Local(s), st)
<1> DEFINE o == Local(s)
           dated == SetPhase(m, o, st.phase)
           paths == ScanRefs(st) \ {ConditionsRef}
           rest == Decode(dated, o, paths)
           refs == Renew(o, dated[o].refs, paths \ DOMAIN dated[o].refs)
           conditions == st.conditions
           n == Overwrite(rest, o, conditions)
<1>1. o \in Objects
  BY ScansAreWorkers, ObjectsOfWorkers
<1>2. DecodeStatus(m, o, st) = n
  BY DEF DecodeStatus
<1>3. Sound(dated) /\ dated[o].refs = m[o].refs
  BY <1>1, FieldKeepsRefs
<1>4. \A p \in paths : Fits(o, p)
  BY ScansAreWorkers, CopiesFit DEF ScanRefs
<1>5. Sound(rest) /\ DOMAIN dated[o].refs \subseteq DOMAIN rest[o].refs
  <2> HIDE DEF dated, paths
  <2> QED BY <1>1, <1>3, <1>4, DecodeIsSound
<1>6. rest = [dated EXCEPT ![o].refs = refs]
  BY DEF Decode
<1> HIDE DEF o, dated, paths, refs, conditions
<1>7. /\ dated[o] = Record(m[o].refs, st.phase, m[o].array, m[o].len, m[o].label)
      /\ Changes(m, dated, {o})
  BY <1>1, SetPhaseValue DEF dated
<1>8. dated[o].phase = st.phase /\ dated[o].len = m[o].len
  BY <1>7, RecordFields
<1>9. /\ [dated EXCEPT ![o].refs = refs][o] =
           Record(refs, dated[o].phase, dated[o].array, dated[o].len, dated[o].label)
      /\ Changes(dated, [dated EXCEPT ![o].refs = refs], {o})
  BY <1>1, <1>3, SetRefsValue
<1> HIDE DEF rest
<1>10. /\ rest[o].phase = st.phase /\ rest[o].len = m[o].len
       /\ Changes(m, rest, {o})
  BY <1>6, <1>7, <1>8, <1>9, RecordFields DEF Changes
<1>11. ConditionsRef \in DOMAIN rest[o].refs /\ rest[o].len \in Nat
  BY <1>3, <1>5, <1>10 DEF o
<1>12. conditions \in Seq(S)
  BY DEF conditions
<1> HIDE DEF n
<1>13. /\ Changes(rest, n, {o})
       /\ n[o].phase = rest[o].phase /\ n[o].refs = rest[o].refs
       /\ n[o].len = Len(conditions) /\ Shown(n[o]) = conditions
  <2>1. Refilled(rest, n, o, conditions)
    BY <1>1, <1>5, <1>11, <1>12, OverwriteValue DEF n
  <2> QED BY <2>1 DEF Refilled
<1>14. Changes(m, n, {o})
  BY <1>10, <1>13 DEF Changes
<1> QED BY <1>2, <1>10, <1>11, <1>13, <1>14 DEF o, conditions, Decoded

LEMMA ForgetValue ==
  ASSUME NEW m, Sound(m), NEW w \in Workers
  PROVE  /\ Changes(m, Used(m, w), {Base(w)})
         /\ Changes(m, Forget(m, w), {Local(w), Base(w), Created(w)})
<1>1. m = [o \in Objects |-> m[o]]
  BY DEF Sound
<1>2. Changes(m, Used(m, w), {Base(w)})
  BY <1>1 DEF Changes, Used
<1>3. Changes(m, Forget(m, w), {Local(w), Base(w), Created(w)})
  BY <1>1 DEF Changes, Forget
<1> QED BY <1>2, <1>3

-----------------------------------------------------------------------------
(* What a worker patches. *)

Told == [type : ConditionTypes, status : {"True", "False"},
         reason : {"ComplianceScanRunning", "ComplianceScanCompleted",
                   "ComplianceScanFailed"},
         message : {"running", "completed", "failed"}, time : 1..MaxTime]

LEMMA AllConditionsFields ==
  ASSUME NEW type \in ConditionTypes, NEW status \in {"True", "False"},
         NEW reason \in {"ComplianceScanRunning", "ComplianceScanCompleted",
                         "ComplianceScanFailed"},
         NEW message \in {"running", "completed", "failed"},
         NEW updated \in 1..MaxTime, NEW transitioned \in 1..MaxTime
  PROVE  LET c == Condition(type, status, reason, message, updated, transitioned)
         IN  /\ c \in AllConditions
             /\ c.type = type /\ c.status = status /\ c.reason = reason
             /\ c.lastUpdateTime = updated /\ c.lastTransitionTime = transitioned
BY DEF Condition, AllConditions, ConditionTypes, ConditionStatuses

\* A condition that says something new is dated now.
LEMMA BuildNew ==
  ASSUME NEW r \in Told, NEW old, old.status # r.status, old.reason # r.reason
  PROVE  LET c == Build(old, r)
         IN  /\ Complete(c, r.time)
             /\ c.type = r.type /\ c.status = r.status /\ c.reason = r.reason
             /\ c.lastUpdateTime = r.time /\ c.lastTransitionTime = r.time
<1>1. /\ r.type \in ConditionTypes /\ r.status \in {"True", "False"}
      /\ r.reason \in {"ComplianceScanRunning", "ComplianceScanCompleted",
                       "ComplianceScanFailed"}
      /\ r.message \in {"running", "completed", "failed"}
      /\ r.time \in 1..MaxTime
  BY DEF Told
<1>2. Build(old, r) = Condition(r.type, r.status, r.reason, r.message, r.time, r.time)
  <2>1. /\ Or(r.status, Or(old.status, "Unknown")) = r.status
        /\ Or(r.reason, Or(old.reason, "Unspecified")) = r.reason
        /\ Or(r.message, Or(old.message, "No message given.")) = r.message
    BY <1>1 DEF Or
  <2> QED BY <2>1 DEF Build, Since
<1>3. LET c == Condition(r.type, r.status, r.reason, r.message, r.time, r.time)
      IN  /\ c \in AllConditions
          /\ c.type = r.type /\ c.status = r.status /\ c.reason = r.reason
          /\ c.lastUpdateTime = r.time /\ c.lastTransitionTime = r.time
  <2> DEFINE type == r.type
             status == r.status
             reason == r.reason
             message == r.message
             time == r.time
  <2> HIDE DEF type, status, reason, message, time
  <2>1. /\ type \in ConditionTypes /\ status \in {"True", "False"}
        /\ reason \in {"ComplianceScanRunning", "ComplianceScanCompleted",
                       "ComplianceScanFailed"}
        /\ message \in {"running", "completed", "failed"}
        /\ time \in 1..MaxTime
    BY <1>1 DEF type, status, reason, message, time
  <2>2. LET c == Condition(type, status, reason, message, time, time)
        IN  /\ c \in AllConditions
            /\ c.type = type /\ c.status = status /\ c.reason = reason
            /\ c.lastUpdateTime = time /\ c.lastTransitionTime = time
    BY <2>1, AllConditionsFields
  <2> QED BY <2>2 DEF type, status, reason, message, time
<1> DEFINE c == Build(old, r)
<1>4. /\ c \in AllConditions
      /\ c.type = r.type /\ c.status = r.status /\ c.reason = r.reason
      /\ c.lastUpdateTime = r.time /\ c.lastTransitionTime = r.time
  BY <1>2, <1>3
<1> HIDE DEF c
<1>5. Complete(c, r.time)
  BY <1>1, <1>4 DEF Complete
<1> QED BY <1>4, <1>5 DEF c

LEMMA ZeroConditionFields == ZeroCondition.status = "" /\ ZeroCondition.reason = ""
BY DEF ZeroCondition, Condition

Fresh(phase, c, time) ==
  /\ Complete(c, time) /\ Means(phase, c)
  /\ c.lastUpdateTime = time /\ c.lastTransitionTime = time

\* The memory m of a worker that is about to patch its scan to phase.
PatchReady(s, m, phase) ==
  /\ Sound(m)
  /\ Changes(memory, m, {Local(s), Base(s)})
  /\ ConditionsRef \in DOMAIN m[Local(s)].refs
  /\ m[Local(s)].phase = phase
  /\ \E c : Shown(m[Local(s)]) = <<c>> /\ Fresh(phase, c, now)
  /\ m[Local(s)].len = 1
  /\ Patched(m, s) = [phase |-> phase, conditions |-> Shown(m[Local(s)]),
                      reported |-> server[s].reported]

LEMMA PatchedValue ==
  ASSUME NEW m, Sound(m), NEW s \in Scans, StatusTells(server[s], now),
         m[Local(s)].phase # m[Base(s)].phase,
         Shown(m[Local(s)]) # Shown(m[Base(s)])
  PROVE  Patched(m, s) = [phase |-> m[Local(s)].phase,
                          conditions |-> Shown(m[Local(s)]),
                          reported |-> server[s].reported]
<1>1. Local(s) \in Objects /\ Base(s) \in Objects
  BY ScansAreWorkers, ObjectsOfWorkers
<1>2. Slice(m, Local(s)) = Shown(m[Local(s)]) /\ Slice(m, Base(s)) = Shown(m[Base(s)])
  BY <1>1, SliceIsShown
<1> DEFINE st == server[s]
           ph == m[Local(s)].phase
           cs == Shown(m[Local(s)])
<1>3. st = [phase |-> st.phase, conditions |-> st.conditions, reported |-> st.reported]
  BY DEF StatusTells
<1>4. Patched(m, s) = [st EXCEPT !.phase = ph, !.conditions = cs]
  BY <1>2 DEF Patched
<1> HIDE DEF st, ph, cs
<1>5. [st EXCEPT !.phase = ph, !.conditions = cs]
        = [phase |-> ph, conditions |-> cs, reported |-> st.reported]
  <2>1. [st EXCEPT !.phase = ph]
          = [phase |-> ph, conditions |-> st.conditions, reported |-> st.reported]
    BY <1>3
  <2> DEFINE x == [st EXCEPT !.phase = ph]
  <2>2. x.conditions = st.conditions /\ x.reported = st.reported
    BY <2>1
  <2>3. [x EXCEPT !.conditions = cs]
          = [phase |-> ph, conditions |-> cs, reported |-> st.reported]
    <3>1. x = [phase |-> ph, conditions |-> st.conditions, reported |-> st.reported]
      BY <2>1
    <3> HIDE DEF x
    <3> QED BY <3>1
  <2>4. [st EXCEPT !.phase = ph, !.conditions = cs] = [x EXCEPT !.conditions = cs]
    OBVIOUS
  <2> QED BY <2>3, <2>4
<1> QED BY <1>4, <1>5 DEF st, ph, cs

-----------------------------------------------------------------------------
(* Time passes, and what others change leaves a scan alone. *)

LEMMA TellsLater ==
  ASSUME NEW time \in Int, NEW later \in Int, time <= later,
         NEW phase, NEW conditions, Tells(phase, conditions, time)
  PROVE  Tells(phase, conditions, later)
<1>1. CASE phase = "" /\ conditions = << >>
  BY <1>1 DEF Tells
<1>2. CASE \E c \in Range(conditions) :
             conditions = <<c>> /\ Complete(c, time) /\ Means(phase, c)
  <2>1. PICK c \in Range(conditions) :
          conditions = <<c>> /\ Complete(c, time) /\ Means(phase, c)
    BY <1>2
  <2>2. Complete(c, later)
    <3>1. c.lastUpdateTime \in Int /\ c.lastTransitionTime \in Int
      BY <2>1 DEF Complete, AllConditions
    <3> QED BY <2>1, <3>1 DEF Complete
  <2> QED BY <2>1, <2>2 DEF Tells
<1> QED BY <1>1, <1>2 DEF Tells

\* The objects of a worker.
Mine(w) == {Cached(w), Local(w), Base(w), Created(w)}

LEMMA ObjectsOfOthers ==
  ASSUME NEW v \in Workers, NEW w \in Workers, v # w
  PROVE  Mine(v) \subseteq Objects \ Mine(w)
BY ObjectsOfWorkers DEF Mine, Cached, Local, Base, Created

LEMMA ScanKept ==
  ASSUME NEW s \in Scans, ScanFollows(s), now \in Int, now' \in Int, now <= now',
         server'[s] = server[s], pc'[s] = pc[s],
         memory'[Cached(s)] = memory[Cached(s)], memory'[Local(s)] = memory[Local(s)],
         memory'[Created(s)] = memory[Created(s)]
  PROVE  ScanFollows(s)'
<1>1. \A x : Tidy(x, now) => Tidy(x, now')
  BY TellsLater DEF Tidy
<1>2. StatusTells(server[s], now) => StatusTells(server[s], now')
  BY TellsLater DEF StatusTells
<1>3. StatusTells(server'[s], now') /\ Tidy(memory'[Cached(s)], now')
  BY <1>1, <1>2 DEF ScanFollows
<1>4. CopyFollows(s)'
  BY <1>1 DEF ScanFollows, CopyFollows
<1>5. LabelsFollow(s)'
  BY DEF ScanFollows, LabelsFollow
<1> QED BY <1>3, <1>4, <1>5 DEF ScanFollows

LEMMA OtherScanKept ==
  ASSUME MemoryInvariant, NEW w \in Workers, NEW s \in Scans, s # w,
         Changes(memory, memory', Mine(w)), now' = now,
         server'[s] = server[s], pc'[s] = pc[s]
  PROVE  ScanFollows(s)'
<1>1. now \in Int /\ now <= now'
  BY DEF MemoryInvariant, ControlTyped
<1>2. /\ memory'[Cached(s)] = memory[Cached(s)] /\ memory'[Local(s)] = memory[Local(s)]
      /\ memory'[Created(s)] = memory[Created(s)]
  <2>1. s \in Workers /\ Mine(s) \subseteq Objects \ Mine(w)
    BY ScansAreWorkers, ObjectsOfOthers
  <2>2. Cached(s) \in Mine(s) /\ Local(s) \in Mine(s) /\ Created(s) \in Mine(s)
    BY DEF Mine
  <2> QED BY <2>1, <2>2 DEF Changes
<1> QED BY <1>1, <1>2, ScanKept DEF MemoryInvariant

-----------------------------------------------------------------------------
(* The three patches of a scan's status. *)

\* What the worker has of its scan, at the points where it patches.
LEMMA CopyAtPatch ==
  ASSUME MemoryInvariant, NEW s \in Scans,
         pc[s] \in {"running", "labels", "create", "completed", "failed"}
  PROVE  /\ Tidy(memory[Local(s)], now)
         /\ memory[Local(s)].phase \in PhasesAt(pc[s])
         /\ Sound(memory) /\ StatusTells(server[s], now) /\ now \in 1..MaxTime
BY DEF MemoryInvariant, ControlTyped, ScanFollows, CopyFollows

\* A patch to phase with the one condition c.
LEMMA PatchIsReady ==
  ASSUME NEW s \in Scans, StatusTells(server[s], now),
         NEW phase, memory[Local(s)].phase # phase,
         NEW c, Fresh(phase, c, now), Shown(memory[Local(s)]) # <<c>>,
         NEW m, Sound(m), ConditionsRef \in DOMAIN m[Local(s)].refs,
         Reworked(s, m, phase, <<c>>)
  PROVE  PatchReady(s, m, phase)
<1>1. Patched(m, s) = [phase |-> m[Local(s)].phase,
                       conditions |-> Shown(m[Local(s)]),
                       reported |-> server[s].reported]
  BY PatchedValue DEF Reworked
<1>2. Len(<<c>>) = 1
  BY SingletonIsSequence
<1> QED BY <1>1, <1>2 DEF PatchReady, Reworked

LEMMA RunningPatch ==
  ASSUME MemoryInvariant, NEW s \in Scans, pc[s] = "running"
  PROVE  PatchReady(s, Changed(s, "Running", Report("Completed", "False",
                         "ComplianceScanRunning", "running", now)), "Running")
<1> DEFINE r == Report("Completed", "False", "ComplianceScanRunning", "running", now)
           c == Build(ZeroCondition, r)
           x == memory[Local(s)]
           m == Changed(s, "Running", r)
<1>1. /\ Tidy(x, now) /\ x.phase = "" /\ Sound(memory)
      /\ StatusTells(server[s], now) /\ now \in 1..MaxTime
  BY CopyAtPatch DEF PhasesAt
<1>2. Shown(x) = << >>
  <2> HIDE DEF x
  <2> QED BY <1>1, TidyObject
<1>3. /\ r \in Told
      /\ r.type = "Completed" /\ r.status = "False"
      /\ r.reason = "ComplianceScanRunning" /\ r.time = now
  BY <1>1 DEF Report, Told, ConditionTypes
<1> HIDE DEF r
<1>4. Fresh("Running", c, now)
  BY <1>3, BuildNew, ZeroConditionFields DEF Fresh, Means
<1>5. UpdateConditions(Shown(x), r) = <<c>>
  BY <1>2, UpdateNone
<1> HIDE DEF c
<1>6. <<c>> \in Seq({c}) /\ << >> # <<c>>
  BY SingletonIsSequence
<1>7. Reworked(s, m, "Running", <<c>>)
  <2>1. UpdateConditions(Shown(memory[Local(s)]), r) \in Seq({c})
    BY <1>5, <1>6
  <2> QED BY <1>1, <1>5, <2>1, ChangedValue
<1>8. Sound(m) /\ ConditionsRef \in DOMAIN m[Local(s)].refs
  BY <1>1, ChangedIsSound
<1> HIDE DEF m
<1>9. PatchReady(s, m, "Running")
  BY <1>1, <1>2, <1>4, <1>6, <1>7, <1>8, PatchIsReady
<1> QED BY <1>9 DEF m, r

LEMMA CompletedPatch ==
  ASSUME MemoryInvariant, NEW s \in Scans, pc[s] = "completed"
  PROVE  PatchReady(s, Changed(s, "Completed", Report("Completed", "True",
                         "ComplianceScanCompleted", "completed", now)), "Completed")
<1> DEFINE r == Report("Completed", "True", "ComplianceScanCompleted", "completed", now)
           x == memory[Local(s)]
           m == Changed(s, "Completed", r)
<1>1. /\ Tidy(x, now) /\ x.phase = "Running" /\ Sound(memory)
      /\ StatusTells(server[s], now) /\ now \in 1..MaxTime
  BY CopyAtPatch DEF PhasesAt
<1>2. PICK old : /\ Shown(x) = <<old>>
                 /\ old.type = "Completed" /\ old.status = "False"
                 /\ old.reason = "ComplianceScanRunning"
  BY <1>1 DEF Tidy, Tells, Means
<1> DEFINE c == Build(old, r)
<1>3. /\ r \in Told
      /\ r.type = "Completed" /\ r.status = "True"
      /\ r.reason = "ComplianceScanCompleted" /\ r.time = now
  BY <1>1 DEF Report, Told, ConditionTypes
<1> HIDE DEF r
<1>4. Fresh("Completed", c, now) /\ c.status = "True"
  BY <1>2, <1>3, BuildNew DEF Fresh, Means
<1>5. UpdateConditions(Shown(x), r) = <<c>>
  BY <1>2, <1>3, UpdateOne
<1> HIDE DEF c
<1>6. <<c>> \in Seq({c}) /\ <<old>> # <<c>>
  <2>1. <<c>> \in Seq({c}) /\ <<c>>[1] = c /\ <<old>>[1] = old
    BY SingletonIsSequence
  <2> QED BY <1>2, <1>4, <2>1
<1>7. Reworked(s, m, "Completed", <<c>>)
  <2>1. UpdateConditions(Shown(memory[Local(s)]), r) \in Seq({c})
    BY <1>5, <1>6
  <2> QED BY <1>1, <1>5, <2>1, ChangedValue
<1>8. Sound(m) /\ ConditionsRef \in DOMAIN m[Local(s)].refs
  BY <1>1, ChangedIsSound
<1> HIDE DEF m
<1>9. PatchReady(s, m, "Completed")
  BY <1>1, <1>2, <1>4, <1>6, <1>7, <1>8, PatchIsReady
<1> QED BY <1>9 DEF m, r

LEMMA FailedPatch ==
  ASSUME MemoryInvariant, NEW s \in Scans, pc[s] = "failed"
  PROVE  LET changed == Changed(s, "Failed", Report("Failed", "True",
                                  "ComplianceScanFailed", "failed", now))
         IN  PatchReady(s, Overwrite(changed, Local(s),
                             WithoutCompleted(Slice(changed, Local(s)))), "Failed")
<1> DEFINE r == Report("Failed", "True", "ComplianceScanFailed", "failed", now)
           x == memory[Local(s)]
           o == Local(s)
           changed == Changed(s, "Failed", r)
           m == Overwrite(changed, o, WithoutCompleted(Slice(changed, o)))
<1>1. /\ Tidy(x, now) /\ x.phase \in {"Running", "Completed"} /\ Sound(memory)
      /\ StatusTells(server[s], now) /\ now \in 1..MaxTime
  BY CopyAtPatch DEF PhasesAt
<1>2. PICK old : Shown(x) = <<old>> /\ old.type = "Completed"
  BY <1>1 DEF Tidy, Tells, Means
<1> DEFINE c == Build(ZeroCondition, r)
<1>3. /\ r \in Told
      /\ r.type = "Failed" /\ r.status = "True"
      /\ r.reason = "ComplianceScanFailed" /\ r.time = now
  BY <1>1 DEF Report, Told, ConditionTypes
<1> HIDE DEF r
<1>4. Fresh("Failed", c, now) /\ c.type = "Failed"
  BY <1>3, BuildNew, ZeroConditionFields DEF Fresh, Means
<1>5. UpdateConditions(Shown(x), r) = <<old, c>>
  BY <1>2, <1>3, UpdateOne
<1> HIDE DEF c
<1>6. <<c>> \in Seq({c}) /\ <<old>> # <<c>> /\ Len(<<c>>) = 1
  <2>1. <<c>> \in Seq({c}) /\ <<c>>[1] = c /\ <<old>>[1] = old /\ Len(<<c>>) = 1
    BY SingletonIsSequence
  <2> QED BY <1>2, <1>4, <2>1
<1>7. Reworked(s, changed, "Failed", <<old, c>>)
  <2>1. UpdateConditions(Shown(memory[Local(s)]), r) \in Seq({old, c})
    <3>1. <<old, c>> \in Seq({old, c})
      OBVIOUS
    <3> QED BY <1>5, <3>1
  <2> QED BY <1>1, <1>5, <2>1, ChangedValue
<1>8. /\ Sound(changed) /\ ConditionsRef \in DOMAIN changed[o].refs
      /\ o \in Objects /\ Base(s) \in Objects /\ o # Base(s)
  BY <1>1, ChangedIsSound, ScansAreWorkers, ObjectsOfWorkers
<1> HIDE DEF changed
<1>9. WithoutCompleted(Slice(changed, o)) = <<c>>
  <2>1. Slice(changed, o) = <<old, c>>
    BY <1>7, <1>8, SliceIsShown DEF Reworked
  <2>2. c.type # "Completed"
    BY <1>4
  <2> QED BY <1>2, <2>1, <2>2, WithoutTheFirst
<1>10. m = Overwrite(changed, o, <<c>>)
  BY <1>9
<1>11. changed[o].len \in Nat
  <2>1. changed[o].len = Len(<<old, c>>)
    BY <1>7 DEF Reworked
  <2> QED BY <2>1
<1> HIDE DEF m
<1>12. Refilled(changed, m, o, <<c>>)
  BY <1>6, <1>8, <1>10, <1>11, OverwriteValue
<1>13. Sound(m) /\ ConditionsRef \in DOMAIN m[o].refs
  <2>1. Sound(m)
    BY <1>8, <1>10, OverwriteIsSound
  <2> QED BY <1>8, <1>12, <2>1 DEF Refilled
<1>14. Reworked(s, m, "Failed", <<c>>)
  <2>1. m[Base(s)] = changed[Base(s)] /\ Changes(memory, m, {o, Base(s)})
    BY <1>7, <1>8, <1>12 DEF Reworked, Refilled, Changes
  <2> QED BY <1>7, <1>12, <2>1 DEF Reworked, Refilled
<1>15. PatchReady(s, m, "Failed")
  BY <1>1, <1>2, <1>4, <1>6, <1>13, <1>14, PatchIsReady
<1> QED BY <1>15 DEF m, changed, r, o

\* The memory n of the worker after the call, before it forgets the base.
Answered(s, n, phase) ==
  /\ Sound(n)
  /\ Changes(memory, n, {Local(s), Base(s)})
  /\ Tidy(n[Local(s)], now)
  /\ n[Local(s)].phase = phase

LEMMA PatchAnswered ==
  ASSUME MemoryInvariant, NEW s \in Scans, NEW m, NEW phase, PatchReady(s, m, phase)
  PROVE  /\ StatusTells(Patched(m, s), now)
         /\ Answered(s, m, phase)
         /\ Answered(s, DecodeStatus(m, Local(s), Patched(m, s)), phase)
<1> DEFINE o == Local(s)
           st == Patched(m, s)
           n == DecodeStatus(m, o, st)
<1>1. PICK c : Shown(m[o]) = <<c>> /\ Fresh(phase, c, now)
  BY DEF PatchReady
<1>2. st = [phase |-> phase, conditions |-> <<c>>, reported |-> server[s].reported]
  BY <1>1 DEF PatchReady
<1>3. server[s].reported \in BOOLEAN
  BY DEF MemoryInvariant, ScanFollows, StatusTells
<1> HIDE DEF st
<1>4. /\ st.phase = phase /\ st.conditions = <<c>> /\ st.reported \in BOOLEAN
      /\ st = [phase |-> st.phase, conditions |-> st.conditions,
               reported |-> st.reported]
  BY <1>2, <1>3
<1>5. /\ <<c>> \in Seq({c}) /\ Range(<<c>>) = {c} /\ Len(<<c>>) = 1 /\ <<c>> # << >>
      /\ 1 \in Nat
  BY SingletonIsSequence
<1>6. Tells(phase, <<c>>, now)
  BY <1>1, <1>5 DEF Tells, Fresh
<1>7. StatusTells(st, now)
  BY <1>4, <1>6 DEF StatusTells
<1>8. ASSUME NEW x, Shown(x) = <<c>>, x.phase = phase, x.len = 1,
             ConditionsRef \in DOMAIN x.refs
      PROVE  Tidy(x, now)
  BY <1>5, <1>6, <1>8 DEF Tidy
<1>9. Answered(s, m, phase)
  BY <1>1, <1>8 DEF Answered, PatchReady
<1>10. Decoded(m, n, o, st)
  BY <1>4, <1>5, DecodeStatusValue DEF PatchReady
<1>11. Sound(n)
  <2>1. Sound(m) /\ ConditionsRef \in DOMAIN m[o].refs
    BY DEF PatchReady
  <2> QED BY <2>1, DecodeStatusIsSound
<1> HIDE DEF n
<1>12. Changes(memory, n, {o, Base(s)})
  BY <1>10 DEF PatchReady, Decoded, Changes
<1>13. Tidy(n[o], now) /\ n[o].phase = phase
  <2>1. /\ Shown(n[o]) = <<c>> /\ n[o].phase = phase /\ n[o].len = 1
        /\ ConditionsRef \in DOMAIN n[o].refs
    BY <1>4, <1>5, <1>10 DEF Decoded
  <2> QED BY <1>8, <2>1
<1>14. Answered(s, n, phase)
  BY <1>11, <1>12, <1>13 DEF Answered
<1> QED BY <1>7, <1>9, <1>14 DEF st, n

\* How a call that patches the status of s to phase ends.
PatchEnds(s, phase, used, forgotten) ==
  \E m, n, label :
    /\ PatchReady(s, m, phase)
    /\ n \in {m, DecodeStatus(m, Local(s), Patched(m, s))}
    /\ server' \in {server, [server EXCEPT ![s] = Patched(m, s)]}
    /\ \/ memory' = Used(n, s) /\ label \in used
       \/ memory' = Forget(n, s) /\ label \in forgotten
    /\ Goto(s, label)
    /\ faults' \in 0..MaxFaults
    /\ UNCHANGED <<parentRefs, now>>

LEMMA CallEnds ==
  ASSUME MemoryInvariant, NEW s \in Scans, NEW m, NEW phase, PatchReady(s, m, phase),
         NEW n \in {m, DecodeStatus(m, Local(s), Patched(m, s))}, NEW label,
         Goto(s, label),
         PatchOk(s, m) \/ PatchFails(s, m),
         NEW used, NEW forgotten,
         \/ memory' = Used(n, s) /\ label \in used
         \/ memory' = Forget(n, s) /\ label \in forgotten
  PROVE  PatchEnds(s, phase, used, forgotten)
<1>1. server' \in {server, [server EXCEPT ![s] = Patched(m, s)]}
  BY DEF PatchOk, PatchFails
<1>2. faults' \in 0..MaxFaults
  BY MemoryBoundsAssumption DEF PatchOk, PatchFails, Fault, MemoryInvariant, ControlTyped
<1>3. UNCHANGED <<parentRefs, now>>
  BY DEF PatchOk, PatchFails
<1> QED BY <1>1, <1>2, <1>3 DEF PatchEnds

LEMMA PatchesEnd ==
  ASSUME MemoryInvariant, NEW s \in Scans
  PROVE  /\ PatchRunning(s) => PatchEnds(s, "Running", {"labels", "failed"}, {})
         /\ PatchCompleted(s) => PatchEnds(s, "Completed", {"failed"}, {"idle"})
         /\ HandleFailedScan(s) => PatchEnds(s, "Failed", {}, {"idle", "queued"})
<1>1. ASSUME PatchRunning(s)
      PROVE  PatchEnds(s, "Running", {"labels", "failed"}, {})
  <2> DEFINE m == Changed(s, "Running", Report("Completed", "False",
                            "ComplianceScanRunning", "running", now))
             d == DecodeStatus(m, Local(s), Patched(m, s))
  <2>1. PatchReady(s, m, "Running")
    BY <1>1, RunningPatch DEF PatchRunning
  <2>2. \/ PatchOk(s, m) /\ memory' = Used(d, s) /\ Goto(s, "labels")
        \/ PatchFails(s, m) /\ memory' = Used(m, s) /\ Goto(s, "failed")
    BY <1>1 DEF PatchRunning
  <2> HIDE DEF m
  <2> QED BY <2>1, <2>2, CallEnds DEF PatchOk
<1>2. ASSUME PatchCompleted(s)
      PROVE  PatchEnds(s, "Completed", {"failed"}, {"idle"})
  <2> DEFINE m == Changed(s, "Completed", Report("Completed", "True",
                            "ComplianceScanCompleted", "completed", now))
             d == DecodeStatus(m, Local(s), Patched(m, s))
  <2>1. PatchReady(s, m, "Completed")
    BY <1>2, CompletedPatch DEF PatchCompleted
  <2>2. \/ PatchOk(s, m) /\ memory' = Forget(d, s) /\ Goto(s, "idle")
        \/ PatchFails(s, m) /\ memory' = Used(m, s) /\ Goto(s, "failed")
    BY <1>2 DEF PatchCompleted
  <2> HIDE DEF m
  <2> QED BY <2>1, <2>2, CallEnds DEF PatchOk
<1>3. ASSUME HandleFailedScan(s)
      PROVE  PatchEnds(s, "Failed", {}, {"idle", "queued"})
  <2> DEFINE changed == Changed(s, "Failed", Report("Failed", "True",
                                  "ComplianceScanFailed", "failed", now))
             m == Overwrite(changed, Local(s), WithoutCompleted(Slice(changed, Local(s))))
             d == DecodeStatus(m, Local(s), Patched(m, s))
  <2>1. PatchReady(s, m, "Failed")
    BY <1>3, FailedPatch DEF HandleFailedScan
  <2>2. \/ PatchOk(s, m) /\ memory' = Forget(d, s) /\ Goto(s, "idle")
        \/ PatchFails(s, m) /\ memory' = Forget(m, s) /\ Goto(s, "queued")
    BY <1>3 DEF HandleFailedScan
  <2> HIDE DEF m
  <2> QED BY <2>1, <2>2, CallEnds DEF PatchOk
<1> QED BY <1>1, <1>2, <1>3

\* What a step of the worker w leaves of the invariant to show.
LEMMA OnlyOwnScan ==
  ASSUME MemoryInvariant, NEW w \in Workers,
         Changes(memory, memory', Mine(w)), NEW label \in Labels, Goto(w, label),
         UNCHANGED now,
         \A s \in Scans \ {w} : server'[s] = server[s]
  PROVE  /\ pc' \in [Workers -> Labels]
         /\ pc'[w] = label
         /\ \A s \in Scans \ {w} : ScanFollows(s)'
<1>1. pc \in [Workers -> Labels]
  BY DEF MemoryInvariant, ControlTyped
<1>2. /\ pc' \in [Workers -> Labels] /\ pc'[w] = label
      /\ \A s \in Scans \ {w} : pc'[s] = pc[s]
  BY <1>1, ScansAreWorkers DEF Goto
<1>3. \A s \in Scans \ {w} : ScanFollows(s)'
  BY <1>2, OtherScanKept
<1> QED BY <1>2, <1>3

LEMMA PatchEndsKeeps ==
  ASSUME MemoryInvariant, Sound(memory'), NEW s \in Scans, NEW phase,
         NEW used, NEW forgotten, PatchEnds(s, phase, used, forgotten),
         used \subseteq {"labels", "completed", "failed"},
         forgotten \subseteq {"idle", "queued"},
         \A label \in used : phase \in PhasesAt(label)
  PROVE  MemoryInvariant'
<1>1. PICK m, n, label :
        /\ PatchReady(s, m, phase)
        /\ n \in {m, DecodeStatus(m, Local(s), Patched(m, s))}
        /\ server' \in {server, [server EXCEPT ![s] = Patched(m, s)]}
        /\ \/ memory' = Used(n, s) /\ label \in used
           \/ memory' = Forget(n, s) /\ label \in forgotten
        /\ Goto(s, label)
        /\ faults' \in 0..MaxFaults
        /\ UNCHANGED <<parentRefs, now>>
  BY DEF PatchEnds
<1>2. StatusTells(Patched(m, s), now) /\ Answered(s, n, phase)
  BY <1>1, PatchAnswered
<1>3. s \in Workers /\ Local(s) \in Objects /\ Base(s) \in Objects
        /\ Cached(s) \in Objects /\ Local(s) # Base(s)
        /\ Cached(s) \notin {Local(s), Base(s), Created(s)}
  BY ScansAreWorkers, ObjectsOfWorkers DEF Cached, Local, Base, Created
<1>4. /\ Changes(n, Used(n, s), {Base(s)})
      /\ Changes(n, Forget(n, s), {Local(s), Base(s), Created(s)})
  BY <1>2, <1>3, ForgetValue DEF Answered
<1>5. Changes(memory, memory', Mine(s))
  BY <1>1, <1>2, <1>4 DEF Answered, Changes, Mine
<1>6. label \in Labels
  BY <1>1 DEF Labels
<1>7. /\ server' = [t \in Scans |-> server'[t]]
      /\ pc' \in [Workers -> Labels]
      /\ pc'[s] = label
      /\ \A t \in Scans \ {s} : ScanFollows(t)'
  <2>1. /\ server' = [t \in Scans |-> server'[t]]
        /\ \A t \in Scans \ {s} : server'[t] = server[t]
    BY <1>1 DEF MemoryInvariant, ControlTyped
  <2>2. UNCHANGED now
    BY <1>1
  <2>3. Goto(s, label)
    BY <1>1
  <2> QED BY <1>3, <1>5, <1>6, <2>1, <2>2, <2>3, OnlyOwnScan
<1>8. ControlTyped'
  BY <1>1, <1>7 DEF MemoryInvariant, ControlTyped
<1>9. ScanFollows(s)'
  <2>1. StatusTells(server'[s], now')
    BY <1>1, <1>2 DEF MemoryInvariant, ControlTyped, ScanFollows
  <2>2. Tidy(memory'[Cached(s)], now')
    <3>1. memory'[Cached(s)] = memory[Cached(s)]
      BY <1>1, <1>2, <1>3, <1>4 DEF Answered, Changes
    <3> QED BY <1>1, <3>1 DEF MemoryInvariant, ScanFollows
  <2>3. CopyFollows(s)'
    <3>1. CASE memory' = Used(n, s) /\ label \in used
      <4>1. memory'[Local(s)] = n[Local(s)]
        BY <1>3, <1>4, <3>1 DEF Changes
      <4> QED BY <1>1, <1>2, <1>7, <3>1, <4>1 DEF Answered, CopyFollows
    <3>2. CASE label \in forgotten
      BY <1>7, <3>2 DEF CopyFollows
    <3> QED BY <1>1, <3>1, <3>2
  <2>4. LabelsFollow(s)'
    BY <1>1, <1>7 DEF LabelsFollow
  <2> QED BY <2>1, <2>2, <2>3, <2>4 DEF ScanFollows
<1> QED BY <1>7, <1>8, <1>9 DEF MemoryInvariant

LEMMA ReconcileGetKeeps ==
  ASSUME MemoryInvariant, Sound(memory'), NEW s \in Scans, ReconcileGet(s)
  PROVE  MemoryInvariant'
<1> DEFINE n == Copy(memory, Cached(s), Local(s), ComplianceScanCopies)
           label == IF memory[Cached(s)].phase = "" THEN "running" ELSE "idle"
<1>1. s \in Workers /\ Local(s) \in Objects /\ Cached(s) \in Objects
        /\ Cached(s) # Local(s)
  BY ScansAreWorkers, ObjectsOfWorkers
<1>2. /\ Sound(memory) /\ ControlTyped /\ ScanFollows(s)
      /\ Tidy(memory[Cached(s)], now)
  BY DEF MemoryInvariant, ScanFollows
<1>3. Copied(memory, n, Cached(s), Local(s))
  <2>1. /\ Shown(memory[Cached(s)]) \in Seq(AllConditions)
        /\ memory[Cached(s)].len = Len(Shown(memory[Cached(s)]))
    BY <1>2, TidyObject
  <2> QED BY <1>1, <1>2, <2>1, CopyValue
<1> HIDE DEF n
<1>4. Changes(memory, memory', {Local(s)})
  BY <1>3 DEF ReconcileGet, n, Copied, Changes
<1>5. Changes(memory, memory', Mine(s)) /\ memory'[Cached(s)] = memory[Cached(s)]
  BY <1>1, <1>4 DEF Changes, Mine
<1>6. /\ Goto(s, label) /\ label \in Labels
      /\ UNCHANGED <<server, parentRefs, now, faults>>
  BY DEF ReconcileGet, Labels
<1>7. /\ pc' \in [Workers -> Labels] /\ pc'[s] = label
      /\ \A t \in Scans \ {s} : ScanFollows(t)'
  <2> HIDE DEF label
  <2>1. UNCHANGED now /\ \A t \in Scans \ {s} : server'[t] = server[t]
    BY <1>6
  <2> QED BY <1>1, <1>5, <1>6, <2>1, OnlyOwnScan
<1>8. ScanFollows(s)'
  <2>1. StatusTells(server'[s], now') /\ Tidy(memory'[Cached(s)], now')
    BY <1>2, <1>5, <1>6 DEF ScanFollows
  <2>2. CopyFollows(s)'
    <3>1. CASE memory[Cached(s)].phase = ""
      <4>1. memory' = n /\ pc'[s] = "running"
        BY <1>7, <3>1 DEF ReconcileGet, n
      <4>2. /\ n[Local(s)].phase = ""
            /\ Shown(n[Local(s)]) = Shown(memory[Cached(s)])
            /\ n[Local(s)].len = memory[Cached(s)].len
            /\ DOMAIN n[Local(s)].refs = DOMAIN memory[Cached(s)].refs
        BY <1>3, <3>1 DEF Copied
      <4>3. Tidy(n[Local(s)], now)
        BY <1>2, <3>1, <4>2 DEF Tidy
      <4> QED BY <1>6, <4>1, <4>2, <4>3 DEF CopyFollows, PhasesAt
    <3>2. CASE memory[Cached(s)].phase # ""
      BY <1>7, <3>2 DEF CopyFollows
    <3> QED BY <3>1, <3>2
  <2>3. LabelsFollow(s)'
    BY <1>7 DEF LabelsFollow
  <2> QED BY <2>1, <2>2, <2>3 DEF ScanFollows
<1>9. ControlTyped'
  BY <1>2, <1>6, <1>7 DEF ControlTyped
<1> QED BY <1>7, <1>8, <1>9 DEF MemoryInvariant

LEMMA DeployLabelsKeeps ==
  ASSUME MemoryInvariant, Sound(memory'), NEW s \in Scans, DeployLabels(s)
  PROVE  MemoryInvariant'
<1>1. /\ s \in Workers /\ Created(s) \in Objects /\ Local(s) \in Objects
      /\ Cached(s) \in Objects
      /\ Local(s) # Created(s) /\ Cached(s) # Created(s)
  BY ScansAreWorkers, ObjectsOfWorkers DEF Cached, Created
<1>2. /\ Sound(memory) /\ ControlTyped /\ ScanFollows(s) /\ pc[s] = "labels"
      /\ UNCHANGED <<server, parentRefs, now>>
  BY DEF MemoryInvariant, DeployLabels
<1>3. PICK label :
        /\ Goto(s, label)
        /\ \/ /\ label = "create" /\ UNCHANGED faults
              /\ memory' = [memory EXCEPT ![Created(s)].refs = GetLabels(s),
                                          ![GetLabels(s)[LabelsRef][1]].label = s]
           \/ label = "failed" /\ Fault /\ UNCHANGED memory
  BY DEF DeployLabels
<1>4. CASE label = "failed" /\ Fault /\ UNCHANGED memory
  <2>1. Changes(memory, memory', Mine(s))
    BY <1>4 DEF Changes
  <2>2. /\ pc' \in [Workers -> Labels] /\ pc'[s] = "failed"
        /\ \A t \in Scans \ {s} : ScanFollows(t)'
    <3>1. UNCHANGED now /\ \A t \in Scans \ {s} : server'[t] = server[t]
      BY <1>2
    <3>2. label \in Labels
      BY <1>4 DEF Labels
    <3> QED BY <1>1, <1>3, <1>4, <2>1, <3>1, <3>2, OnlyOwnScan
  <2>3. ScanFollows(s)'
    BY <1>2, <1>4, <2>2 DEF ScanFollows, CopyFollows, LabelsFollow, PhasesAt
  <2>4. ControlTyped'
    BY <1>2, <1>4, <2>2, MemoryBoundsAssumption DEF ControlTyped, Fault
  <2> QED BY <2>2, <2>3, <2>4 DEF MemoryInvariant
<1>5. CASE /\ label = "create" /\ UNCHANGED faults
           /\ memory' = [memory EXCEPT ![Created(s)].refs = GetLabels(s),
                                       ![GetLabels(s)[LabelsRef][1]].label = s]
  <2> DEFINE refs == GetLabels(s)
             o == Created(s)
             m == [memory EXCEPT ![o].refs = refs]
  <2>1. refs[LabelsRef][1] = o /\ LabelsRef \in DOMAIN refs
    BY DEF GetLabels, Own
  <2>2. memory' = [m EXCEPT ![o].label = s]
    <3> HIDE DEF refs
    <3> QED BY <1>5, <2>1 DEF refs
  <2> HIDE DEF refs, o
  <2>3. m[o] = Record(refs, memory[o].phase, memory[o].array, memory[o].len,
                      memory[o].label)
        /\ Changes(memory, m, {o})
    BY <1>1, <1>2, SetRefsValue DEF o
  <2>4. m[o].refs = refs
    BY <2>3, RecordFields
  <2>5. m = [x \in Objects |-> m[x]]
    BY <1>2 DEF Sound
  <2> DEFINE y == m[o]
             z == Record(refs, y.phase, y.array, y.len, s)
  <2>6. y = Record(y.refs, y.phase, y.array, y.len, y.label)
    BY <2>3 DEF Record
  <2> HIDE DEF m
  <2>7. memory'[o].label = s /\ memory'[o].refs = refs
    <3>1. memory' = [m EXCEPT ![o] = [y EXCEPT !.label = s]]
      BY <2>2
    <3> HIDE DEF y
    <3>2. [y EXCEPT !.label = s] = z
      BY <2>4, <2>6 DEF Record, y
    <3>3. z.label = s /\ z.refs = refs
      BY RecordFields
    <3> HIDE DEF z
    <3> QED BY <1>1, <2>5, <3>1, <3>2, <3>3 DEF o
  <2>8. Changes(memory, memory', {o})
    BY <2>2, <2>3, <2>5 DEF Changes
  <2>9. Changes(memory, memory', Mine(s))
    BY <2>8 DEF Changes, Mine, o
  <2>10. /\ pc' \in [Workers -> Labels] /\ pc'[s] = "create"
         /\ \A t \in Scans \ {s} : ScanFollows(t)'
    <3>1. UNCHANGED now /\ \A t \in Scans \ {s} : server'[t] = server[t]
      BY <1>2
    <3>2. label \in Labels
      BY <1>5 DEF Labels
    <3> QED BY <1>1, <1>3, <1>5, <2>9, <3>1, <3>2, OnlyOwnScan
  <2>11. memory'[Local(s)] = memory[Local(s)] /\ memory'[Cached(s)] = memory[Cached(s)]
    BY <1>1, <2>8 DEF Changes, o
  <2>12. LabelsFollow(s)'
    BY <2>1, <2>7 DEF LabelsFollow, o
  <2>13. ScanFollows(s)'
    BY <1>2, <2>10, <2>11, <2>12 DEF ScanFollows, CopyFollows, PhasesAt
  <2>14. ControlTyped'
    BY <1>2, <1>5, <2>10 DEF ControlTyped
  <2> QED BY <2>10, <2>13, <2>14 DEF MemoryInvariant
<1> QED BY <1>3, <1>4, <1>5

LEMMA DeployCreateKeeps ==
  ASSUME MemoryInvariant, Sound(memory'), NEW s \in Scans, DeployCreate(s)
  PROVE  MemoryInvariant'
<1>1. /\ Sound(memory) /\ ControlTyped /\ ScanFollows(s) /\ pc[s] = "create"
      /\ UNCHANGED <<server, parentRefs, memory, now>> /\ s \in Workers
  BY ScansAreWorkers DEF MemoryInvariant, DeployCreate
<1>2. PICK label \in {"completed", "failed"} : Goto(s, label)
  BY DEF DeployCreate
<1>3. Changes(memory, memory', Mine(s))
  BY <1>1 DEF Changes
<1>4. /\ pc' \in [Workers -> Labels] /\ pc'[s] = label
      /\ \A t \in Scans \ {s} : ScanFollows(t)'
  <2>1. UNCHANGED now /\ \A t \in Scans \ {s} : server'[t] = server[t]
    BY <1>1
  <2>2. label \in Labels
    BY DEF Labels
  <2> QED BY <1>1, <1>2, <1>3, <2>1, <2>2, OnlyOwnScan
<1>5. ScanFollows(s)'
  BY <1>1, <1>4 DEF ScanFollows, CopyFollows, LabelsFollow, PhasesAt
<1>6. faults' \in 0..MaxFaults
  BY <1>1, MemoryBoundsAssumption DEF DeployCreate, Fault, ControlTyped
<1>7. ControlTyped'
  BY <1>1, <1>4, <1>6 DEF ControlTyped
<1> QED BY <1>4, <1>5, <1>7 DEF MemoryInvariant

LEMMA ExporterPatchKeeps ==
  ASSUME MemoryInvariant, Sound(memory'), NEW s \in Scans, ExporterPatch(s)
  PROVE  MemoryInvariant'
<1>1. /\ ControlTyped /\ \A t \in Scans : ScanFollows(t)
      /\ server' = [server EXCEPT ![s].reported = TRUE]
      /\ UNCHANGED <<parentRefs, memory, pc, now, faults>>
  BY DEF MemoryInvariant, ExporterPatch
<1>2. /\ server' = [t \in Scans |-> server'[t]]
      /\ \A t \in Scans \ {s} : server'[t] = server[t]
  BY <1>1 DEF ControlTyped
<1> DEFINE st == server[s]
<1>3. server'[s] = [st EXCEPT !.reported = TRUE]
  BY <1>1 DEF ControlTyped
<1>4. StatusTells(st, now)
  BY <1>1 DEF ScanFollows
<1> HIDE DEF st
<1>5. server'[s] = [phase |-> st.phase, conditions |-> st.conditions, reported |-> TRUE]
  BY <1>3, <1>4 DEF StatusTells
<1>6. StatusTells(server'[s], now)
  BY <1>4, <1>5 DEF StatusTells
<1>7. \A t \in Scans : StatusTells(server'[t], now')
  BY <1>1, <1>2, <1>6 DEF ScanFollows
<1>8. \A t \in Scans : ScanFollows(t)'
  BY <1>1, <1>7 DEF ScanFollows, CopyFollows, LabelsFollow
<1>9. ControlTyped'
  BY <1>1, <1>2 DEF ControlTyped
<1> QED BY <1>8, <1>9 DEF MemoryInvariant

LEMMA TickKeeps ==
  ASSUME MemoryInvariant, Sound(memory'), Tick \/ UNCHANGED vars
  PROVE  MemoryInvariant'
<1>1. /\ UNCHANGED <<server, parentRefs, memory, pc, faults>>
      /\ ControlTyped
      /\ \A s \in Scans : ScanFollows(s)
  BY DEF MemoryInvariant, Tick, vars
<1>2. now \in Int /\ now' \in 1..MaxTime /\ now <= now'
  BY MemoryBoundsAssumption DEF MemoryInvariant, ControlTyped, Tick, vars
<1>3. \A s \in Scans : ScanFollows(s)'
  BY <1>1, <1>2, ScanKept
<1>4. ControlTyped'
  BY <1>1, <1>2 DEF ControlTyped
<1> QED BY <1>3, <1>4 DEF MemoryInvariant

LEMMA CachedScanIsTidy ==
  ASSUME NEW s \in Scans, NEW st, NEW time, StatusTells(st, time)
  PROVE  Tidy(CachedScan(s, st), time)
<1> DEFINE conditions == st.conditions
           refs == Own(Cached(s), ScanRefs(st))
           x == CachedScan(s, st)
<1>1. x = Record(refs, st.phase, conditions, Len(conditions), None)
  BY DEF CachedScan, Object, Record
<1>2. Tells(st.phase, conditions, time)
  BY DEF StatusTells
<1>3. DOMAIN refs = ScanRefs(st)
  BY DEF Own
<1>4. ConditionsRef \in DOMAIN refs <=> conditions # << >>
  BY <1>3, ConditionsRefIsOfScans DEF ScanRefs
<1> HIDE DEF conditions, refs, x
<1>5. conditions \in Seq(AllConditions)
  BY <1>2, TellsSequence, Zenon
<1>6. /\ x.refs = refs /\ x.phase = st.phase /\ x.len = Len(conditions)
  <2> DEFINE n == Len(conditions)
  <2> HIDE DEF n
  <2> QED BY <1>1, RecordFields DEF n
<1>7. Shown(x) = conditions
  <2>1. CASE conditions # << >>
    BY <1>1, <1>4, <1>5, <2>1, FullArrayShows
  <2>2. CASE conditions = << >>
    BY <1>4, <1>6, <2>2 DEF Shown
  <2> QED BY <2>1, <2>2
<1> QED BY <1>2, <1>4, <1>6, <1>7 DEF Tidy, x

LEMMA DeliverKeeps ==
  ASSUME MemoryInvariant, Sound(memory'), NEW w \in Workers, Deliver(w)
  PROVE  MemoryInvariant'
<1> DEFINE received == IF w = Parent THEN CachedParent(parentRefs)
                                     ELSE CachedScan(w, server[w])
<1>1. /\ memory' = [memory EXCEPT ![Cached(w)] = received]
      /\ UNCHANGED <<server, parentRefs, pc, now, faults>>
      /\ Sound(memory) /\ ControlTyped /\ \A s \in Scans : ScanFollows(s)
  BY DEF Deliver, MemoryInvariant
<1>2. Cached(w) \in Objects
  BY ObjectsOfWorkers
<1> HIDE DEF received
<1>3. memory'[Cached(w)] = received /\ Changes(memory, memory', {Cached(w)})
  BY <1>1, <1>2, ReplaceValue
<1>4. ControlTyped'
  BY <1>1 DEF ControlTyped
<1>5. ASSUME NEW s \in Scans
      PROVE  ScanFollows(s)'
  <2>1. CASE s # w
    <3>1. Changes(memory, memory', Mine(w))
      BY <1>3 DEF Changes, Mine
    <3> QED BY <1>1, <2>1, <3>1, OtherScanKept
  <2>2. CASE s = w
    <3>1. received = CachedScan(s, server[s])
      BY <2>2, ScansAreWorkers DEF received
    <3>2. Tidy(received, now)
      BY <1>1, <3>1, CachedScanIsTidy DEF ScanFollows
    <3>3. memory'[Local(s)] = memory[Local(s)] /\ memory'[Created(s)] = memory[Created(s)]
      BY <1>3, <2>2, ObjectsOfWorkers DEF Changes, Cached, Local, Created
    <3> QED BY <1>1, <1>3, <2>2, <3>2, <3>3 DEF ScanFollows, CopyFollows, LabelsFollow
  <2> QED BY <2>1, <2>2
<1> QED BY <1>4, <1>5 DEF MemoryInvariant

-----------------------------------------------------------------------------
(* The worker of the scheduled controller changes its own objects only. *)

Stays(m, n, O) == n = [o \in Objects |-> n[o]] /\ Changes(m, n, O)

LEMMA OperationsStay ==
  ASSUME NEW m, m = [o \in Objects |-> m[o]], NEW o \in Objects
  PROVE  /\ \A from, copies : Stays(m, Copy(m, from, o, copies), {o})
         /\ \A refs : Stays(m, [m EXCEPT ![o].refs = refs], {o})
         /\ \A paths : Stays(m, Decode(m, o, paths), {o})
<1>1. \A x : Stays(m, [m EXCEPT ![o] = x], {o})
  BY DEF Stays, Changes
<1>2. ASSUME NEW from, NEW copies
      PROVE  Stays(m, Copy(m, from, o, copies), {o})
  BY <1>1 DEF Copy
<1>3. ASSUME NEW refs
      PROVE  Stays(m, [m EXCEPT ![o].refs = refs], {o})
  BY DEF Stays, Changes
<1>4. ASSUME NEW paths
      PROVE  Stays(m, Decode(m, o, paths), {o})
  BY DEF Stays, Changes, Decode
<1> QED BY <1>2, <1>3, <1>4

LEMMA ForgettingStays ==
  ASSUME NEW m, m = [o \in Objects |-> m[o]], NEW w \in Workers
  PROVE  /\ Changes(m, Used(m, w), Mine(w))
         /\ Changes(m, Forget(m, w), Mine(w))
BY DEF Changes, Used, Forget, Mine

LEMMA PatchParentStays ==
  ASSUME MemoryInvariant, NEW dropped,
         NEW set \in SUBSET {ActiveRef, ScheduledRef, CompletedRef},
         NEW ok, PatchParent(dropped, set, ok)
  PROVE  /\ Changes(memory, memory', Mine(Parent))
         /\ parentRefs' \subseteq {ActiveRef, ScheduledRef, CompletedRef}
         /\ Goto(Parent, ok) \/ Goto(Parent, "queued")
         /\ faults' \in 0..MaxFaults
         /\ UNCHANGED <<server, now>>
<1> DEFINE o == Local(Parent)
           m == Copy(memory, o, Base(Parent), ScheduledComplianceScanCopies)
           refs == Renew(o, [p \in DOMAIN m[o].refs \ dropped |-> m[o].refs[p]], set)
           a == Assign(dropped, set)
           paths == ParentRefs((parentRefs \ dropped) \cup set)
           d == Decode(a, o, paths)
<1>1. Parent \in Workers /\ o \in Objects /\ Base(Parent) \in Objects
  BY ScansAreWorkers, ObjectsOfWorkers
<1>2. memory = [x \in Objects |-> memory[x]]
  BY DEF MemoryInvariant, Sound
<1>3. Stays(memory, m, {Base(Parent)})
  BY <1>1, <1>2, OperationsStay
<1>4. a = [m EXCEPT ![o].refs = refs]
  BY DEF Assign
<1> HIDE DEF m, refs, a, paths
<1>5. Stays(m, a, {o})
  BY <1>1, <1>3, <1>4, OperationsStay DEF Stays
<1>6. Stays(a, d, {o})
  BY <1>1, <1>5, OperationsStay DEF Stays
<1>7. /\ memory' \in {Forget(d, Parent), Used(d, Parent), Forget(memory, Parent)}
      /\ parentRefs' \in {parentRefs, (parentRefs \ dropped) \cup set}
      /\ Goto(Parent, ok) \/ Goto(Parent, "queued")
      /\ UNCHANGED faults \/ Fault
      /\ UNCHANGED <<server, now>>
  BY DEF PatchParent, a, paths
<1> HIDE DEF d
<1>8. /\ Changes(d, Forget(d, Parent), Mine(Parent))
      /\ Changes(d, Used(d, Parent), Mine(Parent))
      /\ Changes(memory, Forget(memory, Parent), Mine(Parent))
  BY <1>1, <1>2, <1>6, ForgettingStays DEF Stays
<1>9. Changes(memory, d, Mine(Parent))
  BY <1>3, <1>5, <1>6 DEF Stays, Changes, Mine
<1>10. Changes(memory, memory', Mine(Parent))
  BY <1>7, <1>8, <1>9 DEF Changes
<1>11. parentRefs' \subseteq {ActiveRef, ScheduledRef, CompletedRef}
  BY <1>7 DEF MemoryInvariant, ControlTyped
<1>12. faults' \in 0..MaxFaults
  BY <1>7, MemoryBoundsAssumption DEF MemoryInvariant, ControlTyped, Fault
<1> QED BY <1>7, <1>10, <1>11, <1>12

LEMMA ParentWorkerKeeps ==
  ASSUME MemoryInvariant, Sound(memory'), ParentWorker
  PROVE  MemoryInvariant'
<1>1. /\ Parent \in Workers /\ Local(Parent) \in Objects /\ Created(Parent) \in Objects
      /\ \A s \in Scans : s # Parent
  BY ScansAreWorkers, ObjectsOfWorkers
<1>2. memory = [o \in Objects |-> memory[o]] /\ ControlTyped
  BY DEF MemoryInvariant, Sound
<1> DEFINE Leads(label) == Goto(Parent, label)
           Refs == {ActiveRef, ScheduledRef, CompletedRef}
<1>3. /\ Changes(memory, memory', Mine(Parent))
      /\ parentRefs' \subseteq Refs
      /\ \E label \in Labels : Leads(label)
      /\ faults' \in 0..MaxFaults
      /\ UNCHANGED <<server, now>>
  <2>1. \A label \in {"queued", "listed", "due", "created"} : label \in Labels
    BY DEF Labels
  <2>2. Changes(memory, Forget(memory, Parent), Mine(Parent))
    BY <1>1, <1>2, ForgettingStays
  <2>3. \A m : Stays(memory, m, {Local(Parent)}) \/ Stays(memory, m, {Created(Parent)})
                 => Changes(memory, m, Mine(Parent))
    BY DEF Stays, Changes, Mine
  <2>4. parentRefs \subseteq Refs /\ faults \in 0..MaxFaults
    BY <1>2 DEF ControlTyped
  <2>5. Fault => faults' \in 0..MaxFaults
    BY <2>4, MemoryBoundsAssumption DEF Fault
  <2>6. CASE ScheduledGet
    <3>1. Changes(memory, memory', Mine(Parent))
      BY <1>1, <1>2, <2>3, <2>6, OperationsStay DEF ScheduledGet
    <3> QED BY <2>1, <2>4, <2>6, <3>1 DEF ScheduledGet
  <2>7. CASE ClearActive
    <3>1. PatchParent({ActiveRef}, {CompletedRef}, "due")
      BY <2>7 DEF ClearActive
    <3> QED BY <2>1, <3>1, PatchParentStays
  <2>8. CASE RecoverActive \/ SetActiveScan
    <3>1. PatchParent({}, {ActiveRef, ScheduledRef}, "queued")
      BY <2>8 DEF RecoverActive, SetActiveScan
    <3> QED BY <2>1, <3>1, PatchParentStays
  <2>9. CASE DeployComplianceScan
    <3>1. Changes(memory, [memory EXCEPT ![Created(Parent)].refs = NewChild],
                  Mine(Parent))
      BY <1>1, <1>2, <2>3, OperationsStay
    <3>2. Changes(memory, memory', Mine(Parent))
      BY <2>2, <2>9, <3>1 DEF DeployComplianceScan
    <3> QED BY <2>1, <2>4, <2>5, <2>9, <3>2 DEF DeployComplianceScan
  <2>10. CASE ScheduledReturn
    BY <2>1, <2>2, <2>4, <2>10 DEF ScheduledReturn
  <2> QED BY <2>6, <2>7, <2>8, <2>9, <2>10 DEF ParentWorker
<1>4. PICK label \in Labels : Leads(label)
  BY <1>3
<1>5. /\ pc' \in [Workers -> Labels]
      /\ \A s \in Scans \ {Parent} : ScanFollows(s)'
  BY <1>1, <1>3, <1>4, OnlyOwnScan
<1>6. ControlTyped'
  BY <1>2, <1>3, <1>5 DEF ControlTyped
<1> QED BY <1>1, <1>5, <1>6 DEF MemoryInvariant

-----------------------------------------------------------------------------
(* The invariant. *)

LEMMA MemoryInvariantHoldsFirst ==
  ASSUME Init
  PROVE  MemoryInvariant
<1>1. ControlTyped
  <2>1. PICK busy : pc = [w \in Workers |-> IF w \in busy THEN "queued" ELSE "idle"]
    BY DEF Init
  <2>2. pc \in [Workers -> Labels]
    BY <2>1 DEF Labels
  <2>3. /\ server = [s \in Scans |-> NewStatus] /\ parentRefs = {}
        /\ now = 1 /\ faults = 0
    BY DEF Init
  <2>4. now \in 1..MaxTime /\ faults \in 0..MaxFaults
    BY <2>3, MemoryBoundsAssumption
  <2>5. server = [s \in Scans |-> server[s]]
    BY <2>3
  <2> QED BY <2>2, <2>3, <2>4, <2>5 DEF ControlTyped
<1>2. StatusTells(NewStatus, now)
  BY DEF NewStatus, StatusTells, Tells
<1>3. ASSUME NEW s \in Scans
      PROVE  ScanFollows(s)
  <2>1. server[s] = NewStatus
    BY DEF Init
  <2>2. memory[Cached(s)] = CachedScan(s, NewStatus)
    <3>1. /\ Cached(s) \in Objects /\ Cached(s) # Shared /\ Cached(s) # Cached(Parent)
          /\ Cached(s)[1] = "cached" /\ Cached(s)[2] = s
      BY ScansAreWorkers, ObjectsOfWorkers DEF Cached, Shared
    <3> QED BY <3>1 DEF Init
  <2>3. Tidy(memory[Cached(s)], now)
    BY <1>2, <2>2, CachedScanIsTidy
  <2>4. pc[s] \in {"queued", "idle"}
    BY ScansAreWorkers DEF Init
  <2> QED BY <1>2, <2>1, <2>3, <2>4 DEF ScanFollows, CopyFollows, LabelsFollow
<1> QED BY <1>1, <1>3, InitIsSound DEF MemoryInvariant

LEMMA NextKeepsMemoryInvariant ==
  ASSUME MemoryInvariant, [Next]_vars
  PROVE  MemoryInvariant'
<1>1. Sound(memory')
  BY NextIsSound DEF MemoryInvariant
<1>2. ASSUME NEW s \in Scans, ScanWorker(s)
      PROVE  MemoryInvariant'
  <2>1. CASE ReconcileGet(s)
    BY <1>1, <2>1, ReconcileGetKeeps
  <2>2. CASE PatchRunning(s)
    <3>1. PatchEnds(s, "Running", {"labels", "failed"}, {})
      BY <2>2, PatchesEnd
    <3>2. \A label \in {"labels", "failed"} : "Running" \in PhasesAt(label)
      BY DEF PhasesAt
    <3> QED BY <1>1, <3>1, <3>2, PatchEndsKeeps
  <2>3. CASE DeployLabels(s)
    BY <1>1, <2>3, DeployLabelsKeeps
  <2>4. CASE DeployCreate(s)
    BY <1>1, <2>4, DeployCreateKeeps
  <2>5. CASE PatchCompleted(s)
    <3>1. PatchEnds(s, "Completed", {"failed"}, {"idle"})
      BY <2>5, PatchesEnd
    <3>2. \A label \in {"failed"} : "Completed" \in PhasesAt(label)
      BY DEF PhasesAt
    <3> QED BY <1>1, <3>1, <3>2, PatchEndsKeeps
  <2>6. CASE HandleFailedScan(s)
    <3>1. PatchEnds(s, "Failed", {}, {"idle", "queued"})
      BY <2>6, PatchesEnd
    <3> QED BY <1>1, <3>1, PatchEndsKeeps
  <2> QED BY <1>2, <2>1, <2>2, <2>3, <2>4, <2>5, <2>6 DEF ScanWorker
<1>3. CASE \E s \in Scans : ExporterPatch(s)
  BY <1>1, <1>3, ExporterPatchKeeps
<1>4. CASE \E w \in Workers : Deliver(w)
  BY <1>1, <1>4, DeliverKeeps
<1>5. CASE ParentWorker
  BY <1>1, <1>5, ParentWorkerKeeps
<1>6. CASE Tick \/ UNCHANGED vars
  BY <1>1, <1>6, TickKeeps
<1> QED BY <1>2, <1>3, <1>4, <1>5, <1>6 DEF Next

LEMMA MemoryInvariantHolds == Spec => []MemoryInvariant
<1>1. Init => MemoryInvariant
  BY MemoryInvariantHoldsFirst
<1>2. MemoryInvariant /\ [Next]_vars => MemoryInvariant'
  BY NextKeepsMemoryInvariant
<1> QED BY <1>1, <1>2, PTL DEF Spec

-----------------------------------------------------------------------------

(***************************************************************************)
(* The types, for any number of scans and failed calls: in particular a     *)
(* condition in the API server has all its fields and is dated by the clock *)
(* (MemoryTypeOK).                                                          *)
(***************************************************************************)
THEOREM MemoryTypeOKHolds == Spec => []MemoryTypeOK
<1>1. MemoryInvariant => MemoryTypeOK
  <2> SUFFICES ASSUME MemoryInvariant
               PROVE  MemoryTypeOK
    OBVIOUS
  <2>1. \A s \in Scans : /\ server[s].phase \in Phases
                         /\ Range(server[s].conditions) \subseteq AllConditions
                         /\ server[s].reported \in BOOLEAN
    <3> TAKE s \in Scans
    <3>1. Tells(server[s].phase, server[s].conditions, now)
            /\ server[s].reported \in BOOLEAN
      BY DEF MemoryInvariant, ScanFollows, StatusTells
    <3> DEFINE conditions == server[s].conditions
    <3> HIDE DEF conditions
    <3>2. server[s].phase \in Phases /\ conditions \in Seq(AllConditions)
      BY <3>1, TellsSequence, Zenon DEF conditions
    <3>3. Range(conditions) \subseteq AllConditions
      BY <3>2 DEF Range
    <3> QED BY <3>1, <3>2, <3>3 DEF conditions
  <2>2. \A o \in Objects : \A p \in DOMAIN memory[o].refs :
          memory[o].refs[p][1] \in Objects
    BY DEF MemoryInvariant, Sound, Isolated
  <2> QED BY <2>1, <2>2 DEF MemoryTypeOK, MemoryInvariant, ControlTyped
<1> QED BY <1>1, MemoryInvariantHolds, PTL

(***************************************************************************)
(* The conditions in the API server say what the phase says, for any number *)
(* of scans and failed calls (StatusConsistent): no change in place is lost *)
(* because the base of the patch, or another worker's object, changed along *)
(* with it.                                                                 *)
(***************************************************************************)
THEOREM StatusConsistentHolds == Spec => []StatusConsistent
<1>1. MemoryInvariant => StatusConsistent
  <2> SUFFICES ASSUME MemoryInvariant, NEW s \in Scans
               PROVE  LET st == server[s]
                          Says(type, status) == \E c \in Range(st.conditions) :
                                                  c.type = type /\ c.status = status
                      IN  /\ OnePerType(st.conditions)
                          /\ st.phase = "" => st.conditions = << >>
                          /\ st.phase = "Running" => Says("Completed", "False")
                          /\ st.phase = "Completed" => Says("Completed", "True")
                          /\ st.phase = "Failed" => Says("Failed", "True")
                          /\ st.phase = "Failed" => ~Has(st.conditions, "Completed")
                          /\ st.phase \in {"Running", "Completed"}
                               => ~Has(st.conditions, "Failed")
    BY DEF StatusConsistent
  <2> DEFINE conditions == server[s].conditions
             phase == server[s].phase
  <2>1. Tells(phase, conditions, now)
    BY DEF MemoryInvariant, ScanFollows, StatusTells
  <2> HIDE DEF conditions, phase
  <2>2. CASE phase = "" /\ conditions = << >>
    <3>1. DOMAIN << >> = {}
      OBVIOUS
    <3>2. DOMAIN conditions = {}
      BY <2>2, <3>1, Zenon
    <3>3. OnePerType(conditions)
      BY <3>2 DEF OnePerType
    <3> QED BY <2>2, <3>3 DEF conditions, phase
  <2>3. CASE \E c \in Range(conditions) :
               conditions = <<c>> /\ Complete(c, now) /\ Means(phase, c)
    <3>1. PICK c \in Range(conditions) : conditions = <<c>> /\ Means(phase, c)
      BY <2>3
    <3>2. DOMAIN conditions = {1} /\ conditions[1] = c
      BY <3>1, SingletonIsSequence
    <3>3. OnePerType(conditions)
      BY <3>2 DEF OnePerType
    <3>4. \A type : Has(conditions, type) <=> c.type = type
      BY <3>2 DEF Has
    <3> QED BY <3>1, <3>3, <3>4 DEF Means, conditions, phase
  <2> QED BY <2>1, <2>2, <2>3 DEF Tells
<1> QED BY <1>1, MemoryInvariantHolds, PTL

(***************************************************************************)
(* Every ConfigMap is sent with the UID of the scan it is made for, for any *)
(* number of workers that build labels at once (ConfigMapNamesItsScan).     *)
(***************************************************************************)
THEOREM ConfigMapNamesItsScanHolds == Spec => []ConfigMapNamesItsScan
<1>1. MemoryInvariant => ConfigMapNamesItsScan
  <2> SUFFICES ASSUME MemoryInvariant, NEW s \in Scans, pc[s] = "create"
               PROVE  memory[Owner(memory, Created(s), LabelsRef)].label = s
    BY DEF ConfigMapNamesItsScan
  <2>1. /\ LabelsRef \in DOMAIN memory[Created(s)].refs
        /\ memory[Created(s)].label = s
        /\ Sound(memory)
    BY DEF MemoryInvariant, ScanFollows, LabelsFollow
  <2>2. Created(s) \in Objects
    BY ScansAreWorkers, ObjectsOfWorkers
  <2>3. Owner(memory, Created(s), LabelsRef) = Created(s)
    BY <2>1, <2>2 DEF Owner, Sound, Isolated
  <2> QED BY <2>1, <2>3
<1> QED BY <1>1, MemoryInvariantHolds, PTL

\* A step leaves the conditions of a scan or replaces them by a fresh one.
LEMMA ConditionsStep ==
  ASSUME MemoryInvariant, [Next]_vars, NEW s \in Scans
  PROVE  \/ server'[s].conditions = server[s].conditions
         \/ \E phase, c : server'[s].conditions = <<c>> /\ Fresh(phase, c, now)
<1>1. server = [t \in Scans |-> server[t]]
  BY DEF MemoryInvariant, ControlTyped
<1>2. ASSUME NEW t \in Scans, NEW phase, NEW used, NEW forgotten,
             PatchEnds(t, phase, used, forgotten)
      PROVE  \/ server'[s].conditions = server[s].conditions
             \/ \E ph, c : server'[s].conditions = <<c>> /\ Fresh(ph, c, now)
  <2>1. PICK m : /\ PatchReady(t, m, phase)
                 /\ server' \in {server, [server EXCEPT ![t] = Patched(m, t)]}
    BY <1>2 DEF PatchEnds
  <2>2. PICK c : Shown(m[Local(t)]) = <<c>> /\ Fresh(phase, c, now)
    BY <2>1 DEF PatchReady
  <2>3. Patched(m, t).conditions = <<c>>
    BY <2>1, <2>2 DEF PatchReady
  <2>4. server'[s] = server[s] \/ server'[s] = Patched(m, t)
    BY <1>1, <2>1
  <2> QED BY <2>2, <2>3, <2>4
<1>3. CASE UNCHANGED server
  BY <1>3
<1>4. CASE \E t \in Scans : ScanWorker(t)
  <2>1. PICK t \in Scans : ScanWorker(t)
    BY <1>4
  <2>2. \/ UNCHANGED server
        \/ PatchRunning(t) \/ PatchCompleted(t) \/ HandleFailedScan(t)
    BY <2>1 DEF ScanWorker, ReconcileGet, DeployLabels, DeployCreate
  <2>3. \/ UNCHANGED server
        \/ PatchEnds(t, "Running", {"labels", "failed"}, {})
        \/ PatchEnds(t, "Completed", {"failed"}, {"idle"})
        \/ PatchEnds(t, "Failed", {}, {"idle", "queued"})
    BY <2>2, PatchesEnd
  <2> QED BY <1>2, <1>3, <2>3
<1>5. CASE \E t \in Scans : ExporterPatch(t)
  <2>1. PICK t \in Scans : server' = [server EXCEPT ![t].reported = TRUE]
    BY <1>5 DEF ExporterPatch
  <2> DEFINE st == server[t]
  <2>2. st = [phase |-> st.phase, conditions |-> st.conditions, reported |-> st.reported]
    BY DEF MemoryInvariant, ScanFollows, StatusTells
  <2> DEFINE new == [st EXCEPT !.reported = TRUE]
  <2>3. server' = [server EXCEPT ![t] = new]
    BY <2>1
  <2> HIDE DEF st
  <2>4. new.conditions = st.conditions
    BY <2>2
  <2> HIDE DEF new
  <2>5. \/ server'[s] = server[s]
        \/ s = t /\ server'[s] = new
    BY <1>1, <2>3
  <2> QED BY <2>4, <2>5 DEF st
<1>6. CASE ParentWorker \/ Tick \/ (\E w \in Workers : Deliver(w)) \/ UNCHANGED vars
  <2>1. UNCHANGED server
    BY <1>6 DEF ParentWorker, ScheduledGet, ClearActive, RecoverActive,
         DeployComplianceScan, SetActiveScan, ScheduledReturn, PatchParent, Tick,
         Deliver, vars
  <2> QED BY <1>3, <2>1
<1> QED BY <1>4, <1>5, <1>6 DEF Next

(***************************************************************************)
(* A condition that appears or changes its status is dated at that moment,  *)
(* and one that keeps its status never goes back in time, for any number of *)
(* scans, workers and failed calls (TransitionsAreDated).                   *)
(***************************************************************************)
THEOREM TransitionsAreDatedHolds == Spec => TransitionsAreDated
<1>1. ASSUME MemoryInvariant, [Next]_vars, NEW s \in Scans,
             NEW c \in Range(server'[s].conditions)
      PROVE  Dated(server[s].conditions, c)
  <2> DEFINE before == server[s].conditions
             after == server'[s].conditions
  <2>1. Tells(server[s].phase, before, now) /\ now \in 1..MaxTime
    BY <1>1 DEF MemoryInvariant, ControlTyped, ScanFollows, StatusTells
  <2>2. after = before \/ \E phase, d : after = <<d>> /\ Fresh(phase, d, now)
    BY <1>1, ConditionsStep
  <2>3. c \in Range(after)
    BY <1>1
  <2> HIDE DEF before, after
  <2> DEFINE Match == \E old \in Range(before) : old.type = c.type /\ old.status = c.status
             NotBack == \E old \in Range(before) :
                          /\ old.type = c.type
                          /\ old.lastTransitionTime <= c.lastTransitionTime
                          /\ old.lastUpdateTime <= c.lastUpdateTime
  <2>0. Dated(before, c) <=> IF Match THEN NotBack ELSE c.lastTransitionTime = now
    BY Zenon DEF Dated
  <2>4. \A old \in Range(before) :
          /\ old.lastUpdateTime \in Int /\ old.lastTransitionTime \in Int
          /\ old.lastUpdateTime <= now /\ old.lastTransitionTime <= now
    <3> TAKE old \in Range(before)
    <3>1. before # << >>
      <4>1. DOMAIN << >> = {}
        OBVIOUS
      <4> QED BY <4>1, Zenon DEF Range
    <3>2. PICK d \in Range(before) : before = <<d>> /\ Complete(d, now)
      BY <2>1, <3>1 DEF Tells
    <3>3. old = d
      BY <3>2, SingletonIsSequence
    <3> QED BY <3>2, <3>3 DEF Complete, AllConditions
  <2>5. CASE after = before
    <3>1. c \in Range(before)
      BY <2>3, <2>5
    <3>2. /\ c.lastUpdateTime <= c.lastUpdateTime
          /\ c.lastTransitionTime <= c.lastTransitionTime
      BY <2>4, <3>1
    <3>3. Match
      BY <3>1
    <3>4. NotBack
      BY <3>1, <3>2
    <3> HIDE DEF Match, NotBack
    <3> QED BY <2>0, <3>3, <3>4 DEF before
  <2>6. CASE \E phase, d : after = <<d>> /\ Fresh(phase, d, now)
    <3>1. PICK d : /\ after = <<d>>
                   /\ d.lastUpdateTime = now /\ d.lastTransitionTime = now
      BY <2>6 DEF Fresh
    <3>2. c.lastUpdateTime = now /\ c.lastTransitionTime = now
      BY <2>3, <3>1, SingletonIsSequence
    <3>3. \A old \in Range(before) : /\ old.lastTransitionTime <= c.lastTransitionTime
                                     /\ old.lastUpdateTime <= c.lastUpdateTime
      BY <2>4, <3>2
    <3>4. Match => NotBack
      BY <3>3
    <3> HIDE DEF Match, NotBack
    <3> QED BY <2>0, <3>2, <3>4 DEF before
  <2> QED BY <2>2, <2>5, <2>6 DEF before
<1>2. MemoryInvariant /\ [Next]_vars =>
        [\A s \in Scans : \A c \in Range(server'[s].conditions) :
           Dated(server[s].conditions, c)]_vars
  BY <1>1
<1> QED BY <1>2, MemoryInvariantHolds, PTL DEF Spec, TransitionsAreDated
=============================================================================
