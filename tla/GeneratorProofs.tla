-------------------------- MODULE GeneratorProofs --------------------------
(***************************************************************************)
(* Proofs about Generator for every value of its constants: the type      *)
(* invariant, and that a generated relational-store project always has a  *)
(* connection pool.                                                        *)
(***************************************************************************)
EXTENDS Generator, TLAPS

\* The empty object of line 26 is a configuration.
LEMMA EmptyConfigType == EmptyConfig \in ConfigType
BY DEF EmptyConfig, ConfigType, Fields, Absent

\* Lines 59-67 keep every field in its type.
LEMMA ImportedConfigType ==
    ASSUME NEW m \in ConfigType
    PROVE  ImportedConfig(m) \in ConfigType
BY DEF ImportedConfig, ConfigType, Or, Truthy, Absent, AppTypeChoices,
       FeatureChoices

\* Overwriting the pool (line 68) or the slug (lines 218-233) of a
\* configuration with a value of the field's type keeps it a configuration.
LEMMA SetPoolType ==
    ASSUME NEW c \in ConfigType, NEW v \in PoolChoices \cup Absent
    PROVE  [c EXCEPT !.dbpool = v] \in ConfigType
BY SMT DEF ConfigType

LEMMA SetModuleType ==
    ASSUME NEW c \in ConfigType, NEW v \in StoreModules \cup Absent
    PROVE  [c EXCEPT !.entitystoremodule = v] \in ConfigType
BY SMT DEF ConfigType

\* The then-callback of prompting() keeps every field in its type.
LEMMA PromptedType ==
    ASSUME NEW c \in ConfigType, NEW a \in AnswerChoices
    PROVE  Prompted(c, a) \in ConfigType
<1> DEFINE store == Answer(a, "entitystore", c)
<1>1. store \in StoreChoices
  BY DEF Answer, PromptDefault, Or, Truthy, Absent, AnswerChoices, ConfigType,
         StoreChoices
<1>2. Answer(a, "name", c) \in Names \cup {AppNameUpper}
  BY DEF Answer, PromptDefault, Or, Truthy, Absent, AnswerChoices, ConfigType
<1>3. Answer(a, "packageName", c) \in Packages \cup {"com.acme", ImportPackage}
  BY DEF Answer, PromptDefault, Or, Truthy, Absent, AnswerChoices, ConfigType
<1>4. Answer(a, "applicationtype", c) \in AppTypeChoices
  BY DEF Answer, PromptDefault, Or, Truthy, Absent, AnswerChoices, ConfigType, AppTypeChoices
<1>5. Answer(a, "dbpool", c) \in PoolChoices
  BY DEF Answer, PromptDefault, Or, Truthy, Absent, AnswerChoices, ConfigType, PoolChoices
<1>6. Answer(a, "indexing", c) \in IndexingChoices
  BY DEF Answer, PromptDefault, Or, Truthy, Absent, AnswerChoices, ConfigType, IndexingChoices
<1>7. Answer(a, "caching", c) \in CachingChoices
  BY DEF Answer, PromptDefault, Or, Truthy, Absent, AnswerChoices, ConfigType, CachingChoices
<1>8. Answer(a, "metrics", c) \in MetricsChoices
  BY DEF Answer, PromptDefault, Or, Truthy, Absent, AnswerChoices, ConfigType, MetricsChoices
<1>9. Answer(a, "features", c) \in FeatureChoices
  BY DEF Answer, PromptDefault, Or, Truthy, Absent, AnswerChoices, ConfigType, FeatureChoices
<1>10. QED
  BY <1>1, <1>2, <1>3, <1>4, <1>5, <1>6, <1>7, <1>8, <1>9
     DEF Prompted, ConfigType, PoolChoices, Absent

\* The slug of writing() is one of the store modules.
LEMMA EntityStoreModuleType ==
    ASSUME NEW s \in StoreChoices
    PROVE  EntityStoreModule(s) \in StoreModules
BY DEF EntityStoreModule, StoreModules

-----------------------------------------------------------------------------
\* The initial state is well typed.
LEMMA InitTypeOK == Init => TypeOK
<1> SUFFICES ASSUME Init PROVE TypeOK
  OBVIOUS
<1>1. modelFile \in ConfigType \cup {Undefined}
  BY ModelFilesAssumption DEF Init
<1>2. runs \in 0..MaxRuns
  BY ConstantsAssumption DEF Init
<1>3. QED
  BY <1>1, <1>2, EmptyConfigType DEF Init, TypeOK, Phases, Errors, Options
\* Every step of a run keeps every variable in its type.
LEMMA NextTypeOK == TypeOK /\ [Next]_vars => TypeOK'
<1> SUFFICES ASSUME TypeOK, [Next]_vars PROVE TypeOK'
  OBVIOUS
<1>1. ASSUME NEW o \in Options, StartRun(o) PROVE runs' \in 0..MaxRuns
  BY <1>1, ConstantsAssumption DEF StartRun, TypeOK
<1>2. CASE Construct
  BY <1>2, <1>1, EmptyConfigType
  DEF Construct, StartRun, StartConfig, TypeOK, Phases, Errors
<1>3. CASE ConstructImportMissing
  BY <1>3, <1>1, EmptyConfigType
  DEF ConstructImportMissing, StartRun, StartConfig, TypeOK, Phases, Errors
<1>4. CASE ConstructImport
  <2>1. PICK o \in Options : /\ o.import /\ modelFile # Undefined
                             /\ StartRun(o) /\ imported' = modelFile
                             /\ IF modelFile.dbpool = Undefined
                                THEN /\ qi4j' = [ImportedConfig(modelFile) EXCEPT !.dbpool = "DBCP"]
                                     /\ phase' = "constructed"
                                     /\ error' = "none"
                                ELSE /\ qi4j' = ImportedConfig(modelFile)
                                     /\ phase' = "failed"
                                     /\ error' = "ReferenceError"
                             /\ isolated' = qi4j'
    BY <1>4 DEF ConstructImport
  <2>2. modelFile \in ConfigType
    BY <2>1 DEF TypeOK
  <2>3. ImportedConfig(modelFile) \in ConfigType
    BY <2>2, ImportedConfigType
  <2>4. [ImportedConfig(modelFile) EXCEPT !.dbpool = "DBCP"] \in ConfigType
    BY <2>3, SetPoolType DEF PoolChoices
  <2>5. qi4j' \in ConfigType /\ isolated' \in ConfigType
    BY <2>1, <2>3, <2>4
  <2>6. QED
    BY <2>1, <2>2, <2>5, <1>1 DEF StartRun, TypeOK, Phases, Errors
<1>5. CASE PromptSkipped
  BY <1>5 DEF PromptSkipped, TypeOK, Phases
<1>6. CASE Prompt
  BY <1>6, PromptedType DEF Prompt, TypeOK, Phases
<1>7. CASE WriteFailsOnStore
  BY <1>7 DEF WriteFailsOnStore, TypeOK, Phases, Errors
<1>8. CASE Write
  <2>1. qi4j.entitystore \in StoreChoices
    BY <1>8 DEF Write, TypeOK, ConfigType, Truthy, Absent
  <2>2. [qi4j EXCEPT !.entitystoremodule = EntityStoreModule(qi4j.entitystore)]
          \in ConfigType
    BY <2>1, EntityStoreModuleType, SetModuleType DEF TypeOK
  <2>3. isolated' \in ConfigType
    <3>1. CASE Truthy(isolated.entitystore)
      <4>1. isolated.entitystore \in StoreChoices
        BY <3>1 DEF TypeOK, ConfigType, Truthy, Absent
      <4>2. QED
        BY <1>8, <3>1, <4>1, EntityStoreModuleType, SetModuleType DEF Write, TypeOK
    <3>2. CASE ~Truthy(isolated.entitystore)
      <4>1. isolated.entitystoremodule \in StoreModules \cup Absent
        BY DEF TypeOK, ConfigType
      <4>2. QED
        BY <1>8, <3>2, <4>1, SetModuleType DEF Write, TypeOK
    <3>3. QED
      BY <3>1, <3>2
  <2>4. QED
    BY <1>8, <2>2, <2>3 DEF Write, TypeOK, Phases, Errors
<1>9. CASE UNCHANGED vars
  BY <1>9 DEF vars, TypeOK
<1>10. QED
  BY <1>2, <1>3, <1>4, <1>5, <1>6, <1>7, <1>8, <1>9 DEF Next
\* Type correctness of every reachable state.
THEOREM TypeCorrect == Spec => []TypeOK
BY InitTypeOK, NextTypeOK, PTL DEF Spec

-----------------------------------------------------------------------------
\* No model file on disk before the first run holds  "dbpool": null .
NoNullPoolFiles == \A m \in ModelFiles : m.dbpool # Null

\* The inductive invariant behind SqlStoreHasPool.  Whenever qi4j names a
\* store it names a pool too: the import either falls back to "DBCP" or
\* throws with the file's own (non-null) pool in place, and the prompt
\* always stores a pool.  A run is only done after writing() found a store,
\* and a model file never holds a null pool, so an import that throws
\* (line 68) cannot leave one behind for the next run of the process.
PoolInv ==
    /\ TypeOK
    /\ Truthy(qi4j.entitystore) => qi4j.dbpool \in PoolChoices
    /\ phase = "done" => Truthy(qi4j.entitystore)
    /\ modelFile # Undefined => modelFile.dbpool # Null

\* A generated project for a relational store (lines 219-233) always has a
\* connection pool (spec 8.6), for every number of runs and whether or not
\* the runs share a process, given model files without a null pool.
THEOREM SqlPoolResolved == NoNullPoolFiles => (Spec => []SqlStoreHasPool)
<1> SUFFICES ASSUME NoNullPoolFiles PROVE Spec => []SqlStoreHasPool
  OBVIOUS
<1>1. Init => PoolInv
  <2> SUFFICES ASSUME Init PROVE PoolInv
    OBVIOUS
  <2>1. ~Truthy(qi4j.entitystore)
    BY DEF Init, EmptyConfig, Fields, Truthy, Absent
  <2>2. modelFile # Undefined => modelFile.dbpool # Null
    BY DEF Init, NoNullPoolFiles
  <2>3. QED
    BY <2>1, <2>2, InitTypeOK DEF PoolInv, Init
<1>2. PoolInv /\ [Next]_vars => PoolInv'
  <2> SUFFICES ASSUME PoolInv, [Next]_vars PROVE PoolInv'
    OBVIOUS
  <2>0. TypeOK'
    BY NextTypeOK DEF PoolInv
  <2>1. CASE Construct
    BY <2>0, <2>1 DEF Construct, StartRun, StartConfig, PoolInv, EmptyConfig,
       Fields, Truthy, Absent
  <2>2. CASE ConstructImportMissing
    BY <2>0, <2>2 DEF ConstructImportMissing, StartRun, StartConfig, PoolInv,
       EmptyConfig, Fields, Truthy, Absent
  <2>3. CASE ConstructImport
    <3>1. modelFile \in ConfigType /\ modelFile.dbpool # Null
      BY <2>3 DEF ConstructImport, PoolInv, TypeOK
    <3>2. qi4j'.dbpool \in PoolChoices
      <4>1. CASE modelFile.dbpool = Undefined
        <5>1. ImportedConfig(modelFile) \in ConfigType
          BY <3>1, ImportedConfigType
        <5>2. QED
          BY <2>3, <4>1, <5>1 DEF ConstructImport, ConfigType, PoolChoices
      <4>2. CASE modelFile.dbpool # Undefined
        <5>1. qi4j' = ImportedConfig(modelFile)
          BY <2>3, <4>2 DEF ConstructImport
        <5>2. qi4j'.dbpool = modelFile.dbpool
          BY <5>1 DEF ImportedConfig
        <5>3. modelFile.dbpool \in PoolChoices \cup Absent
          BY <3>1 DEF ConfigType
        <5>4. QED
          BY <3>1, <4>2, <5>2, <5>3 DEF Absent
      <4>3. QED
        BY <4>1, <4>2
    <3>3. phase' # "done"
      BY <2>3 DEF ConstructImport
    <3>4. QED
      BY <2>0, <2>3, <3>2, <3>3 DEF ConstructImport, StartRun, PoolInv
  <2>4. CASE PromptSkipped
    BY <2>0, <2>4 DEF PromptSkipped, PoolInv
  <2>5. CASE Prompt
    <3>1. PICK a \in AnswerChoices : qi4j' = Prompted(qi4j, a)
      BY <2>5 DEF Prompt
    <3>2. Answer(a, "dbpool", qi4j) \in PoolChoices
      BY DEF Answer, PromptDefault, Or, Truthy, Absent, AnswerChoices, PoolInv,
         TypeOK, ConfigType, PoolChoices
    <3>3. qi4j'.dbpool \in PoolChoices
      BY <3>1, <3>2 DEF Prompted, PoolChoices
    <3>4. QED
      BY <2>0, <2>5, <3>3 DEF Prompt, PoolInv
  <2>6. CASE WriteFailsOnStore
    BY <2>0, <2>6 DEF WriteFailsOnStore, PoolInv
  <2>7. CASE Write
    <3>1. /\ qi4j'.entitystore = qi4j.entitystore
          /\ qi4j'.dbpool = qi4j.dbpool
          /\ Truthy(qi4j.entitystore)
      BY <2>7 DEF Write, PoolInv, TypeOK, ConfigType
    <3>2. qi4j.dbpool \in PoolChoices
      BY <3>1 DEF PoolInv
    <3>3. modelFile' # Undefined => modelFile'.dbpool # Null
      <4>1. qi4j'.dbpool # Null
        BY <3>1, <3>2, SentinelsAssumption DEF Absent
      <4>2. modelFile' = modelFile \/ modelFile' = qi4j'
        BY <2>7 DEF Write
      <4>3. QED
        BY <4>1, <4>2 DEF PoolInv
    <3>4. QED
      BY <2>0, <3>1, <3>2, <3>3 DEF PoolInv
  <2>8. CASE UNCHANGED vars
    BY <2>0, <2>8 DEF vars, PoolInv
  <2>9. QED
    BY <2>1, <2>2, <2>3, <2>4, <2>5, <2>6, <2>7, <2>8 DEF Next
<1>3. PoolInv => SqlStoreHasPool
  BY DEF PoolInv, SqlStoreHasPool
<1>4. QED
  BY <1>1, <1>2, <1>3, PTL DEF Spec

-----------------------------------------------------------------------------
\* The run loop's bookkeeping: a run that has left "idle" has a number, and
\* nothing has thrown between a successful constructor and writing().
RunLoopInv ==
    /\ phase # "idle" => runs \in 1..MaxRuns
    /\ phase \in {"constructed", "prompted"} => error = "none"

\* Every step keeps the run loop's bookkeeping, given the types.
LEMMA NextRunLoopInv ==
    TypeOK /\ RunLoopInv /\ [Next]_vars => RunLoopInv'
<1> SUFFICES ASSUME TypeOK, RunLoopInv, [Next]_vars PROVE RunLoopInv'
  OBVIOUS
<1>1. ASSUME NEW o \in Options, StartRun(o) PROVE runs' \in 1..MaxRuns
  BY <1>1, ConstantsAssumption DEF StartRun, TypeOK
<1>2. CASE Construct
  BY <1>2, <1>1 DEF Construct, RunLoopInv
<1>3. CASE ConstructImportMissing
  BY <1>3, <1>1 DEF ConstructImportMissing, RunLoopInv
<1>4. CASE ConstructImport
  BY <1>4, <1>1 DEF ConstructImport, RunLoopInv
<1>5. CASE PromptSkipped
  BY <1>5 DEF PromptSkipped, RunLoopInv
<1>6. CASE Prompt
  BY <1>6 DEF Prompt, RunLoopInv
<1>7. CASE WriteFailsOnStore
  BY <1>7 DEF WriteFailsOnStore, RunLoopInv
<1>8. CASE Write
  BY <1>8 DEF Write, RunLoopInv
<1>9. CASE UNCHANGED vars
  BY <1>9 DEF vars, RunLoopInv
<1>10. QED
  BY <1>2, <1>3, <1>4, <1>5, <1>6, <1>7, <1>8, <1>9 DEF Next

\* The run loop's bookkeeping holds in every reachable state (used by the
\* render proofs for the run number writing() stores in qi4j.ctx).
LEMMA RunLoopCorrect == Spec => [](TypeOK /\ RunLoopInv)
<1>1. Init => RunLoopInv
  BY DEF Init, RunLoopInv
<1>2. QED
  BY <1>1, InitTypeOK, NextTypeOK, NextRunLoopInv, PTL DEF Spec
=============================================================================
