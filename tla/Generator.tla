----------------------------- MODULE Generator -----------------------------
(***************************************************************************)
(* The qi4j Yeoman generator (src/tools/generator-qi4j/app/index.js) as a  *)
(* sequence of generator runs.  Each run goes through the Yeoman run loop  *)
(* stages the generator defines: the constructor (option parsing and the   *)
(* optional model import), prompting, and writing (derived fields,         *)
(* template rendering and the optional model export).                      *)
(*                                                                         *)
(* The resolved configuration lives in the module-level variable  qi4j    *)
(* (index.js line 26).  Node caches the module, so when several runs share *)
(* one process (the mocha test harness) they share that object; a fresh    *)
(* `yo qi4j` invocation starts from  {}  again.  SharedProcess selects     *)
(* which of the two the model describes.  The model file on disk survives *)
(* runs either way, so a run can import what an earlier run exported.      *)
(*                                                                         *)
(* A JavaScript object is a record over Fields; a key the object does not *)
(* have holds Undefined, a JSON null holds Null.                           *)
(***************************************************************************)
EXTENDS Naturals, Sequences, SequencesExt

CONSTANTS
    Undefined,      \* the JavaScript value undefined (a missing key)
    Null,           \* the JSON / JavaScript value null
    Default,        \* a prompt answered by accepting the offered default
    MaxRuns,        \* number of generator runs explored
    SharedProcess,  \* TRUE: runs share one Node process (the test harness)
    Names,          \* project names a user may type
    Packages,       \* Java package names a user may type
    AppNameUpper,   \* firstUpper(this.appname): the directory-derived name
    ImportPackage,  \* "com.acme." + this.appname (index.js line 61)
    ModelFiles      \* contents of the model file before the first run

ASSUME ConstantsAssumption ==
    /\ MaxRuns \in Nat \ {0}
    /\ SharedProcess \in BOOLEAN
    /\ {Undefined, Null, Default} \cap (Names \cup Packages) = {}

(***************************************************************************)
(* Prompt choices, literally as listed in prompting() (lines 92-192).     *)
(***************************************************************************)
AppTypeChoices == {"Command Line", "Rest API"}
StoreChoices == {"BerkeleyDB", "Cassandra", "File", "DerbySQL", "Geode",
                 "H2SQL", "Hazelcast", "JClouds", "Jdbm", "LevelDB",
                 "Memory", "MongoDB", "MySQL", "Preferences", "Redis",
                 "Riak", "PostgreSQL", "SQLite"}
PoolChoices == {"BoneCP", "DBCP"}
IndexingChoices == {"Rdf", "ElasticSearch", "Solr", "SQL"}
CachingChoices == {"None", "Memcache", "EhCache"}
MetricsChoices == {"None", "Codahale"}
\* The checkbox answer: the ticked features, in the order they are listed.
FeatureChoices == {<<>>, <<"envisage">>, <<"jmx">>, <<"mixin scripting">>,
                   <<"security">>, <<"jmx", "security">>}

(***************************************************************************)
(* String.prototype.toLowerCase on the entity store names (line 218).     *)
(***************************************************************************)
ToLowerCase(s) ==
    CASE s = "BerkeleyDB"  -> "berkeleydb"  [] s = "Cassandra" -> "cassandra"
      [] s = "File"        -> "file"        [] s = "DerbySQL"  -> "derbysql"
      [] s = "Geode"       -> "geode"       [] s = "H2SQL"     -> "h2sql"
      [] s = "Hazelcast"   -> "hazelcast"   [] s = "JClouds"   -> "jclouds"
      [] s = "Jdbm"        -> "jdbm"        [] s = "LevelDB"   -> "leveldb"
      [] s = "Memory"      -> "memory"      [] s = "MongoDB"   -> "mongodb"
      [] s = "MySQL"       -> "mysql"       [] s = "Preferences" -> "preferences"
      [] s = "Redis"       -> "redis"       [] s = "Riak"      -> "riak"
      [] s = "PostgreSQL"  -> "postgresql"  [] s = "SQLite"    -> "sqlite"

StoreModules == {ToLowerCase(s) : s \in StoreChoices} \cup {"sql"}

(***************************************************************************)
(* Values a field of  qi4j  can hold.                                      *)
(***************************************************************************)
Absent == {Undefined, Null}

\* The object literal {} of line 64, as an opaque value.
EmptyObject == "{}"
Fields == {"name", "packageName", "applicationtype", "entitystore", "dbpool",
           "indexing", "caching", "metrics", "features", "modules",
           "entitystoremodule"}
ConfigType ==
    [name: Names \cup {AppNameUpper} \cup Absent,
     packageName: Packages \cup {"com.acme", ImportPackage} \cup Absent,
     applicationtype: AppTypeChoices \cup Absent,
     entitystore: StoreChoices \cup Absent,
     dbpool: PoolChoices \cup Absent,
     indexing: IndexingChoices \cup Absent,
     caching: CachingChoices \cup Absent,
     metrics: MetricsChoices \cup Absent,
     features: FeatureChoices \cup Absent,
     modules: {EmptyObject} \cup Absent,
     entitystoremodule: StoreModules \cup Absent]

ASSUME ModelFilesAssumption == ModelFiles \subseteq ConfigType

\* undefined and null are no prompt choice.
ASSUME SentinelsAssumption ==
    Absent \cap (PoolChoices \cup StoreChoices \cup AppTypeChoices) = {}

\* The empty object  {}  that line 26 starts from.
EmptyConfig == [f \in Fields |-> Undefined]

\* JavaScript truthiness on these values (no field holds "" or 0 here).
Truthy(v) == v \notin Absent

\* The idiom  a ? a : b .
Or(a, b) == IF Truthy(a) THEN a ELSE b

\* answers.entitystore.indexOf('SQL') > -1  (line 138).
NeedsPool(store) == "SQL" \in SubSeqs(store)

\* Mutant of EntityStoreModule: PostgreSQL left out of the list of lines
\* 219-233.
EntityStoreModuleNoPostgreSQL(store) ==
    IF store \in {"DerbySQL", "H2SQL", "MySQL", "SQLite"}
    THEN "sql" ELSE ToLowerCase(store)

\* The entity store slug computed in writing() (lines 218-233).
EntityStoreModule(store) ==
    IF store \in {"DerbySQL", "H2SQL", "MySQL", "PostgreSQL", "SQLite"}
    THEN "sql" ELSE ToLowerCase(store)

VARIABLES
    qi4j,        \* the module-level configuration object (line 26)
    phase,       \* where the current run is in the Yeoman run loop
    opts,        \* the options of the current run
    error,       \* the exception that ended the current run, if any
    modelFile,   \* the model file on disk, Undefined when there is none
    exportedFile,\* TRUE when modelFile was written by exportModel
    runs,        \* runs started so far
    imported,    \* the model this run imported, Undefined if none (history)
    answers,     \* this run's prompt answers, Undefined if none (history)
    isolated     \* what this run's qi4j would be had it started from {}
                 \* (history: equal to qi4j unless runs share a process)

vars == <<qi4j, phase, opts, error, modelFile, exportedFile, runs,
          imported, answers, isolated>>

Phases == {"idle", "constructed", "prompted", "done", "failed"}
Errors == {"none", "ModelImportError", "ReferenceError", "TypeError",
           "CircularJSON"}
Options == [import: BOOLEAN, export: BOOLEAN, noPrompt: BOOLEAN]

\* The prompted fields, and the value each prompt offers as its default.
Questions == {"name", "packageName", "applicationtype", "entitystore",
              "dbpool", "indexing", "caching", "metrics", "features"}
PromptDefault(q, c) ==
    CASE q = "name"            -> Or(c.name, AppNameUpper)
      [] q = "packageName"     -> Or(c.packageName, "com.acme")
      [] q = "applicationtype" -> Or(c.applicationtype, "Rest API")
      [] q = "entitystore"     -> Or(c.entitystore, "Memory")
      [] q = "dbpool"          -> Or(c.dbpool, "DBCP")
      [] q = "indexing"        -> Or(c.indexing, "Rdf")
      [] q = "caching"         -> Or(c.caching, "None")
      [] q = "metrics"         -> Or(c.metrics, "None")
      [] q = "features"        -> Or(c.features, <<>>)
AnswerChoices ==
    [name: Names \cup {Default}, packageName: Packages \cup {Default},
     applicationtype: AppTypeChoices \cup {Default},
     entitystore: StoreChoices \cup {Default},
     dbpool: PoolChoices \cup {Default},
     indexing: IndexingChoices \cup {Default},
     caching: CachingChoices \cup {Default},
     metrics: MetricsChoices \cup {Default},
     features: FeatureChoices \cup {Default}]
\* The value a prompt returns: the typed answer, or the offered default.
Answer(a, q, c) == IF a[q] = Default THEN PromptDefault(q, c) ELSE a[q]

\* The then-callback of prompting() (lines 194-210) applied to  c : the
\* answers copied into the configuration.  The dbpool question is asked only
\* when the chosen store needs a pool (lines 137-139); otherwise its answer
\* is undefined and line 207 stores "DBCP".
Prompted(c, a) ==
    LET store == Answer(a, "entitystore", c)
    IN [name |-> Answer(a, "name", c),
        packageName |-> Answer(a, "packageName", c),
        applicationtype |-> Answer(a, "applicationtype", c),
        entitystore |-> store,
        dbpool |-> IF NeedsPool(store) THEN Answer(a, "dbpool", c) ELSE "DBCP",
        indexing |-> Answer(a, "indexing", c),
        caching |-> Answer(a, "caching", c),
        metrics |-> Answer(a, "metrics", c),
        features |-> Answer(a, "features", c),
        modules |-> c.modules,
        entitystoremodule |-> c.entitystoremodule]

\* Mutant of ImportedConfig: line 62 stores the template directory spelling
\* "RestAPI" (the name line 237 derives) instead of the prompt value.
ImportedConfigRestAPI(m) ==
    [name |-> Or(m.name, AppNameUpper),
     packageName |-> Or(m.packageName, ImportPackage),
     applicationtype |-> "RestAPI",
     entitystore |-> Or(m.entitystore, Null),
     dbpool |-> m.dbpool,
     indexing |-> Or(m.indexing, Null),
     caching |-> Or(m.caching, Null),
     metrics |-> m.metrics,
     features |-> Or(m.features, <<>>),
     modules |-> Or(m.modules, EmptyObject),
     entitystoremodule |-> m.entitystoremodule]

\* Lines 59-67 applied to a parsed model file  m : the fallbacks of the
\* imported configuration (line 68 is handled by ConstructImport).
ImportedConfig(m) ==
    [name |-> Or(m.name, AppNameUpper),
     packageName |-> Or(m.packageName, ImportPackage),
     applicationtype |-> "Rest API",
     entitystore |-> Or(m.entitystore, Null),
     dbpool |-> m.dbpool,
     indexing |-> Or(m.indexing, Null),
     caching |-> Or(m.caching, Null),
     metrics |-> m.metrics,
     features |-> Or(m.features, <<>>),
     modules |-> Or(m.modules, EmptyObject),
     entitystoremodule |-> m.entitystoremodule]

-----------------------------------------------------------------------------
Init ==
    /\ qi4j = EmptyConfig
    /\ phase = "idle"
    /\ opts = [import |-> FALSE, export |-> FALSE, noPrompt |-> FALSE]
    /\ error = "none"
    /\ modelFile \in ModelFiles \cup {Undefined}
    /\ exportedFile = FALSE
    /\ runs = 0
    /\ imported = Undefined
    /\ answers = Undefined
    /\ isolated = EmptyConfig

\* The configuration a new run's constructor starts from: the object left
\* by the previous run of this process, or  {}  in a fresh process.
StartConfig == IF SharedProcess THEN qi4j ELSE EmptyConfig

\* Starting a run: the part of the constructor (lines 30-57) common to all
\* its outcomes (the option declarations).
StartRun(o) ==
    /\ phase \in {"idle", "done", "failed"}
    /\ runs < MaxRuns
    /\ opts' = o
    /\ runs' = runs + 1
    /\ answers' = Undefined
    /\ UNCHANGED <<modelFile, exportedFile>>

\* The constructor without --import (line 58 false): qi4j is left alone.
Construct ==
    \E o \in Options :
        /\ ~o.import
        /\ StartRun(o)
        /\ qi4j' = StartConfig
        /\ isolated' = EmptyConfig
        /\ phase' = "constructed"
        /\ error' = "none"
        /\ imported' = Undefined

\* --import with no model file: fs.readFileSync throws (line 264).
ConstructImportMissing ==
    \E o \in Options :
        /\ o.import
        /\ modelFile = Undefined
        /\ StartRun(o)
        /\ qi4j' = StartConfig
        /\ isolated' = EmptyConfig
        /\ phase' = "failed"
        /\ error' = "ModelImportError"
        /\ imported' = Undefined

\* Mutant of ConstructImport: line 68 without the "DBCP" fallback.
ConstructImportNoPoolDefault ==
    \E o \in Options :
        /\ o.import
        /\ modelFile # Undefined
        /\ StartRun(o)
        /\ imported' = modelFile
        /\ IF modelFile.dbpool = Undefined
           THEN /\ qi4j' = ImportedConfig(modelFile)
                /\ phase' = "constructed"
                /\ error' = "none"
           ELSE /\ qi4j' = ImportedConfig(modelFile)
                /\ phase' = "failed"
                /\ error' = "ReferenceError"
        /\ isolated' = qi4j'

\* --import of a model file (lines 58-69).  The global qi4j is replaced by
\* the parsed file.  Line 68 reads  answers.dbpool  when the file has a
\* dbpool key, and no  answers  is in scope in the constructor: that throws
\* a ReferenceError, after lines 59-67 have updated qi4j.
ConstructImport ==
    \E o \in Options :
        /\ o.import
        /\ modelFile # Undefined
        /\ StartRun(o)
        /\ imported' = modelFile
        /\ IF modelFile.dbpool = Undefined
           THEN /\ qi4j' = [ImportedConfig(modelFile) EXCEPT !.dbpool = "DBCP"]
                /\ phase' = "constructed"
                /\ error' = "none"
           ELSE /\ qi4j' = ImportedConfig(modelFile)
                /\ phase' = "failed"
                /\ error' = "ReferenceError"
        /\ isolated' = qi4j'

\* prompting() with --noPrompt (lines 73-75): no question, no assignment.
PromptSkipped ==
    /\ phase = "constructed"
    /\ opts.noPrompt
    /\ phase' = "prompted"
    /\ UNCHANGED <<qi4j, opts, error, modelFile, exportedFile, runs,
                   imported, answers, isolated>>

\* prompting() without --noPrompt (lines 76-212): each question offers the
\* current qi4j value, or the hard-coded fallback, as its default.
Prompt ==
    /\ phase = "constructed"
    /\ ~opts.noPrompt
    /\ \E a \in AnswerChoices :
         /\ answers' = [q \in Questions |->
                          IF q = "dbpool" /\ ~NeedsPool(Answer(a, "entitystore", qi4j))
                          THEN Undefined ELSE a[q]]
         /\ qi4j' = Prompted(qi4j, a)
         /\ isolated' = Prompted(isolated, a)
    /\ phase' = "prompted"
    /\ UNCHANGED <<opts, error, modelFile, exportedFile, runs, imported>>

\* writing() (lines 215-248) when qi4j.entitystore is undefined or null:
\* entitystore.toLowerCase() throws a TypeError (line 218).
WriteFailsOnStore ==
    /\ phase = "prompted"
    /\ ~Truthy(qi4j.entitystore)
    /\ phase' = "failed"
    /\ error' = "TypeError"
    /\ UNCHANGED <<qi4j, opts, modelFile, exportedFile, runs, imported,
                   answers, isolated>>


\* writing() otherwise.  The store slug is stored (lines 218-233); then
\* packageName.replace (line 235) and applicationtype.replace (line 237)
\* throw a TypeError on an absent value.  The templates render (not
\* modelled here) and, with --export, exportModel (lines 267-273) writes
\* qi4j as JSON.  qi4j.ctx holds the generator object (line 236); whether
\* JSON.stringify meets a cycle through it depends on the Yeoman and Node
\* objects it reaches, so both outcomes are possible.
Write ==
    /\ phase = "prompted"
    /\ Truthy(qi4j.entitystore)
    /\ LET derived == [qi4j EXCEPT !.entitystoremodule =
                                       EntityStoreModule(qi4j.entitystore)]
           complete == Truthy(qi4j.packageName) /\ Truthy(qi4j.applicationtype)
       IN /\ qi4j' = derived
          /\ \/ /\ ~complete
                /\ phase' = "failed"
                /\ error' = "TypeError"
                /\ UNCHANGED <<modelFile, exportedFile>>
             \/ /\ complete
                /\ ~opts.export
                /\ phase' = "done"
                /\ UNCHANGED <<error, modelFile, exportedFile>>
             \/ /\ complete
                /\ opts.export
                /\ phase' = "done"
                /\ modelFile' = derived
                /\ exportedFile' = TRUE
                /\ UNCHANGED error
             \/ /\ complete
                /\ opts.export
                /\ phase' = "failed"
                /\ error' = "CircularJSON"
                /\ UNCHANGED <<modelFile, exportedFile>>
    /\ isolated' = [isolated EXCEPT !.entitystoremodule =
                       IF Truthy(isolated.entitystore)
                       THEN EntityStoreModule(isolated.entitystore)
                       ELSE isolated.entitystoremodule]
    /\ UNCHANGED <<opts, runs, imported, answers>>

Next ==
    \/ Construct
    \/ ConstructImportMissing
    \/ ConstructImport
    \/ PromptSkipped
    \/ Prompt
    \/ WriteFailsOnStore
    \/ Write

Spec == Init /\ [][Next]_vars

-----------------------------------------------------------------------------
(***************************************************************************)
(* Properties.                                                             *)
(***************************************************************************)

\* Type correctness of every variable.
TypeOK ==
    /\ qi4j \in ConfigType
    /\ phase \in Phases
    /\ opts \in Options
    /\ error \in Errors
    /\ modelFile \in ConfigType \cup {Undefined}
    /\ exportedFile \in BOOLEAN
    /\ runs \in 0..MaxRuns
    /\ imported \in ConfigType \cup {Undefined}
    /\ isolated \in ConfigType

\* Spec 8.6: a run that generates a project for a relational entity store
\* (entitystoremodule "sql", lines 219-233) has a connection pool resolved,
\* whichever of the import (line 68) or the prompt (lines 128-140, 207)
\* supplied it.
SqlStoreHasPool ==
    phase = "done" /\ qi4j.entitystoremodule = "sql" => qi4j.dbpool \in PoolChoices

\* Spec 8.1: a generated project uses the shared "sql" store module exactly
\* when its store is one the pool question is asked for: the explicit list
\* of writing() (lines 219-233) agrees with the indexOf('SQL') test of the
\* prompt (line 138), for imported and prompted stores alike.
SlugAgreesWithPoolQuestion ==
    phase = "done" =>
        (qi4j.entitystoremodule = "sql" <=> NeedsPool(qi4j.entitystore))


\* Spec 4.1 / 4.4: a model file that this generator exported can be
\* imported again: the constructor does not throw on it (line 68).
ExportedModelReimports ==
    ~(phase = "failed" /\ error = "ReferenceError" /\ exportedFile)

\* Spec 4.1 merge policy: a value in the imported model is kept unless the
\* user typed another answer; the hard-coded fallbacks only fill gaps
\* (lines 59-67 and the prompt defaults of lines 83-191).
ImportedDefaultsKept ==
    phase = "done" /\ imported # Undefined =>
        \A q \in Questions \ {"dbpool"} :
            Truthy(imported[q]) /\ (answers = Undefined \/ answers[q] = Default)
                => qi4j[q] = imported[q]

\* Spec 5: runs do not share state; a run generates from the configuration
\* its own options, model file and answers give, whatever ran before it in
\* the same process (the singleton of line 26, the prompt defaults of lines
\* 83-191 read from it).
RunsIsolated ==
    phase = "done" => \A q \in Questions : qi4j[q] = isolated[q]

\* Spec 6: --noPrompt without a model file accepts the defaults; the run
\* does not crash on a configuration that was never filled in (lines 73-75,
\* 218).
NoPromptUsesDefaults ==
    ~(opts.noPrompt /\ ~opts.import /\ phase = "failed" /\ error = "TypeError")

=============================================================================
