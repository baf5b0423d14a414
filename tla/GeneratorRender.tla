--------------------------- MODULE GeneratorRender ---------------------------
(***************************************************************************)
(* Template rendering of the qi4j generator, composed with the run loop of *)
(* Generator.  writing() installs the helpers (assignFunctions, line 234), *)
(* stores the generator in qi4j.ctx (line 236) and calls app.write, which  *)
(* calls qi4j.copyModules on the template directories.  copyModules (lines *)
(* 340-352) lists a directory with the asynchronous fs.readdir; the        *)
(* callback runs module.write for every entry ending in "Module", later,  *)
(* from the event loop, after writing() has returned.  A module renders    *)
(* its files with qi4j.copyTemplate (lines 299-313), which logs and        *)
(* swallows every exception, and replicates its settings file with        *)
(* qi4j.copyToConfig (lines 281-297).  Files go to the mem-fs of the       *)
(* generator in qi4j.ctx; Yeoman commits a run's mem-fs to disk once, after *)
(* writing, and the mocha harness then checks the generated tree.         *)
(***************************************************************************)
EXTENDS Generator, FiniteSets

CONSTANTS
    ModuleDirs,     \* the directories app.write passes to copyModules
    Listing,        \* Listing[d]: the entries fs.readdir returns for d
    ConfigModules,  \* the modules whose module.write calls copyToConfig
    MaxCopyFailures \* bound on the copyTemplate calls of one callback that throw

\* The five destinations of copyToConfig (lines 282-296).
ConfigDirs == {"app/src/dist/config/development/", "app/src/dist/config/qa/",
               "app/src/dist/config/staging/", "app/src/dist/config/production/",
               "app/src/test/resources/"}

\* Where module.write puts its own bootstrap code.
BootstrapDir == "bootstrap/src/main/java/"

ASSUME RenderAssumption ==
    /\ Listing \in [ModuleDirs -> SUBSET STRING]
    /\ BootstrapDir \notin ConfigDirs
    /\ MaxCopyFailures \in Nat

VARIABLES
    pending,    \* fs.readdir calls whose callback has not run: [dir, run]
    ctxRun,     \* the run whose generator qi4j.ctx holds (0: none yet)
    memfs,      \* files rendered into the mem-fs of a run: [module, dir, run]
    logged,     \* copies that threw and were logged: [module, dir, run]
    disk,       \* files Yeoman committed to disk: [module, dir, run]
    committed   \* the current run's mem-fs has been committed

renderVars == <<pending, ctxRun, memfs, logged, disk, committed>>
allVars == <<vars, renderVars>>

\* directory.endsWith("Module") (line 345).
EndsWith(s, suffix) ==
    Len(s) >= Len(suffix) /\ SubSeq(s, Len(s) - Len(suffix) + 1, Len(s)) = suffix

\* The entries of a listing the forEach renders.
Modules(d) == {e \in Listing[d] : EndsWith(e, "Module")}


\* The copyTemplate calls of module.write(qi4j): its bootstrap code and,
\* for a module with configuration, the five copyToConfig copies.
Targets(m) ==
    {BootstrapDir} \cup (IF m \in ConfigModules THEN ConfigDirs ELSE {})

\* The copies one readdir callback makes, each one copyTemplate call.
Copies(d) == UNION {{[module |-> m, dir |-> t] : t \in Targets(m)} : m \in Modules(d)}

\* The sets of those copies that may throw in one callback.
Failures(d) == {f \in SUBSET Copies(d) : Cardinality(f) <= MaxCopyFailures}

RequestType == [dir : ModuleDirs, run : 1..MaxRuns]
FileType == [module : STRING, dir : {BootstrapDir} \cup ConfigDirs, run : 1..MaxRuns]

RInit ==
    /\ Init
    /\ pending = {} /\ ctxRun = 0 /\ memfs = {} /\ logged = {} /\ disk = {}
    /\ committed = FALSE

-----------------------------------------------------------------------------

\* The end of a run as the next one sees it.  Yeoman commits the mem-fs of a
\* run that finished writing before it resolves the run; the harness (test
\* generator_test.js lines 146-158) starts the next run when the previous
\* one resolved or rejected.  A fresh process only exits when its event loop
\* is empty, so no readdir callback of an earlier run is left; in a shared
\* process the callbacks stay pending, and qi4j.ctx still holds the old
\* generator.
NextRunMayStart ==
    /\ phase = "done" => committed
    /\ ~SharedProcess => pending = {}
    /\ committed' = FALSE
    /\ ctxRun' = IF SharedProcess THEN ctxRun ELSE 0
    /\ UNCHANGED <<pending, memfs, logged, disk>>

RConstruct == Construct /\ NextRunMayStart
RConstructImportMissing == ConstructImportMissing /\ NextRunMayStart
RConstructImport == ConstructImport /\ NextRunMayStart

\* Mutant of RWrite: qi4j.ctx is not set (line 236 dropped).
RWriteNoCtx ==
    /\ Write
    /\ pending' = IF error' # "TypeError"
                  THEN pending \cup {[dir |-> d, run |-> runs] : d \in ModuleDirs}
                  ELSE pending
    /\ UNCHANGED <<ctxRun, memfs, logged, disk, committed>>

\* writing(): qi4j.ctx is set once packageName.replace (line 235) did not
\* throw; app.write (line 239) runs unless line 235 or 237 threw, and its
\* copyModules calls issue one fs.readdir per template directory.  The
\* export and the CircularJSON failure come after app.write.
RWrite ==
    /\ Write
    /\ ctxRun' = IF Truthy(qi4j.packageName) THEN runs ELSE ctxRun
    /\ pending' = IF error' # "TypeError"
                  THEN pending \cup {[dir |-> d, run |-> runs] : d \in ModuleDirs}
                  ELSE pending
    /\ UNCHANGED <<memfs, logged, disk, committed>>


\* One module.write(qi4j) pass over the module entries of a listing: each
\* copyTemplate call either writes into the mem-fs of the generator in
\* qi4j.ctx or throws, is logged and is swallowed (lines 311-312).
RenderModules(d, failed) ==
    /\ memfs' = memfs \cup {[module |-> x.module, dir |-> x.dir, run |-> ctxRun] :
                             x \in Copies(d) \ failed}
    /\ logged' = logged \cup {[module |-> x.module, dir |-> x.dir, run |-> ctxRun] :
                               x \in failed}

\* The fs.readdir callback of copyModules (lines 341-351).  With an error
\* files is undefined and nothing happens; otherwise the forEach renders
\* every module entry.
ReaddirCallback(p) ==
    /\ p \in pending
    /\ pending' = pending \ {p}
    /\ \/ UNCHANGED <<memfs, logged>>
       \/ \E failed \in Failures(p.dir) : RenderModules(p.dir, failed)
    /\ UNCHANGED <<vars, ctxRun, disk, committed>>

\* Yeoman's conflicts stage after a successful writing(): the files of this
\* run's mem-fs go to disk.  It happens once per run.
Commit ==
    /\ phase = "done"
    /\ ~committed
    /\ committed' = TRUE
    /\ disk' = disk \cup {f \in memfs : f.run = runs}
    /\ UNCHANGED <<vars, pending, ctxRun, memfs, logged>>

RNext ==
    \/ RConstruct
    \/ RConstructImportMissing
    \/ RConstructImport
    \/ (PromptSkipped \/ Prompt \/ WriteFailsOnStore) /\ UNCHANGED renderVars
    \/ RWrite
    \/ \E p \in pending : ReaddirCallback(p)
    \/ Commit

RSpec == RInit /\ [][RNext]_allVars

-----------------------------------------------------------------------------
(***************************************************************************)
(* Properties.                                                             *)
(***************************************************************************)

\* Types of the rendering state: requests and files belong to a run that
\* has started, and a callback never renders into a run that has none.
RenderTypeOK ==
    /\ pending \subseteq RequestType
    /\ ctxRun \in 0..MaxRuns
    /\ memfs \subseteq FileType
    /\ logged \subseteq FileType
    /\ disk \subseteq FileType
    /\ committed \in BOOLEAN

\* Spec 4.3: the settings file of a module goes to the development, QA,
\* staging and production configuration directories and to the test
\* resources.
SpecConfigDirs ==
    {"app/src/dist/config/development/", "app/src/dist/config/qa/",
     "app/src/dist/config/staging/", "app/src/dist/config/production/",
     "app/src/test/resources/"}




\* Spec 5 (runs are independent): a readdir callback that copyModules
\* issued renders, through qi4j.ctx (line 236), into the mem-fs of the run
\* that issued it, however its callback interleaves with later runs.
CallbacksRenderIntoOwnRun == \A p \in pending : ctxRun = p.run

\* Spec 4.3 and 5: when Yeoman commits a run, the generated tree holds every
\* module the run's templates listed (copyModules is the dispatcher), and
\* rendering is synchronous, so nothing is rendered after the commit.
ModulesOnDiskAtCommit ==
    committed =>
        \A d \in ModuleDirs : \A m \in Modules(d) :
            \E f \in disk : f.module = m /\ f.run = runs

\* Spec 7: a run whose module failed to render must not end as a success.
\* A committed tree that holds a module's settings in one environment holds
\* them in all five.
ConfigFanOutComplete ==
    committed =>
        \A f \in disk :
            f.run = runs /\ f.module \in ConfigModules /\ f.dir \in ConfigDirs =>
                \A t \in SpecConfigDirs :
                    [module |-> f.module, dir |-> t, run |-> runs] \in disk
=============================================================================
