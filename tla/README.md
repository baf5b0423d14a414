# Verification of the qi4j project generator

This directory holds TLA+ models of the Yeoman generator in
`src/tools/generator-qi4j/app/index.js` (491 lines), with TLC configurations
that check them and TLAPS proofs about them. The test harnesses in
`src/tools/generator-qi4j/test/generator_test.js` and
`src/tools/generator-polygene/test/generator_test.js` are modelled only through
their effect on the generator: many runs in one Node process.

## 1. Inventory

### Components

| Component | Code | State it keeps | Operations |
|---|---|---|---|
| Configuration resolution | index.js 26-273 | module-level object `qi4j` (line 26): name, packageName, applicationtype, entitystore, dbpool, indexing, caching, metrics, features, modules, and the derived entitystoremodule, javaPackageDir, version, ctx | constructor (options; `--import` and its fallbacks, lines 30-69), `prompting` (lines 72-213), `writing` (derived fields, template rendering, export, lines 215-248) |
| Model import/export | index.js 260-273 | the model file on disk | `importModel` (JSON.parse of the file), `exportModel` (delete `current`, JSON.stringify) |
| Template helpers | index.js 275-355 | files in Yeoman's in-memory file system; `qi4j.current` set by templates | `copyToConfig` (5-way fan-out), `copyTemplate`/`copyBinary` (exceptions logged and swallowed), `copyQi4jBootstrap`, `copyEntityStore`, `copyModules` (asynchronous `fs.readdir`), `hasFeature` |
| Class-shape deriver | index.js 356-489 | `current.state`, `current.imported`, `currentModule.propertyLines` | `prepareClazz`, `prepareConfigClazz`, `typeNameOnly`, `configurationClassName`, `firstUpper` |
| Test harness | generator_test.js | the Node module cache, which holds `qi4j` | one generator run per scenario, all in one mocha process |
| Templates, Yeoman runtime, prompt UI | not in `src/` | — | external: `app.write`, `build.write`, `module.write`, mem-fs commit |

### How they interact

Yeoman calls the constructor, then `prompting`, then `writing`, all on one
generator object. The three stages talk only through the module-level `qi4j`
object. The constructor fills `qi4j` from the model file. The prompts offer
`qi4j`'s values as their defaults, and their answers are copied back into
`qi4j`. `writing` derives the entity-store slug, installs the helper functions
into `qi4j`, and hands `qi4j` to the templates. It exports `qi4j` last. The
templates call back into the helpers. `copyModules` loads module renderers from
a directory listing in an `fs.readdir` callback, which runs after `writing` has
returned.

### What is hard here

- **State across runs.** `qi4j` belongs to the cached module, not to a run.
  Every run of the mocha harness shares it. The harness's own comment at
  generator_test.js:52 says "Somehow the last EntityStore is used in subsequent
  test arrays".
- **Sequences across invocations.** A model exported by one invocation and
  imported by the next.
- **Partial failures.** The import throws after it has already mutated
  `qi4j`. `copyTemplate` swallows errors, so one of the five environment copies
  can be missing without the run failing.
- **Asynchronous ordering.** `copyModules` renders modules in callbacks that
  run after `writing()` and the export.
- **Two definitions of "relational".** The pool question asks when the store
  name contains "SQL" (line 138). The store slug uses an explicit list of five
  stores (lines 219-233).

### Properties that make each component correct

- Configuration resolution:
  - a relational project always has a pool (spec 8.6);
  - the slug and the pool question agree (spec 8.1);
  - the merge policy holds: an answer beats an import, which beats the fallback (spec 4.1);
  - runs are isolated (spec 5);
  - `--noPrompt` accepts the defaults (spec 6).
- Import/export: an exported model can be imported again (spec 4.4).
- Template helpers:
  - every module's files are written before the run ends;
  - the config fan-out is all-or-nothing, or its failure is reported (spec 7).
- Class-shape deriver:
  - declarations come in the order properties, associations, many-associations, named associations;
  - the placeholder appears exactly when there are no properties (spec 8.2);
  - the default-value table is applied as spec 8.3 describes.

PROJECT.json lists every hazard at its line.

## 2. Plan

1. **Generator** (done): the run lifecycle and the shared configuration.
   **GeneratorProofs** (done): its type invariant and the pool theorem.
2. **GeneratorRender** (done): the template helpers composed with the run loop.
   **GeneratorRenderProofs** (done): the render model's type theorem.
3. **ClassShape** (done): `prepareClazz`, `prepareConfigClazz`, `typeNameOnly`.
4. **Abstract specification** (open): a one-step "resolve" spec, in which a run
   maps its inputs to a configuration. Generator would be shown to refine it
   under `SharedProcess = FALSE` and with a corrected line 68.
5. **Proofs** (open): `SlugAgreesWithPoolQuestion` needs reasoning about
   substrings of string literals, which the provers treat as opaque values;
   lemmas about the order of `state` in ClassShape.

## 3. Modules

### Generator.tla

- **Constants.**
  - `Undefined` and `Null` are model values for JavaScript's `undefined` and
    `null`.
  - `Default` marks a prompt that was answered by accepting its default.
  - `MaxRuns` bounds the number of runs.
  - `SharedProcess` chooses between runs in one Node process (the mocha
    harness) and a fresh `yo qi4j` process per run.
  - `Names`, `Packages`, `AppNameUpper` and `ImportPackage` are the free-text
    values.
  - `ModelFiles` holds the model files that are on disk before the first run.
- **State.**
  - `qi4j` is a record over the fields of the configuration object.
  - `phase` is the run-loop stage: idle, constructed, prompted, done or failed.
  - `opts` holds the run's `--import`, `--export` and `--noPrompt` options.
  - `error` is the exception that ended the run.
  - `modelFile` is the model file on disk, and `exportedFile` records whether
    this generator wrote it.
  - `runs` counts the runs started.
  - `imported`, `answers` and `isolated` are history variables that the
    properties read. `isolated` is the configuration the same run would have
    produced starting from `{}`.
- **Actions.** Each action is a whole stage of the run loop, with each of its
  outcomes:
  - `Construct`: no `--import`;
  - `ConstructImportMissing`: `readFileSync` throws;
  - `ConstructImport`: lines 58-69, including the ReferenceError at line 68;
  - `PromptSkipped`: `--noPrompt`;
  - `Prompt`: lines 76-212, where every answer is a choice or the offered
    default, and the pool question is asked only when `indexOf('SQL')` finds a
    match;
  - `WriteFailsOnStore`: the TypeError at line 218;
  - `Write`: lines 215-248, with the TypeErrors at lines 235 and 237, then
    success, export, or a JSON.stringify failure on the `ctx` cycle.
- **Conversions.**
  - `toLowerCase` is a table over the 18 store names.
  - `indexOf('SQL') > -1` is a substring test on the string (`SubSeqs`).
  - JSON export and re-import keep every modelled field. The function-valued
    fields and `current` are dropped, and neither is modelled.
- **Opaque values.** The object literal `{}` of line 64 is `EmptyObject`, a
  named string value. The SMT backend of TLAPS cannot read string literals
  with braces, so the proofs keep it unexpanded.
- **Abstracted away.** These fields reach no property: `version`, `ctx` as
  data, and `javaPackageDir`. The templates are also left out.

### GeneratorRender.tla

EXTENDS Generator and wraps its actions, so a behaviour is a sequence of
generator runs with rendering interleaved.
- **Constants.** `ModuleDirs` are the directories `app.write` passes to
  `copyModules`, `Listing[d]` is what `fs.readdir` returns for `d`,
  `ConfigModules` the modules whose `module.write` calls `copyToConfig`, and
  `MaxCopyFailures` bounds the `copyTemplate` calls of one callback that throw.
- **State.** `pending` holds the `fs.readdir` calls whose callback has not run;
  `ctxRun` is the run whose generator `qi4j.ctx` holds; `memfs`, `logged` and
  `disk` hold files as `[module, dir, run]` (in a run's mem-fs, logged as
  failed, committed); `committed` says whether Yeoman has committed this run.
- **Actions.**
  - `RWrite` is Generator's `Write` plus lines 234-239: `qi4j.ctx` is set once
    line 235 did not throw, and `app.write` issues one readdir per directory.
  - `ReaddirCallback(p)` is the callback of lines 341-351: with an error
    nothing happens; otherwise every entry ending in "Module" is rendered, one
    `copyTemplate` per file, each of which may throw and be swallowed.
  - `Commit` is Yeoman's commit of the run's mem-fs after a successful
    `writing()` (external; not mapped to code).
  - `NextRunMayStart` is the harness (generator_test.js 149-161): the next
    scenario starts once the previous run resolved. A fresh process exits only
    with an empty event loop; in a shared process callbacks stay pending.
- **Abstracted away.** What a template renders: one bootstrap file per module
  plus the five config copies. `copyBinary`, `copyQi4jBootstrap`,
  `copyEntityStore` and `hasFeature` are called only from templates.

### ClassShape.tla

The two helpers as operators over sequences, and one action per call.
- **Constants.** `Entities` and `Composites` are the entity and configuration
  descriptions a template may pass. `Undefined` and `Null` are JavaScript's.
- **State.** The argument (`clazz` or `composite`) and the fields the helper
  writes: `state`, `imported`, `configState`, `propertyLines`,
  `configImported` (Undefined until the helper is called).
- **Assumption.** `EntitiesAssumption`: each list of an entity description
  is a sequence of `[name, type]` items, or undefined or null. This is the
  shape of a model file's `entities` entries that line 374 and the loops of
  lines 376-425 read. TLC evaluates it on both ClassShape runs.
- **Data.** A Java line is a record: a declaration `[kind, type, name]`, a doc
  line `[doc]` or literal text `[text]`. A property-file line is a comment, an
  `[entry, value]` pair or literal text. `typeNameOnly` is modelled on the
  string (the part after the last dot).
- **Actions.** `PrepareClazz` (lines 371-425) and `PrepareConfigClazz`
  (lines 427-489), each the whole function, including the
  `if (props)`-guarded sample branches and the default table of lines 439-463.

## 4. Runs

All runs use `MCGenerator.tla`. Each choice list offers a relational store
(MySQL) and a non-relational one (Memory), and a single value for indexing,
caching and metrics. Those three are copied the same way and no property
tells them apart. There are two feature answers and three hand-written model
files:
- one naming MySQL and no pool;
- one naming a Command Line application;
- one written with nulls.

`MCGeneratorStores.cfg` asks only the slug question. It keeps all 18 store
choices and offers one model file per store, so both the prompt (line 138)
and the import (line 59 onwards) supply every store. The other answers are
cut to one value each, with `MaxRuns = 1`. The slug depends only on the
store of the run that writes, and a second run adds no new store.

In `MCGenerator.cfg`, `MaxRuns = 2` is the smallest bound in which one run can export and the next
import, or one run can leave state for the next. All 8 option combinations and
every answer are explored. `CHECK_DEADLOCK FALSE`: after its last run the
process ends.

| Run | Expect | Shows |
|---|---|---|
| generator_safety (`MCGenerator.cfg`, fresh processes) | pass (~660k states) | `TypeOK`. `SqlStoreHasPool`: a done run with the sql module has a pool. |
| store_slugs (`MCGeneratorStores.cfg`) | pass (~940k states) | `SlugAgreesWithPoolQuestion`: over all 18 stores, each prompted or imported from a model file without a pool, the sql module is chosen exactly for the stores the pool question applies to. |
| reimport_exported_model | violation | `ExportedModelReimports`. Run 1 exports, run 2 imports with `--import`, and line 68 throws a ReferenceError. |
| imported_apptype | violation | `ImportedDefaultsKept`. An imported "Command Line" becomes "Rest API" (line 62). |
| shared_process_runs (`SharedProcess = TRUE`) | violation | `RunsIsolated`. Run 2 under `--noPrompt` generates run 1's configuration. |
| noprompt_without_model | violation | `NoPromptUsesDefaults`. `--noPrompt` without a model crashes at line 218. |

Each property of the passing run has a mutant that TLC catches:
- `ImportedConfig` storing "RestAPI" breaks `TypeOK`;
- line 68 without the "DBCP" fallback breaks `SqlStoreHasPool`;
- the slug list without PostgreSQL (`EntityStoreModuleNoPostgreSQL`) breaks
  `SlugAgreesWithPoolQuestion` on store_slugs. `MCGenerator.cfg`'s two
  stores would miss this mutant.

`MCClassShape.cfg` and `MCClassShapeSample.cfg` use `MCClassShape.tla`:
property lists undefined, null, empty, one and two items; association lists
undefined, empty and two items; configuration properties of all six
`java.lang` types of the table plus a complex one, with defaults undefined,
null or given, and zero, one or two description lines. Each behaviour follows
one description (4398 states). The `MCGeneratorRender*.cfg` runs use
`MCGeneratorRender.tla`: the harness's own answers plus all-defaults, one
template directory listing two modules and a non-module file, one module with
settings, `MaxCopyFailures = 1` (one failure is enough to break a fan-out),
and `MaxRuns = 2` so that a callback can outlive its run.

| Run | Expect | Shows |
|---|---|---|
| classshape_deriver | pass | `TypeOK`; `DeclarationsInListOrder`: declarations come properties, associations, many, named, each in list order; `ImportsCoverDeclarations`: every declared type and accessor kind is imported; `ConfigDefaultsFollowTable`: each entry's value is the given default or spec 8.3's table; `DocCommentsMirrorPropertyFile`: each description line is both a Javadoc line and a property-file comment, in order. |
| classshape_sample_when_no_properties | violation | `SampleWhenNoProperties`: `properties: []` yields no placeholder (line 377). |
| render_fanout (fresh processes) | pass (~16k states) | `RenderTypeOK`: requests and files name a started run, and no callback renders while `qi4j.ctx` holds no generator. |
| callbacks_cross_runs (`SharedProcess = TRUE`) | violation | `CallbacksRenderIntoOwnRun`: run 2's `writing()` replaces `qi4j.ctx` while run 1's callback is pending. |
| modules_lost_after_commit | violation | `ModulesOnDiskAtCommit`: Yeoman commits before the callback renders, or readdir fails silently. |
| fanout_partial_success | violation | `ConfigFanOutComplete`: a swallowed failure leaves four of five copies and the run succeeds. |

Their mutants: an unguarded `prop.default`, swapped association lists, a
missing type import, a `Float` default of `0`, property-file lines without
comments, and `qi4j.ctx` never set; each breaks its property.

The fan-out and the callback's run are asked only where the code can get
them wrong. A swallowed `copyTemplate` failure is the violation
fanout_partial_success. A callback rendering into a later run needs a
shared process, which is callbacks_cross_runs. In a fresh process both
hold by construction: `RenderModules` puts every copy in the mem-fs or the
log, and the process drains its event loop before it exits.

`ctxRun` over-approximates the code in one way. It is a single value,
whereas a callback reaches the `qi4j` object it closed over (line 275). After
an `--import` has replaced `qi4j` (line 59), an older callback would keep the
old object's `ctx`. The callbacks_cross_runs trace imports nothing, so it is
unaffected.

No fairness is assumed and no liveness property is stated. A run is a finite
sequence of synchronous stages. In GeneratorRender "every pending callback
eventually runs" holds under weak fairness of `ReaddirCallback`, but no
mutation of the code breaks it (a callback that never fires is a stutter that
fairness excludes), so the questions about callbacks are asked as safety
properties at the commit instead.

## 5. Proofs (GeneratorProofs.tla, TLAPS)

- `TypeCorrect`: `Spec => []TypeOK` for every value of the constants. It is
  proved from the lemmas `InitTypeOK` and `NextTypeOK`, and from field-type
  lemmas for the import fallbacks, the prompt callback, the slug and record
  updates.
- `SqlPoolResolved`:
  `NoNullPoolFiles => (Spec => []SqlStoreHasPool)`. It holds for any number of
  runs and any `SharedProcess`. It uses the inductive invariant `PoolInv`,
  which TLC also checked as an invariant in both process modes. `PoolInv` says:
  - whenever `qi4j` names a store, it names a pool;
  - a done run has a store;
  - the model file never holds a null pool.

  The invariant is needed because the pool can come from an earlier run, or
  from an import that threw half-way, when runs share a process. The
  hypothesis excludes model files written with `"dbpool": null`. With such a
  file and a shared process, a failed import leaves a null pool behind, and a
  later `--noPrompt` run generates a relational project from it.
- Assumptions:
  - `ConstantsAssumption`, `ModelFilesAssumption`;
  - `SentinelsAssumption`: `undefined` and `null` are not prompt choices.

TLC evaluates all three on every run.
- The lemma `RunLoopCorrect` (`Spec => [](TypeOK /\ RunLoopInv)`) records
  the run loop's bookkeeping: a run in progress has a run number in
  `1..MaxRuns`. The render proof uses it for the run number `RWrite` stores.

Left to TLC: the remaining properties (violated ones are findings, not
theorems). Liveness and anything stated with ENABLED is out of TLAPS's reach.
So are facts about what a recursive definition computes for every input.

## 5b. Proofs (GeneratorRenderProofs.tla)

- `RenderTypeCorrect`: `RSpec => []RenderTypeOK`, for every value of the
  constants and in both process modes. The strengthening `RenderInv` adds
  that a pending callback exists only while `qi4j.ctx` holds a run number.
  The lemma `RenderRefinesRunLoop` (`RSpec => Spec`, each render step a
  run-loop step or a stutter of Generator's variables) carries
  `RunLoopCorrect` over, for the run number `RWrite` stores. Files carry
  their directory from the literal set `{BootstrapDir} \cup ConfigDirs`.
  The lemma `CopiesType` shows that a callback's copies stay in it.

## 5c. Proofs (ClassShapeProofs.tla)

- `ClazzImportsAlwaysCovered`: `Spec => []ClazzImportsCovered`, under
  `EntitiesAssumption`, for every set of entity descriptions. This is the
  `prepareClazz` half of `ImportsCoverDeclarations`.
  - The lemma `CoveredConcat` shows that coverage is preserved by `\o`.
  - `ListShapeCovered` and `PropertiesShapeCovered` cover each list.
  - `PrepareClazzCovered` joins the four lists.
  - The inductive invariant `ClazzInv` adds that `clazz` is an entity
    description, or undefined.

### Left to TLC

The following stay with TLC:
- `SlugAgreesWithPoolQuestion`, because it needs `SubSeqs` over strings.
- `DeclarationsInListOrder`, `ConfigDefaultsFollowTable` and
  `DocCommentsMirrorPropertyFile`, because they are stated with `SelectSeq`
  and `FlattenSeq`. What these compute for arbitrary input needs induction
  over data, which the provers cannot instantiate.
- The configuration half of `ImportsCoverDeclarations`, and ClassShape's
  `TypeOK`. `typeNameOnly` returns a substring, which the provers cannot
  show is a string, and the property-file lines are flattened.
- The properties that the violation runs break, which are findings, and all
  liveness.

## 6. Findings

Details are in PROJECT.json "findings".
1. line 68 reads `answers` out of scope, so re-importing any exported model
   throws.
2. line 62 discards the imported application type.
3. line 26: runs in one process share their configuration.
4. `--noPrompt` without a model crashes instead of using the defaults.

5. line 377 (and 432): an empty properties array gets no placeholder.
6. line 342: module files can be rendered after the commit, or never.
7. line 311: a partial config fan-out ends as a success.
8. line 236: in one process a late callback renders into the next run.

A further divergence has no run: line 207 stores "DBCP" for non-relational
stores, while spec 3 says the pool is absent for them.

## 7. Not modelled

- The templates and the Yeoman runtime (not under `src/`).
- The prompt UI.
- The gradle build check of the harness.
- `copyBinary`, `copyQi4jBootstrap`, `copyEntityStore`, `hasFeature`: called
  only from templates, which are not in the repository.
- `firstUpper` and `configurationClassName`: string formatting no property
  reads.
- The collision of simple type names in `typeNameOnly` (a hazard with no
  property: nothing says what should happen).
