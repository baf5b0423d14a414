------------------------ MODULE GeneratorRenderProofs ------------------------
(***************************************************************************)
(* Proof, for every value of the constants and in both process modes,     *)
(* that the render model is well typed: a readdir request or a rendered   *)
(* file always names a run that has started, and a callback never renders *)
(* while qi4j.ctx holds no generator.  RenderTypeOK is not inductive by    *)
(* itself; RenderInv adds that a callback is pending only while qi4j.ctx  *)
(* holds a run number, and the step of RWrite uses the run loop's         *)
(* invariant, carried over because every render step is a run-loop step   *)
(* or leaves the run loop alone.                                           *)
(***************************************************************************)
EXTENDS GeneratorRender, GeneratorProofs, TLAPS

\* Rendering does not change the run loop: every step of RNext is a step of
\* Generator's Next on Generator's variables, or leaves them alone (the
\* readdir callbacks and Yeoman's commit).  So every property Generator
\* has, proved or checked, holds with rendering composed in.
LEMMA RNextIsNext == [RNext]_allVars => [Next]_vars
<1> SUFFICES ASSUME [RNext]_allVars PROVE [Next]_vars
  OBVIOUS
<1>1. CASE RConstruct \/ RConstructImportMissing \/ RConstructImport
  BY <1>1 DEF RConstruct, RConstructImportMissing, RConstructImport, Next
<1>2. CASE (PromptSkipped \/ Prompt \/ WriteFailsOnStore) /\ UNCHANGED renderVars
  BY <1>2 DEF Next
<1>3. CASE RWrite
  BY <1>3 DEF RWrite, Next
<1>4. CASE \E p \in pending : ReaddirCallback(p)
  BY <1>4 DEF ReaddirCallback, vars
<1>5. CASE Commit
  BY <1>5 DEF Commit, vars
<1>6. CASE UNCHANGED allVars
  BY <1>6 DEF allVars, vars
<1>7. QED
  BY <1>1, <1>2, <1>3, <1>4, <1>5, <1>6 DEF RNext

\* The composed specification implements Generator's.
LEMMA RenderRefinesRunLoop == RSpec => Spec
<1>1. RInit => Init
  BY DEF RInit
<1>2. QED
  BY <1>1, RNextIsNext, PTL DEF RSpec, Spec

-----------------------------------------------------------------------------
\* A callback renders only while some run has put its generator into
\* qi4j.ctx: the inductive strengthening of RenderTypeOK.
RenderInv ==
    /\ RenderTypeOK
    /\ pending # {} => ctxRun \in 1..MaxRuns

\* copyModules renders entries of the listing into the bootstrap or the
\* configuration directories.
LEMMA CopiesType ==
    ASSUME NEW d \in ModuleDirs
    PROVE  Copies(d) \subseteq [module : STRING, dir : {BootstrapDir} \cup ConfigDirs]
<1>1. Modules(d) \subseteq STRING
  BY RenderAssumption DEF Modules
<1>2. \A m \in Modules(d) : Targets(m) \subseteq {BootstrapDir} \cup ConfigDirs
  BY DEF Targets
<1>3. QED
  BY <1>1, <1>2 DEF Copies

\* One step keeps RenderInv, given the run loop's invariant before the
\* step (TypeOK, RunLoopInv) in the state before it.
LEMMA RNextRenderInv ==
    RenderInv /\ TypeOK /\ RunLoopInv /\ [RNext]_allVars => RenderInv'
<1> SUFFICES ASSUME RenderInv, TypeOK, RunLoopInv, [RNext]_allVars
             PROVE  RenderInv'
  OBVIOUS
<1>1. CASE RConstruct \/ RConstructImportMissing \/ RConstructImport
  <2>1. NextRunMayStart
    BY <1>1 DEF RConstruct, RConstructImportMissing, RConstructImport
  <2>2. ctxRun' \in 0..MaxRuns
    BY <2>1, ConstantsAssumption DEF NextRunMayStart, RenderInv, RenderTypeOK
  <2>3. pending # {} => ctxRun' \in 1..MaxRuns
    BY <2>1, ConstantsAssumption DEF NextRunMayStart, RenderInv
  <2>4. QED
    BY <2>1, <2>2, <2>3 DEF NextRunMayStart, RenderInv, RenderTypeOK
<1>2. CASE (PromptSkipped \/ Prompt \/ WriteFailsOnStore) /\ UNCHANGED renderVars
  BY <1>2 DEF renderVars, RenderInv, RenderTypeOK
<1>3. CASE RWrite
  <2>1. phase = "prompted" /\ UNCHANGED runs
    BY <1>3 DEF RWrite, Write
  <2>2. runs \in 1..MaxRuns
    BY <2>1 DEF RunLoopInv
  <2>3. {[dir |-> d, run |-> runs] : d \in ModuleDirs} \subseteq RequestType
    BY <2>2 DEF RequestType
  <2>4. ctxRun' \in 0..MaxRuns /\ (Truthy(qi4j.packageName) => ctxRun' \in 1..MaxRuns)
    BY <1>3, <2>2 DEF RWrite, RenderInv, RenderTypeOK
  <2>5. error' # "TypeError" => Truthy(qi4j.packageName)
    BY <1>3 DEF RWrite, Write
  <2>6. pending # {} => ctxRun' \in 1..MaxRuns
    BY <1>3, <2>2 DEF RWrite, RenderInv
  <2>7. QED
    BY <1>3, <2>3, <2>4, <2>5, <2>6 DEF RWrite, RenderInv, RenderTypeOK
<1>4. ASSUME NEW p \in pending, ReaddirCallback(p) PROVE RenderInv'
  <2>1. ctxRun \in 1..MaxRuns /\ p.dir \in ModuleDirs
    BY DEF RenderInv, RenderTypeOK, RequestType
  <2>2. CASE UNCHANGED <<memfs, logged>>
    BY <1>4, <2>2 DEF ReaddirCallback, RenderInv, RenderTypeOK
  <2>3. CASE \E failed \in Failures(p.dir) : RenderModules(p.dir, failed)
    <3>1. PICK failed \in Failures(p.dir) : RenderModules(p.dir, failed)
      BY <2>3
    <3>2. failed \subseteq Copies(p.dir)
      BY DEF Failures
    <3>3. Copies(p.dir) \subseteq [module : STRING, dir : {BootstrapDir} \cup ConfigDirs]
      BY <2>1, CopiesType
    <3>4. memfs' \subseteq FileType /\ logged' \subseteq FileType
      BY <2>1, <3>1, <3>2, <3>3 DEF RenderModules, RenderInv, RenderTypeOK, FileType
    <3>5. QED
      BY <1>4, <3>4 DEF ReaddirCallback, RenderInv, RenderTypeOK
  <2>4. QED
    BY <1>4, <2>2, <2>3 DEF ReaddirCallback
<1>5. CASE Commit
  BY <1>5 DEF Commit, RenderInv, RenderTypeOK
<1>6. CASE UNCHANGED allVars
  BY <1>6 DEF allVars, renderVars, RenderInv, RenderTypeOK
<1>7. QED
  BY <1>1, <1>2, <1>3, <1>4, <1>5, <1>6 DEF RNext

\* Requests and files always name a run that has started, and a callback
\* never renders into "no run" (qi4j.ctx unset), for every value of the
\* constants and in both process modes.
THEOREM RenderTypeCorrect == RSpec => []RenderTypeOK
<1>1. RInit => RenderInv
  <2> SUFFICES ASSUME RInit PROVE RenderInv
    OBVIOUS
  <2>1. ctxRun \in 0..MaxRuns
    BY ConstantsAssumption DEF RInit
  <2>2. QED
    BY <2>1, Zenon DEF RInit, RenderInv, RenderTypeOK
<1>2. RSpec => [](TypeOK /\ RunLoopInv)
  BY RenderRefinesRunLoop, RunLoopCorrect, PTL
<1>3. RSpec => []RenderInv
  BY <1>1, <1>2, RNextRenderInv, PTL DEF RSpec
<1>4. QED
  BY <1>3, PTL DEF RenderInv
=============================================================================
