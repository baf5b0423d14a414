------------------------- MODULE MCGeneratorRender -------------------------
(***************************************************************************)
(* A small instance of GeneratorRender: one template directory listing a  *)
(* module with settings, a module without, and an entry that is no module; *)
(* the run loop is cut down to one store, one feature set and one model   *)
(* file, since what is rendered does not depend on the answers.           *)
(***************************************************************************)
EXTENDS GeneratorRender

MCRStoreChoices == {"Memory"}
MCRFeatureChoices == {<<>>}
MCRIndexingChoices == {"Rdf"}
MCRCachingChoices == {"None"}
MCRMetricsChoices == {"None"}
MCRNames == {"TestProject"}
MCRPackages == {"org.qi4j.generator.test"}

MCRModelFiles ==
    {[f \in Fields |-> IF f = "entitystore" THEN "Memory" ELSE Undefined]}

\* The answers the test harness gives (generator_test.js lines 149-158),
\* and accepting every default.
MCRAnswerChoices ==
    {[q \in Questions |-> Default],
     [name |-> "TestProject", packageName |-> "org.qi4j.generator.test",
      applicationtype |-> "Rest API", entitystore |-> "Memory",
      dbpool |-> Default, indexing |-> "Rdf", caching |-> "None",
      metrics |-> "None", features |-> <<>>]}

MCModuleDirs == {"app/templates"}
MCListing == [d \in MCModuleDirs |-> {"StorageModule", "IndexingModule", "app.js"}]
MCConfigModules == {"StorageModule"}
=============================================================================
