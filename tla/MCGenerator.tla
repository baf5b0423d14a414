---------------------------- MODULE MCGenerator ----------------------------
(***************************************************************************)
(* A small instance of Generator for TLC: the prompt choices are cut down *)
(* to one relational and one non-relational store, and the model files on *)
(* disk before the first run are a few hand-written ones.                  *)
(***************************************************************************)
EXTENDS Generator

MCStoreChoices == {"Memory", "MySQL"}
MCIndexingChoices == {"Rdf"}
MCCachingChoices == {"None"}
MCMetricsChoices == {"None"}
MCFeatureChoices == {<<>>, <<"jmx">>}
MCNames == {"TestProject"}
MCPackages == {"org.qi4j.generator.test"}

\* A model file holding only the given keys.
MCFile(keys) == [f \in Fields |->
                   IF f \in DOMAIN keys THEN keys[f] ELSE Undefined]

\* A hand-written model naming a relational store and no pool, one naming a
\* command-line application, and one written with nulls.
MCModelFiles ==
    { MCFile([entitystore |-> "MySQL"]),
      MCFile([entitystore |-> "Memory", applicationtype |-> "Command Line"]),
      MCFile([entitystore |-> Null, indexing |-> Null]) }

\* For the store-slug question: every one of the 18 store choices, prompted
\* or named by a model file without a pool, and one feature set (no
\* property reads the features).
MCStoreModelFiles == {MCFile([entitystore |-> st]) : st \in StoreChoices}
MCOneFeature == {<<>>}
=============================================================================
