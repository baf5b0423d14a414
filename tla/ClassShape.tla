----------------------------- MODULE ClassShape -----------------------------
(***************************************************************************)
(* The class-shape deriver of the qi4j generator: the helpers              *)
(* qi4j.prepareClazz and qi4j.prepareConfigClazz that assignFunctions      *)
(* installs (src/tools/generator-qi4j/app/index.js lines 371-489), and     *)
(* qi4j.typeNameOnly (lines 356-362) that both use.                        *)
(*                                                                         *)
(* A template sets qi4j.current (or a module record) and calls one of the  *)
(* helpers, which overwrites the record's state, imported and              *)
(* propertyLines fields.  Each call is one action on the description the   *)
(* initial state holds, any one of a bounded set.  A JSON list in a model *)
(* description is a sequence, an absent key is Undefined, a JSON null is   *)
(* Null.  A generated Java line is a record of the parts the code          *)
(* concatenates; a line the code writes as a literal is a Text record.    *)
(***************************************************************************)
EXTENDS Naturals, Sequences, SequencesExt

CONSTANTS
    Undefined,      \* JavaScript undefined: a key missing from the JSON model
    Null,           \* JSON null
    Entities,       \* the entity descriptions (current.clazz) templates pass
    Composites      \* the composite descriptions templates pass

VARIABLES
    clazz,          \* current.clazz of the last prepareClazz call
    state,          \* current.state
    imported,       \* the keys of current.imported
    composite,      \* the composite of the last prepareConfigClazz call
    configState,    \* currentModule.state
    propertyLines,  \* currentModule.propertyLines
    configImported  \* the keys of currentModule.imported

vars == <<clazz, state, imported, composite, configState, propertyLines,
          configImported>>

(* A list item of an entity description: a name and a full type name.     *)
Item == [name : STRING, type : STRING]

(* What a list-valued key of a parsed JSON description holds.             *)
ListValue == Seq(Item) \cup {Undefined, Null}

(* Entity descriptions are parsed JSON objects with list-valued keys.     *)
ASSUME EntitiesAssumption ==
    Entities \subseteq [properties : ListValue, associations : ListValue,
                        manyassociations : ListValue,
                        namedassociations : ListValue]

-----------------------------------------------------------------------------
(* JavaScript truthiness of a list-valued key: an array, even an empty one, *)
(* is truthy; undefined and null are not.                                   *)
Given(list) == list \notin {Undefined, Null}

(* The four accessor kinds and the type each one imports.                  *)
AccessorType ==
    [Property         |-> "org.qi4j.api.property.Property",
     Association      |-> "org.qi4j.api.association.Association",
     ManyAssociation  |-> "org.qi4j.api.association.ManyAssociation",
     NamedAssociation |-> "org.qi4j.api.association.NamedAssociation"]

(* typeNameOnly: the text after the last ".", or the whole text.           *)
TypeNameOnly(text) ==
    LET dots == {i \in 1..Len(text) : SubSeq(text, i, i) = "."}
    IN  IF dots = {} THEN text ELSE SubSeq(text, Max(dots) + 1, Len(text))

(* 'Kind<' + typeNameOnly(item.type) + "> " + item.name + "();"            *)
Declaration(kind, item) ==
    [kind |-> kind, type |-> TypeNameOnly(item.type), name |-> item.name]

(* The literal line pushed when an entity has no properties.               *)
(* A line the code pushes as a literal.                                   *)
Text(s) == [text |-> s]

SampleDeclaration == Text("Property<String> name();    // TODO: remove sample property")

(* Mutant of ListShape: the loop forgets `imported[assoc.type] = true`.    *)
ListShapeNoTypeImport(kind, list) ==
    IF Given(list)
    THEN [decls   |-> [i \in DOMAIN list |-> Declaration(kind, list[i])],
          imports |-> {AccessorType[kind]}]
    ELSE [decls |-> <<>>, imports |-> {}]

(* One `if (list) { imported[Kind] = true; for (idx in list) ... }` block: *)
(* a declaration per item in order, and the kind's and items' types       *)
(* imported.                                                               *)
ListShape(kind, list) ==
    IF Given(list)
    THEN [decls   |-> [i \in DOMAIN list |-> Declaration(kind, list[i])],
          imports |-> {AccessorType[kind]} \cup {list[i].type : i \in DOMAIN list}]
    ELSE [decls |-> <<>>, imports |-> {}]

(* The properties block and its else branch with the sample property.     *)
PropertiesShape(c) ==
    IF Given(c.properties)
    THEN ListShape("Property", c.properties)
    ELSE [decls |-> <<SampleDeclaration>>, imports |-> {AccessorType.Property}]

(* Mutant of PrepareClazzShape: named associations before many.           *)
PrepareClazzShapeSwapped(c) ==
    LET s == <<PropertiesShape(c),
               ListShape("Association", c.associations),
               ListShape("NamedAssociation", c.namedassociations),
               ListShape("ManyAssociation", c.manyassociations)>>
    IN  [state    |-> s[1].decls \o s[2].decls \o s[3].decls \o s[4].decls,
         imported |-> UNION {s[i].imports : i \in 1..4}]

(* prepareClazz: the four blocks in the code's order.                      *)
PrepareClazzShape(c) ==
    LET s == <<PropertiesShape(c),
               ListShape("Association", c.associations),
               ListShape("ManyAssociation", c.manyassociations),
               ListShape("NamedAssociation", c.namedassociations)>>
    IN  [state    |-> s[1].decls \o s[2].decls \o s[3].decls \o s[4].decls,
         imported |-> UNION {s[i].imports : i \in 1..4}]

-----------------------------------------------------------------------------
(* The property-file default of prepareConfigClazz's type table.           *)
ComplexDefault == "\n    # TODO: complex configuration type. "

(* Mutant of DefaultLiteral: Float takes the Integer row.                 *)
DefaultLiteralFloatZero(type) ==
    CASE type \in {"java.lang.String"}                 -> ""
      [] type \in {"java.lang.Boolean"}                -> "false"
      [] type \in {"java.lang.Long", "java.lang.Integer",
                   "java.lang.Float"}                  -> "0"
      [] type \in {"java.lang.Double"}                 -> "0.0"
      [] OTHER                                         -> ComplexDefault

DefaultLiteral(type) ==
    CASE type \in {"java.lang.String"}                 -> ""
      [] type \in {"java.lang.Boolean"}                -> "false"
      [] type \in {"java.lang.Long", "java.lang.Integer"} -> "0"
      [] type \in {"java.lang.Double", "java.lang.Float"} -> "0.0"
      [] OTHER                                         -> ComplexDefault

(* `prop.default !== undefined`: an explicit default wins, a JSON null     *)
(* included; string concatenation then writes null as "null".             *)
(* Mutant of PropertyDefault: `propertyDefault = prop.default` unguarded. *)
PropertyDefaultUnguarded(prop) == prop.default

PropertyDefault(prop) ==
    IF prop.default # Undefined
    THEN IF prop.default = Null THEN "null" ELSE prop.default
    ELSE DefaultLiteral(prop.type)

(* `for (idxDesc in prop.description)`: no lines when it is absent.       *)
Descriptions(prop) ==
    IF Given(prop.description) THEN prop.description ELSE <<>>

(* The Java lines pushed for one property: "/**", " * desc"..., " */" and *)
(* 'Property<T> name();\n'.                                                *)
ConfigDeclLines(prop) ==
    <<Text("/**")>>
    \o [i \in DOMAIN Descriptions(prop) |-> [doc |-> Descriptions(prop)[i]]]
    \o <<Text(" */"), Declaration("Property", prop)>>

(* Mutant of ConfigFileLines: the description is not written to the file. *)
ConfigFileLinesNoComments(prop) ==
    <<[entry |-> prop.name, value |-> PropertyDefault(prop)]>>

(* The property-file lines pushed for one property: "# desc"... and       *)
(* name + "=" + default + "\n".                                            *)
ConfigFileLines(prop) ==
    [i \in DOMAIN Descriptions(prop) |-> [comment |-> Descriptions(prop)[i]]]
    \o <<[entry |-> prop.name, value |-> PropertyDefault(prop)]>>

(* The sample property pushed when the composite has no configuration.    *)
SampleConfigState ==
    <<Text("/** TODO: remove sample property"), Text(" */"),
      Text("Property<String> name();")>>
SampleConfigFile ==
    <<Text("# This is just the sample configuration value. "),
      Text("# TODO: Remove this config value "),
      Text("name=sample config value")>>

(* prepareConfigClazz.                                                     *)
PrepareConfigShape(c) ==
    LET props == c.configuration
    IN  IF Given(props)
        THEN [state    |-> FlattenSeq([i \in DOMAIN props |-> ConfigDeclLines(props[i])]),
              lines    |-> FlattenSeq([i \in DOMAIN props |-> ConfigFileLines(props[i])]),
              imported |-> {AccessorType.Property} \cup {props[i].type : i \in DOMAIN props}]
        ELSE [state |-> SampleConfigState, lines |-> SampleConfigFile,
              imported |-> {AccessorType.Property}]

-----------------------------------------------------------------------------
(* A template has set current.clazz, or a composite for a module, and not *)
(* yet called the helper: each behaviour follows one description.         *)
Init ==
    /\ \/ clazz \in Entities /\ composite = Undefined
       \/ clazz = Undefined /\ composite \in Composites
    /\ state = Undefined /\ imported = Undefined
    /\ configState = Undefined /\ propertyLines = Undefined
    /\ configImported = Undefined

(* qi4j.prepareClazz(current).                                             *)
PrepareClazz ==
    /\ clazz # Undefined
    /\ state' = PrepareClazzShape(clazz).state
    /\ imported' = PrepareClazzShape(clazz).imported
    /\ UNCHANGED <<clazz, composite, configState, propertyLines, configImported>>

(* qi4j.prepareConfigClazz(currentModule, composite).                      *)
PrepareConfigClazz ==
    /\ composite # Undefined
    /\ configState' = PrepareConfigShape(composite).state
    /\ propertyLines' = PrepareConfigShape(composite).lines
    /\ configImported' = PrepareConfigShape(composite).imported
    /\ UNCHANGED <<clazz, state, imported, composite>>

Next == PrepareClazz \/ PrepareConfigClazz

Spec == Init /\ [][Next]_vars

-----------------------------------------------------------------------------
Kinds == DOMAIN AccessorType
DeclarationLine == [kind : Kinds, type : STRING, name : STRING]
JavaLine == [text : STRING] \cup DeclarationLine \cup [doc : STRING]
FileLine == [text : STRING] \cup [comment : STRING] \cup [entry : STRING, value : STRING]
IsDeclaration(l) == l \in DeclarationLine

(* The shapes the helpers leave behind are sequences of generated lines    *)
(* and sets of type names: prepareClazz and prepareConfigClazz always      *)
(* produce a string default, whichever branch of the table they take.     *)
TypeOK ==
    /\ clazz \in Entities \cup {Undefined}
    /\ state \in Seq(JavaLine) \cup {Undefined}
    /\ imported \in SUBSET STRING \cup {Undefined}
    /\ composite \in Composites \cup {Undefined}
    /\ configState \in Seq(JavaLine) \cup {Undefined}
    /\ propertyLines \in Seq(FileLine) \cup {Undefined}
    /\ configImported \in SUBSET STRING \cup {Undefined}

(* The declarations of a list, as the spec lists them: <<kind, name>> per  *)
(* item in encounter order; an absent list contributes none.              *)
Listed(kind, list) ==
    IF list \in {Undefined, Null} THEN <<>>
    ELSE [i \in DOMAIN list |-> <<kind, list[i].name>>]

Declared(lines) ==
    LET ds == SelectSeq(lines, IsDeclaration)
    IN  [i \in DOMAIN ds |-> <<ds[i].kind, ds[i].name>>]

(* Spec 4.2 and section 3 (deterministic output): the declarations         *)
(* prepareClazz writes into current.state are the entity's properties,    *)
(* then its associations, many-associations and named associations, each *)
(* in list order and with the accessor kind of the list it came from.     *)
DeclarationsInListOrder ==
    state # Undefined =>
        Declared(state) = Listed("Property", clazz.properties)
                          \o Listed("Association", clazz.associations)
                          \o Listed("ManyAssociation", clazz.manyassociations)
                          \o Listed("NamedAssociation", clazz.namedassociations)

(* Spec section 3 (requiredImports): every declaration prepareClazz or     *)
(* prepareConfigClazz writes can be compiled from the import set it       *)
(* writes beside it: the declaration's accessor type is imported, and so  *)
(* is a type whose simple name is the declared one.                       *)
Covered(lines, imports) ==
    \A i \in DOMAIN lines :
        IsDeclaration(lines[i]) =>
            /\ AccessorType[lines[i].kind] \in imports
            /\ \E t \in imports : TypeNameOnly(t) = lines[i].type

ClazzImportsCovered == state # Undefined => Covered(state, imported)

ImportsCoverDeclarations ==
    /\ ClazzImportsCovered
    /\ configState # Undefined => Covered(configState, configImported)

(* Spec 4.2 and 8.3: the type -> default table, and an explicit default    *)
(* (JSON null written as "null") overriding it.                           *)
SpecDefault(prop) ==
    IF prop.default # Undefined
    THEN IF prop.default = Null THEN "null" ELSE prop.default
    ELSE CASE prop.type = "java.lang.String"  -> ""
           [] prop.type = "java.lang.Boolean" -> "false"
           [] prop.type = "java.lang.Integer" -> "0"
           [] prop.type = "java.lang.Long"    -> "0"
           [] prop.type = "java.lang.Float"   -> "0.0"
           [] prop.type = "java.lang.Double"  -> "0.0"
           [] OTHER                           -> ComplexDefault

IsEntry(l) == l \in [entry : STRING, value : STRING]

(* Spec 8.3: the properties file prepareConfigClazz writes has one entry   *)
(* name=default per configuration property, in order, with the default   *)
(* the explicit one or the table's.                                       *)
ConfigDefaultsFollowTable ==
    propertyLines # Undefined /\ Given(composite.configuration) =>
        LET props == composite.configuration
        IN  SelectSeq(propertyLines, IsEntry)
              = [i \in DOMAIN props |-> [entry |-> props[i].name,
                                         value |-> SpecDefault(props[i])]]

IsDoc(l) == l \in [doc : STRING]
IsComment(l) == l \in [comment : STRING]

(* Spec 4.2: each line of a configuration property's description becomes *)
(* one doc-comment line of the Java class and one comment line of the     *)
(* properties file, in the same order in both.                            *)
DocCommentsMirrorPropertyFile ==
    configState # Undefined =>
    LET docs == SelectSeq(configState, IsDoc)
        comments == SelectSeq(propertyLines, IsComment)
    IN  /\ Len(docs) = Len(comments)
        /\ \A i \in DOMAIN docs : docs[i].doc = comments[i].comment

(* Spec 8.2: an entity with zero declared properties gets exactly one      *)
(* property declaration, the sample, and the Property import.             *)
NoProperties(c) == c.properties \in {Undefined, Null, <<>>}

SampleWhenNoProperties ==
    state # Undefined /\ NoProperties(clazz) =>
        /\ SelectSeq(state, LAMBDA l : l = SampleDeclaration
                                       \/ (IsDeclaration(l) /\ l.kind = "Property"))
             = <<SampleDeclaration>>
        /\ AccessorType.Property \in imported
=============================================================================
