--------------------------- MODULE ClassShapeProofs ---------------------------
(***************************************************************************)
(* Proofs about prepareClazz for every entity description: the import set *)
(* it writes covers every declaration it writes.  The argument is block by *)
(* block: each `if (list)` block declares only types it imports, the       *)
(* sample branch declares nothing, and concatenating the blocks and        *)
(* joining their import sets keeps that.  prepareConfigClazz flattens a    *)
(* sequence of any length (FlattenSeq, a fold), which needs induction over *)
(* the properties list; its half of ImportsCoverDeclarations stays with    *)
(* TLC.                                                                     *)
(***************************************************************************)
EXTENDS ClassShape, SequenceTheorems, TLAPS

\* The lines prepareClazz can push: a declaration of an item of a list, or
\* the sample property.
ClazzLine == {Declaration(k, i) : k \in Kinds, i \in Item} \cup {SampleDeclaration}

\* The sample property is a literal line, not a declaration.
LEMMA SampleNotDeclaration == ~IsDeclaration(SampleDeclaration)
BY DEF IsDeclaration, DeclarationLine, SampleDeclaration, Text

\* Importing more keeps lines covered.
LEMMA CoveredMono ==
    ASSUME NEW l, NEW I, NEW J, I \subseteq J, Covered(l, I)
    PROVE  Covered(l, J)
BY DEF Covered

\* Concatenating covered lines keeps them covered.
LEMMA CoveredConcat ==
    ASSUME NEW a \in Seq(ClazzLine), NEW b \in Seq(ClazzLine), NEW I,
           Covered(a, I), Covered(b, I)
    PROVE  Covered(a \o b, I)
<1>1. /\ Len(a \o b) = Len(a) + Len(b)
      /\ \A i \in 1..Len(a) + Len(b) :
            (a \o b)[i] = IF i <= Len(a) THEN a[i] ELSE b[i - Len(a)]
  BY ConcatProperties
<1>2. DOMAIN (a \o b) = 1..Len(a) + Len(b)
  BY <1>1, ConcatProperties
<1> SUFFICES ASSUME NEW i \in DOMAIN (a \o b), IsDeclaration((a \o b)[i])
             PROVE  /\ AccessorType[(a \o b)[i].kind] \in I
                    /\ \E t \in I : TypeNameOnly(t) = (a \o b)[i].type
  BY DEF Covered
<1>3. CASE i <= Len(a)
  <2>1. i \in DOMAIN a /\ (a \o b)[i] = a[i]
    BY <1>1, <1>2, <1>3
  <2>2. QED
    BY <2>1 DEF Covered
<1>4. CASE ~(i <= Len(a))
  <2>1. i - Len(a) \in DOMAIN b /\ (a \o b)[i] = b[i - Len(a)]
    BY <1>1, <1>2, <1>4
  <2>2. QED
    BY <2>1 DEF Covered
<1>5. QED
  BY <1>3, <1>4

\* One `if (list)` block of prepareClazz (lines 390-422): its declarations
\* are lines of the list's kind, and each is covered by the block's own
\* imports (the kind's accessor type and the item's full type).
LEMMA ListShapeCovered ==
    ASSUME NEW kind \in Kinds, NEW list \in ListValue
    PROVE  /\ ListShape(kind, list).decls \in Seq(ClazzLine)
           /\ Covered(ListShape(kind, list).decls, ListShape(kind, list).imports)
<1>1. CASE Given(list)
  <2>1. list \in Seq(Item)
    BY <1>1 DEF Given, ListValue
  <2> DEFINE ds == [i \in DOMAIN list |-> Declaration(kind, list[i])]
             is == {AccessorType[kind]} \cup {list[i].type : i \in DOMAIN list}
  <2>2. ListShape(kind, list) = [decls |-> ds, imports |-> is]
    BY <1>1 DEF ListShape
  <2>3. DOMAIN list = 1..Len(list) /\ \A i \in DOMAIN list : list[i] \in Item
    BY <2>1
  <2>4. ds \in Seq(ClazzLine)
    BY <2>3 DEF ClazzLine
  <2>5. Covered(ds, is)
    <3> SUFFICES ASSUME NEW i \in DOMAIN ds, IsDeclaration(ds[i])
                 PROVE  /\ AccessorType[ds[i].kind] \in is
                        /\ \E t \in is : TypeNameOnly(t) = ds[i].type
      BY DEF Covered
    <3>1. ds[i] = [kind |-> kind, type |-> TypeNameOnly(list[i].type),
                   name |-> list[i].name]
      BY DEF Declaration
    <3>2. list[i].type \in is
      OBVIOUS
    <3>3. QED
      BY <3>1, <3>2
  <2>6. QED
    BY <2>2, <2>4, <2>5
<1>2. CASE ~Given(list)
  <2>1. ListShape(kind, list) = [decls |-> <<>>, imports |-> {}]
    BY <1>2 DEF ListShape
  <2>2. QED
    BY <2>1 DEF Covered
<1>3. QED
  BY <1>1, <1>2

\* The properties block (lines 374-389), with its sample branch.
LEMMA PropertiesShapeCovered ==
    ASSUME NEW c \in Entities
    PROVE  /\ PropertiesShape(c).decls \in Seq(ClazzLine)
           /\ Covered(PropertiesShape(c).decls, PropertiesShape(c).imports)
<1>1. c.properties \in ListValue
  BY EntitiesAssumption
<1>2. "Property" \in Kinds
  BY DEF Kinds, AccessorType
<1>3. CASE Given(c.properties)
  BY <1>1, <1>2, <1>3, ListShapeCovered DEF PropertiesShape
<1>4. CASE ~Given(c.properties)
  <2>1. PropertiesShape(c) = [decls |-> <<SampleDeclaration>>,
                              imports |-> {AccessorType.Property}]
    BY <1>4 DEF PropertiesShape
  <2>2. <<SampleDeclaration>> \in Seq(ClazzLine)
    BY DEF ClazzLine
  <2>3. Covered(<<SampleDeclaration>>, {AccessorType.Property})
    BY SampleNotDeclaration DEF Covered
  <2>4. QED
    BY <2>1, <2>2, <2>3
<1>5. QED
  BY <1>3, <1>4

\* prepareClazz (lines 371-425): the state it writes is covered by the
\* import set it writes.
LEMMA PrepareClazzCovered ==
    ASSUME NEW c \in Entities
    PROVE  Covered(PrepareClazzShape(c).state, PrepareClazzShape(c).imported)
<1> DEFINE s1 == PropertiesShape(c)
           s2 == ListShape("Association", c.associations)
           s3 == ListShape("ManyAssociation", c.manyassociations)
           s4 == ListShape("NamedAssociation", c.namedassociations)
           I  == s1.imports \cup s2.imports \cup s3.imports \cup s4.imports
<1>1. /\ PrepareClazzShape(c).state = s1.decls \o s2.decls \o s3.decls \o s4.decls
      /\ PrepareClazzShape(c).imported = I
  <2> DEFINE t == <<s1, s2, s3, s4>>
              Cat(a, b, d, e) == a \o b \o d \o e
  <2>1. PrepareClazzShape(c) = [state |-> Cat(t[1].decls, t[2].decls, t[3].decls, t[4].decls),
                                imported |-> UNION {t[i].imports : i \in 1..4}]
    BY DEF PrepareClazzShape, Cat
  <2>2. t[1] = s1 /\ t[2] = s2 /\ t[3] = s3 /\ t[4] = s4
    OBVIOUS
  <2>3. 1..4 = {1, 2, 3, 4}
    OBVIOUS
  <2>4. {t[i].imports : i \in 1..4} = {s1.imports, s2.imports, s3.imports, s4.imports}
    BY <2>2, <2>3
  <2>5. UNION {s1.imports, s2.imports, s3.imports, s4.imports} = I
    OBVIOUS
  <2> HIDE DEF s1, s2, s3, s4, I, Cat
  <2>6. PrepareClazzShape(c).state = s1.decls \o s2.decls \o s3.decls \o s4.decls
    <3>1. PrepareClazzShape(c).state = Cat(s1.decls, s2.decls, s3.decls, s4.decls)
      BY <2>1, <2>2
    <3>2. QED
      BY <3>1 DEF Cat
  <2>7. PrepareClazzShape(c).imported = I
    BY <2>1, <2>4, <2>5
  <2>8. QED
    BY <2>6, <2>7
<1>2. /\ c.associations \in ListValue /\ c.manyassociations \in ListValue
      /\ c.namedassociations \in ListValue
  BY EntitiesAssumption
<1>3. {"Association", "ManyAssociation", "NamedAssociation"} \subseteq Kinds
  BY DEF Kinds, AccessorType
<1>4. /\ s1.decls \in Seq(ClazzLine) /\ Covered(s1.decls, I)
      /\ s2.decls \in Seq(ClazzLine) /\ Covered(s2.decls, I)
      /\ s3.decls \in Seq(ClazzLine) /\ Covered(s3.decls, I)
      /\ s4.decls \in Seq(ClazzLine) /\ Covered(s4.decls, I)
  <2>1. s1.decls \in Seq(ClazzLine) /\ Covered(s1.decls, s1.imports)
    BY PropertiesShapeCovered
  <2>2. s2.decls \in Seq(ClazzLine) /\ Covered(s2.decls, s2.imports)
    BY <1>2, <1>3, ListShapeCovered
  <2>3. s3.decls \in Seq(ClazzLine) /\ Covered(s3.decls, s3.imports)
    BY <1>2, <1>3, ListShapeCovered
  <2>4. s4.decls \in Seq(ClazzLine) /\ Covered(s4.decls, s4.imports)
    BY <1>2, <1>3, ListShapeCovered
  <2>5. /\ s1.imports \subseteq I /\ s2.imports \subseteq I
        /\ s3.imports \subseteq I /\ s4.imports \subseteq I
    OBVIOUS
  <2> HIDE DEF s1, s2, s3, s4, I
  <2>6. QED
    BY <2>1, <2>2, <2>3, <2>4, <2>5, CoveredMono
<1>5. /\ s1.decls \o s2.decls \in Seq(ClazzLine)
      /\ s1.decls \o s2.decls \o s3.decls \in Seq(ClazzLine)
  BY <1>4, ConcatProperties
<1>6. Covered(s1.decls \o s2.decls \o s3.decls \o s4.decls, I)
  BY <1>4, <1>5, CoveredConcat
<1>7. QED
  BY <1>1, <1>6

\* The inductive invariant: prepareClazz has only ever been called on an
\* entity description, and what it wrote is covered.
ClazzInv ==
    /\ clazz \in Entities \cup {Undefined}
    /\ ClazzImportsCovered

\* Spec section 3 (requiredImports), for every entity description: every
\* declaration prepareClazz writes into current.state names an accessor
\* type and a value type that it also writes into current.imported.
THEOREM ClazzImportsAlwaysCovered == Spec => []ClazzImportsCovered
<1>1. Init => ClazzInv
  BY DEF Init, ClazzInv, ClazzImportsCovered
<1>2. ClazzInv /\ [Next]_vars => ClazzInv'
  <2> SUFFICES ASSUME ClazzInv, [Next]_vars PROVE ClazzInv'
    OBVIOUS
  <2>1. CASE PrepareClazz
    <3>1. clazz \in Entities
      BY <2>1 DEF PrepareClazz, ClazzInv
    <3>2. QED
      BY <2>1, <3>1, PrepareClazzCovered DEF PrepareClazz, ClazzInv, ClazzImportsCovered
  <2>2. CASE PrepareConfigClazz
    BY <2>2 DEF PrepareConfigClazz, ClazzInv, ClazzImportsCovered
  <2>3. CASE UNCHANGED vars
    BY <2>3 DEF vars, ClazzInv, ClazzImportsCovered
  <2>4. QED
    BY <2>1, <2>2, <2>3 DEF Next
<1>3. QED
  BY <1>1, <1>2, PTL DEF Spec, ClazzInv
=============================================================================
