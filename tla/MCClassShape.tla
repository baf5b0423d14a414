---------------------------- MODULE MCClassShape ----------------------------
(* Bounded inputs for the class-shape deriver: the properties list is     *)
(* absent, null, empty, or one or two of two items whose type names take   *)
(* both branches of typeNameOnly; configuration properties cover every    *)
(* row of the default table, explicit and null defaults, and descriptions *)
(* of zero, one and two lines.                                            *)
EXTENDS ClassShape

MCItems ==
    {[name |-> "owner", type |-> "com.acme.Person"],
     [name |-> "code",  type |-> "Long"]}

MCPropertyLists ==
    {Undefined, Null, <<>>} \cup {<<i>> : i \in MCItems}
    \cup {<<i, j>> : i, j \in MCItems}

(* Null, and the one-item lists, of association lists take the same       *)
(* branches as those of the properties list.                              *)
MCAssociationLists ==
    {Undefined, <<>>} \cup {<<i, j>> : i, j \in MCItems}

MCEntities ==
    [properties : MCPropertyLists, associations : MCAssociationLists,
     manyassociations : MCAssociationLists,
     namedassociations : MCAssociationLists]

MCConfigTypes ==
    {"java.lang.String", "java.lang.Boolean", "java.lang.Long",
     "java.lang.Integer", "java.lang.Double", "java.lang.Float",
     "com.acme.Endpoint"}

MCConfigProps ==
    [name : {"port"}, type : MCConfigTypes, default : {Undefined, Null, "8080"},
     description : {Undefined, <<"Port">>, <<"Port", "of the server">>}]

MCComposites ==
    {[configuration |-> c] : c \in {Undefined, Null, <<>>}
                                    \cup {<<p>> : p \in MCConfigProps}}
    \cup {[configuration |-> <<p, q>>] :
            p \in {q2 \in MCConfigProps : q2.type = "java.lang.Long"},
            q \in {q3 \in MCConfigProps : q3.default = Undefined}}
=============================================================================
