---------------------------- MODULE MCAmqpTable ----------------------------
(***************************************************************************)
(* TLC instance of AmqpTable: tables of one or two fields of each type.    *)
(***************************************************************************)
EXTENDS AmqpTable

MCValue ==
    {Variant("Bool", TRUE), Variant("String", << 97 >>), Variant("LongLong", -5),
     Variant("ULongLong", 300), Variant("DateTime", 70000), Variant("Int", 7),
     Variant("List", << Variant("Bool", FALSE), Variant("String", << >>) >>),
     Variant("Hash", {<< << 97 >>, Variant("LongLong", 1) >>})}

MCTable ==
    {{<< << 97 >>, x >>} : x \in MCValue}
    \cup {{<< << 97 >>, x >>, << << 98, 97 >>, y >>} : x, y \in MCValue}

=============================================================================
