-------------------------- MODULE MCProjectRunner ---------------------------
(* Small instances of ProjectRunner. *)
EXTENDS ProjectRunner

Ref(spell, name) == [spell |-> spell, name |-> name]

SpellDirs  == {"net", "app", "db"}
SpellTypes == {"vcn", "oke"}

Three    == <<Ref("vcn", "net"), Ref("oke", "app"), Ref("vcn", "db")>>
Two      == <<Ref("vcn", "net"), Ref("oke", "app")>>
Mistyped == <<Ref("vcn", "net"), Ref("okee", "app")>>
One      == <<Ref("oke", "app")>>

OneProject  == {Three}
SharedLists == {Mistyped, Two, One}
AppDirs     == {"net", "app"}
=============================================================================
