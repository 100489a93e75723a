-------------------------- MODULE MCRouterAssembly --------------------------
(***************************************************************************)
(* RouterAssembly and GeneratedModule for TLC: a program with nested types,*)
(* newtypes, an enum, a map, two types of one name, a tree, checks that    *)
(* suit their fields and checks that do not, and functions that clash.     *)
(***************************************************************************)
EXTENDS RouterAssemblyInv, GeneratedModule, TLC

Prim(class) == [form |-> "primitive", class |-> class]
Struct(fields, rules) == [form |-> "struct", fields |-> fields, rules |-> rules]
Newtype(t) == [form |-> "newtype", fields |-> <<t>>, rules |-> <<>>]
Enum(variants, rules, hidden) ==
    [form |-> "enum", variants |-> variants, rules |-> rules, hidden |-> hidden]
Of(form, args) == [form |-> form, args |-> args]

MCRust ==
    [unit     |-> Prim("other"),
     u64      |-> Prim("other"),
     u8       |-> Prim("number"),
     str      |-> Prim("text"),
     Name     |-> Newtype("str"),
     Addr     |-> Struct(<<"Name", "u8">>, <<{"length", "email"}, {"max"}>>),
     OptAddr  |-> Of("option", <<"Addr">>),
     User     |-> Struct(<<"u64", "OptAddr">>, <<{"min"}, {}>>),
     OldUser  |-> Struct(<<"str">>, <<{"odd pattern"}>>),
     Role     |-> Enum(<<<<>>, <<"str", "Addr">>>>, <<{"min"}, {}>>, TRUE),
     Roles    |-> Of("map", <<"Role", "str">>),
     NoAddr   |-> [form |-> "array", args |-> <<"Addr">>, len |-> 0],
     Tree     |-> Struct(<<"str", "Trees">>, <<{}, {}>>),
     Trees    |-> Of("vec", <<"Tree">>)]

MCNodes == DOMAIN MCRust

MCIrName ==
    [n \in {"Name", "Addr", "User", "OldUser", "Role", "Tree"} |->
        IF n = "OldUser" THEN "User" ELSE n]

Fn(name, args, params, returns) ==
    [name |-> name, args |-> args, async |-> TRUE, generic |-> FALSE,
     receiver |-> FALSE, params |-> params, returns |-> returns]
Nothing   == [form |-> "nothing"]
Gives(t)  == [form |-> "plain", ok |-> t]
Tries(t, e) == [form |-> "result", ok |-> t, error |-> e]
Streams(t)  == [form |-> "stream", ok |-> t]

MCFunctions ==
    {Fn("find", <<>>, <<"NoAddr">>, Tries("User", "Role")),
     Fn("find", <<"method">>, <<"OldUser">>, Nothing),
     Fn("save", <<"query", "mutation">>, <<"Roles">>, Nothing),
     Fn("old", <<"mutation">>, <<"User">>, Gives("str")),
     Fn("where", <<>>, <<>>, Gives("OptAddr")),
     Fn("name", <<>>, <<"Name">>, Nothing),
     Fn("watch", <<"stream">>, <<>>, Streams("Roles")),
     Fn("_health", <<"stream">>, <<>>, Streams("str")),
     Fn("_health", <<>>, <<>>, Gives("str")),
     Fn("grow", <<>>, <<"Tree">>, Nothing)}

\* Functions the macro refuses.
Refused ==
    {[Fn("sync", <<>>, <<>>, Nothing) EXCEPT !.async = FALSE],
     Fn("two", <<>>, <<"str", "str">>, Nothing),
     Fn("poll", <<>>, <<>>, Streams("str"))}

AllFunctions == MCFunctions \cup Refused
=============================================================================
