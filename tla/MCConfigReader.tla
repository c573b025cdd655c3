---------------------------- MODULE MCConfigReader -----------------------------
(* ConfigReader for TLC: a root, two more files, a directory that holds both, *)
(* and a name that does not exist.  Either the directives vary, two in the    *)
(* root and one in the others, or the contents of the tables do.              *)
EXTENDS ConfigReader

CONSTANTS root, f1, f2, dir, none

MCNames == {root, f1, f2, dir, none}
MCKind == [n \in MCNames |-> IF n = dir THEN "dir" ELSE IF n = none THEN "missing" ELSE "file"]
MCEntries == [n \in MCNames |-> IF n = dir THEN {f1, f2} ELSE {}]

Allow(user, group, paths) == [user |-> user, group |-> group, paths |-> paths]
Contents(parses, rpc, stg, acc, list, includes) ==
    [parses |-> parses, rpc |-> rpc, storage |-> stg, access |-> acc, allow |-> list,
     includes |-> includes]

Directives == {<<>>} \cup {<<n>> : n \in MCNames} \cup {<<m, n>> : m \in MCNames, n \in MCNames}
FewDirectives == {<<>>} \cup {<<n>> : n \in MCNames}
SomeAllow == <<Allow("id", "none", "valid")>>
Plain(includes) == Contents(TRUE, "absent", "absent", "valid", SomeAllow, includes)
RootFile(includes) == Contents(TRUE, "valid", "valid", "absent", <<>>, includes)

Tree(r, a, b) ==
    [n \in MCNames |-> CASE n = root -> r [] n = f1 -> a [] n = f2 -> b [] OTHER -> Plain(<<>>)]
IncludeTrees ==
    {Tree(RootFile(i), Plain(j), Plain(k)) : i \in Directives, j \in FewDirectives, k \in FewDirectives}

Allows == {<<>>} \cup {<<Allow(u, g, p)>> : u \in Specifiers, g \in Specifiers, p \in {"valid", "invalid"}}
TableTrees ==
    {Tree(Contents(p, r, s, "absent", <<>>, <<f1>>), Contents(TRUE, q, "absent", a, <<>>, Nil), Plain(<<>>)) :
        p \in BOOLEAN, r \in Tables, s \in Tables, q \in Tables, a \in Tables}
        \cup {Tree(Contents(p, r, s, a, <<>>, <<f1>>), Contents(TRUE, q, q, "valid", l, <<>>), Plain(<<>>)) :
                 p \in BOOLEAN, r \in Tables, s \in Tables, a \in {"absent", "invalid"}, q \in {"absent", "valid"},
                 l \in Allows}
MCTrees == IncludeTrees \cup TableTrees
================================================================================
