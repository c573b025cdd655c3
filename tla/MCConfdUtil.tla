------------------------------- MODULE MCConfdUtil -----------------------------
(* ConfdUtil and TypedCalls for TLC.  An application sets every kind of       *)
(* argument, with strings and blobs of every length from empty to one that    *)
(* wraps the length field; the tool is given a bool literal, numbers, an      *)
(* empty file, and files of the sizes around what one read takes.             *)
EXTENDS ConfdUtil

CONSTANTS MaxLength

Ones(n) == [i \in 1 .. n |-> 1]
MCContents == UNION {[1 .. n -> Bytes] : n \in 0 .. 2} \cup {Ones(n) : n \in 3 .. MaxLength}

MCInputs ==
    [kind \in Kinds \cup {"null"} |->
        CASE kind \in {"string", "blob"} -> MCContents
          [] kind = "int" -> Integers64
          [] kind = "real" -> Reals
          [] kind = "bool" -> BOOLEAN
          [] kind = "null" -> {Nil}]

Text(chars, number, unsigned, real, literal, file) ==
    [chars |-> chars, number |-> number, unsigned |-> unsigned, real |-> real,
     literal |-> literal, file |-> file]

\* A literal; a negative number; zero; a number that only stoul has room for.
MCTexts == {Text(<<1, 1>>, Nil, Nil, Nil, TRUE, <<>>), Text(<<1>>, -2, 2, 1, Nil, <<0, 1>>),
            Text(<<>>, 0, 0, NaN, Nil, <<1, 1, 1>>),
            Text(<<1, 1, 1>>, Nil, 3, Nil, Nil, <<1, 1, 1, 1, 1>>)}

CommandLine(ops, key, type, text) == [ops |-> ops, key |-> key, type |-> type, text |-> text]
AnyText == CHOOSE t \in MCTexts : TRUE
MCInvocations ==
    {CommandLine(<<"write">>, TRUE, type, text) : type \in TypeNames, text \in MCTexts}
        \cup {CommandLine(<<"read">>, TRUE, type, AnyText) : type \in TypeNames}
        \cup {CommandLine(<<"read">>, TRUE, type, AnyText) : type \in {"none", "unknown"}}
        \cup {CommandLine(ops, TRUE, "int", AnyText) : ops \in {<<>>, <<"delete">>, <<"read", "write">>}}
        \cup {CommandLine(<<"read">>, FALSE, "int", AnyText)}
================================================================================
