------------------------------ MODULE ConfigReader -----------------------------
(***************************************************************************)
(* The reader of confd's configuration (Config.cpp): a TOML file with the  *)
(* tables rpc, storage and access, and include directives that name files  *)
(* or directories of files, which are read in turn.  An exception ends the *)
(* daemon, so that what was set before it does not matter.                 *)
(*                                                                         *)
(* The recursion of Read is a stack of what is left to include.  A table   *)
(* is what its reader makes of it: absent, invalid or valid.  The TOML     *)
(* parser, the user database and the file system are external.             *)
(***************************************************************************)
EXTENDS Naturals, Sequences, FiniteSets, SequencesExt

CONSTANTS
    Names,      \* paths, as they are written in directives and found in directories
    Root,       \* the one on the command line
    Kind,       \* [Names -> {"file", "dir", "missing"}]; "missing" is the empty path, too
    Entries,    \* [Names -> SUBSET Names], the .toml files in a directory
    Trees,      \* the contents of the files, [Names -> File]
    Nil

Tables == {"absent", "invalid", "valid"}

\* A specifier of access.allow: not given, an id, a name that resolves, one that
\* does not, a look-up that fails, or a value of another type.
Specifiers == {"none", "id", "name", "unknown", "failing", "mistyped"}
AllowEntries == [user : Specifiers, group : Specifiers, paths : {"invalid", "valid"}]
IsFile(f) ==
    /\ f.parses \in BOOLEAN /\ {f.rpc, f.storage, f.access} \subseteq Tables
    /\ f.allow \in Seq(AllowEntries)
    /\ (f.includes = Nil \/ f.includes \in Seq(Names))  \* Nil: not an array of tables

ASSUME NamesAssumption ==
    /\ Root \in Names /\ Kind[Root] = "file"
    /\ \A n \in Names : /\ Kind[n] \in {"file", "dir", "missing"}
                        /\ \A e \in Entries[n] : e \in Names /\ Kind[e] = "file"
ASSUME TreesAssumption == \A t \in Trees : \A n \in Names : IsFile(t[n])

VARIABLES
    tree,       \* what the files hold
    opened,     \* gOpenedFiles
    stack,      \* per file being read: directives left, directory entries left
    socket,     \* the file that has set gSocketPath
    storage,    \* and gStoragePath
    allow,      \* gAllowList
    result      \* "reading", "ok", or why an exception was thrown

vars == <<tree, opened, stack, socket, storage, allow, result>>

Frame(todo, entries) == [todo |-> todo, entries |-> entries]

Init ==
    /\ tree \in Trees
    /\ opened = {}
    /\ stack = <<Frame(<<Root>>, {})>>
    /\ socket = Nil
    /\ storage = Nil
    /\ allow = <<>>
    /\ result = "reading"

--------------------------------------------------------------------------------
\* ReadAccessAllow: a name that is unknown is logged only.
Resolved(s) == s \in {"id", "name"}
Broken(a) ==
    \/ {a.user, a.group} \cap {"failing", "mistyped"} # {}
    \/ ~(Resolved(a.user) \/ Resolved(a.group))
    \/ a.paths = "invalid"
Descriptor(a) == [user |-> Resolved(a.user), group |-> Resolved(a.group), of |-> a]

MandatoryMissing(f, isRoot) ==
    \E table \in {f.rpc, f.storage} : table = "invalid" \/ (isRoot /\ table = "absent")

\* Everything but the directives, which are tried one by one.
Invalid(f, isRoot) ==
    \/ ~f.parses
    \/ MandatoryMissing(f, isRoot)
    \/ f.access = "invalid"
    \/ f.access = "valid" /\ \E i \in 1 .. Len(f.allow) : Broken(f.allow[i])
    \/ f.includes = Nil

Throws(why) == result' = why /\ UNCHANGED <<tree, socket, storage, allow>>

\* Config::Read of a file that has not been read; rest is the stack to return to.
ReadNew(n, rest) ==
    LET f == tree[n]
        isRoot == opened = {}
    IN  /\ opened' = opened \cup {n}
        /\ \/ /\ Invalid(f, isRoot)
              /\ Throws("invalid")
              /\ stack' = rest
           \/ /\ ~Invalid(f, isRoot)
              /\ socket' = IF f.rpc = "valid" THEN n ELSE socket
              /\ storage' = IF f.storage = "valid" THEN n ELSE storage
              /\ allow' = IF f.access = "valid"
                          THEN allow \o [i \in 1 .. Len(f.allow) |-> Descriptor(f.allow[i])]
                          ELSE allow
              /\ stack' = Append(rest, Frame(f.includes, {}))
              /\ UNCHANGED <<tree, result>>

\* Config::Read.  A path that was read before is refused, however it came up again.
WaitsForOpened(n, rest) == n \notin opened /\ ReadNew(n, rest)
SkipsOpened(n, rest) ==
    \/ n \notin opened /\ ReadNew(n, rest)
    \/ n \in opened /\ stack' = rest /\ UNCHANGED <<tree, opened, socket, storage, allow, result>>
Read(n, rest) ==
    \/ n \notin opened /\ ReadNew(n, rest)
    \/ n \in opened /\ Throws("recursion") /\ stack' = rest /\ UNCHANGED opened

Reading == result = "reading" /\ stack # <<>>
Top == Last(stack)
Below == Front(stack)

\* ReadInclude: the next directive of the file on top.
ReadInclude ==
    /\ Reading /\ Top.entries = {} /\ Top.todo # <<>>
    /\ LET n == Head(Top.todo)
           rest == Append(Below, Frame(Tail(Top.todo), {}))
       IN  \/ Kind[n] = "missing" /\ Throws("missing") /\ UNCHANGED <<opened, stack>>
           \/ /\ Kind[n] = "dir"
              /\ stack' = Append(Below, Frame(Tail(Top.todo), Entries[n]))
              /\ UNCHANGED <<tree, opened, socket, storage, allow, result>>
           \/ Kind[n] = "file" /\ Read(n, rest)

\* ProcessIncludeDirectory; directory_iterator has no order.
FirstEntryOnly ==
    /\ Reading /\ Top.entries # {}
    /\ \E n \in Top.entries : Read(n, Append(Below, Frame(Top.todo, {})))
ReadEntry ==
    /\ Reading /\ Top.entries # {}
    /\ \E n \in Top.entries : Read(n, Append(Below, Frame(Top.todo, Top.entries \ {n})))

\* The file on top is done.
Return ==
    /\ Reading /\ Top = Frame(<<>>, {})
    /\ stack' = Below
    /\ result' = IF Below = <<>> THEN "ok" ELSE result
    /\ UNCHANGED <<tree, opened, socket, storage, allow>>

Next == ReadInclude \/ ReadEntry \/ Return
Spec == Init /\ [][Next]_vars /\ WF_vars(Next)

--------------------------------------------------------------------------------
(* Correctness.  The reference is the graph of what includes what.         *)

\* The files that directives name, directly or through a directory.
FilesNamed(names) ==
    {m \in names : Kind[m] = "file"} \cup UNION {Entries[m] : m \in {d \in names : Kind[d] = "dir"}}
Includes(n) == FilesNamed(IF tree[n].includes = Nil THEN {} ELSE Range(tree[n].includes))

\* What n leads to, by whatever detour: the least set that holds what n includes,
\* and what its members include.
Closed(S) == \A m \in S : Includes(m) \subseteq S
LeadsTo(n) == {m \in Names : \A S \in SUBSET Names : Includes(n) \subseteq S /\ Closed(S) => m \in S}
Reachable == {Root} \cup LeadsTo(Root)
Looping == \E n \in Reachable : n \in LeadsTo(n)

\* Where entry a is written in file n.
WrittenIn(n, a) ==
    IF tree[n].access = "valid" THEN {n} \X {i \in 1 .. Len(tree[n].allow) : tree[n].allow[i] = a}
    ELSE {}

\* Every variable holds a value of its type.
TypeOK ==
    /\ opened \subseteq {n \in Names : Kind[n] = "file"}
    /\ stack \in Seq([todo : Seq(Names), entries : SUBSET Names])
    /\ socket \in Names \cup {Nil} /\ storage \in Names \cup {Nil}
    /\ allow \in Seq({d \in [user : BOOLEAN, group : BOOLEAN, of : AllowEntries] : d.user \/ d.group})
    /\ result \in {"reading", "ok", "recursion", "invalid", "missing"}

\* A configuration that is accepted has been read whole, and each file once:
\* the files opened are those that the root leads to, the allow list has each
\* entry as often as they have it between them, and where to listen and to store, which
\* the daemon uses unchecked, was set by a valid table of one of them.
AcceptedIsWhole ==
    result = "ok" =>
        /\ opened = Reachable
        /\ \A a \in AllowEntries :
              Cardinality({i \in 1 .. Len(allow) : allow[i].of = a}) =
              Cardinality(UNION {WrittenIn(n, a) : n \in Reachable})
        /\ socket \in Reachable /\ tree[socket].rpc = "valid"
        /\ storage \in Reachable /\ tree[storage].storage = "valid"

\* No file that includes itself, by whatever detour, is accepted.
LoopsAreRejected == result = "ok" => ~Looping

\* Reading ends, whatever includes whatever.
ReadEnds == <>(result # "reading")

--------------------------------------------------------------------------------
\* "recursion detected": files are refused for that when they are in a loop only.
OnlyLoopsAreRejected == result = "recursion" => Looping

\* AccessDescriptor: "if both are specified, both must match".
BothMustMatch ==
    \A i \in 1 .. Len(allow) :
        LET a == allow[i].of
        IN  a.user # "none" /\ a.group # "none" => allow[i].user /\ allow[i].group
================================================================================
