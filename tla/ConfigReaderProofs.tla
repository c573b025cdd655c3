--------------------------- MODULE ConfigReaderProofs --------------------------
(***************************************************************************)
(* Proofs about ConfigReader: what is accepted was read whole and has no   *)
(* loop, for any names, directories and contents of files.                 *)
(***************************************************************************)
EXTENDS ConfigReader, TLAPS, SequenceTheorems, FunctionTheorems, FiniteSetTheorems

(***************************************************************************)
(* The inductive invariant.                                                *)
(***************************************************************************)

Files == {n \in Names : Kind[n] = "file"}
Frames == [todo : Seq(Names), entries : SUBSET Files]
Descriptors == {d \in [user : BOOLEAN, group : BOOLEAN, of : AllowEntries] : d.user \/ d.group}

\* The files that a frame, and that a stack, will still open.
Named(f) == FilesNamed(Range(f.todo)) \cup f.entries
Pending(s) == UNION {Named(s[i]) : i \in 1 .. Len(s)}

\* Where entry a stands in the allow list l, and where in the files of S.
Listed(l, a) == {i \in 1 .. Len(l) : l[i].of = a}
Written(S, a) == UNION {WrittenIn(n, a) : n \in S}

\* Nothing includes itself in S: of any files in it, one is included by none of them.
Ordered(S) == \A T \in SUBSET S : T # {} => \E n \in T : \A m \in T : n \notin Includes(m)

Typed ==
    /\ tree \in Trees
    /\ opened \subseteq Files /\ IsFiniteSet(opened)
    /\ stack \in Seq(Frames)
    /\ allow \in Seq(Descriptors)
    /\ result \in {"reading", "ok", "recursion", "invalid", "missing"}

\* Everything starts at the root, and leads on from there: what an opened file
\* includes was opened, or waits in some frame.
FoundInv ==
    /\ opened = {} => stack = <<Frame(<<Root>>, {})>> /\ allow = <<>> /\ result = "reading"
    /\ opened # {} => Root \in opened
    /\ opened \cup Pending(stack) \subseteq Reachable
    /\ \A n \in opened : Includes(n) \subseteq opened \cup Pending(stack)

\* A file that is opened while it waits in a frame will be refused.  As long as
\* there is none, files include only what was opened after them.
OrderInv == opened \cap Pending(stack) = {} => Ordered(opened)

\* Every entry is in the allow list as often as in the files.
ListInv ==
    \A a \in AllowEntries :
        /\ IsFiniteSet(Written(opened, a))
        /\ Cardinality(Listed(allow, a)) = Cardinality(Written(opened, a))

\* The settings come from files that were opened; the root has them both.
SettingsInv ==
    opened # {} =>
        /\ socket \in opened /\ tree[socket].rpc = "valid"
        /\ storage \in opened /\ tree[storage].storage = "valid"

Inductive ==
    /\ Typed
    /\ result = "ok" => stack = <<>>
    /\ result \in {"reading", "ok"} => FoundInv /\ OrderInv /\ ListInv /\ SettingsInv

(***************************************************************************)
(* What leads to what.                                                     *)
(***************************************************************************)

\* Files name files.
LEMMA FilesNamedAreFiles ==
    ASSUME NEW names \in SUBSET Names
    PROVE  FilesNamed(names) \subseteq Files
BY NamesAssumption DEF FilesNamed, Files

\* What two sets of directives name between them.
LEMMA FilesNamedTogether ==
    ASSUME NEW A, NEW B
    PROVE  FilesNamed(A \cup B) = FilesNamed(A) \cup FilesNamed(B)
BY DEF FilesNamed

\* The contents of a file are as the parser gives them.
LEMMA ContentsType ==
    ASSUME tree \in Trees, NEW n \in Names
    PROVE  /\ IsFile(tree[n])
           /\ tree[n].includes # Nil => Range(tree[n].includes) \subseteq Names
<1>1. IsFile(tree[n])
  BY TreesAssumption
<1>2. ASSUME tree[n].includes # Nil PROVE Range(tree[n].includes) \subseteq Names
  BY <1>1, <1>2 DEF IsFile, Range
<1> QED
  BY <1>1, <1>2

\* A file includes files.
LEMMA IncludesAreFiles ==
    ASSUME tree \in Trees, NEW n \in Names
    PROVE  Includes(n) \subseteq Files
BY ContentsType, FilesNamedAreFiles DEF Includes

\* What n leads to is the least closed set with what n includes.
LEMMA LeadsToLeast ==
    ASSUME NEW n, NEW S \in SUBSET Names, Includes(n) \subseteq S, Closed(S)
    PROVE  LeadsTo(n) \subseteq S
BY DEF LeadsTo

\* It is such a set itself.
LEMMA LeadsToClosed ==
    ASSUME tree \in Trees, NEW n \in Names
    PROVE  /\ LeadsTo(n) \subseteq Names
           /\ Includes(n) \subseteq LeadsTo(n)
           /\ Closed(LeadsTo(n))
<1>1. LeadsTo(n) \subseteq Names
  BY DEF LeadsTo
<1>2. Includes(n) \subseteq LeadsTo(n)
  BY IncludesAreFiles DEF LeadsTo, Files
<1>3. ASSUME NEW m \in LeadsTo(n), NEW k \in Includes(m) PROVE k \in LeadsTo(n)
  <2>1. m \in Names /\ k \in Names
    BY <1>1, <1>3, IncludesAreFiles DEF Files
  <2>2. ASSUME NEW S \in SUBSET Names, Includes(n) \subseteq S, Closed(S) PROVE k \in S
    BY <1>3, <2>2, LeadsToLeast DEF Closed
  <2> QED
    BY <2>1, <2>2 DEF LeadsTo
<1> QED
  BY <1>1, <1>2, <1>3 DEF Closed

\* What a member leads to, n leads to.
LEMMA LeadsOn ==
    ASSUME tree \in Trees, NEW n \in Names, NEW m \in LeadsTo(n)
    PROVE  LeadsTo(m) \subseteq LeadsTo(n)
<1>1. Includes(m) \subseteq LeadsTo(n)
  BY LeadsToClosed DEF Closed
<1> QED
  BY <1>1, LeadsToClosed, LeadsToLeast

\* The last step of a detour: a file that n leads to is included by n, or by another
\* that n leads to.
LEMMA LastStep ==
    ASSUME tree \in Trees, NEW n \in Names, NEW m \in LeadsTo(n)
    PROVE  m \in Includes(n) \/ \E k \in LeadsTo(n) : m \in Includes(k)
<1> DEFINE S == Includes(n) \cup UNION {Includes(k) : k \in LeadsTo(n)}
<1>1. LeadsTo(n) \subseteq Names /\ Includes(n) \subseteq LeadsTo(n) /\ Closed(LeadsTo(n))
  BY LeadsToClosed
<1>2. S \subseteq LeadsTo(n)
  BY <1>1 DEF Closed
<1>3. S \in SUBSET Names /\ Includes(n) \subseteq S /\ Closed(S)
  BY <1>1, <1>2 DEF Closed
<1>4. LeadsTo(n) \subseteq S
  BY <1>3, LeadsToLeast
<1> QED
  BY <1>4

\* The root and what it leads to are closed.
LEMMA ReachableClosed ==
    ASSUME tree \in Trees
    PROVE  Reachable \subseteq Names /\ Closed(Reachable)
BY LeadsToClosed, NamesAssumption DEF Reachable, Closed

\* The graph of what is included is that of the tree.
LEMMA SameTree ==
    ASSUME tree' = tree
    PROVE  /\ \A n : Includes(n)' = Includes(n)
           /\ Reachable' = Reachable
           /\ \A S : Closed(S)' = Closed(S) /\ Ordered(S)' = Ordered(S)
           /\ \A S, a : Written(S, a)' = Written(S, a)
<1>1. \A n : Includes(n)' = Includes(n)
  BY DEF Includes
<1>2. \A S : Closed(S)' = Closed(S)
  BY <1>1 DEF Closed
<1>3. Reachable' = Reachable
  BY <1>1, <1>2 DEF Reachable, LeadsTo
<1>4. \A S : Ordered(S)' = Ordered(S)
  BY <1>1 DEF Ordered
<1>5. \A S, a : Written(S, a)' = Written(S, a)
  BY DEF Written, WrittenIn
<1> QED
  BY <1>1, <1>2, <1>3, <1>4, <1>5

\* In an order that no file breaks, no file is in a loop.
LEMMA OrderedHasNoLoop ==
    ASSUME tree \in Trees, NEW S \in SUBSET Names, Closed(S), Ordered(S), NEW n \in S
    PROVE  n \notin LeadsTo(n)
<1> SUFFICES ASSUME n \in LeadsTo(n) PROVE FALSE
  OBVIOUS
<1> DEFINE T == {m \in LeadsTo(n) : n \in LeadsTo(m)}
<1>1. LeadsTo(n) \subseteq S
  BY LeadsToLeast DEF Closed
<1>2. T \in SUBSET S /\ n \in T
  BY <1>1
<1>3. PICK m \in T : \A k \in T : m \notin Includes(k)
  BY <1>2 DEF Ordered
<1>4. m \notin Includes(n)
  BY <1>2, <1>3
<1>5. PICK k \in LeadsTo(n) : m \in Includes(k)
  BY <1>3, <1>4, LastStep
<1>6. k \in Names /\ m \in LeadsTo(k)
  BY <1>1, <1>5, LeadsToClosed
<1>7. n \in LeadsTo(k)
  BY <1>3, <1>6, LeadsOn
<1> QED
  BY <1>3, <1>5, <1>7

(***************************************************************************)
(* The stack, and the order of files.                                      *)
(***************************************************************************)

\* What is left when the frame on top is taken off.
LEMMA StackParts ==
    ASSUME NEW s \in Seq(Frames), s # <<>>
    PROVE  /\ Front(s) \in Seq(Frames) /\ Last(s) \in Frames
           /\ Pending(s) = Pending(Front(s)) \cup Named(Last(s))
<1>1. /\ Len(s) \in Nat \ {0} /\ Front(s) \in Seq(Frames) /\ Len(Front(s)) = Len(s) - 1
      /\ \A i \in 1 .. Len(Front(s)) : Front(s)[i] = s[i]
  <2> DEFINE n == Len(s) - 1
  <2>1. Len(s) \in Nat \ {0} /\ Front(s) = SubSeq(s, 1, n)
    BY EmptySeq DEF Front
  <2>2. 1 \in Int /\ n \in Int /\ \A i \in 1 .. n : s[i] \in Frames
    BY <2>1
  <2> HIDE DEF n
  <2>3. /\ SubSeq(s, 1, n) \in Seq(Frames)
        /\ Len(SubSeq(s, 1, n)) = IF 1 <= n THEN n - 1 + 1 ELSE 0
        /\ \A i \in 1 .. n - 1 + 1 : SubSeq(s, 1, n)[i] = s[1 + i - 1]
    BY <2>2, SubSeqProperties
  <2>4. n \in Nat /\ n = Len(s) - 1
    BY <2>1 DEF n
  <2>5. Len(Front(s)) = n
    BY <2>1, <2>3, <2>4
  <2>6. ASSUME NEW i \in 1 .. n PROVE Front(s)[i] = s[i]
    <3>1. i \in 1 .. n - 1 + 1 /\ 1 + i - 1 = i
      BY <2>4
    <3> QED
      BY <2>1, <2>3, <3>1
  <2> QED
    BY <2>1, <2>3, <2>4, <2>5, <2>6
<1>2. Last(s) \in Frames
  BY <1>1 DEF Last
<1>3. 1 .. Len(s) = (1 .. Len(Front(s))) \cup {Len(s)}
  BY <1>1
<1>4. Pending(Front(s)) = UNION {Named(s[i]) : i \in 1 .. Len(Front(s))}
  BY <1>1 DEF Pending
<1> QED
  BY <1>1, <1>2, <1>3, <1>4 DEF Pending, Last

\* What another frame adds.
LEMMA StackGrows ==
    ASSUME NEW s \in Seq(Frames), NEW f \in Frames
    PROVE  Append(s, f) \in Seq(Frames) /\ Pending(Append(s, f)) = Pending(s) \cup Named(f)
<1> DEFINE t == Append(s, f)
<1>1. /\ t \in Seq(Frames) /\ Len(s) \in Nat /\ Len(t) = Len(s) + 1
      /\ \A i \in 1 .. Len(s) : t[i] = s[i]
      /\ t[Len(s) + 1] = f
  BY AppendProperties
<1>2. 1 .. Len(t) = (1 .. Len(s)) \cup {Len(s) + 1}
  BY <1>1
<1> HIDE DEF t
<1>3. {Named(t[i]) : i \in 1 .. Len(t)} = {Named(s[i]) : i \in 1 .. Len(s)} \cup {Named(f)}
  BY <1>1, <1>2
<1> QED
  BY <1>1, <1>3 DEF t, Pending

\* The next directive and the others.
LEMMA DirectivesParts ==
    ASSUME NEW todo \in Seq(Names), todo # <<>>
    PROVE  /\ Head(todo) \in Names /\ Tail(todo) \in Seq(Names)
           /\ Range(todo) = {Head(todo)} \cup Range(Tail(todo))
<1>1. /\ Head(todo) \in Names /\ Tail(todo) \in Seq(Names) /\ Head(todo) = todo[1]
      /\ Len(todo) \in Nat \ {0} /\ Len(Tail(todo)) = Len(todo) - 1
      /\ \A i \in 1 .. Len(Tail(todo)) : Tail(todo)[i] = todo[i + 1]
  BY HeadTailProperties
<1>2. ASSUME NEW i \in 1 .. Len(todo) PROVE todo[i] \in {Head(todo)} \cup Range(Tail(todo))
  <2>1. CASE i = 1
    BY <1>1, <2>1
  <2>2. CASE i # 1
    <3>1. i - 1 \in 1 .. Len(Tail(todo)) /\ Tail(todo)[i - 1] = todo[i]
      BY <1>1, <2>2
    <3>2. DOMAIN Tail(todo) = 1 .. Len(Tail(todo))
      BY <1>1
    <3> QED
      BY <3>1, <3>2 DEF Range
  <2> QED
    BY <2>1, <2>2
<1>3. ASSUME NEW i \in 1 .. Len(Tail(todo)) PROVE Tail(todo)[i] \in Range(todo)
  <2>1. i + 1 \in 1 .. Len(todo)
    BY <1>1
  <2> QED
    BY <1>1, <2>1 DEF Range
<1>4. Head(todo) \in Range(todo)
  BY <1>1 DEF Range
<1>5. DOMAIN todo = 1 .. Len(todo) /\ DOMAIN Tail(todo) = 1 .. Len(Tail(todo))
  BY <1>1
<1>6. Range(todo) \subseteq {Head(todo)} \cup Range(Tail(todo))
  BY <1>2, <1>5 DEF Range
<1>7. Range(Tail(todo)) \subseteq Range(todo)
  BY <1>3, <1>5 DEF Range
<1> QED
  BY <1>1, <1>4, <1>6, <1>7

\* A frame waits for files.
LEMMA NamedAreFiles ==
    ASSUME NEW f \in Frames
    PROVE  Named(f) \subseteq Files
<1>1. Range(f.todo) \subseteq Names
  BY DEF Frames, Range
<1> QED
  BY <1>1, FilesNamedAreFiles DEF Named, Frames

\* A file that includes neither itself nor an earlier one comes last.
LEMMA OrderedGrows ==
    ASSUME NEW S, NEW n, Ordered(S), Includes(n) \cap (S \cup {n}) = {}
    PROVE  Ordered(S \cup {n})
<1> SUFFICES ASSUME NEW T \in SUBSET (S \cup {n}), T # {}
             PROVE  \E k \in T : \A m \in T : k \notin Includes(m)
  BY DEF Ordered
<1>1. CASE T = {n}
  BY <1>1
<1>2. CASE T # {n}
  <2>1. T \ {n} \in SUBSET S /\ T \ {n} # {}
    BY <1>2
  <2>2. PICK k \in T \ {n} : \A m \in T \ {n} : k \notin Includes(m)
    BY <2>1 DEF Ordered
  <2>3. k \notin Includes(n)
    BY <2>1, <2>2
  <2> QED
    BY <2>2, <2>3
<1> QED
  BY <1>1, <1>2

(***************************************************************************)
(* The allow list.                                                         *)
(***************************************************************************)

\* Moved by c, numbers are as many as before.
LEMMA MovedAsMany ==
    ASSUME NEW I \in SUBSET Nat, IsFiniteSet(I), NEW c \in Nat
    PROVE  IsFiniteSet({c + i : i \in I}) /\ Cardinality({c + i : i \in I}) = Cardinality(I)
<1> DEFINE shift == [i \in I |-> c + i]
<1>1. shift \in Bijection(I, {c + i : i \in I})
  BY Fun_IsBij
<1>2. ExistsBijection(I, {c + i : i \in I})
  BY <1>1 DEF ExistsBijection
<1> QED
  BY <1>2, FS_Bijection

\* So they are when they are paired with n.
LEMMA PairedAsMany ==
    ASSUME NEW I, IsFiniteSet(I), NEW n
    PROVE  IsFiniteSet({n} \X I) /\ Cardinality({n} \X I) = Cardinality(I)
<1> DEFINE pair == [i \in I |-> <<n, i>>]
<1>1. pair \in Bijection(I, {n} \X I)
  BY Fun_IsBij
<1>2. ExistsBijection(I, {n} \X I)
  BY <1>1 DEF ExistsBijection
<1> QED
  BY <1>2, FS_Bijection

\* Sets that share nothing add up.
LEMMA DisjointAddUp ==
    ASSUME NEW A, NEW B, IsFiniteSet(A), IsFiniteSet(B), A \cap B = {}
    PROVE  /\ IsFiniteSet(A \cup B)
           /\ Cardinality(A \cup B) = Cardinality(A) + Cardinality(B)
<1>1. Cardinality(A \cap B) = 0
  BY FS_EmptySet
<1>2. /\ IsFiniteSet(A \cup B)
      /\ Cardinality(A \cup B) = Cardinality(A) + Cardinality(B) - Cardinality(A \cap B)
  BY FS_Union
<1>3. Cardinality(A) \in Nat /\ Cardinality(B) \in Nat
  BY FS_CardinalityType
<1> QED
  BY <1>1, <1>2, <1>3

\* A list has finitely many entries.
LEMMA ListedFinite ==
    ASSUME NEW l \in Seq(Descriptors), NEW a
    PROVE  Listed(l, a) \in SUBSET Nat /\ IsFiniteSet(Listed(l, a))
<1>1. 1 \in Int /\ Len(l) \in Int /\ Listed(l, a) \in SUBSET (1 .. Len(l))
  BY DEF Listed
<1>2. IsFiniteSet(1 .. Len(l))
  BY <1>1, FS_Interval, Zenon
<1>3. IsFiniteSet(Listed(l, a))
  BY <1>1, <1>2, FS_Subset
<1> QED
  BY <1>1, <1>3

\* An entry is in two lists together as often as in each.
LEMMA ListsAddUp ==
    ASSUME NEW l \in Seq(Descriptors), NEW k \in Seq(Descriptors), NEW a
    PROVE  Cardinality(Listed(l \o k, a)) = Cardinality(Listed(l, a)) + Cardinality(Listed(k, a))
<1> DEFINE c == Len(l)
           L == Listed(l, a)
           K == Listed(k, a)
           moved == {c + i : i \in K}
<1>1. /\ c \in Nat /\ K \in SUBSET Nat /\ IsFiniteSet(K) /\ IsFiniteSet(L)
  BY ListedFinite
<1>2. Listed(l \o k, a) = L \cup moved
  <2>1. /\ Len(l) \in Nat /\ Len(k) \in Nat /\ Len(l \o k) = Len(l) + Len(k)
        /\ \A i \in 1 .. Len(l) : (l \o k)[i] = l[i]
        /\ \A i \in 1 .. Len(k) : (l \o k)[Len(l) + i] = k[i]
    BY ConcatProperties
  <2>2. ASSUME NEW i \in Listed(l \o k, a) PROVE i \in L \cup moved
    <3>1. CASE i <= Len(l)
      BY <2>1, <2>2, <3>1 DEF Listed
    <3>2. CASE ~(i <= Len(l))
      <4>1. i - Len(l) \in 1 .. Len(k) /\ i = Len(l) + (i - Len(l))
        BY <2>1, <2>2, <3>2 DEF Listed
      <4>2. i - Len(l) \in K
        BY <2>1, <2>2, <4>1 DEF Listed
      <4> QED
        BY <4>1, <4>2
    <3> QED
      BY <3>1, <3>2
  <2>3. L \subseteq Listed(l \o k, a)
    BY <2>1 DEF Listed
  <2>4. ASSUME NEW i \in K PROVE c + i \in Listed(l \o k, a)
    BY <2>1, <2>4 DEF Listed
  <2> QED
    BY <2>2, <2>3, <2>4
<1>3. L \cap moved = {}
  BY <1>1 DEF Listed
<1> HIDE DEF c, K, L
<1>4. IsFiniteSet(moved) /\ Cardinality(moved) = Cardinality(K)
  BY <1>1, MovedAsMany
<1> HIDE DEF moved
<1>5. Cardinality(L \cup moved) = Cardinality(L) + Cardinality(moved)
  BY <1>1, <1>3, <1>4, DisjointAddUp
<1> QED
  BY <1>2, <1>4, <1>5 DEF K, L

(***************************************************************************)
(* Every step keeps the invariant.                                         *)
(***************************************************************************)

\* An exception leaves nothing to be shown but types.
LEMMA ThrowsKeeps ==
    ASSUME Inductive, NEW why \in {"recursion", "invalid", "missing"}, Throws(why),
           opened' \subseteq Files, IsFiniteSet(opened'), stack' \in Seq(Frames)
    PROVE  Inductive'
BY DEF Inductive, Typed, Throws

\* A file that is valid is of its type, and so are its entries.
LEMMA ValidContents ==
    ASSUME Inductive, NEW n \in Names, NEW isRoot \in BOOLEAN, ~Invalid(tree[n], isRoot)
    PROVE  LET f == tree[n]
               added == [i \in 1 .. Len(f.allow) |-> Descriptor(f.allow[i])]
           IN  /\ {f.rpc, f.storage} \subseteq {"absent", "valid"}
               /\ isRoot => f.rpc = "valid" /\ f.storage = "valid"
               /\ Frame(f.includes, {}) \in Frames /\ Named(Frame(f.includes, {})) = Includes(n)
               /\ f.access = "valid" =>
                     /\ added \in Seq(Descriptors)
                     /\ \A a : WrittenIn(n, a) = {n} \X Listed(added, a)
<1> DEFINE f == tree[n]
           added == [i \in 1 .. Len(f.allow) |-> Descriptor(f.allow[i])]
<1>1. IsFile(f)
  BY ContentsType DEF Inductive, Typed
<1>2. /\ {f.rpc, f.storage} \subseteq {"absent", "valid"}
      /\ isRoot => f.rpc = "valid" /\ f.storage = "valid"
  BY <1>1 DEF IsFile, Invalid, MandatoryMissing, Tables
<1>3. Frame(f.includes, {}) \in Frames /\ Named(Frame(f.includes, {})) = Includes(n)
  BY <1>1 DEF IsFile, Invalid, Frame, Frames, Named, Includes
<1>4. ASSUME f.access = "valid"
      PROVE  added \in Seq(Descriptors) /\ \A a : WrittenIn(n, a) = {n} \X Listed(added, a)
  <2>1. f.allow \in Seq(AllowEntries) /\ Len(f.allow) \in Nat
    BY <1>1 DEF IsFile
  <2>2. ASSUME NEW i \in 1 .. Len(f.allow)
        PROVE  Descriptor(f.allow[i]) \in Descriptors /\ Descriptor(f.allow[i]).of = f.allow[i]
    <3>1. f.allow[i] \in AllowEntries
      BY <2>1
    <3>2. Resolved(f.allow[i].user) \/ Resolved(f.allow[i].group)
      BY <1>4 DEF Invalid, Broken
    <3>3. Resolved(f.allow[i].user) \in BOOLEAN /\ Resolved(f.allow[i].group) \in BOOLEAN
      BY DEF Resolved
    <3> QED
      BY <3>1, <3>2, <3>3 DEF Descriptor, Descriptors
  <2>3. added \in Seq(Descriptors) /\ Len(added) = Len(f.allow)
    BY <2>1, <2>2
  <2>4. ASSUME NEW a PROVE WrittenIn(n, a) = {n} \X Listed(added, a)
    <3>1. Listed(added, a) = {i \in 1 .. Len(f.allow) : f.allow[i] = a}
      BY <2>2, <2>3 DEF Listed
    <3> QED
      BY <1>4, <3>1 DEF WrittenIn
  <2> QED
    BY <2>3, <2>4
<1> QED
  BY <1>2, <1>3, <1>4

\* The next file is read: it was waiting, and the rest waits on.
LEMMA ReadKeeps ==
    ASSUME Inductive, result = "reading", NEW n \in Files, NEW rest \in Seq(Frames),
           Pending(stack) = Pending(rest) \cup {n}, opened = {} => n = Root,
           Read(n, rest)
    PROVE  Inductive'
<1>0. /\ Typed /\ FoundInv /\ OrderInv /\ ListInv /\ SettingsInv /\ tree \in Trees
      /\ n \in Names /\ opened \subseteq Files /\ IsFiniteSet(opened) /\ stack \in Seq(Frames)
  BY DEF Inductive, Typed, Files
<1>1. CASE n \in opened
  <2>1. Throws("recursion") /\ stack' = rest /\ UNCHANGED opened
    BY <1>1 DEF Read, ReadNew
  <2> QED
    BY <1>0, <2>1, ThrowsKeeps
<1>2. CASE n \notin opened /\ Invalid(tree[n], opened = {})
  <2>1. opened' = opened \cup {n} /\ Throws("invalid") /\ stack' = rest
    BY <1>2 DEF Read, ReadNew
  <2>2. opened' \subseteq Files /\ IsFiniteSet(opened')
    BY <1>0, <2>1, FS_AddElement
  <2> QED
    BY <2>1, <2>2, ThrowsKeeps
<1>3. CASE n \notin opened /\ ~Invalid(tree[n], opened = {})
  <2> DEFINE f == tree[n]
             added == [i \in 1 .. Len(f.allow) |-> Descriptor(f.allow[i])]
             new == Frame(f.includes, {})
  <2>1. /\ opened' = opened \cup {n} /\ stack' = Append(rest, new)
        /\ socket' = (IF f.rpc = "valid" THEN n ELSE socket)
        /\ storage' = (IF f.storage = "valid" THEN n ELSE storage)
        /\ allow' = (IF f.access = "valid" THEN allow \o added ELSE allow)
        /\ tree' = tree /\ result' = result
    BY <1>3 DEF Read, ReadNew
  <2>2. /\ {f.rpc, f.storage} \subseteq {"absent", "valid"}
        /\ opened = {} => f.rpc = "valid" /\ f.storage = "valid"
        /\ new \in Frames /\ Named(new) = Includes(n)
        /\ f.access = "valid" =>
              added \in Seq(Descriptors) /\ \A a : WrittenIn(n, a) = {n} \X Listed(added, a)
    <3> DEFINE isRoot == opened = {}
    <3>1. isRoot \in BOOLEAN /\ ~Invalid(tree[n], isRoot)
      BY <1>3
    <3> HIDE DEF isRoot
    <3>2. /\ {f.rpc, f.storage} \subseteq {"absent", "valid"}
          /\ isRoot => f.rpc = "valid" /\ f.storage = "valid"
          /\ new \in Frames /\ Named(new) = Includes(n)
          /\ f.access = "valid" =>
                added \in Seq(Descriptors) /\ \A a : WrittenIn(n, a) = {n} \X Listed(added, a)
      BY <1>0, <3>1, ValidContents
    <3> QED
      BY <3>2 DEF isRoot
  <2> HIDE DEF new, added
  <2>3. stack' \in Seq(Frames) /\ Pending(stack') = Pending(rest) \cup Includes(n)
    BY <2>1, <2>2, StackGrows
  <2>4. opened' \subseteq Files /\ IsFiniteSet(opened')
    BY <1>0, <2>1, FS_AddElement
  <2>5. allow' \in Seq(Descriptors)
    <3>1. allow \in Seq(Descriptors)
      BY <1>0 DEF Typed
    <3> QED
      BY <2>1, <2>2, <3>1, ConcatProperties
  <2>6. Typed'
    BY <1>0, <2>1, <2>3, <2>4, <2>5 DEF Typed
  <2>7. FoundInv'
    <3>1. n \in Reachable /\ Includes(n) \subseteq Reachable
      BY <1>0, ReachableClosed DEF FoundInv, Closed
    <3>2. opened' # {} /\ Root \in opened'
      BY <1>0, <2>1 DEF FoundInv
    <3>3. opened' \cup Pending(stack') \subseteq Reachable
      BY <1>0, <2>1, <2>3, <3>1 DEF FoundInv
    <3>4. \A m \in opened' : Includes(m) \subseteq opened' \cup Pending(stack')
      BY <1>0, <2>1, <2>3 DEF FoundInv
    <3>5. Reachable' = Reachable /\ \A m : Includes(m)' = Includes(m)
      BY <2>1, SameTree
    <3>6. Pending(stack)' = Pending(stack')
      OBVIOUS
    <3>7. \A m \in opened' : Includes(m)' \subseteq opened' \cup Pending(stack)'
      BY <3>4, <3>5, <3>6
    <3> QED
      BY <3>2, <3>3, <3>5, <3>6, <3>7 DEF FoundInv
  <2>8. OrderInv'
    <3>1. SUFFICES ASSUME opened' \cap Pending(stack') = {}
                   PROVE  Ordered(opened')
      BY <2>1, SameTree DEF OrderInv
    <3>2. Ordered(opened)
      BY <1>0, <1>3, <2>1, <2>3, <3>1 DEF OrderInv
    <3>3. Includes(n) \cap (opened \cup {n}) = {}
      BY <2>1, <2>3, <3>1
    <3> QED
      BY <2>1, <3>2, <3>3, OrderedGrows
  <2>9. ListInv'
    <3> SUFFICES ASSUME NEW a \in AllowEntries
                 PROVE  /\ IsFiniteSet(Written(opened', a))
                        /\ Cardinality(Listed(allow', a)) = Cardinality(Written(opened', a))
      BY <2>1, SameTree DEF ListInv
    <3>1. /\ IsFiniteSet(Written(opened, a))
          /\ Cardinality(Listed(allow, a)) = Cardinality(Written(opened, a))
      BY <1>0 DEF ListInv
    <3>2. Written(opened', a) = Written(opened, a) \cup WrittenIn(n, a)
      BY <2>1 DEF Written
    <3>3. CASE f.access = "valid"
      <4>1. Written(opened, a) \cap ({n} \X Listed(added, a)) = {}
        BY <1>3 DEF Written, WrittenIn
      <4>2. allow' = allow \o added /\ allow \in Seq(Descriptors) /\ added \in Seq(Descriptors)
        BY <1>0, <2>1, <2>2, <3>3 DEF Typed
      <4>3. WrittenIn(n, a) = {n} \X Listed(added, a)
        BY <2>2, <3>3
      <4>4. /\ IsFiniteSet(WrittenIn(n, a))
            /\ Cardinality(WrittenIn(n, a)) = Cardinality(Listed(added, a))
        <5> DEFINE K == Listed(added, a)
        <5>1. IsFiniteSet(K) /\ WrittenIn(n, a) = {n} \X K
          BY <4>2, <4>3, ListedFinite
        <5> HIDE DEF K
        <5>2. IsFiniteSet({n} \X K) /\ Cardinality({n} \X K) = Cardinality(K)
          BY <5>1, PairedAsMany
        <5> QED
          BY <5>1, <5>2 DEF K
      <4>5. /\ IsFiniteSet(Written(opened', a))
            /\ Cardinality(Written(opened', a))
                  = Cardinality(Written(opened, a)) + Cardinality(WrittenIn(n, a))
        <5> DEFINE A == Written(opened, a)
                   B == WrittenIn(n, a)
        <5>1. IsFiniteSet(A) /\ IsFiniteSet(B) /\ A \cap B = {}
          BY <3>1, <4>1, <4>3, <4>4
        <5>2. Written(opened', a) = A \cup B
          BY <3>2
        <5> HIDE DEF A, B
        <5>3. IsFiniteSet(A \cup B) /\ Cardinality(A \cup B) = Cardinality(A) + Cardinality(B)
          BY <5>1, DisjointAddUp
        <5> QED
          BY <5>2, <5>3 DEF A, B
      <4>6. Cardinality(Listed(allow', a))
               = Cardinality(Listed(allow, a)) + Cardinality(Listed(added, a))
        BY <4>2, ListsAddUp
      <4> QED
        BY <3>1, <4>4, <4>5, <4>6
    <3>4. CASE f.access # "valid"
      BY <2>1, <3>1, <3>2, <3>4 DEF WrittenIn
    <3> QED
      BY <3>3, <3>4
  <2>10. SettingsInv'
    <3>1. n \in opened' /\ opened \subseteq opened' /\ tree' = tree
      BY <2>1
    <3>2. socket' \in opened' /\ tree[socket'].rpc = "valid"
      BY <1>0, <2>1, <2>2, <3>1 DEF SettingsInv
    <3>3. storage' \in opened' /\ tree[storage'].storage = "valid"
      BY <1>0, <2>1, <2>2, <3>1 DEF SettingsInv
    <3> QED
      BY <3>1, <3>2, <3>3 DEF SettingsInv
  <2> QED
    BY <2>1, <2>6, <2>7, <2>8, <2>9, <2>10 DEF Inductive
<1> QED
  BY <1>1, <1>2, <1>3 DEF Read, ReadNew

\* A step that opens nothing and leaves the same files waiting.
LEMMA WaitingKeeps ==
    ASSUME Inductive, result = "reading", opened # {},
           stack' \in Seq(Frames), Pending(stack') = Pending(stack),
           UNCHANGED <<tree, opened, socket, storage, allow>>,
           result' = "reading" \/ (result' = "ok" /\ stack' = <<>>)
    PROVE  Inductive'
<1>1. Typed'
  BY DEF Inductive, Typed
<1>2. /\ Reachable' = Reachable /\ Pending(stack)' = Pending(stack)
      /\ \A n : Includes(n)' = Includes(n)
      /\ Ordered(opened)' = Ordered(opened) /\ \A a : Written(opened, a)' = Written(opened, a)
  BY SameTree
<1>3. FoundInv'
  BY <1>2 DEF Inductive, FoundInv
<1>4. OrderInv'
  BY <1>2 DEF Inductive, OrderInv
<1>5. ListInv'
  BY <1>2 DEF Inductive, ListInv
<1>6. SettingsInv'
  BY DEF Inductive, SettingsInv
<1> QED
  BY <1>1, <1>3, <1>4, <1>5, <1>6 DEF Inductive

\* At first the root waits, and nothing is known of any file.
LEMMA InitInductive == Init => Inductive
<1> SUFFICES ASSUME Init PROVE Inductive
  OBVIOUS
<1> DEFINE first == Frame(<<Root>>, {})
<1>1. first \in Frames /\ stack = <<first>> /\ opened = {} /\ allow = <<>> /\ result = "reading"
  BY NamesAssumption DEF Init, Frame, Frames
<1>2. Named(first) = {Root}
  BY NamesAssumption DEF Frame, Named, FilesNamed, Range
<1> HIDE DEF first
<1>3. stack \in Seq(Frames) /\ Pending(stack) = {Root}
  BY <1>1, <1>2 DEF Pending
<1>4. Typed
  BY <1>1, <1>3, FS_EmptySet DEF Init, Typed
<1>5. FoundInv
  BY <1>1, <1>3 DEF FoundInv, Reachable, first
<1>6. OrderInv
  BY <1>1 DEF OrderInv, Ordered
<1>7. ListInv
  <2>1. \A a : Listed(allow, a) = {} /\ Written(opened, a) = {}
    BY <1>1 DEF Listed, Written
  <2> QED
    BY <2>1, FS_EmptySet DEF ListInv
<1> QED
  BY <1>1, <1>4, <1>5, <1>6, <1>7 DEF Inductive, SettingsInv

\* While files are read, the frame on top is one of the stack's.
LEMMA TopIs ==
    ASSUME Inductive, Reading
    PROVE  /\ stack \in Seq(Frames) /\ Top \in Frames /\ Below \in Seq(Frames)
           /\ Pending(stack) = Pending(Below) \cup Named(Top)
           /\ opened = {} => Top = Frame(<<Root>>, {}) /\ Below = <<>>
<1>1. stack \in Seq(Frames) /\ stack # <<>>
  BY DEF Inductive, Typed, Reading
<1>2. /\ Top \in Frames /\ Below \in Seq(Frames)
      /\ Pending(stack) = Pending(Below) \cup Named(Top)
  BY <1>1, StackParts DEF Top, Below
<1>3. ASSUME opened = {} PROVE Top = Frame(<<Root>>, {}) /\ Below = <<>>
  BY <1>3 DEF Inductive, FoundInv, Reading, Top, Below, Last, Front
<1> QED
  BY <1>1, <1>2, <1>3

\* A directive: its file is read, or its directory is listed.
LEMMA ReadIncludeKeeps == Inductive /\ ReadInclude => Inductive'
<1> SUFFICES ASSUME Inductive, ReadInclude PROVE Inductive'
  OBVIOUS
<1> DEFINE n == Head(Top.todo)
           left == Frame(Tail(Top.todo), {})
           rest == Append(Below, left)
<1>1. Reading /\ result = "reading" /\ Top.entries = {} /\ Top.todo # <<>>
  BY DEF ReadInclude, Reading
<1>2. /\ Top \in Frames /\ Below \in Seq(Frames) /\ Top.todo \in Seq(Names)
      /\ Pending(stack) = Pending(Below) \cup Named(Top)
      /\ opened = {} => Top = Frame(<<Root>>, {})
  BY <1>1, TopIs DEF Frames
<1>3. n \in Names /\ left \in Frames /\ Range(Top.todo) = {n} \cup Range(Tail(Top.todo))
  BY <1>1, <1>2, DirectivesParts DEF Frame, Frames
<1>4. Named(Top) = FilesNamed({n}) \cup Named(left)
  <2>1. Named(Top) = FilesNamed(Range(Top.todo)) /\ Named(left) = FilesNamed(Range(Tail(Top.todo)))
    BY <1>1 DEF Named, Frame
  <2> QED
    BY <1>3, <2>1, FilesNamedTogether
<1>5. opened = {} => n = Root
  BY <1>2 DEF Frame
<1>6. CASE Kind[n] = "missing" /\ Throws("missing") /\ UNCHANGED <<opened, stack>>
  BY <1>6, ThrowsKeeps DEF Inductive, Typed
<1>7. CASE /\ Kind[n] = "dir"
           /\ stack' = Append(Below, Frame(Tail(Top.todo), Entries[n]))
           /\ UNCHANGED <<tree, opened, socket, storage, allow, result>>
  <2> DEFINE listing == Frame(Tail(Top.todo), Entries[n])
  <2>1. listing \in Frames /\ FilesNamed({n}) = Entries[n]
    BY <1>3, <1>7, NamesAssumption DEF Frame, Frames, Files, FilesNamed
  <2>2. Named(listing) = Named(Top)
    BY <1>4, <2>1 DEF Named, Frame
  <2> HIDE DEF listing
  <2>3. stack' \in Seq(Frames) /\ Pending(stack') = Pending(stack)
    BY <1>2, <1>7, <2>1, <2>2, StackGrows DEF listing
  <2>4. opened # {}
    BY <1>5, <1>7, NamesAssumption
  <2> QED
    BY <1>1, <1>7, <2>3, <2>4, WaitingKeeps
<1>8. CASE Kind[n] = "file" /\ Read(n, rest)
  <2>1. n \in Files /\ FilesNamed({n}) = {n}
    BY <1>3, <1>8 DEF Files, FilesNamed
  <2>2. rest \in Seq(Frames) /\ Pending(rest) = Pending(Below) \cup Named(left)
    BY <1>2, <1>3, StackGrows
  <2> HIDE DEF n, left, rest
  <2>3. Pending(stack) = Pending(rest) \cup {n}
    BY <1>2, <1>4, <2>1, <2>2
  <2> QED
    BY <1>1, <1>5, <1>8, <2>1, <2>2, <2>3, ReadKeeps
<1> QED
  BY <1>6, <1>7, <1>8 DEF ReadInclude

\* A directory's file is read, whichever comes next.
LEMMA ReadEntryKeeps == Inductive /\ ReadEntry => Inductive'
<1> SUFFICES ASSUME Inductive, ReadEntry PROVE Inductive'
  OBVIOUS
<1>1. Reading /\ result = "reading" /\ Top.entries # {}
  BY DEF ReadEntry, Reading
<1>2. /\ Top \in Frames /\ Below \in Seq(Frames)
      /\ Pending(stack) = Pending(Below) \cup Named(Top)
      /\ opened = {} => Top = Frame(<<Root>>, {})
  BY <1>1, TopIs
<1>3. PICK n \in Top.entries : Read(n, Append(Below, Frame(Top.todo, Top.entries \ {n})))
  BY DEF ReadEntry
<1> DEFINE left == Frame(Top.todo, Top.entries \ {n})
           rest == Append(Below, left)
<1>4. n \in Files /\ left \in Frames /\ Named(Top) = {n} \cup Named(left)
  BY <1>2, <1>3 DEF Frame, Frames, Named
<1> HIDE DEF left
<1>5. rest \in Seq(Frames) /\ Pending(rest) = Pending(Below) \cup Named(left)
  BY <1>2, <1>4, StackGrows
<1>6. Pending(stack) = Pending(rest) \cup {n}
  BY <1>2, <1>4, <1>5
<1>7. opened # {}
  BY <1>1, <1>2 DEF Frame
<1>8. Read(n, rest)
  BY <1>3 DEF left
<1> HIDE DEF rest
<1> QED
  BY <1>1, <1>4, <1>5, <1>6, <1>7, <1>8, ReadKeeps

\* A file is done: nothing waits in its frame.
LEMMA ReturnKeeps == Inductive /\ Return => Inductive'
<1> SUFFICES ASSUME Inductive, Return PROVE Inductive'
  OBVIOUS
<1>1. Reading /\ result = "reading" /\ Top = Frame(<<>>, {})
  BY DEF Return, Reading
<1>2. /\ Below \in Seq(Frames) /\ Pending(stack) = Pending(Below) \cup Named(Top)
      /\ opened = {} => Top = Frame(<<Root>>, {})
  BY <1>1, TopIs
<1>3. Named(Top) = {}
  BY <1>1 DEF Frame, Named, FilesNamed, Range
<1>4. opened # {}
  BY <1>1, <1>2 DEF Frame
<1>5. stack' \in Seq(Frames) /\ Pending(stack') = Pending(stack)
  BY <1>2, <1>3 DEF Return
<1>6. result' = "reading" \/ (result' = "ok" /\ stack' = <<>>)
  BY <1>1 DEF Return
<1> QED
  BY <1>1, <1>4, <1>5, <1>6, WaitingKeeps DEF Return

(***************************************************************************)
(* Theorems.                                                               *)
(***************************************************************************)

\* The files opened and those that wait are what has been found of the root's so
\* far, and files include only what was opened after them, or reading will fail.
THEOREM InductiveInvariant == Spec => []Inductive
<1>1. Inductive /\ [Next]_vars => Inductive'
  <2> SUFFICES ASSUME Inductive, [Next]_vars PROVE Inductive'
    OBVIOUS
  <2>1. CASE ReadInclude
    BY <2>1, ReadIncludeKeeps
  <2>2. CASE ReadEntry
    BY <2>2, ReadEntryKeeps
  <2>3. CASE Return
    BY <2>3, ReturnKeeps
  <2>4. CASE UNCHANGED vars
    <3>1. Typed' = Typed /\ FoundInv' = FoundInv /\ OrderInv' = OrderInv
      BY <2>4, SameTree DEF vars, Typed, FoundInv, OrderInv
    <3>2. ListInv' = ListInv /\ SettingsInv' = SettingsInv
      BY <2>4, SameTree DEF vars, ListInv, SettingsInv
    <3> QED
      BY <2>4, <3>1, <3>2 DEF vars, Inductive
  <2> QED
    BY <2>1, <2>2, <2>3, <2>4 DEF Next
<1> QED
  BY <1>1, InitInductive, PTL DEF Spec

\* When reading is done, what was opened is closed.
LEMMA DoneIsClosed ==
    ASSUME Inductive, result = "ok"
    PROVE  /\ FoundInv /\ OrderInv /\ ListInv /\ SettingsInv /\ tree \in Trees
           /\ opened = Reachable /\ opened \subseteq Names /\ Closed(opened) /\ Ordered(opened)
<1>1. /\ FoundInv /\ OrderInv /\ ListInv /\ SettingsInv /\ tree \in Trees
      /\ stack = <<>> /\ opened \subseteq Names
  BY DEF Inductive, Typed, Files
<1>2. Pending(stack) = {}
  BY <1>1 DEF Pending
<1>3. opened # {} /\ Root \in opened /\ Closed(opened) /\ opened \subseteq Reachable
  BY <1>1, <1>2 DEF FoundInv, Closed
<1>4. Reachable \subseteq opened
  BY <1>1, <1>3, LeadsToLeast DEF Reachable, Closed
<1> QED
  BY <1>1, <1>2, <1>3, <1>4 DEF OrderInv

\* A configuration that is accepted has been read whole, and each file once, for
\* every graph of files, directories and contents (Read, ReadInclude).
THEOREM AcceptedIsAlwaysWhole == Spec => []AcceptedIsWhole
<1>1. Inductive => AcceptedIsWhole
  <2> SUFFICES ASSUME Inductive, result = "ok" PROVE AcceptedIsWhole
    BY DEF AcceptedIsWhole
  <2>1. ListInv /\ SettingsInv /\ opened = Reachable
    BY DoneIsClosed
  <2>2. opened # {}
    BY <2>1 DEF Reachable
  <2> QED
    BY <2>1, <2>2 DEF AcceptedIsWhole, ListInv, SettingsInv, Listed, Written
<1> QED
  BY <1>1, InductiveInvariant, PTL

\* No file of an accepted configuration includes itself, by whatever detour
\* (gOpenedFiles).
THEOREM LoopsAreAlwaysRejected == Spec => []LoopsAreRejected
<1>1. Inductive => LoopsAreRejected
  BY DoneIsClosed, OrderedHasNoLoop DEF LoopsAreRejected, Looping
<1> QED
  BY <1>1, InductiveInvariant, PTL

(***************************************************************************)
(* Reading never stops halfway, and the types.                             *)
(***************************************************************************)

\* As long as reading goes on there is a file to go on with.
ReadingGoesOn == result = "reading" => stack # <<>>

\* What Inductive does not say of the types.
Settings == {socket, storage} \subseteq Names \cup {Nil}

\* A stack with another frame is not empty.
LEMMA GrownStack ==
    ASSUME NEW s \in Seq(Frames), NEW f \in Frames
    PROVE  Append(s, f) # <<>>
<1>1. Append(s, f) \in Seq(Frames) /\ Len(Append(s, f)) = Len(s) + 1 /\ Len(s) \in Nat
  BY AppendProperties
<1> QED
  BY <1>1, EmptySeq

\* Config::Read goes on where it was called, or with the file's directives.
LEMMA ReadGoesOn ==
    ASSUME Inductive, Settings, NEW n \in Files, NEW rest \in Seq(Frames), rest # <<>>, Read(n, rest)
    PROVE  ReadingGoesOn' /\ Settings'
<1>1. CASE n \in opened
  <2>1. stack' = rest /\ socket' = socket /\ storage' = storage
    BY <1>1 DEF Read, Throws
  <2> QED
    BY <2>1 DEF ReadingGoesOn, Settings
<1>2. CASE n \notin opened
  <2>1. ReadNew(n, rest)
    BY <1>2 DEF Read
  <2>2. CASE Throws("invalid") /\ stack' = rest
    BY <2>2 DEF Throws, ReadingGoesOn, Settings
  <2>3. CASE /\ ~Invalid(tree[n], opened = {})
             /\ stack' = Append(rest, Frame(tree[n].includes, {}))
             /\ socket' = IF tree[n].rpc = "valid" THEN n ELSE socket
             /\ storage' = IF tree[n].storage = "valid" THEN n ELSE storage
    <3>1. n \in Names
      BY DEF Files
    <3>2. IsFile(tree[n])
      BY <3>1, TreesAssumption DEF Inductive, Typed
    <3>3. Frame(tree[n].includes, {}) \in Frames
      BY <2>3, <3>2 DEF Invalid, IsFile, Frame, Frames
    <3>4. stack' # <<>>
      BY <2>3, <3>3, GrownStack
    <3> QED
      BY <2>3, <3>1, <3>4 DEF ReadingGoesOn, Settings
  <2> QED
    BY <2>1, <2>2, <2>3 DEF ReadNew
<1> QED
  BY <1>1, <1>2

\* Every step leaves something to read, or ends the reading.
LEMMA StepGoesOn ==
    ASSUME Inductive, Settings, ReadInclude \/ ReadEntry \/ Return
    PROVE  ReadingGoesOn' /\ Settings'
<1>1. Reading /\ Top \in Frames /\ Below \in Seq(Frames)
  BY TopIs DEF ReadInclude, ReadEntry, Return
<1>2. CASE ReadInclude
  <2> DEFINE n == Head(Top.todo)
             left == Frame(Tail(Top.todo), {})
             rest == Append(Below, left)
  <2>1. Top.todo \in Seq(Names) /\ Top.todo # <<>>
    BY <1>1, <1>2 DEF ReadInclude, Frames
  <2>2. n \in Names /\ left \in Frames
    BY <2>1, DirectivesParts DEF Frame, Frames
  <2>3. CASE Kind[n] = "missing" /\ Throws("missing")
    BY <2>3 DEF Throws, ReadingGoesOn, Settings
  <2>4. CASE /\ Kind[n] = "dir" /\ stack' = Append(Below, Frame(Tail(Top.todo), Entries[n]))
             /\ UNCHANGED <<socket, storage>>
    <3>1. Frame(Tail(Top.todo), Entries[n]) \in Frames
      BY <2>2, NamesAssumption DEF Frame, Frames, Files
    <3>2. stack' # <<>>
      BY <1>1, <2>4, <3>1, GrownStack
    <3> QED
      BY <2>4, <3>2 DEF ReadingGoesOn, Settings
  <2>5. CASE Kind[n] = "file" /\ Read(n, rest)
    <3>1. n \in Files
      BY <2>2, <2>5 DEF Files
    <3>2. rest \in Seq(Frames) /\ rest # <<>>
      BY <1>1, <2>2, StackGrows, GrownStack
    <3> QED
      BY <2>5, <3>1, <3>2, ReadGoesOn
  <2> QED
    BY <1>2, <2>3, <2>4, <2>5 DEF ReadInclude
<1>3. CASE ReadEntry
  <2>1. PICK n \in Top.entries : Read(n, Append(Below, Frame(Top.todo, Top.entries \ {n})))
    BY <1>3 DEF ReadEntry
  <2> DEFINE left == Frame(Top.todo, Top.entries \ {n})
  <2>2. n \in Files /\ left \in Frames
    BY <1>1, <2>1 DEF Frame, Frames
  <2>3. Append(Below, left) \in Seq(Frames) /\ Append(Below, left) # <<>>
    BY <1>1, <2>2, StackGrows, GrownStack
  <2> QED
    BY <2>1, <2>2, <2>3, ReadGoesOn
<1>4. CASE Return
  BY <1>4 DEF Return, ReadingGoesOn, Settings
<1> QED
  BY <1>2, <1>3, <1>4

\* Both hold in every reachable state.
LEMMA GoesOnInvariant == Spec => [](ReadingGoesOn /\ Settings)
<1>1. Init => ReadingGoesOn /\ Settings
  BY DEF Init, ReadingGoesOn, Settings
<1>2. Inductive /\ (ReadingGoesOn /\ Settings) /\ [Next]_vars => (ReadingGoesOn /\ Settings)'
  <2>1. CASE UNCHANGED vars
    BY <2>1 DEF vars, ReadingGoesOn, Settings
  <2> QED
    BY <2>1, StepGoesOn DEF Next
<1> QED
  BY <1>1, <1>2, InductiveInvariant, PTL DEF Spec

\* Reading does not stop before it is done or has failed: there is always a file
\* to go on with (Read, ProcessIncludeDirectory).  It is the safety part of
\* ReadEnds.
THEOREM AlwaysGoesOn == Spec => []ReadingGoesOn
<1>1. ReadingGoesOn /\ Settings => ReadingGoesOn
  OBVIOUS
<1> QED
  BY <1>1, GoesOnInvariant, PTL

\* Every variable of the reader keeps its type; above all no entry of the allow
\* list is without a user and a group (ReadAccessAllow).
THEOREM TypeCorrect == Spec => []TypeOK
<1>1. Inductive /\ Settings => TypeOK
  <2> SUFFICES ASSUME Inductive, Settings PROVE TypeOK
    OBVIOUS
  <2>1. Frames \subseteq [todo : Seq(Names), entries : SUBSET Names]
    BY DEF Frames, Files
  <2> DEFINE all == [todo : Seq(Names), entries : SUBSET Names]
  <2>2. stack \in Seq(all)
    <3>1. stack \in Seq(Frames) /\ Frames \subseteq all
      BY <2>1 DEF Inductive, Typed
    <3> HIDE DEF all
    <3> QED
      BY <3>1, SeqMonotonic
  <2> QED
    BY <2>2 DEF Inductive, Typed, Settings, TypeOK, Files, Descriptors
<1> QED
  BY <1>1, InductiveInvariant, GoesOnInvariant, PTL
================================================================================
