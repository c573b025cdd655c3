------------------------------- MODULE ConfdUtil -------------------------------
(***************************************************************************)
(* confd-util (src/util/main.cpp): one process per invocation, which parses*)
(* its options, opens a connection, reads or writes one key through the    *)
(* typed calls of libconfd, and reports by its exit status and what it     *)
(* prints.  Successive invocations share only the daemon's row.            *)
(***************************************************************************)
EXTENDS TypedCalls

CONSTANTS
    Texts,          \* the arguments of --write
    Invocations,    \* the command lines the tool is started with
    StringBuffer,   \* 64 KiB: the buffer ReadKey passes to confd_get_string
    BlobBuffer      \* 128 KiB: and to confd_get_blob

\* A text is what the parsers make of it: its characters, the values that stoll,
\* stoul and stod find in it, the bool it is a literal of, the contents of the
\* file it names; Nil where they throw or find none.  stoll and stoul differ in
\* their range, and stoul takes a negative number for a large one.
ASSUME TextsAssumption ==
    \A t \in Texts :
        /\ t.chars \in Seq(Bytes)
        /\ t.number \in Integers64 \cup {Nil} /\ t.unsigned \in (0 .. WordMod - 1) \cup {Nil}
        /\ t.real \in Reals \cup {Nil}
        /\ t.literal \in BOOLEAN \cup {Nil}
        /\ t.file \in Seq(Bytes) \/ t.file = Nil

Operations == {"read", "write", "delete"}
TypeNames == {"null", "string", "blob", "int", "real", "bool"}

\* --read, --write and --delete in the order given, --key, --type, the value.
CommandLines ==
    [ops : {<<>>, <<"read", "write">>} \cup {<<o>> : o \in Operations}, key : BOOLEAN,
     type : TypeNames \cup {"none", "unknown"}, text : Texts]
ASSUME InvocationsAssumption == Invocations \subseteq CommandLines

ASSUME BufferAssumption ==
    /\ StringBuffer \in Nat /\ BlobBuffer \in Nat
    /\ ReadLimit + MaxStray < StringBuffer /\ ReadLimit < BlobBuffer

VARIABLES
    stage,      \* where main() is; "shell" between invocations
    args,       \* the options of the latest invocation
    exit,       \* its exit status, or Nil
    printed,    \* the value it has printed, or Nil
    confirmed   \* history: type and value that a write printed as written

utilVars == <<stage, args, exit, printed, confirmed>>
allVars == <<vars, utilVars>>

--------------------------------------------------------------------------------
What(a) == IF a.ops = <<>> THEN "none" ELSE a.ops[1]

\* The checks of main() before it connects.
Rejected(a) ==
    \/ Len(a.ops) > 1
    \/ a.type = "unknown"
    \/ ~a.key
    \/ What(a) \in {"read", "write"} /\ a.type = "none"

NoBuffer == 0
BufferFor(kind) ==
    CASE kind = "string" -> StringBuffer
      [] kind = "blob" -> BlobBuffer
      [] OTHER -> NoBuffer

\* WriteKey: the argument a text is parsed to, Nil when a parser throws, or when
\* confd_set_blob refuses the null pointer of an empty buffer.
NumberOf(kind, n) == IF n = Nil THEN Nil ELSE Argument(kind, n)
ParseBool(t) ==
    IF t.literal # Nil THEN Argument("bool", t.literal)
    ELSE IF t.unsigned # Nil THEN Argument("bool", t.unsigned # 0)
    ELSE Nil
Parsed(type, t) ==
    CASE type = "string" -> Argument("string", t.chars)
      [] type = "int" -> NumberOf("int", t.number)
      [] type = "real" -> NumberOf("real", t.real)
      [] type = "bool" -> ParseBool(t)
      [] type = "blob" -> IF t.file \in {Nil, <<>>} THEN Nil ELSE Argument("blob", t.file)
      [] type = "null" -> Nil

\* Before the first invocation: as after one that was rejected.
NoArgs == CHOOSE a \in Invocations : Rejected(a)

UtilInit ==
    /\ Init
    /\ stage = "shell"
    /\ args = NoArgs /\ exit = 1 /\ printed = Nil /\ confirmed = Nil

\* The end of main(), after confd_close.
Exits(status, output) ==
    /\ stage' = "shell"
    /\ exit' = status
    /\ printed' = output

\* Parse and check the command line.
Invoke ==
    /\ stage = "shell" /\ Idle
    /\ args' \in Invocations
    /\ IF Rejected(args') THEN Exits(1, Nil)
       ELSE stage' = "connect" /\ exit' = Nil /\ printed' = Nil
    /\ UNCHANGED vars /\ UNCHANGED confirmed

\* confd_open; it fails while the daemon is down.  The application's connection is
\* another one.
Connect ==
    /\ stage = "connect"
    /\ \/ /\ stage' = "operate"
          /\ open' = TRUE
          /\ request' = None
          /\ UNCHANGED <<exit, printed>>
       \/ Exits(1, Nil) /\ UNCHANGED <<open, request>>
    /\ UNCHANGED <<call, reply, row, result, given, args, confirmed>>

\* ReadKey up to its call, for a type it supports.
ReadKey ==
    /\ stage = "operate" /\ What(args) = "read" /\ args.type # "null"
    /\ Get(args.type, BufferFor(args.type))
    /\ stage' = "await"
    /\ UNCHANGED <<args, exit, printed, confirmed>>

\* WriteKey up to its call, for a value that parses.  What a write confirmed
\* before does not count any more.
WriteKey ==
    /\ stage = "operate" /\ What(args) = "write" /\ Parsed(args.type, args.text) # Nil
    /\ Set(Parsed(args.type, args.text))
    /\ stage' = "await"
    /\ confirmed' = Nil
    /\ UNCHANGED <<args, exit, printed>>

\* An exception before any call: nothing to do, --delete, a read of null, a
\* value that does not parse.
Throw ==
    /\ stage = "operate"
    /\ \/ What(args) \in {"none", "delete"}
       \/ What(args) = "read" /\ args.type = "null"
       \/ What(args) = "write" /\ Parsed(args.type, args.text) = Nil
    /\ Exits(1, Nil)
    /\ open' = FALSE
    /\ UNCHANGED <<call, request, reply, row, result, given, args, confirmed>>

\* EnsureSuccess: a read lets null pass.
Unchecked == {"NullValue", "error"}
Ignored == IF What(args) = "read" THEN {"NullValue"} ELSE {}

\* Blobs are printed with the length the call reported, strings up to their NUL.
Output == IF What(args) = "read" THEN result.out ELSE call.arg.data

\* The call has returned: check its status, print, disconnect.
Finish ==
    /\ stage = "await"
    /\ result # Pending
    /\ open' = FALSE
    /\ IF result.status \in {"Success"} \cup Ignored
       THEN /\ Exits(0, Output)
            /\ confirmed' = IF What(args) = "write" THEN call.arg ELSE confirmed
       ELSE Exits(1, Nil) /\ UNCHANGED confirmed
    /\ request' = None
    /\ reply' = None
    /\ UNCHANGED <<call, row, result, given, args>>

\* libconfd and the daemon at work on the call.
Serve ==
    /\ stage # "shell"
    /\ \/ ReceiveReply \/ ReceiveEof
       \/ HandleQuery \/ HandleUpdate \/ RejectUpdate \/ RejectRest
    /\ UNCHANGED utilVars

\* Between invocations an application makes calls of its own; what the tool has
\* printed before is not looked at after that.
Application ==
    /\ stage = "shell" /\ Next
    /\ args' = NoArgs /\ exit' = 1 /\ printed' = Nil /\ confirmed' = Nil
    /\ UNCHANGED stage

UtilNext == Invoke \/ Connect \/ ReadKey \/ WriteKey \/ Throw \/ Finish \/ Serve \/ Application

\* The tool runs, and the daemon serves what it has read.
UtilFairness == WF_allVars(Connect \/ ReadKey \/ WriteKey \/ Throw \/ Finish \/ Serve)
UtilSpec == UtilInit /\ [][UtilNext]_allVars /\ UtilFairness

--------------------------------------------------------------------------------
(* Correctness.                                                            *)

HasRead(type) == stage = "shell" /\ What(args) = "read" /\ args.type = type /\ args.key

\* What a write reported as written is what a later read of its type prints, as
\* long as no other write was tried: for numbers always, for blobs when the
\* request fits one read (WriteKey, then ReadKey).
ReadsShowConfirmedWrites ==
    \A type \in {"int", "real", "blob"} :
        /\ HasRead(type) /\ exit = 0
        /\ confirmed # Nil /\ confirmed.kind = type /\ confirmed.data # NaN
        /\ MessageSize(ToItem(confirmed)) <= ReadLimit
        => printed = confirmed.data

\* Every invocation ends, with its connection closed by whichever side.
UtilEnds == stage # "shell" ~> stage = "shell"
================================================================================
