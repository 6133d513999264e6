---------------------------- MODULE MCDltMessages ----------------------------
(* Three machines in one run: files and streams that are read back,        *)
(* arguments that are written and read, network traces in segments.        *)
EXTENDS DltFile, DltArguments, DltTrace

VARIABLE machine    \* which of the three is checked, fixed at the start

Msg(app, level, ext, size, kept) ==
    [kind |-> "msg", app |-> app, ctx |-> 1, level |-> level, ext |-> ext, size |-> size,
     kept |-> kept, sys |-> 0, tmsp |-> 0]
At(sys, tmsp) == [Msg(1, 4, TRUE, 1, 1) EXCEPT !.sys = sys, !.tmsp = tmsp]
Junk(n) == [Msg(NoId, 0, FALSE, n, n) EXCEPT !.kind = "junk"]
Filter(app, level, min, max) == [app |-> app, ctx |-> NoId, level |-> level, min |-> min, max |-> max]

Clean == <<Msg(1, 4, TRUE, 1, 1), Msg(2, 3, TRUE, 2, 2), Msg(1, 2, FALSE, 1, 1), Msg(1, 4, TRUE, 0, 0)>>
Dirty == <<Junk(2), Msg(1, 4, TRUE, 1, 1), Junk(1), Msg(2, 4, TRUE, 1, 1), Msg(1, 4, TRUE, 0, 0)>>
Lost == <<Msg(1, 4, TRUE, 2, 1), Msg(2, 4, TRUE, 2, 2), Msg(1, 4, TRUE, 1, 1), Msg(1, 3, TRUE, 1, 1)>>
Short == <<Msg(1, 4, TRUE, 1, 1), Msg(1, 4, TRUE, -1, 0), Msg(2, 4, TRUE, 1, 1)>>

Layout(use, parts, serial, fs) ==
    [use |-> use, parts |-> parts, serial |-> serial, filter |-> fs # <<>>, filters |-> fs]

OnlyOne == <<Filter(1, 4, 0, 1)>>

(* Files to be sorted: one or two boots told apart by system time or by     *)
(* timestamp, in any order; three boots; and none, as a whole.              *)
Moments == {At(s, t) : s \in {0, 200}, t \in {1, 2, 40}}
ThreeBoots == <<At(0, 5), At(401, 3), At(200, 3), At(0, 2), At(400, 3), At(201, 1)>>
LastBootEndsLikeFirst == <<At(200, 3), At(0, 5), At(201, 1), At(0, 2)>>
SortedFiles ==
    UNION {[1..n -> Moments] : n \in {0, 3, 4}} \cup {ThreeBoots, LastBootEndsLikeFirst}
OneBoot == <<At(0, 1), At(1, 3), At(1, 2)>>

ReadLayouts ==
    {Layout("convert", p, FALSE, f) : p \in {Clean, Dirty, Lost, Short}, f \in {<<>>, OnlyOne}}
    \cup {Layout("parse", p, FALSE, f) : p \in {Clean, Dirty, Lost, Short}, f \in {<<>>, OnlyOne}}
    \cup {Layout("raw", p, TRUE, <<>>) : p \in {Clean, Dirty, Lost}}
    \cup {Layout("raw", Clean, FALSE, <<>>)}
    \cup {Layout("stream", p, TRUE, <<>>) : p \in {Clean, Dirty, Lost, Short}}
    \cup {Layout("stream", p, FALSE, <<>>) : p \in {Clean, Short}}
    \cup {Layout("sort", p, FALSE, <<>>) : p \in SortedFiles}
    \cup {Layout("filters", Clean \o Lost, FALSE, <<>>)}

OneBootLayout == {Layout("sort", OneBoot, FALSE, <<>>)}
LastBootLayout == {Layout("sort", LastBootEndsLikeFirst, FALSE, <<>>)}

MCFilterAsks == {Filter(1, 4, 0, 9), Filter(1, 0, 1, 1), Filter(NoId, 3, 0, 9), Filter(1, 4, 1, 2)}

Call(fn, width, text, var) ==
    [fn |-> fn, width |-> width, value |-> <<"v">>, format |-> "DEFAULT", var |-> var, text |-> text,
     before |-> "a"]
NameOnly == VarInfo(<<"n", "zero">>, NoName, TRUE)
Both == VarInfo(<<"n", "zero">>, <<"u", "u", "zero">>, TRUE)

CharactersOf2And3And4 ==
    <<"a", "lead2", "cont", "lead3", "cont", "cont", "lead4", "cont", "cont", "cont">>

MCWriteCalls ==
    {Call("uint", 1, <<>>, NoVarInfo), Call("uint", 8, <<>>, Both), Call("int", 4, <<>>, NameOnly),
     Call("int", 2, <<>>, NoVarInfo), Call("float", 4, <<>>, NoVarInfo), Call("float", 8, <<>>, Both),
     Call("bool", 1, <<>>, NoVarInfo), Call("bool", 1, <<>>, Both), Call("ptr", 8, <<>>, NoVarInfo),
     [Call("uint_formatted", 2, <<>>, NoVarInfo) EXCEPT !.format = "BIN16"],
     [Call("uint_formatted", 4, <<>>, NoVarInfo) EXCEPT !.format = "HEX32"],
     Call("raw", 0, <<"a", "b">>, NoVarInfo), Call("raw", 0, <<>>, NameOnly),
     Call("string", 0, <<"a", "a", "b", "c", "c">>, NoVarInfo), Call("string", 0, <<>>, NameOnly),
     Call("constant_string", 0, <<"a">>, NoVarInfo),
     Call("span", 2, <<>>, NoVarInfo), Call("view", 4, <<>>, NameOnly),
     Call("utf8_string", 0, CharactersOf2And3And4, NoVarInfo),
     Call("utf8_string", 0, Tail(CharactersOf2And3And4), NameOnly),
     [Call("utf8_string", 0, CharactersOf2And3And4, NoVarInfo) EXCEPT !.before = "lead4"]}

Truncated == <<"dots", "zero">>

(* The machines that are not checked start in one state, and do not move. *)
Init ==
    /\ machine \in {"files", "arguments", "traces"}
    /\ FileInit /\ ArgumentsInit /\ TraceInitial
    /\ machine # "files" => layout = Layout("stream", Clean, FALSE, <<>>)
    /\ machine # "arguments" => log.verbose /\ logBufLen = Min(BufferLengths)
    /\ machine # "traces" => traceOn

Next ==
    /\ UNCHANGED machine
    /\ \/ machine = "files" /\ FileNext /\ UNCHANGED <<argumentVars, nwVars>>
       \/ machine = "arguments" /\ ArgumentsNext /\ UNCHANGED <<fileVars, nwVars>>
       \/ machine = "traces" /\ TracersNext /\ UNCHANGED <<fileVars, argumentVars>>

Spec == /\ Init /\ [][Next]_<<machine, fileVars, argumentVars, nwVars>>
        /\ FileFairness /\ TracersFairness
=============================================================================
