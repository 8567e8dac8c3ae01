------------------------------ MODULE MCShell ------------------------------
(***************************************************************************)
(* Small sessions for TLC.  An input of four cells covers the first half of *)
(* a pipe, of five the second, of six and more the arguments; a script of   *)
(* three fills its part.                                                    *)
(***************************************************************************)
EXTENDS Shell

Plain(ends, n) == [ends |-> ends, print |-> n, out |-> None, in |-> None,
                   append |-> FALSE, script |-> None]
To(c, f)   == [c EXCEPT !.out = f]
From(c, f) == [c EXCEPT !.in = f]

SomeCmd ==
    [garbage  |-> Plain("unknown", 1),
     echo     |-> Plain("builtin", 1),
     echoF    |-> To(Plain("builtin", 3), "F"),
     addF     |-> [To(Plain("builtin", 2), "F") EXCEPT !.append = TRUE],
     addG     |-> [To(Plain("builtin", 1), "G") EXCEPT !.append = TRUE],
     readF    |-> From(Plain("builtin", 1), "F"),
     readBig  |-> From(To(Plain("builtin", 1), Tmp), "BIG"),
     badF     |-> To(From(Plain("unknown", 1), "MID"), "F"),
     print    |-> To(Plain("builtin", 3), Tmp),
     printBig |-> To(Plain("builtin", 6), Tmp),
     more     |-> From(Plain("builtin", 1), Tmp),
     app      |-> To(From(Plain("program", 2), "MID"), "G"),
     appMore  |-> From(Plain("program", 1), Tmp),
     submitS  |-> [Plain("submit", 0) EXCEPT !.script = "S"],
     submitN  |-> [To(Plain("submit", 1), Tmp) EXCEPT !.script = "N"],
     exit     |-> Plain("reset", 0),
     exitF    |-> To(Plain("reset", 1), "F")]

SomeLine ==
    [garbage |-> <<"garbage">>,
     echo |-> <<"echo">>, echoF |-> <<"echoF">>, addF |-> <<"addF">>, addG |-> <<"addG">>,
     readF |-> <<"readF">>, badF |-> <<"badF">>, app |-> <<"app">>, exit |-> <<"exit">>,
     exitF |-> <<"exitF">>, submitS |-> <<"submitS">>,
     pipe |-> <<"print", "more">>, pipeBig |-> <<"printBig", "more">>,
     pipeFrom |-> <<"readBig", "more">>, pipeApp |-> <<"print", "appMore">>,
     pipeSubmit |-> <<"submitN", "more">>]

Text(k)   == [i \in 1 .. k |-> <<"out", "echo">>]
SomeDisk ==
    [BIG |-> Text(7), MID |-> Text(4),
     S   |-> << <<"line", "app">>, <<"line", "pipeFrom">>, <<"line", "badF">> >>,
     N   |-> << <<"line", "pipeApp">>, <<"line", "echoF">>, <<"line", "pipeBig">> >>]

ASSUME SessionAssumption == ScriptsFit /\ ResetsPlain

Usual == DOMAIN SomeLine \ {"addG", "exitF", "garbage"}
=============================================================================
