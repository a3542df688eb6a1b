-------------------------------- MODULE MCServer -------------------------------
(* Instances of Server for TLC: what clients send in each session.         *)
EXTENDS Server, TLC

CONSTANTS o, u, d1, d2, prog

\* Handlers are alike.
Symmetric == Permutations(Workers)

R(cmd, key, stamp, ids, list) ==
    [cmd |-> cmd, key |-> key, form |-> "good", stamp |-> stamp, ids |-> ids,
     program |-> prog, list |-> list]

OwnerRegisters == R("owner", o, 0, <<>>, {})
Registers      == R("register", u, 0, <<>>, {prog})
Executes(ids)  == R("execute", o, 0, ids, {})

\* The list of one piece of data is edited around uses.
EditSession ==
    [requests |-> {Registers, Executes(<<d1>>), R("execute", o, 1, <<d1>>, {}),
                   R("edit", u, 0, <<d1>>, {}), R("edit", u, 1, <<d1>>, {prog})},
     owner |-> o, programs |-> {prog},
     ticks |-> 1, deliveries |-> 4, faults |-> 0, stops |-> 1, quick |-> FALSE]

\* A program is deleted and uploaded again around executions without data.
ProgramSession ==
    [requests |-> {R("upload", o, 1, <<>>, {}), R("unload", o, 0, <<>>, {}),
                   Executes(<<>>), R("execute", o, 1, <<>>, {})},
     owner |-> o, programs |-> {prog},
     ticks |-> 1, deliveries |-> 4, faults |-> 1, stops |-> 1, quick |-> FALSE]

\* Two keys want to be the owner, and try what the other may do; bodies that
\* are refused before and after the signature is looked at.
ConsentSession ==
    [requests |-> {OwnerRegisters, R("owner", u, 0, <<>>, {}),
                   [OwnerRegisters EXCEPT !.form = "bad"],
                   [Registers EXCEPT !.form = "large"], [Executes(<<d1>>) EXCEPT !.form = "bad"],
                   R("register", u, 0, <<>>, {}), Executes(<<d1>>),
                   R("edit", o, 0, <<d1>>, {prog}), R("edit", u, 0, <<d1>>, {prog}),
                   R("delete", o, 0, <<d1>>, {})},
     owner |-> NoKey, programs |-> {prog},
     ticks |-> 0, deliveries |-> 4, faults |-> 1, stops |-> 1, quick |-> TRUE]

\* Two pieces of data are used together and one by one, and deleted.
DataSession ==
    [requests |-> {Registers, R("register", o, 0, <<>>, {prog}),
                   Executes(<<d1, d2>>), Executes(<<d2>>), R("delete", o, 0, <<d2>>, {})},
     owner |-> o, programs |-> {prog},
     ticks |-> 0, deliveries |-> 5, faults |-> 0, stops |-> 1, quick |-> FALSE]

\* Time goes on until entries expire and other handlers purge them: a command
\* that was refused is delivered again while what it was refused for is mended.
ExpirySession ==
    [requests |-> {R("unload", o, 0, <<>>, {}), R("upload", o, 1, <<>>, {}),
                   R("execute", o, 2, <<>>, {}), R("execute", o, 3, <<>>, {})},
     owner |-> o, programs |-> {},
     ticks |-> 4, deliveries |-> 4, faults |-> 0, stops |-> 0, quick |-> FALSE]

AllSessions == [edit |-> EditSession, program |-> ProgramSession,
                consent |-> ConsentSession, data |-> DataSession,
                expiry |-> ExpirySession]
===============================================================================
