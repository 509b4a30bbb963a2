------------------------------- MODULE MCKimi -------------------------------
(***************************************************************************)
(* The three parts of the Kimi assets side by side; a behavior is one of   *)
(* one part.  KimiEncoding has short conversations of every kind of        *)
(* message under all options, longer ones of calls and results, and one    *)
(* call with every short string of arguments; ToolDeclarations has one     *)
(* tool with a schema of MaxSchema events and two tools with shorter ones; *)
(* TextPieces has every text of at most MaxText characters.                *)
(***************************************************************************)
EXTENDS KimiEncoding, ToolDeclarations, TextPieces

CONSTANTS a, b, x,        \* ids; x is never that of a call
          get, put,       \* names
          d, e,           \* names of definitions
          MaxShort, MaxLong, MaxLexemes, MaxSchema, MaxText
ASSUME BoundsAssumption == {MaxShort, MaxLong, MaxLexemes, MaxSchema, MaxText} \subseteq Nat

VARIABLE part

M(role) == [role |-> role, at |-> 0, text |-> "plain", reasoning |-> "", name |-> Nothing,
            tools |-> FALSE, calls |-> <<>>, call |-> Nothing]
CallOf(id, name) == [id |-> id, name |-> name, arguments |-> <<>>, marked |-> FALSE]
Calls(cs) == [M("assistant") EXCEPT !.calls = cs]
Result(id, name) == [M("tool") EXCEPT !.call = id, !.name = name]

TwoCalls == Calls(<<CallOf(a, get), CallOf(b, put)>>)
Common == {M("user"), M("assistant"), TwoCalls, Result(a, Nothing), Result(b, get),
           Result(x, Nothing), Result(Nothing, put)}
Rare ==
    {M("system"), M("other"), [M("system") EXCEPT !.tools = TRUE],
     [M("user") EXCEPT !.text = "marker"], [M("user") EXCEPT !.text = "", !.name = put],
     [TwoCalls EXCEPT !.reasoning = "marker", !.text = "marker"],
     Calls(<<CallOf(a, put), CallOf(a, get)>>), Calls(<<CallOf(Nothing, get), CallOf(a, put)>>),
     Calls(<<CallOf(a, Nothing)>>)}

UpTo(n, S) == UNION {[1..k -> S] : k \in 0..n}
Numbered(ms) == [k \in 1..Len(ms) |-> [ms[k] EXCEPT !.at = k]]

Usual == [tools |-> FALSE, effort |-> "max", toolChoice |-> FALSE, format |-> FALSE,
          generate |-> TRUE]

Strings ==
    UpTo(MaxLexemes, Lexemes)
    \cup {<<"{", "string", ":", "value", ",">> \o s : s \in UpTo(MaxLexemes, Lexemes)}

MCRequests ==
    {[messages |-> Numbered(ms), options |-> o, thinking |-> t] :
        ms \in UpTo(MaxShort, Common \cup Rare), o \in Options, t \in BOOLEAN}
    \cup {[messages |-> Numbered(ms), options |-> Usual, thinking |-> TRUE] :
            ms \in UpTo(MaxLong, Common)}
    \cup {[messages |-> Numbered(<<Calls(<<[CallOf(a, get) EXCEPT !.arguments = s, !.marked = TRUE]>>)>>),
           options |-> Usual, thinking |-> FALSE] : s \in Strings}

-----------------------------------------------------------------------------
Registers(name, body) == [kind |-> "register", name |-> name, body |-> body]
Other(kind, name) == [kind |-> kind, name |-> name, body |-> 1]

\* A definition may refer to another, to the root, define a third, or be no schema.
MCBodies ==
    <<<<>>, <<Other("ref", e)>>, <<Registers(e, 1), Other("self", d)>>, <<Other("invalid", d)>>>>

Events ==
    {Registers(n, k) : n \in {d, e}, k \in 1..4}
    \cup {Other("ref", d), Other("ref", e), Other("self", d), Other("invalid", d)}
ToolOf(schema) == [isFunction |-> TRUE, schema |-> schema]
NoFunction == [isFunction |-> FALSE, schema |-> <<>>]

MCToolLists ==
    {<<>>, <<NoFunction>>}
    \cup {<<ToolOf(s)>> : s \in UpTo(MaxSchema, Events)}
    \cup {<<ToolOf(s), ToolOf(u)>> : s \in UpTo(MaxSchema - 2, Events), u \in UpTo(MaxSchema - 2, Events)}
    \cup {<<ToolOf(s), NoFunction, ToolOf(u)>> :
              s \in UpTo(MaxSchema - 2, Events), u \in UpTo(1, Events)}

MCInputs == UpTo(MaxText, BOOLEAN)

-----------------------------------------------------------------------------
NoRequest == [messages |-> <<>>, options |-> Usual, thinking |-> FALSE]

MCInit ==
    \/ part = "encoding" /\ K3Init /\ ToolsStart(<<>>) /\ PiecesStart(<<>>)
    \/ part = "tools" /\ K3Start(NoRequest) /\ ToolsInit /\ PiecesStart(<<>>)
    \/ part = "pieces" /\ K3Start(NoRequest) /\ ToolsStart(<<>>) /\ PiecesInit

MCNext ==
    /\ UNCHANGED part
    /\ \/ part = "encoding" /\ K3Next /\ UNCHANGED <<toolVars, pieceVars>>
       \/ part = "tools" /\ ToolsNext /\ UNCHANGED <<k3Vars, pieceVars>>
       \/ part = "pieces" /\ PiecesNext /\ UNCHANGED <<k3Vars, toolVars>>

MCSpec == MCInit /\ [][MCNext]_<<part, k3Vars, toolVars, pieceVars>>
=============================================================================
