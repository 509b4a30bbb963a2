-------------------------- MODULE ToolDeclarations --------------------------
(***************************************************************************)
(* How Kimi K2.6 declares the tools of a request: apply_chat_template of   *)
(* tokenization_kimi.py converts them to TypeScript with                   *)
(* tool_declaration_ts.py, all of them or none; if the conversion raises,  *)
(* the template writes their JSON.                                         *)
(*                                                                         *)
(* A schema is what the parser meets in it, in the order in which it meets *)
(* it: definitions it registers (a name and the number of a body), $refs   *)
(* to a name, $ref "#", and what it raises for.  Registration is global in *)
(* a function, whatever the depth of the $defs; keys are sorted first, so  *)
(* that the order is that of the names.  The text of types is left out.    *)
(***************************************************************************)
EXTENDS Naturals, Sequences

CONSTANTS ToolLists,  \* the lists of tools clients may send
          DefNames,   \* the names of definitions; none is "parameters"
          Bodies      \* the bodies of definitions, by number

Event == [kind : {"register", "ref", "self", "invalid"}, name : DefNames,
          body : 1..Len(Bodies)]
ToolType == [isFunction : BOOLEAN, schema : Seq(Event)]

ASSUME DefNamesAssumption == "parameters" \notin DefNames
ASSUME BodiesAssumption == Bodies \in Seq(Seq(Event))
ASSUME ToolListsAssumption == ToolLists \subseteq Seq(ToolType)

VARIABLES tools,
          at,          \* the tool that is converted
          phase,       \* "root" or "definitions": what of it is parsed
          toParse,     \* what is left of the schema that is parsed
          definitions, \* registry.definitions: name and body, in order of insertion
          hasSelfRef,  \* registry.has_self_ref
          toDeclare,   \* what is left of definitions_copy
          output,      \* what is declared: interfaces and functions
          used,        \* the names that the parameters of a function refer to
          form         \* what the template is given: "typescript" or "json"; "open" before

toolVars == <<tools, at, phase, toParse, definitions, hasSelfRef, toDeclare, output, used, form>>

Interface(name, body) == [kind |-> "interface", tool |-> at, name |-> name, body |-> body]
Function == [kind |-> "function", tool |-> at, name |-> "function", body |-> 0]

Functions(ts) == {i \in 1..Len(ts) : ts[i].isFunction}

SchemaAt(ts, i) == IF i \in 1..Len(ts) THEN ts[i].schema ELSE <<>>

ToolsStart(ts) ==
    /\ tools = ts
    /\ at = 1
    /\ phase = "root"
    /\ toParse = SchemaAt(tools, at)
    /\ definitions = <<>>
    /\ hasSelfRef = FALSE
    /\ toDeclare = <<>>
    /\ output = <<>>
    /\ used = {}
    /\ form = "open"
ToolsInit == \E ts \in ToolLists : ToolsStart(ts)

Converting == form = "open" /\ at \in Functions(tools)

Registered(name) == \E i \in 1..Len(definitions) : definitions[i].name = name

-----------------------------------------------------------------------------
\* dict assignment: a name that is there keeps its place.
BugRegistered(d) == Append(definitions, d)
WithDefinition(d) ==
    IF Registered(d.name)
    THEN [i \in 1..Len(definitions) |->
             IF definitions[i].name = d.name THEN d ELSE definitions[i]]
    ELSE Append(definitions, d)

Register ==
    /\ Converting
    /\ toParse # <<>> /\ Head(toParse).kind = "register"
    /\ definitions' = WithDefinition([name |-> Head(toParse).name, body |-> Head(toParse).body])
    /\ toParse' = Tail(toParse)
    /\ UNCHANGED <<tools, at, phase, hasSelfRef, toDeclare, output, used, form>>

Uses(name) == IF phase = "root" THEN used \cup {[tool |-> at, name |-> name]} ELSE used

Resolve ==
    /\ Converting
    /\ toParse # <<>> /\ Head(toParse).kind = "ref"
    /\ Registered(Head(toParse).name)
    /\ used' = Uses(Head(toParse).name)
    /\ toParse' = Tail(toParse)
    /\ UNCHANGED <<tools, at, phase, definitions, hasSelfRef, toDeclare, output, form>>

ResolveSelf ==
    /\ Converting
    /\ toParse # <<>> /\ Head(toParse).kind = "self"
    /\ hasSelfRef' = TRUE
    /\ used' = Uses("parameters")
    /\ toParse' = Tail(toParse)
    /\ UNCHANGED <<tools, at, phase, definitions, toDeclare, output, form>>

Unresolvable(event) ==
    event.kind = "invalid" \/ (event.kind = "ref" /\ ~Registered(event.name))

\* The converter raises: nothing of what it has written is used.
BugGiveUp ==
    /\ Converting
    /\ toParse # <<>> /\ Unresolvable(Head(toParse))
    /\ at' = at + 1
    /\ phase' = "root"
    /\ toParse' = SchemaAt(tools, at')
    /\ definitions' = <<>>
    /\ hasSelfRef' = FALSE
    /\ UNCHANGED <<tools, toDeclare, output, used, form>>
GiveUp ==
    /\ Converting
    /\ toParse # <<>> /\ Unresolvable(Head(toParse))
    /\ form' = "json"
    /\ UNCHANGED <<tools, at, phase, toParse, definitions, hasSelfRef, toDeclare, output, used>>

\* The root is parsed: it is an interface of its own if something refers to it.
BugEndRoot ==
    /\ Converting
    /\ phase = "root" /\ toParse = <<>>
    /\ output' = output
    /\ toDeclare' = definitions
    /\ phase' = "definitions"
    /\ UNCHANGED <<tools, at, toParse, definitions, hasSelfRef, used, form>>
EndRoot ==
    /\ Converting
    /\ phase = "root" /\ toParse = <<>>
    /\ output' = IF hasSelfRef THEN Append(output, Interface("parameters", 0)) ELSE output
    /\ toDeclare' = definitions
    /\ phase' = "definitions"
    /\ UNCHANGED <<tools, at, toParse, definitions, hasSelfRef, used, form>>

\* The next definition is parsed, and declared if that does not raise.
Declare ==
    /\ Converting
    /\ phase = "definitions" /\ toParse = <<>>
    /\ toDeclare # <<>>
    /\ output' = Append(output, Interface(Head(toDeclare).name, Head(toDeclare).body))
    /\ toParse' = Bodies[Head(toDeclare).body]
    /\ toDeclare' = Tail(toDeclare)
    /\ UNCHANGED <<tools, at, phase, definitions, hasSelfRef, used, form>>

\* The function is written, and the next tool begins with a registry of its own.
EndFunction ==
    /\ Converting
    /\ phase = "definitions" /\ toParse = <<>> /\ toDeclare = <<>>
    /\ output' = Append(output, Function)
    /\ at' = at + 1
    /\ phase' = "root"
    /\ toParse' = SchemaAt(tools, at')
    /\ definitions' = <<>>
    /\ hasSelfRef' = FALSE
    /\ UNCHANGED <<tools, toDeclare, used, form>>

\* What is not a function, or is an empty one, is passed over.
SkipTool ==
    /\ form = "open" /\ at <= Len(tools) /\ at \notin Functions(tools)
    /\ at' = at + 1
    /\ toParse' = SchemaAt(tools, at')
    /\ UNCHANGED <<tools, phase, definitions, hasSelfRef, toDeclare, output, used, form>>

\* The template writes JSON for an empty text, too.
EndTools ==
    /\ form = "open" /\ at > Len(tools)
    /\ form' = IF output = <<>> THEN "json" ELSE "typescript"
    /\ UNCHANGED <<tools, at, phase, toParse, definitions, hasSelfRef, toDeclare, output, used>>

ToolsNext ==
    \/ Register \/ Resolve \/ ResolveSelf \/ GiveUp
    \/ EndRoot \/ Declare \/ EndFunction \/ SkipTool \/ EndTools

ToolsSpec == ToolsInit /\ [][ToolsNext]_toolVars

-----------------------------------------------------------------------------
(***************************************************************************)
(* Properties                                                              *)
(***************************************************************************)
\* The state has the expected shape.
ToolsTypeOK ==
    /\ tools \in ToolLists
    /\ at \in 1..(Len(tools) + 1)
    /\ phase \in {"root", "definitions"}
    /\ toParse \in Seq(Event)
    /\ definitions \in Seq([name : DefNames, body : 1..Len(Bodies)])
    /\ toDeclare \in Seq([name : DefNames, body : 1..Len(Bodies)])
    /\ hasSelfRef \in BOOLEAN
    /\ form \in {"open", "typescript", "json"}

\* In a declaration in TypeScript every name the parameters of a function refer to
\* is an interface declared before that function and with no other function between,
\* and it is declared once (tool_declaration_ts.py:391-426).
ReferencesAreDeclared ==
    form = "typescript" =>
        \A u \in used : \E i \in 1..Len(output), f \in 1..Len(output) :
            /\ output[f].kind = "function" /\ output[f].tool = u.tool
            /\ i < f /\ output[i].kind = "interface" /\ output[i].name = u.name
            /\ \A k \in i..(f - 1) : output[k].tool = u.tool
            /\ \A k \in 1..Len(output) :
                  output[k].kind = "interface" /\ output[k].tool = u.tool /\ output[k].name = u.name
                      => k = i

\* The last body a schema registers under this name.
LastBody(schema, name) ==
    LET places == {i \in 1..Len(schema) : schema[i].kind = "register" /\ schema[i].name = name}
    IN schema[CHOOSE i \in places : \A k \in places : k <= i].body

\* All tools are declared in one form: in TypeScript every function is there, in
\* order, with its definitions as they were registered last; otherwise there is no
\* function, or one that cannot be converted (tokenization_kimi.py:325-347,
\* tool_declaration_ts.py:452-479).
DeclaredInOneForm ==
    /\ form = "typescript" =>
          /\ \A t \in Functions(tools) :
                \E i \in 1..Len(output) : output[i].kind = "function" /\ output[i].tool = t
          /\ \A i, k \in 1..Len(output) : i <= k => output[i].tool <= output[k].tool
          /\ \A i \in 1..Len(output) :
                output[i].kind = "interface" /\ output[i].name # "parameters" =>
                    output[i].body = LastBody(tools[output[i].tool].schema, output[i].name)
    /\ form = "json" => Functions(tools) = {} \/ (toParse # <<>> /\ Unresolvable(Head(toParse)))
=============================================================================
