--------------------------- MODULE KimiTextProofs ----------------------------
(***************************************************************************)
(* Proofs about ToolDeclarations, for any lists of tools, any schemas and  *)
(* any definitions in them, and about TextPieces, for texts of any length  *)
(* and any limits.                                                         *)
(*                                                                         *)
(* Both properties of the declarations speak of the finished text; the     *)
(* invariant says of every moment where a name that a function uses is to  *)
(* be found: in the registry while its root is parsed, then among the      *)
(* definitions still to be declared or among those declared, and with its  *)
(* function in the end.                                                    *)
(***************************************************************************)
EXTENDS ToolDeclarations, TextPieces, SequenceTheorems, TLAPS

------------------------------------------------------------------------------
(***************************************************************************)
(* Types                                                                   *)
(***************************************************************************)
Definition == [name : DefNames, body : 1..Len(Bodies)]
Declared == [kind : {"interface", "function"}, tool : Nat,
             name : DefNames \cup {"parameters", "function"}, body : Nat]
Use == [tool : Nat, name : DefNames \cup {"parameters"}]

ToolsTypeInv == ToolsTypeOK /\ output \in Seq(Declared) /\ used \subseteq Use

LEMMA SchemaType ==
    ASSUME NEW ts \in ToolLists, NEW g
    PROVE  SchemaAt(ts, g) \in Seq(Event) /\ Len(ts) \in Nat
<1>1. ts \in Seq(ToolType)
  BY ToolListsAssumption
<1>2. CASE g \in 1..Len(ts)
  <2>1. ts[g] \in ToolType
    BY <1>1, <1>2
  <2>. QED
    BY <1>1, <1>2, <2>1 DEF SchemaAt, ToolType
<1>3. CASE g \notin 1..Len(ts)
  BY <1>1, <1>3 DEF SchemaAt
<1>. QED
  BY <1>2, <1>3

\* Registering keeps the sequence of definitions one.
LEMMA WithDefinitionType ==
    ASSUME definitions \in Seq(Definition), NEW d \in Definition
    PROVE  WithDefinition(d) \in Seq(Definition)
<1>1. Len(definitions) \in Nat /\ \A g \in 1..Len(definitions) : definitions[g] \in Definition
  OBVIOUS
<1>2. [g \in 1..Len(definitions) |-> IF definitions[g].name = d.name THEN d ELSE definitions[g]]
         \in Seq(Definition)
  BY <1>1
<1>3. Append(definitions, d) \in Seq(Definition)
  OBVIOUS
<1>. QED
  BY <1>2, <1>3 DEF WithDefinition

LEMMA InitTypes == ToolsInit => ToolsTypeInv
<1>. SUFFICES ASSUME NEW ts \in ToolLists, ToolsStart(ts) PROVE ToolsTypeInv
  BY DEF ToolsInit
<1>1. hasSelfRef \in BOOLEAN
  BY DEF ToolsStart
<1>2. SchemaAt(ts, 1) \in Seq(Event) /\ Len(ts) \in Nat
  BY SchemaType
<1>3. /\ tools \in ToolLists /\ tools = ts /\ at = 1 /\ phase = "root" /\ toParse = SchemaAt(ts, 1)
      /\ definitions = <<>> /\ toDeclare = <<>> /\ output = <<>> /\ used = {} /\ form = "open"
  BY DEF ToolsStart
<1>4. at \in 1..(Len(tools) + 1)
  BY <1>2, <1>3
<1>. QED
  BY <1>1, <1>2, <1>3, <1>4 DEF ToolsTypeInv, ToolsTypeOK

LEMMA NextTypes == ToolsTypeInv /\ [ToolsNext]_toolVars => ToolsTypeInv'
<1>. SUFFICES ASSUME ToolsTypeInv, [ToolsNext]_toolVars PROVE ToolsTypeInv'
  OBVIOUS
<1>1. /\ tools \in ToolLists /\ at \in 1..(Len(tools) + 1) /\ phase \in {"root", "definitions"}
      /\ toParse \in Seq(Event) /\ definitions \in Seq(Definition)
      /\ toDeclare \in Seq(Definition) /\ form \in {"open", "typescript", "json"}
      /\ output \in Seq(Declared) /\ used \subseteq Use
  BY DEF ToolsTypeInv, ToolsTypeOK, Definition
<1>2. Len(tools) \in Nat /\ at \in Nat
  BY <1>1, SchemaType
<1>3. hasSelfRef' \in BOOLEAN
  <2>1. hasSelfRef \in BOOLEAN
    BY DEF ToolsTypeInv, ToolsTypeOK
  <2>. QED
    BY <2>1, Zenon DEF ToolsNext, toolVars, Register, Resolve, ResolveSelf, GiveUp, EndRoot,
       Declare, EndFunction, SkipTool, EndTools
<1>. DEFINE Rest == /\ tools \in ToolLists /\ at \in 1..(Len(tools) + 1)
                    /\ phase \in {"root", "definitions"}
                    /\ toParse \in Seq(Event) /\ definitions \in Seq(Definition)
                    /\ toDeclare \in Seq(Definition) /\ form \in {"open", "typescript", "json"}
                    /\ output \in Seq(Declared) /\ used \subseteq Use
<1>. SUFFICES Rest'
  BY <1>3 DEF ToolsTypeInv, ToolsTypeOK, Definition
<1>4. toParse # <<>> => Head(toParse) \in Event /\ Tail(toParse) \in Seq(Event)
  BY <1>1, HeadTailProperties
<1>5. ASSUME NEW name \in DefNames \cup {"parameters"} PROVE Uses(name) \subseteq Use
  BY <1>1, <1>2 DEF Uses, Use
<1>6. ASSUME NEW name \in DefNames \cup {"parameters", "function"}, NEW body \in Nat
      PROVE  Interface(name, body) \in Declared
  BY <1>2 DEF Interface, Declared
<1>7. CASE Register
  <2>1. [name |-> Head(toParse).name, body |-> Head(toParse).body] \in Definition
    BY <1>4, <1>7 DEF Register, Event, Definition
  <2>2. definitions' \in Seq(Definition)
    BY <1>1, <1>7, <2>1, WithDefinitionType DEF Register
  <2>3. /\ UNCHANGED <<tools, at, phase, toDeclare, form, output, used>>
        /\ toParse' \in Seq(Event)
    BY <1>4, <1>7 DEF Register
  <2>. QED
    BY <1>1, <2>2, <2>3
<1>8. CASE Resolve
  <2>1. Head(toParse).name \in DefNames
    BY <1>4, <1>8 DEF Resolve, Event
  <2>2. used' \subseteq Use
    BY <1>5, <1>8, <2>1 DEF Resolve
  <2>3. /\ UNCHANGED <<tools, at, phase, definitions, toDeclare, form, output>>
        /\ toParse' \in Seq(Event)
    BY <1>4, <1>8 DEF Resolve
  <2>. QED
    BY <1>1, <2>2, <2>3
<1>9. CASE ResolveSelf
  <2>1. used' \subseteq Use
    BY <1>5, <1>9 DEF ResolveSelf
  <2>2. /\ UNCHANGED <<tools, at, phase, definitions, toDeclare, form, output>>
        /\ toParse' \in Seq(Event)
    BY <1>4, <1>9 DEF ResolveSelf
  <2>. QED
    BY <1>1, <2>1, <2>2
<1>10. CASE GiveUp
  <2>1. UNCHANGED <<tools, at, phase, toParse, definitions, toDeclare, output, used>> /\ form' = "json"
    BY <1>10 DEF GiveUp
  <2>. QED
    BY <1>1, <2>1
<1>11. CASE EndRoot
  <2>1. Interface("parameters", 0) \in Declared
    BY <1>6
  <2>2. output' \in Seq(Declared)
    BY <1>1, <1>11, <2>1 DEF EndRoot
  <2>3. /\ UNCHANGED <<tools, at, toParse, definitions, form, used>>
        /\ toDeclare' = definitions /\ phase' = "definitions"
    BY <1>11 DEF EndRoot
  <2>. QED
    BY <1>1, <2>2, <2>3
<1>12. CASE Declare
  <2>1. Head(toDeclare) \in Definition /\ Tail(toDeclare) \in Seq(Definition)
    BY <1>1, <1>12, HeadTailProperties DEF Declare
  <2>2. Head(toDeclare).name \in DefNames /\ Head(toDeclare).body \in 1..Len(Bodies)
    BY <2>1 DEF Definition
  <2>3. Bodies[Head(toDeclare).body] \in Seq(Event) /\ Head(toDeclare).body \in Nat
    BY <2>2, BodiesAssumption
  <2>4. Interface(Head(toDeclare).name, Head(toDeclare).body) \in Declared
    BY <1>6, <2>2, <2>3
  <2>5. output' \in Seq(Declared)
    BY <1>1, <1>12, <2>4 DEF Declare
  <2>6. /\ UNCHANGED <<tools, at, phase, definitions, form, used>>
        /\ toDeclare' \in Seq(Definition) /\ toParse' \in Seq(Event)
    BY <1>12, <2>1, <2>3 DEF Declare
  <2>. QED
    BY <1>1, <2>5, <2>6
<1>13. at <= Len(tools) => at + 1 \in 1..(Len(tools) + 1)
  BY <1>1, <1>2
<1>14. CASE EndFunction
  <2>1. Function \in Declared
    BY <1>2 DEF Function, Declared
  <2>2. output' \in Seq(Declared)
    BY <1>1, <1>14, <2>1 DEF EndFunction
  <2>3. at <= Len(tools)
    BY <1>2, <1>14 DEF EndFunction, Converting, Functions
  <2>4. toParse' \in Seq(Event)
    BY <1>1, <1>14, SchemaType DEF EndFunction
  <2>5. /\ UNCHANGED <<tools, toDeclare, form, used>> /\ at' = at + 1
        /\ phase' = "root" /\ definitions' = <<>>
    BY <1>14 DEF EndFunction
  <2>. QED
    BY <1>1, <1>13, <2>2, <2>3, <2>4, <2>5
<1>15. CASE SkipTool
  <2>1. toParse' \in Seq(Event)
    BY <1>1, <1>15, SchemaType DEF SkipTool
  <2>2. /\ UNCHANGED <<tools, phase, definitions, toDeclare, form, output, used>>
        /\ at' = at + 1 /\ at <= Len(tools)
    BY <1>15 DEF SkipTool
  <2>. QED
    BY <1>1, <1>13, <2>1, <2>2
<1>16. CASE EndTools
  <2>1. /\ UNCHANGED <<tools, at, phase, toParse, definitions, toDeclare, output, used>>
        /\ form' \in {"open", "typescript", "json"}
    BY <1>16 DEF EndTools
  <2>. QED
    BY <1>1, <2>1
<1>17. CASE UNCHANGED toolVars
  BY <1>1, <1>17 DEF toolVars
<1>. QED
  BY <1>7, <1>8, <1>9, <1>10, <1>11, <1>12, <1>14, <1>15, <1>16, <1>17 DEF ToolsNext

\* The state keeps its shape, for any tools.
THEOREM ToolsTypeCorrect == ToolsSpec => []ToolsTypeOK
<1>1. ToolsTypeInv => ToolsTypeOK
  BY DEF ToolsTypeInv
<1>. QED
  BY InitTypes, NextTypes, <1>1, PTL DEF ToolsSpec

------------------------------------------------------------------------------
(***************************************************************************)
(* The inductive invariant                                                 *)
(***************************************************************************)
\* The first n events of a schema register this body under this name last.
RegisteredBy(schema, n, name, body) ==
    \E p \in 1..n :
        /\ schema[p].kind = "register" /\ schema[p].name = name /\ schema[p].body = body
        /\ \A q \in 1..n : schema[q].kind = "register" /\ schema[q].name = name => q <= p

DistinctNames(ds) == \A g, k \in 1..Len(ds) : ds[g].name = ds[k].name => g = k

\* While the root is parsed, the registry has what is parsed of it; what is not a
\* function has no registry.
ParseInv ==
    /\ DistinctNames(definitions)
    /\ at \in Functions(tools) \/ definitions = <<>>
    /\ phase = "root" =>
          LET schema == SchemaAt(tools, at)
              parsed == Len(schema) - Len(toParse)
          IN  /\ parsed \in Nat
              /\ \A g \in 1..Len(toParse) : toParse[g] = schema[parsed + g]
              /\ \A g \in 1..Len(definitions) :
                    RegisteredBy(schema, parsed, definitions[g].name, definitions[g].body)

\* What is still to be declared was registered by the root and is not declared yet.
DeclareInv ==
    phase = "definitions" =>
        /\ at \in Functions(tools)
        /\ DistinctNames(toDeclare)
        /\ \A k \in 1..Len(toDeclare) :
              /\ RegisteredBy(SchemaAt(tools, at), Len(SchemaAt(tools, at)),
                              toDeclare[k].name, toDeclare[k].body)
              /\ \A g \in 1..Len(output) :
                    output[g].tool = at => output[g].name # toDeclare[k].name

\* What is declared belongs to the functions so far, in their order, each of them
\* with interfaces of different names and at last with its own type.
OutputInv ==
    /\ \A g \in 1..Len(output) :
          /\ output[g].tool \in Functions(tools) /\ output[g].tool <= at
          /\ output[g].kind = "function" \/ phase = "root" => output[g].tool < at
          /\ output[g].kind = "interface" /\ output[g].name # "parameters" =>
                RegisteredBy(SchemaAt(tools, output[g].tool),
                             Len(SchemaAt(tools, output[g].tool)),
                             output[g].name, output[g].body)
    /\ \A g, k \in 1..Len(output) : g <= k => output[g].tool <= output[k].tool
    /\ \A g, k \in 1..Len(output) :
          /\ output[g].kind = "interface" /\ output[k].kind = "interface"
          /\ output[g].tool = output[k].tool /\ output[g].name = output[k].name
          => g = k
    /\ \A t \in Functions(tools) :
          t < at => \E g \in 1..Len(output) : output[g].kind = "function" /\ output[g].tool = t

DeclaredFor(u) ==
    \E g \in 1..Len(output) :
        output[g].kind = "interface" /\ output[g].tool = u.tool /\ output[g].name = u.name

\* A name that is used is registered, or still to be declared, or declared: with its
\* function if that is finished.
Settled(u) ==
    \E g \in 1..Len(output), f \in 1..Len(output) :
        /\ output[f].kind = "function" /\ output[f].tool = u.tool
        /\ g < f /\ output[g].kind = "interface" /\ output[g].name = u.name
        /\ \A k \in g..(f - 1) : output[k].tool = u.tool

UsedInv ==
    \A u \in used :
        /\ u.tool \in Functions(tools) /\ u.tool <= at
        /\ u.tool < at => Settled(u)
        /\ u.tool = at /\ phase = "root" =>
              Registered(u.name) \/ (u.name = "parameters" /\ hasSelfRef)
        /\ u.tool = at /\ phase = "definitions" =>
              DeclaredFor(u) \/ \E k \in 1..Len(toDeclare) : toDeclare[k].name = u.name

FormInv ==
    /\ form = "typescript" => at > Len(tools)
    /\ form = "json" => Functions(tools) = {} \/ (toParse # <<>> /\ Unresolvable(Head(toParse)))

ToolsInv == ToolsTypeInv /\ ParseInv /\ DeclareInv /\ OutputInv /\ UsedInv /\ FormInv

LEMMA LastBodyOf ==
    ASSUME NEW schema \in Seq(Event), NEW name, NEW body,
           RegisteredBy(schema, Len(schema), name, body)
    PROVE  LastBody(schema, name) = body
<1>. DEFINE places == {g \in 1..Len(schema) :
                          schema[g].kind = "register" /\ schema[g].name = name}
<1>1. PICK p \in 1..Len(schema) :
         /\ schema[p].kind = "register" /\ schema[p].name = name /\ schema[p].body = body
         /\ \A q \in 1..Len(schema) :
               schema[q].kind = "register" /\ schema[q].name = name => q <= p
  BY DEF RegisteredBy
<1>2. p \in places /\ \A k \in places : k <= p
  BY <1>1
<1>3. ASSUME NEW g \in places, \A k \in places : k <= g PROVE g = p
  <2>1. g <= p /\ p <= g
    BY <1>2, <1>3
  <2>2. g \in Nat /\ p \in Nat
    BY <1>3
  <2>. QED
    BY <2>1, <2>2
<1>4. (CHOOSE g \in places : \A k \in places : k <= g) = p
  BY <1>2, <1>3
<1>. QED
  BY <1>1, <1>4 DEF LastBody

\* What is proved about the invariant is what the properties say.
LEMMA InvReferences == ToolsInv => ReferencesAreDeclared
<1>. SUFFICES ASSUME ToolsInv, form = "typescript", NEW u \in used
              PROVE  \E g \in 1..Len(output), f \in 1..Len(output) :
                        /\ output[f].kind = "function" /\ output[f].tool = u.tool
                        /\ g < f /\ output[g].kind = "interface" /\ output[g].name = u.name
                        /\ \A k \in g..(f - 1) : output[k].tool = u.tool
                        /\ \A k \in 1..Len(output) :
                              /\ output[k].kind = "interface" /\ output[k].tool = u.tool
                              /\ output[k].name = u.name
                              => k = g
  BY DEF ReferencesAreDeclared
<1>1. /\ at > Len(tools) /\ u.tool <= Len(tools) /\ at \in Nat /\ Len(tools) \in Nat
      /\ u.tool \in Nat
  <2>1. tools \in ToolLists /\ at \in 1..(Len(tools) + 1) /\ used \subseteq Use
    BY DEF ToolsInv, ToolsTypeInv, ToolsTypeOK
  <2>2. Len(tools) \in Nat
    BY <2>1, SchemaType
  <2>3. u \in Use
    BY <2>1
  <2>. QED
    BY <2>1, <2>2, <2>3 DEF ToolsInv, FormInv, UsedInv, Use, Functions
<1>2. Settled(u)
  BY <1>1 DEF ToolsInv, UsedInv
<1>3. PICK g \in 1..Len(output), f \in 1..Len(output) :
         /\ output[f].kind = "function" /\ output[f].tool = u.tool
         /\ g < f /\ output[g].kind = "interface" /\ output[g].name = u.name
         /\ \A k \in g..(f - 1) : output[k].tool = u.tool
  BY <1>2 DEF Settled
<1>4. output[g].tool = u.tool
  <2>1. g \in g..(f - 1)
    BY <1>3
  <2>. QED
    BY <1>3, <2>1
<1>5. ASSUME NEW k \in 1..Len(output), output[k].kind = "interface", output[k].tool = u.tool,
             output[k].name = u.name
      PROVE  k = g
  BY <1>3, <1>4, <1>5 DEF ToolsInv, OutputInv
<1>. QED
  BY <1>3, <1>5

LEMMA InvOneForm == ToolsInv => DeclaredInOneForm
<1>. SUFFICES ASSUME ToolsInv PROVE DeclaredInOneForm
  OBVIOUS
<1>1. /\ tools \in ToolLists /\ tools \in Seq(ToolType) /\ Len(tools) \in Nat
      /\ at \in Nat
  <2>1. tools \in ToolLists /\ at \in 1..(Len(tools) + 1)
    BY DEF ToolsInv, ToolsTypeInv, ToolsTypeOK
  <2>2. Len(tools) \in Nat /\ tools \in Seq(ToolType)
    BY <2>1, SchemaType, ToolListsAssumption
  <2>. QED
    BY <2>1, <2>2
<1>2. ASSUME form = "typescript", NEW t \in Functions(tools)
      PROVE  \E g \in 1..Len(output) : output[g].kind = "function" /\ output[g].tool = t
  <2>1. t < at
    <3>1. at > Len(tools)
      BY <1>2 DEF ToolsInv, FormInv
    <3>. QED
      BY <1>1, <3>1 DEF Functions
  <2>. QED
    BY <2>1 DEF ToolsInv, OutputInv
<1>3. \A g, k \in 1..Len(output) : g <= k => output[g].tool <= output[k].tool
  BY DEF ToolsInv, OutputInv
<1>4. ASSUME NEW g \in 1..Len(output), output[g].kind = "interface",
             output[g].name # "parameters"
      PROVE  output[g].body = LastBody(tools[output[g].tool].schema, output[g].name)
  <2>1. output[g].tool \in 1..Len(tools)
    BY DEF ToolsInv, OutputInv, Functions
  <2>2. SchemaAt(tools, output[g].tool) = tools[output[g].tool].schema
    BY <2>1 DEF SchemaAt
  <2>3. RegisteredBy(SchemaAt(tools, output[g].tool), Len(SchemaAt(tools, output[g].tool)),
                     output[g].name, output[g].body)
    BY <1>4 DEF ToolsInv, OutputInv
  <2>4. SchemaAt(tools, output[g].tool) \in Seq(Event)
    BY <1>1, SchemaType
  <2>. QED
    BY <2>2, <2>3, <2>4, LastBodyOf
<1>5. form = "json" => Functions(tools) = {} \/ (toParse # <<>> /\ Unresolvable(Head(toParse)))
  BY DEF ToolsInv, FormInv
<1>. QED
  BY <1>2, <1>3, <1>4, <1>5 DEF DeclaredInOneForm

LEMMA InitInv == ToolsInit => ToolsInv
<1>. SUFFICES ASSUME NEW ts \in ToolLists, ToolsStart(ts), ToolsTypeInv PROVE ToolsInv
  BY InitTypes DEF ToolsInit
<1>1. SchemaAt(ts, 1) \in Seq(Event) /\ Len(ts) \in Nat
  BY SchemaType
<1>2. /\ tools = ts /\ at = 1 /\ phase = "root" /\ toParse = SchemaAt(ts, 1)
      /\ definitions = <<>> /\ output = <<>> /\ used = {} /\ form = "open"
  BY DEF ToolsStart
<1>3. ParseInv
  <2>1. Len(SchemaAt(ts, 1)) \in Nat
    BY <1>1
  <2>2. Len(SchemaAt(ts, 1)) - Len(SchemaAt(ts, 1)) = 0
    BY <2>1
  <2>3. \A g \in 1..Len(SchemaAt(ts, 1)) : SchemaAt(ts, 1)[g] = SchemaAt(ts, 1)[0 + g]
    BY <2>1
  <2>. QED
    BY <1>2, <2>2, <2>3 DEF ParseInv, DistinctNames
<1>4. OutputInv
  <2>1. \A t \in Functions(tools) : ~(t < at)
    BY <1>1, <1>2 DEF Functions
  <2>. QED
    BY <1>2, <2>1 DEF OutputInv
<1>5. DeclareInv /\ UsedInv /\ FormInv
  BY <1>2 DEF DeclareInv, UsedInv, FormInv
<1>. QED
  BY <1>3, <1>4, <1>5 DEF ToolsInv

\* The sequences and numbers of a state, for the steps below.
LEMMA InvTypes ==
    ASSUME ToolsInv
    PROVE  /\ tools \in ToolLists /\ Len(tools) \in Nat /\ at \in Nat /\ at <= Len(tools) + 1
           /\ toParse \in Seq(Event) /\ definitions \in Seq(Definition)
           /\ toDeclare \in Seq(Definition) /\ output \in Seq(Declared) /\ used \subseteq Use
           /\ SchemaAt(tools, at) \in Seq(Event)
           /\ ParseInv /\ DeclareInv /\ OutputInv /\ UsedInv
<1>1. /\ tools \in ToolLists /\ at \in 1..(Len(tools) + 1)
      /\ toParse \in Seq(Event) /\ definitions \in Seq(Definition)
      /\ toDeclare \in Seq(Definition) /\ output \in Seq(Declared) /\ used \subseteq Use
  BY DEF ToolsInv, ToolsTypeInv, ToolsTypeOK, Definition
<1>2. Len(tools) \in Nat /\ SchemaAt(tools, at) \in Seq(Event)
  BY <1>1, SchemaType
<1>3. at \in Nat /\ at <= Len(tools) + 1
  BY <1>1, <1>2
<1>. QED
  BY <1>1, <1>2, <1>3 DEF ToolsInv

LEMMA OpenForm == ASSUME form' = "open" PROVE FormInv'
BY DEF FormInv

------------------------------------------------------------------------------
(***************************************************************************)
(* Parsing                                                                 *)
(***************************************************************************)

\* The next event is parsed: what the others registered is still the last if this
\* one registers nothing under their name.
LEMMA OneMore ==
    ASSUME NEW schema, NEW n \in Nat, NEW name, NEW body,
           RegisteredBy(schema, n, name, body),
           schema[n + 1].kind # "register" \/ schema[n + 1].name # name
    PROVE  RegisteredBy(schema, n + 1, name, body)
<1>1. PICK p \in 1..n :
         /\ schema[p].kind = "register" /\ schema[p].name = name /\ schema[p].body = body
         /\ \A q \in 1..n : schema[q].kind = "register" /\ schema[q].name = name => q <= p
  BY DEF RegisteredBy
<1>2. p \in 1..(n + 1)
  OBVIOUS
<1>3. \A q \in 1..(n + 1) : q \in 1..n \/ q = n + 1
  OBVIOUS
<1>. QED
  BY <1>1, <1>2, <1>3 DEF RegisteredBy

LEMMA JustRegistered ==
    ASSUME NEW schema, NEW n \in Nat, schema[n + 1].kind = "register"
    PROVE  RegisteredBy(schema, n + 1, schema[n + 1].name, schema[n + 1].body)
<1>1. n + 1 \in 1..(n + 1) /\ \A q \in 1..(n + 1) : q <= n + 1
  OBVIOUS
<1>. QED
  BY <1>1 DEF RegisteredBy

\* Registering keeps the names different and, but for that name, the bodies.
LEMMA WithDefinitionFacts ==
    ASSUME definitions \in Seq(Definition), DistinctNames(definitions), NEW d \in Definition,
           NEW new, new = WithDefinition(d)
    PROVE  /\ DistinctNames(new)
           /\ \A g \in 1..Len(definitions) : \E k \in 1..Len(new) :
                 new[k].name = definitions[g].name
           /\ \A k \in 1..Len(new) :
                 \/ new[k] = d
                 \/ \E g \in 1..Len(definitions) :
                       new[k] = definitions[g] /\ definitions[g].name # d.name
<1>1. Len(definitions) \in Nat
  OBVIOUS
<1>2. CASE Registered(d.name)
  <2>1. new = [g \in 1..Len(definitions) |->
                  IF definitions[g].name = d.name THEN d ELSE definitions[g]]
    BY <1>2 DEF WithDefinition
  <2>2. Len(new) = Len(definitions)
    BY <1>1, <2>1
  <2>3. \A k \in 1..Len(new) : new[k].name = definitions[k].name
    BY <2>1, <2>2
  <2>. QED
    BY <2>1, <2>2, <2>3 DEF DistinctNames
<1>3. CASE ~Registered(d.name)
  <2>1. new = Append(definitions, d)
    BY <1>3 DEF WithDefinition
  <2>2. /\ Len(new) = Len(definitions) + 1 /\ new[Len(definitions) + 1] = d
        /\ \A k \in 1..Len(definitions) : k \in 1..Len(new) /\ new[k] = definitions[k]
    BY <1>1, <2>1
  <2>3. \A k \in 1..Len(new) : k = Len(definitions) + 1 \/ k \in 1..Len(definitions)
    BY <1>1, <2>2
  <2>4. \A k \in 1..Len(definitions) : definitions[k].name # d.name
    BY <1>3 DEF Registered
  <2>. QED
    BY <2>2, <2>3, <2>4 DEF DistinctNames
<1>. QED
  BY <1>2, <1>3

\* What the next event is and what is left behind it.
LEMMA NextEvent ==
    ASSUME ToolsInv, phase = "root", toParse # <<>>, toParse' = Tail(toParse),
           UNCHANGED <<tools, at, phase>>
    PROVE  /\ Len(SchemaAt(tools, at)) - Len(toParse)
                 \in Nat
           /\ SchemaAt(tools, at)[Len(SchemaAt(tools, at)) - Len(toParse) + 1] = Head(toParse)
           /\ Len(SchemaAt(tools, at)) - Len(toParse')
                 = Len(SchemaAt(tools, at)) - Len(toParse) + 1
           /\ \A g \in 1..Len(toParse') :
                 toParse'[g] =
                     SchemaAt(tools, at)[Len(SchemaAt(tools, at)) - Len(toParse') + g]
<1>. DEFINE schema == SchemaAt(tools, at)
            n == Len(schema) - Len(toParse)
<1>1. /\ toParse \in Seq(Event) /\ schema \in Seq(Event) /\ Len(schema) \in Nat
      /\ n \in Nat /\ \A g \in 1..Len(toParse) : toParse[g] = schema[n + g]
  BY InvTypes DEF ParseInv
<1>. HIDE DEF schema
<1>2. /\ Len(toParse) \in Nat /\ Len(toParse) >= 1 /\ Head(toParse) = toParse[1]
      /\ Len(Tail(toParse)) = Len(toParse) - 1
      /\ \A g \in 1..Len(Tail(toParse)) : Tail(toParse)[g] = toParse[g + 1]
  BY <1>1, HeadTailProperties
<1>3. schema[n + 1] = Head(toParse)
  BY <1>1, <1>2
<1>4. Len(schema) - Len(Tail(toParse)) = n + 1
  BY <1>1, <1>2
<1>5. ASSUME NEW g \in 1..Len(Tail(toParse))
      PROVE  Tail(toParse)[g] = schema[Len(schema) - Len(Tail(toParse)) + g]
  <2>1. g + 1 \in 1..Len(toParse) /\ n + (g + 1) = (n + 1) + g
    BY <1>1, <1>2
  <2>. QED
    BY <1>1, <1>2, <1>4, <2>1
<1>. QED
  BY <1>1, <1>3, <1>4, <1>5 DEF schema

\* Of an event that registers nothing, the registry keeps what it has.
LEMMA ParseKeeps ==
    ASSUME ToolsInv, toParse # <<>>, toParse' = Tail(toParse), Head(toParse).kind # "register",
           UNCHANGED <<tools, at, phase, definitions>>
    PROVE  ParseInv'
<1>1. ParseInv /\ definitions \in Seq(Definition)
  BY InvTypes
<1>2. DistinctNames(definitions') /\ (at' \in Functions(tools') \/ definitions' = <<>>)
  BY <1>1 DEF ParseInv
<1>3. CASE phase # "root"
  BY <1>2, <1>3 DEF ParseInv
<1>4. CASE phase = "root"
  <2>1. PICK schema : schema = SchemaAt(tools, at)
    OBVIOUS
  <2>2. PICK n : n = Len(schema) - Len(toParse)
    OBVIOUS
  <2>3. /\ n \in Nat /\ schema[n + 1] = Head(toParse)
        /\ Len(schema) - Len(toParse') = n + 1
        /\ \A g \in 1..Len(toParse') : toParse'[g] = schema[Len(schema) - Len(toParse') + g]
    BY <1>4, <2>1, <2>2, NextEvent
  <2>4. \A g \in 1..Len(definitions) :
           RegisteredBy(schema, n, definitions[g].name, definitions[g].body)
    BY <1>1, <1>4, <2>1, <2>2 DEF ParseInv
  <2>5. \A g \in 1..Len(definitions) :
           RegisteredBy(schema, n + 1, definitions[g].name, definitions[g].body)
    BY <2>3, <2>4, OneMore
  <2>6. SchemaAt(tools', at') = schema
    BY <2>1
  <2>. QED
    BY <1>2, <2>3, <2>5, <2>6 DEF ParseInv
<1>. QED
  BY <1>3, <1>4

LEMMA RegisterParses == ASSUME ToolsInv, Register PROVE ParseInv'
<1>1. PICK d, new : /\ d = [name |-> Head(toParse).name, body |-> Head(toParse).body]
                    /\ new = definitions'
  OBVIOUS
<1>2. /\ toParse # <<>> /\ Head(toParse).kind = "register" /\ toParse' = Tail(toParse)
      /\ new = WithDefinition(d) /\ UNCHANGED <<tools, at, phase>>
      /\ at \in Functions(tools)
  BY <1>1 DEF Register, Converting
<1>3. /\ ParseInv /\ definitions \in Seq(Definition) /\ toParse \in Seq(Event)
  BY InvTypes
<1>4. d \in Definition /\ d.name = Head(toParse).name /\ d.body = Head(toParse).body
  <2>1. Head(toParse) \in Event
    BY <1>2, <1>3, HeadTailProperties
  <2>. QED
    BY <1>1, <2>1 DEF Event, Definition
<1>5. /\ DistinctNames(new)
      /\ \A k \in 1..Len(new) :
            \/ new[k] = d
            \/ \E g \in 1..Len(definitions) :
                  new[k] = definitions[g] /\ definitions[g].name # d.name
  <2>1. DistinctNames(definitions)
    BY <1>3 DEF ParseInv
  <2>2. new = WithDefinition(d) /\ definitions \in Seq(Definition) /\ d \in Definition
    BY <1>2, <1>3, <1>4
  <2>. QED
    BY <2>1, <2>2, WithDefinitionFacts
<1>6. CASE phase # "root"
  BY <1>1, <1>2, <1>5, <1>6 DEF ParseInv
<1>7. CASE phase = "root"
  <2>1. PICK schema : schema = SchemaAt(tools, at)
    OBVIOUS
  <2>2. PICK n : n = Len(schema) - Len(toParse)
    OBVIOUS
  <2>3. /\ n \in Nat /\ schema[n + 1] = Head(toParse)
        /\ Len(schema) - Len(toParse') = n + 1
        /\ \A g \in 1..Len(toParse') : toParse'[g] = schema[Len(schema) - Len(toParse') + g]
    BY <1>2, <1>7, <2>1, <2>2, NextEvent
  <2>4. \A g \in 1..Len(definitions) :
           RegisteredBy(schema, n, definitions[g].name, definitions[g].body)
    BY <1>3, <1>7, <2>1, <2>2 DEF ParseInv
  <2>5. RegisteredBy(schema, n + 1, d.name, d.body)
    BY <1>2, <1>4, <2>3, JustRegistered
  <2>6. ASSUME NEW k \in 1..Len(new)
        PROVE  RegisteredBy(schema, n + 1, new[k].name, new[k].body)
    <3>1. CASE new[k] = d
      BY <2>5, <3>1
    <3>2. ASSUME NEW g \in 1..Len(definitions), new[k] = definitions[g],
                 definitions[g].name # d.name
          PROVE  RegisteredBy(schema, n + 1, new[k].name, new[k].body)
      <4>1. schema[n + 1].name # definitions[g].name
        BY <1>4, <2>3, <3>2
      <4>2. RegisteredBy(schema, n + 1, definitions[g].name, definitions[g].body)
        BY <2>3, <2>4, <4>1, OneMore
      <4>. QED
        BY <3>2, <4>2
    <3>. QED
      BY <1>5, <3>1, <3>2
  <2>7. SchemaAt(tools', at') = schema
    BY <1>2, <2>1
  <2>. QED
    BY <1>1, <1>2, <1>5, <2>3, <2>6, <2>7 DEF ParseInv
<1>. QED
  BY <1>6, <1>7

\* Nothing that is declared, or to be declared, depends on what is parsed.
LEMMA SameOutput ==
    ASSUME ToolsInv, UNCHANGED <<tools, at, phase, toDeclare, output>>
    PROVE  DeclareInv' /\ OutputInv'
<1>1. DeclareInv /\ OutputInv
  BY InvTypes
<1>2. DeclareInv'
  BY <1>1 DEF DeclareInv
<1>3. OutputInv'
  BY <1>1 DEF OutputInv
<1>. QED
  BY <1>2, <1>3

LEMMA SameUsed ==
    ASSUME ToolsInv,
           UNCHANGED <<tools, at, phase, definitions, hasSelfRef, toDeclare, output, used>>
    PROVE  UsedInv'
<1>1. UsedInv
  BY InvTypes
<1>. QED
  BY <1>1 DEF UsedInv, Settled, DeclaredFor, Registered

LEMMA RegisterKeeps ==
    ASSUME ToolsInv, Register
    PROVE  ParseInv' /\ DeclareInv' /\ OutputInv' /\ UsedInv' /\ FormInv'
<1>1. /\ UNCHANGED <<tools, at, phase, hasSelfRef, toDeclare, output, used, form>>
      /\ form = "open" /\ toParse # <<>>
  BY DEF Register, Converting
<1>2. \A name : Registered(name) => Registered(name)'
  <2>1. PICK d, new : /\ d = [name |-> Head(toParse).name, body |-> Head(toParse).body]
                      /\ new = definitions' /\ new = WithDefinition(d)
    BY DEF Register
  <2>2. toParse \in Seq(Event) /\ definitions \in Seq(Definition) /\ DistinctNames(definitions)
    BY InvTypes DEF ParseInv
  <2>3. d \in Definition
    <3>1. Head(toParse) \in Event
      BY <1>1, <2>2, HeadTailProperties
    <3>. QED
      BY <2>1, <3>1 DEF Event, Definition
  <2>4. \A g \in 1..Len(definitions) : \E k \in 1..Len(new) : new[k].name = definitions[g].name
    BY <2>1, <2>2, <2>3, WithDefinitionFacts
  <2>. QED
    BY <2>1, <2>4 DEF Registered
<1>3. UsedInv'
  <2>1. UsedInv
    BY InvTypes
  <2>. QED
    BY <1>1, <1>2, <2>1 DEF UsedInv, Settled, DeclaredFor
<1>. QED
  BY <1>1, <1>3, RegisterParses, SameOutput, OpenForm

\* A name that is used in the root is registered, or it is the root itself.
LEMMA UseKeeps ==
    ASSUME ToolsInv, at \in Functions(tools), NEW name,
           Registered(name) \/ (name = "parameters" /\ hasSelfRef'),
           used' = Uses(name), hasSelfRef => hasSelfRef',
           UNCHANGED <<tools, at, phase, definitions, toDeclare, output>>
    PROVE  UsedInv'
<1>1. UsedInv /\ at \in Nat /\ at <= Len(tools)
  BY InvTypes DEF Functions
<1>2. ASSUME NEW u \in used' \ used
      PROVE  u.tool = at /\ u.name = name /\ phase = "root"
  BY <1>2 DEF Uses
<1>3. ASSUME NEW u \in used'
      PROVE  /\ u.tool \in Functions(tools) /\ u.tool <= at
             /\ u.tool < at => Settled(u)
             /\ u.tool = at /\ phase = "root" =>
                   Registered(u.name) \/ (u.name = "parameters" /\ hasSelfRef')
             /\ u.tool = at /\ phase = "definitions" =>
                   DeclaredFor(u) \/ \E k \in 1..Len(toDeclare) : toDeclare[k].name = u.name
  <2>1. CASE u \in used
    BY <1>1, <2>1 DEF UsedInv
  <2>2. CASE u \notin used
    BY <1>1, <1>2, <2>2
  <2>. QED
    BY <2>1, <2>2
<1>. QED
  BY <1>3 DEF UsedInv, Settled, DeclaredFor, Registered

LEMMA ResolveKeeps ==
    ASSUME ToolsInv, Resolve \/ ResolveSelf
    PROVE  ParseInv' /\ DeclareInv' /\ OutputInv' /\ UsedInv' /\ FormInv'
<1>1. /\ UNCHANGED <<tools, at, phase, definitions, toDeclare, output, form>>
      /\ form = "open" /\ toParse # <<>> /\ toParse' = Tail(toParse)
      /\ Head(toParse).kind # "register" /\ at \in Functions(tools)
  BY DEF Resolve, ResolveSelf, Converting
<1>2. ASSUME Resolve PROVE UsedInv'
  <2>1. PICK name : name = Head(toParse).name
    OBVIOUS
  <2>2. Registered(name) /\ used' = Uses(name) /\ hasSelfRef' = hasSelfRef
    BY <1>2, <2>1 DEF Resolve
  <2>3. hasSelfRef => hasSelfRef'
    BY <2>2
  <2>. QED
    BY <1>1, <2>2, <2>3, UseKeeps
<1>3. ASSUME ResolveSelf PROVE UsedInv'
  <2>1. used' = Uses("parameters") /\ hasSelfRef'
    BY <1>3 DEF ResolveSelf
  <2>. QED
    BY <1>1, <2>1, UseKeeps
<1>. QED
  BY <1>1, <1>2, <1>3, ParseKeeps, SameOutput, OpenForm

LEMMA GiveUpKeeps ==
    ASSUME ToolsInv, GiveUp
    PROVE  ParseInv' /\ DeclareInv' /\ OutputInv' /\ UsedInv' /\ FormInv'
<1>1. /\ UNCHANGED <<tools, at, phase, toParse, definitions, hasSelfRef, toDeclare, output, used>>
      /\ toParse # <<>> /\ Unresolvable(Head(toParse)) /\ form' = "json"
  BY DEF GiveUp
<1>2. ParseInv
  BY InvTypes
<1>3. ParseInv'
  BY <1>1, <1>2 DEF ParseInv
<1>4. UsedInv'
  BY <1>1, SameUsed
<1>5. FormInv'
  BY <1>1 DEF FormInv, Unresolvable, Registered
<1>. QED
  BY <1>1, <1>3, <1>4, <1>5, SameOutput

------------------------------------------------------------------------------
(***************************************************************************)
(* Declaring                                                               *)
(***************************************************************************)

\* What Append does to the output, and what it leaves.
LEMMA Appended ==
    ASSUME output \in Seq(Declared), NEW d, output' = Append(output, d)
    PROVE  /\ Len(output) \in Nat /\ Len(output') = Len(output) + 1
           /\ Len(output') \in 1..Len(output') /\ output'[Len(output')] = d
           /\ \A g \in 1..Len(output) : g \in 1..Len(output') /\ output'[g] = output[g]
           /\ \A g \in 1..Len(output') : g = Len(output') \/ g \in 1..Len(output)
<1>1. Len(output) \in Nat /\ Len(output') = Len(output) + 1
  OBVIOUS
<1>2. \A g \in 1..Len(output) : output'[g] = output[g]
  BY <1>1
<1>3. output'[Len(output) + 1] = d
  BY <1>1
<1>4. /\ \A g \in 1..Len(output) : g \in 1..(Len(output) + 1)
      /\ \A g \in 1..(Len(output) + 1) : g = Len(output) + 1 \/ g \in 1..Len(output)
      /\ Len(output) + 1 \in 1..(Len(output) + 1)
  BY <1>1
<1>. QED
  BY <1>1, <1>2, <1>3, <1>4

\* A finished function keeps its interfaces, and a declared name stays declared.
LEMMA StaysDeclared ==
    ASSUME output \in Seq(Declared), NEW d, output' = Append(output, d), NEW u
    PROVE  (Settled(u) => Settled(u)') /\ (DeclaredFor(u) => DeclaredFor(u)')
<1>1. /\ Len(output) \in Nat
      /\ \A g \in 1..Len(output) : g \in 1..Len(output') /\ output'[g] = output[g]
  BY Appended
<1>2. DeclaredFor(u) => DeclaredFor(u)'
  BY <1>1 DEF DeclaredFor
<1>3. ASSUME Settled(u) PROVE Settled(u)'
  <2>1. PICK g \in 1..Len(output), f \in 1..Len(output) :
           /\ output[f].kind = "function" /\ output[f].tool = u.tool
           /\ g < f /\ output[g].kind = "interface" /\ output[g].name = u.name
           /\ \A k \in g..(f - 1) : output[k].tool = u.tool
    BY <1>3 DEF Settled
  <2>2. \A k \in g..(f - 1) : k \in 1..Len(output)
    BY <1>1
  <2>3. \A k \in g..(f - 1) : output'[k].tool = u.tool
    BY <1>1, <2>1, <2>2
  <2>. QED
    BY <1>1, <2>1, <2>3 DEF Settled
<1>. QED
  BY <1>2, <1>3

\* An interface is declared for the tool that is converted, under a new name, with the
\* body that was registered last.
LEMMA InterfaceKeeps ==
    ASSUME ToolsInv, at \in Functions(tools), NEW name, NEW body,
           output' = Append(output, Interface(name, body)),
           name # "parameters" =>
               RegisteredBy(SchemaAt(tools, at), Len(SchemaAt(tools, at)), name, body),
           \A g \in 1..Len(output) : output[g].tool = at => output[g].name # name,
           phase' = "definitions", UNCHANGED <<tools, at>>
    PROVE  OutputInv'
<1>1. OutputInv /\ output \in Seq(Declared) /\ at \in Nat
  BY InvTypes
<1>2. PICK n : n = Len(output')
  OBVIOUS
<1>3. PICK d : d = Interface(name, body)
  OBVIOUS
<1>4. d.kind = "interface" /\ d.tool = at /\ d.name = name /\ d.body = body
  BY <1>3 DEF Interface
<1>5. /\ output'[n] = d /\ n \in Nat
      /\ \A g \in 1..Len(output) : g \in 1..Len(output') /\ output'[g] = output[g]
      /\ \A g \in 1..Len(output') : g = n \/ g \in 1..Len(output)
      /\ Len(output) \in Nat /\ n = Len(output) + 1
  BY <1>1, <1>2, <1>3, Appended
<1>6. ASSUME NEW g \in 1..Len(output')
      PROVE  /\ output'[g].tool \in Functions(tools) /\ output'[g].tool <= at
             /\ output'[g].kind = "function" => output'[g].tool < at
             /\ output'[g].kind = "interface" /\ output'[g].name # "parameters" =>
                   RegisteredBy(SchemaAt(tools, output'[g].tool),
                                Len(SchemaAt(tools, output'[g].tool)),
                                output'[g].name, output'[g].body)
  <2>1. CASE g = n
    BY <1>1, <1>4, <1>5, <2>1
  <2>2. CASE g \in 1..Len(output)
    BY <1>1, <1>5, <2>2 DEF OutputInv
  <2>. QED
    BY <1>5, <2>1, <2>2
<1>7. ASSUME NEW g \in 1..Len(output'), NEW k \in 1..Len(output'), g <= k
      PROVE  output'[g].tool <= output'[k].tool
  <2>1. CASE k = n
    BY <1>4, <1>5, <1>6, <2>1
  <2>2. CASE k \in 1..Len(output)
    <3>1. g \in 1..Len(output)
      BY <1>5, <1>7, <2>2
    <3>. QED
      BY <1>1, <1>5, <1>7, <2>2, <3>1 DEF OutputInv
  <2>. QED
    BY <1>5, <2>1, <2>2
<1>8. ASSUME NEW g \in 1..Len(output'), NEW k \in 1..Len(output'),
             output'[g].kind = "interface", output'[k].kind = "interface",
             output'[g].tool = output'[k].tool, output'[g].name = output'[k].name
      PROVE  g = k
  <2>1. CASE g \in 1..Len(output) /\ k \in 1..Len(output)
    BY <1>1, <1>5, <1>8, <2>1 DEF OutputInv
  <2>2. CASE g = n \/ k = n
    BY <1>4, <1>5, <1>8, <2>2
  <2>. QED
    BY <1>5, <2>1, <2>2
<1>9. ASSUME NEW t \in Functions(tools), t < at
      PROVE  \E g \in 1..Len(output') : output'[g].kind = "function" /\ output'[g].tool = t
  BY <1>1, <1>5, <1>9 DEF OutputInv
<1>10. tools' = tools /\ at' = at /\ phase' = "definitions"
  OBVIOUS
<1>. QED
  BY <1>6, <1>7, <1>8, <1>9, <1>10 DEF OutputInv

LEMMA EndRootKeeps ==
    ASSUME ToolsInv, EndRoot
    PROVE  ParseInv' /\ DeclareInv' /\ OutputInv' /\ UsedInv' /\ FormInv'
<1>1. /\ UNCHANGED <<tools, at, toParse, definitions, hasSelfRef, used, form>>
      /\ form = "open" /\ at \in Functions(tools) /\ phase = "root" /\ toParse = <<>>
      /\ toDeclare' = definitions /\ phase' = "definitions"
  BY DEF EndRoot, Converting
<1>2. \/ output' = output /\ ~hasSelfRef
      \/ output' = Append(output, Interface("parameters", 0)) /\ hasSelfRef
  BY DEF EndRoot
<1>3. /\ ParseInv /\ OutputInv /\ UsedInv /\ output \in Seq(Declared) /\ at \in Nat
      /\ definitions \in Seq(Definition) /\ SchemaAt(tools, at) \in Seq(Event)
  BY InvTypes
<1>4. ParseInv'
  BY <1>1, <1>3 DEF ParseInv
<1>5. \A g \in 1..Len(output) : output[g].tool < at /\ output[g].tool # at
  <2>1. \A g \in 1..Len(output) : output[g].tool < at
    BY <1>1, <1>3 DEF OutputInv
  <2>2. ASSUME NEW g \in 1..Len(output) PROVE output[g].tool \in Nat
    <3>1. output[g] \in Declared
      BY <1>3
    <3>. QED
      BY <3>1 DEF Declared
  <2>. QED
    BY <1>3, <2>1, <2>2
<1>6. OutputInv'
  <2>1. CASE output' = output
    BY <1>1, <1>3, <2>1 DEF OutputInv
  <2>2. CASE output' = Append(output, Interface("parameters", 0))
    BY <1>1, <1>5, <2>2, InterfaceKeeps
  <2>. QED
    BY <1>2, <2>1, <2>2
<1>7. DeclareInv'
  <2>1. Len(SchemaAt(tools, at)) - Len(toParse) = Len(SchemaAt(tools, at))
    BY <1>1, <1>3
  <2>2. \A k \in 1..Len(definitions) :
           RegisteredBy(SchemaAt(tools, at), Len(SchemaAt(tools, at)),
                        definitions[k].name, definitions[k].body)
    BY <1>1, <1>3, <2>1 DEF ParseInv
  <2>3. ASSUME NEW k \in 1..Len(definitions), NEW g \in 1..Len(output'), output'[g].tool = at
        PROVE  output'[g].name # definitions[k].name
    <3>1. CASE g \in 1..Len(output)
      BY <1>2, <1>3, <1>5, <2>3, <3>1, Appended
    <3>2. CASE g \notin 1..Len(output)
      <4>1. output' = Append(output, Interface("parameters", 0)) /\ g = Len(output')
        BY <1>2, <1>3, <3>2, Appended
      <4>2. output'[g].name = "parameters"
        BY <1>3, <4>1, Appended DEF Interface
      <4>3. definitions[k].name # "parameters"
        <5>1. definitions[k] \in Definition
          BY <1>3
        <5>. QED
          BY <5>1, DefNamesAssumption DEF Definition
      <4>. QED
        BY <4>2, <4>3
    <3>. QED
      BY <3>1, <3>2
  <2>. QED
    BY <1>1, <1>3, <2>2, <2>3 DEF DeclareInv, ParseInv
<1>8. UsedInv'
  <2>1. ASSUME NEW u \in used
        PROVE  /\ u.tool \in Functions(tools) /\ u.tool <= at
               /\ u.tool < at => Settled(u)'
               /\ u.tool = at =>
                     DeclaredFor(u)' \/ \E k \in 1..Len(definitions) : definitions[k].name = u.name
    <3>1. Settled(u) => Settled(u)'
      <4>1. CASE output' = output
        BY <4>1 DEF Settled
      <4>2. CASE output' = Append(output, Interface("parameters", 0))
        BY <1>3, <4>2, StaysDeclared
      <4>. QED
        BY <1>2, <4>1, <4>2
    <3>2. ASSUME u.tool = at, u.name = "parameters", hasSelfRef PROVE DeclaredFor(u)'
      <4>1. output' = Append(output, Interface("parameters", 0))
        BY <1>2, <3>2
      <4>2. /\ Len(output') \in 1..Len(output')
            /\ output'[Len(output')] = Interface("parameters", 0)
        BY <1>3, <4>1, Appended
      <4>3. Interface("parameters", 0).kind = "interface" /\ Interface("parameters", 0).tool = at
            /\ Interface("parameters", 0).name = "parameters"
        BY DEF Interface
      <4>. QED
        BY <3>2, <4>2, <4>3 DEF DeclaredFor
    <3>3. u.tool = at => Registered(u.name) \/ (u.name = "parameters" /\ hasSelfRef)
      BY <1>1, <1>3 DEF UsedInv
    <3>4. u.tool \in Functions(tools) /\ u.tool <= at /\ (u.tool < at => Settled(u))
      BY <1>3 DEF UsedInv
    <3>. QED
      BY <3>1, <3>2, <3>3, <3>4 DEF Registered
  <2>. QED
    BY <1>1, <2>1 DEF UsedInv
<1>. QED
  BY <1>1, <1>4, <1>6, <1>7, <1>8, OpenForm

LEMMA DeclareKeeps ==
    ASSUME ToolsInv, Declare
    PROVE  ParseInv' /\ DeclareInv' /\ OutputInv' /\ UsedInv' /\ FormInv'
<1>1. /\ UNCHANGED <<tools, at, phase, definitions, hasSelfRef, used, form>>
      /\ form = "open" /\ at \in Functions(tools) /\ phase = "definitions"
      /\ toDeclare # <<>> /\ toDeclare' = Tail(toDeclare)
      /\ output' = Append(output, Interface(Head(toDeclare).name, Head(toDeclare).body))
  BY DEF Declare, Converting
<1>2. /\ ParseInv /\ DeclareInv /\ UsedInv /\ output \in Seq(Declared)
      /\ toDeclare \in Seq(Definition)
  BY InvTypes
<1>3. PICK d : d = Head(toDeclare)
  OBVIOUS
<1>4. /\ d = toDeclare[1] /\ 1 \in 1..Len(toDeclare) /\ Len(toDeclare) \in Nat /\ d \in Definition
      /\ Len(toDeclare') = Len(toDeclare) - 1
      /\ \A k \in 1..Len(toDeclare') : toDeclare'[k] = toDeclare[k + 1]
  BY <1>1, <1>2, <1>3, HeadTailProperties
<1>5. PICK item : item = Interface(d.name, d.body)
  OBVIOUS
<1>6. item.kind = "interface" /\ item.tool = at /\ item.name = d.name /\ item.body = d.body
  BY <1>5 DEF Interface
<1>7. output' = Append(output, item)
  BY <1>1, <1>3, <1>5
<1>8. /\ Len(output') \in 1..Len(output') /\ output'[Len(output')] = item
      /\ \A g \in 1..Len(output) : g \in 1..Len(output') /\ output'[g] = output[g]
      /\ \A g \in 1..Len(output') : g = Len(output') \/ g \in 1..Len(output)
  BY <1>2, <1>7, Appended
<1>9. /\ DistinctNames(toDeclare)
      /\ \A k \in 1..Len(toDeclare) :
            /\ RegisteredBy(SchemaAt(tools, at), Len(SchemaAt(tools, at)),
                            toDeclare[k].name, toDeclare[k].body)
            /\ \A g \in 1..Len(output) :
                  output[g].tool = at => output[g].name # toDeclare[k].name
  BY <1>1, <1>2 DEF DeclareInv
<1>10. \A k \in 1..Len(toDeclare') : k + 1 \in 1..Len(toDeclare) /\ k + 1 # 1
  BY <1>4
<1>11. ParseInv'
  BY <1>1, <1>2 DEF ParseInv
<1>12. OutputInv'
  <2>1. /\ RegisteredBy(SchemaAt(tools, at), Len(SchemaAt(tools, at)), d.name, d.body)
        /\ \A g \in 1..Len(output) : output[g].tool = at => output[g].name # d.name
    BY <1>4, <1>9
  <2>2. phase' = "definitions" /\ UNCHANGED <<tools, at>>
    BY <1>1
  <2>. QED
    BY <1>1, <1>3, <2>1, <2>2, InterfaceKeeps
<1>13. DeclareInv'
  <2>1. DistinctNames(toDeclare')
    <3>1. SUFFICES ASSUME NEW g \in 1..Len(toDeclare'), NEW k \in 1..Len(toDeclare'),
                          toDeclare'[g].name = toDeclare'[k].name
                   PROVE  g = k
      BY DEF DistinctNames
    <3>2. toDeclare[g + 1].name = toDeclare[k + 1].name
      BY <1>4, <3>1
    <3>3. g + 1 = k + 1
      BY <1>9, <1>10, <3>2 DEF DistinctNames
    <3>. QED
      BY <1>4, <3>3
  <2>2. ASSUME NEW k \in 1..Len(toDeclare')
        PROVE  /\ RegisteredBy(SchemaAt(tools, at), Len(SchemaAt(tools, at)),
                               toDeclare'[k].name, toDeclare'[k].body)
               /\ \A g \in 1..Len(output') :
                     output'[g].tool = at => output'[g].name # toDeclare'[k].name
    <3>1. k + 1 \in 1..Len(toDeclare) /\ toDeclare'[k] = toDeclare[k + 1] /\ k + 1 # 1
      BY <1>4, <1>10
    <3>2. toDeclare[k + 1].name # d.name
      BY <1>4, <1>9, <3>1 DEF DistinctNames
    <3>3. ASSUME NEW g \in 1..Len(output'), output'[g].tool = at
          PROVE  output'[g].name # toDeclare[k + 1].name
      BY <1>6, <1>8, <1>9, <3>1, <3>2, <3>3
    <3>. QED
      BY <1>9, <3>1, <3>3
  <2>. QED
    BY <1>1, <2>1, <2>2 DEF DeclareInv
<1>14. UsedInv'
  <2>1. ASSUME NEW u \in used
        PROVE  /\ u.tool \in Functions(tools) /\ u.tool <= at
               /\ u.tool < at => Settled(u)'
               /\ u.tool = at =>
                     \/ DeclaredFor(u)'
                     \/ \E k \in 1..Len(toDeclare') : toDeclare'[k].name = u.name
    <3>1. (Settled(u) => Settled(u)') /\ (DeclaredFor(u) => DeclaredFor(u)')
      BY <1>2, <1>7, StaysDeclared
    <3>2. ASSUME u.tool = at, NEW k \in 1..Len(toDeclare), toDeclare[k].name = u.name
          PROVE  \/ DeclaredFor(u)'
                 \/ \E m \in 1..Len(toDeclare') : toDeclare'[m].name = u.name
      <4>1. CASE k = 1
        BY <1>4, <1>6, <1>8, <3>2, <4>1 DEF DeclaredFor
      <4>2. CASE k # 1
        <5>1. PICK m : m = k - 1
          OBVIOUS
        <5>2. m \in 1..Len(toDeclare') /\ m + 1 = k
          BY <1>4, <4>2, <5>1
        <5>. QED
          BY <1>4, <3>2, <5>2
      <4>. QED
        BY <4>1, <4>2
    <3>3. /\ u.tool \in Functions(tools) /\ u.tool <= at /\ (u.tool < at => Settled(u))
          /\ u.tool = at =>
                DeclaredFor(u) \/ \E k \in 1..Len(toDeclare) : toDeclare[k].name = u.name
      BY <1>1, <1>2 DEF UsedInv
    <3>. QED
      BY <3>1, <3>2, <3>3
  <2>. QED
    BY <1>1, <2>1 DEF UsedInv
<1>. QED
  BY <1>1, <1>11, <1>12, <1>13, <1>14, OpenForm

------------------------------------------------------------------------------
(***************************************************************************)
(* From tool to tool                                                       *)
(***************************************************************************)

\* A tool begins with an empty registry and all of its schema to parse.
LEMMA BeginsAnew ==
    ASSUME definitions' = <<>>, toParse' = SchemaAt(tools', at'),
           SchemaAt(tools', at') \in Seq(Event)
    PROVE  ParseInv'
<1>1. PICK schema : schema = SchemaAt(tools', at')
  OBVIOUS
<1>2. Len(schema) \in Nat /\ Len(schema) - Len(toParse') = 0 /\ toParse' = schema
  BY <1>1
<1>3. \A g \in 1..Len(toParse') : toParse'[g] = schema[0 + g]
  BY <1>2
<1>4. Len(definitions') = 0
  OBVIOUS
<1>5. DistinctNames(definitions')
  BY <1>4 DEF DistinctNames
<1>. QED
  BY <1>1, <1>2, <1>3, <1>4, <1>5 DEF ParseInv

LEMMA EndFunctionKeeps ==
    ASSUME ToolsInv, EndFunction
    PROVE  ParseInv' /\ DeclareInv' /\ OutputInv' /\ UsedInv' /\ FormInv'
<1>1. /\ UNCHANGED <<tools, toDeclare, used, form>>
      /\ form = "open" /\ at \in Functions(tools) /\ phase = "definitions"
      /\ toDeclare = <<>> /\ output' = Append(output, Function) /\ at' = at + 1
      /\ phase' = "root" /\ toParse' = SchemaAt(tools, at') /\ definitions' = <<>>
  BY DEF EndFunction, Converting
<1>2. /\ OutputInv /\ UsedInv /\ output \in Seq(Declared) /\ at \in Nat
      /\ tools \in ToolLists /\ used \subseteq Use /\ Len(tools) \in Nat
  BY InvTypes
<1>3. ParseInv'
  <2>1. SchemaAt(tools, at') \in Seq(Event)
    BY <1>2, SchemaType
  <2>. QED
    BY <1>1, <2>1, BeginsAnew
<1>4. PICK n : n = Len(output')
  OBVIOUS
<1>5. /\ n \in 1..Len(output') /\ n = Len(output) + 1 /\ Len(output) \in Nat
      /\ output'[n] = Function
      /\ \A g \in 1..Len(output) : g \in 1..Len(output') /\ output'[g] = output[g]
      /\ \A g \in 1..Len(output') : g = n \/ g \in 1..Len(output)
  BY <1>1, <1>2, <1>4, Appended
<1>6. Function.kind = "function" /\ Function.tool = at
  BY DEF Function
<1>7. \A g \in 1..Len(output) : output[g].tool \in Nat
  <2>1. ASSUME NEW g \in 1..Len(output) PROVE output[g].tool \in Nat
    <3>1. output[g] \in Declared
      BY <1>2
    <3>. QED
      BY <3>1 DEF Declared
  <2>. QED
    BY <2>1
<1>8. /\ \A g \in 1..Len(output) : output[g].tool \in Functions(tools) /\ output[g].tool <= at
      /\ \A g, k \in 1..Len(output) : g <= k => output[g].tool <= output[k].tool
  BY <1>2 DEF OutputInv
<1>9. OutputInv'
  <2>1. ASSUME NEW g \in 1..Len(output')
        PROVE  /\ output'[g].tool \in Functions(tools) /\ output'[g].tool <= at'
               /\ output'[g].tool < at'
               /\ output'[g].kind = "interface" /\ output'[g].name # "parameters" =>
                     RegisteredBy(SchemaAt(tools, output'[g].tool),
                                  Len(SchemaAt(tools, output'[g].tool)),
                                  output'[g].name, output'[g].body)
    <3>1. CASE g = n
      BY <1>1, <1>2, <1>5, <1>6, <3>1
    <3>2. CASE g \in 1..Len(output)
      <4>1. output'[g].tool < at' /\ output'[g].tool <= at'
        BY <1>1, <1>2, <1>5, <1>7, <1>8, <3>2
      <4>. QED
        BY <1>2, <1>5, <1>8, <3>2, <4>1 DEF OutputInv
    <3>. QED
      BY <1>5, <3>1, <3>2
  <2>2. ASSUME NEW g \in 1..Len(output'), NEW k \in 1..Len(output'), g <= k
        PROVE  output'[g].tool <= output'[k].tool
    <3>1. CASE k \in 1..Len(output)
      <4>1. g \in 1..Len(output)
        BY <1>5, <2>2, <3>1
      <4>. QED
        BY <1>5, <1>8, <2>2, <3>1, <4>1
    <3>2. CASE k = n
      BY <1>2, <1>5, <1>6, <1>8, <3>2
    <3>. QED
      BY <1>5, <3>1, <3>2
  <2>3. ASSUME NEW g \in 1..Len(output'), NEW k \in 1..Len(output'),
               output'[g].kind = "interface", output'[k].kind = "interface",
               output'[g].tool = output'[k].tool, output'[g].name = output'[k].name
        PROVE  g = k
    <3>1. g \in 1..Len(output) /\ k \in 1..Len(output)
      BY <1>5, <1>6, <2>3
    <3>. QED
      BY <1>2, <1>5, <2>3, <3>1 DEF OutputInv
  <2>4. ASSUME NEW t \in Functions(tools), t < at'
        PROVE  \E g \in 1..Len(output') : output'[g].kind = "function" /\ output'[g].tool = t
    <3>1. t \in Nat
      BY DEF Functions
    <3>2. CASE t = at
      BY <1>5, <1>6, <3>2
    <3>3. CASE t # at
      <4>1. t < at
        BY <1>1, <1>2, <2>4, <3>1, <3>3
      <4>. QED
        BY <1>2, <1>5, <4>1 DEF OutputInv
    <3>. QED
      BY <3>2, <3>3
  <2>. QED
    BY <1>1, <2>1, <2>2, <2>3, <2>4 DEF OutputInv
<1>10. ASSUME NEW u \in used, u.tool = at PROVE Settled(u)'
  <2>1. DeclaredFor(u)
    BY <1>1, <1>2, <1>10 DEF UsedInv
  <2>2. PICK g \in 1..Len(output) :
           output[g].kind = "interface" /\ output[g].tool = u.tool /\ output[g].name = u.name
    BY <2>1 DEF DeclaredFor
  <2>3. ASSUME NEW k \in g..(n - 1) PROVE output'[k].tool = u.tool
    <3>1. k \in 1..Len(output) /\ g <= k
      BY <1>5
    <3>2. output[g].tool <= output[k].tool /\ output[k].tool <= at
      BY <1>8, <3>1
    <3>3. output[k].tool = at
      BY <1>2, <1>7, <1>10, <2>2, <3>1, <3>2
    <3>. QED
      BY <1>5, <1>10, <3>1, <3>3
  <2>4. g < n
    BY <1>5
  <2>. QED
    BY <1>5, <1>6, <1>10, <2>2, <2>3, <2>4 DEF Settled
<1>11. UsedInv'
  <2>1. ASSUME NEW u \in used
        PROVE  u.tool \in Functions(tools) /\ u.tool < at' /\ u.tool <= at' /\ u.tool # at'
               /\ Settled(u)'
    <3>1. u \in Use
      BY <1>2
    <3>2. u.tool \in Nat
      BY <3>1 DEF Use
    <3>3. u.tool \in Functions(tools) /\ u.tool <= at /\ (u.tool < at => Settled(u))
      BY <1>2 DEF UsedInv
    <3>4. Settled(u) => Settled(u)'
      BY <1>1, <1>2, StaysDeclared
    <3>5. u.tool = at \/ u.tool < at
      BY <1>2, <3>2, <3>3
    <3>6. u.tool < at' /\ u.tool <= at' /\ u.tool # at'
      BY <1>1, <1>2, <3>2, <3>3
    <3>. QED
      BY <1>10, <3>3, <3>4, <3>5, <3>6
  <2>. QED
    BY <1>1, <2>1 DEF UsedInv
<1>12. DeclareInv'
  BY <1>1 DEF DeclareInv
<1>. QED
  BY <1>1, <1>3, <1>9, <1>11, <1>12, OpenForm

LEMMA SkipToolKeeps ==
    ASSUME ToolsInv, SkipTool
    PROVE  ParseInv' /\ DeclareInv' /\ OutputInv' /\ UsedInv' /\ FormInv'
<1>1. /\ UNCHANGED <<tools, phase, definitions, toDeclare, output, used, form>>
      /\ form = "open" /\ at \notin Functions(tools) /\ at' = at + 1
      /\ toParse' = SchemaAt(tools, at')
  BY DEF SkipTool
<1>2. /\ ParseInv /\ DeclareInv /\ OutputInv /\ UsedInv /\ output \in Seq(Declared)
      /\ tools \in ToolLists /\ used \subseteq Use /\ at \in Nat
  BY InvTypes
<1>3. definitions = <<>> /\ phase # "definitions"
  BY <1>1, <1>2 DEF ParseInv, DeclareInv
<1>4. ParseInv'
  <2>1. SchemaAt(tools, at') \in Seq(Event)
    BY <1>2, SchemaType
  <2>. QED
    BY <1>1, <1>3, <2>1, BeginsAnew
<1>5. DeclareInv'
  BY <1>1, <1>3 DEF DeclareInv
<1>6. ASSUME NEW g \in 1..Len(output) PROVE output[g].tool <= at' /\ output[g].tool < at'
  <2>1. output[g] \in Declared
    BY <1>2
  <2>2. output[g].tool \in Nat /\ output[g].tool <= at
    BY <1>2, <2>1 DEF Declared, OutputInv
  <2>. QED
    BY <1>1, <1>2, <2>2
<1>7. \A t \in Functions(tools) : t < at' => t < at
  BY <1>1, <1>2 DEF Functions
<1>8. OutputInv'
  BY <1>1, <1>2, <1>6, <1>7 DEF OutputInv
<1>9. ASSUME NEW u \in used
      PROVE  u.tool \in Functions(tools) /\ u.tool <= at' /\ u.tool # at' /\ Settled(u)
  <2>1. u.tool \in Nat /\ u.tool \in Functions(tools) /\ u.tool <= at
    <3>1. u \in Use
      BY <1>2
    <3>. QED
      BY <1>2, <3>1 DEF Use, UsedInv
  <2>2. u.tool <= at' /\ u.tool # at'
    BY <1>1, <1>2, <2>1
  <2>3. u.tool # at
    BY <1>1, <2>1
  <2>. QED
    BY <1>2, <2>1, <2>2, <2>3 DEF UsedInv
<1>10. UsedInv'
  BY <1>1, <1>9 DEF UsedInv, Settled
<1>. QED
  BY <1>1, <1>4, <1>5, <1>8, <1>10, OpenForm

LEMMA EndToolsKeeps ==
    ASSUME ToolsInv, EndTools
    PROVE  ParseInv' /\ DeclareInv' /\ OutputInv' /\ UsedInv' /\ FormInv'
<1>1. /\ UNCHANGED <<tools, at, phase, toParse, definitions, hasSelfRef, toDeclare, output, used>>
      /\ at > Len(tools)
      /\ form' = IF output = <<>> THEN "json" ELSE "typescript"
  BY DEF EndTools
<1>2. ParseInv /\ OutputInv /\ at \in Nat /\ Len(tools) \in Nat
  BY InvTypes
<1>3. ParseInv'
  BY <1>1, <1>2 DEF ParseInv
<1>4. UsedInv'
  BY <1>1, SameUsed
<1>5. ASSUME output = <<>> PROVE Functions(tools) = {}
  <2>1. \A t \in Functions(tools) : t < at
    BY <1>1, <1>2 DEF Functions
  <2>. QED
    BY <1>2, <1>5, <2>1 DEF OutputInv
<1>6. FormInv'
  BY <1>1, <1>5 DEF FormInv
<1>. QED
  BY <1>1, <1>3, <1>4, <1>6, SameOutput

LEMMA NextInv == ToolsInv /\ [ToolsNext]_toolVars => ToolsInv'
<1>. SUFFICES ASSUME ToolsInv, [ToolsNext]_toolVars
              PROVE  ParseInv' /\ DeclareInv' /\ OutputInv' /\ UsedInv' /\ FormInv'
  BY NextTypes DEF ToolsInv
<1>1. CASE UNCHANGED toolVars
  <2>1. UNCHANGED <<tools, at, phase, toParse, definitions, hasSelfRef, toDeclare, output,
                    used, form>>
    BY <1>1 DEF toolVars
  <2>2. ParseInv /\ FormInv
    BY DEF ToolsInv
  <2>3. ParseInv'
    BY <2>1, <2>2 DEF ParseInv
  <2>4. UsedInv'
    BY <2>1, SameUsed
  <2>5. FormInv'
    BY <2>1, <2>2 DEF FormInv, Unresolvable, Registered
  <2>. QED
    BY <2>1, <2>3, <2>4, <2>5, SameOutput
<1>2. CASE ToolsNext
  BY <1>2, RegisterKeeps, ResolveKeeps, GiveUpKeeps, EndRootKeeps, DeclareKeeps,
     EndFunctionKeeps, SkipToolKeeps, EndToolsKeeps DEF ToolsNext
<1>. QED
  BY <1>1, <1>2

\* Whatever tools are declared in TypeScript, no type they refer to is missing,
\* declared twice, or declared with another function.
THEOREM TypesAreDeclared == ToolsSpec => []ReferencesAreDeclared
BY InitInv, NextInv, InvReferences, PTL DEF ToolsSpec

\* All tools are declared in TypeScript, each definition as it was registered last,
\* unless one of them cannot be converted or there is none.
THEOREM OneFormForAll == ToolsSpec => []DeclaredInOneForm
BY InitInv, NextInv, InvOneForm, PTL DEF ToolsSpec

USE InputsAssumption, LimitsAssumption

------------------------------------------------------------------------------
LEMMA PiecesInitType == PiecesInit => PiecesTypeOK
BY DEF PiecesInit, PiecesStart, PiecesTypeOK

LEMMA PiecesNextType == PiecesTypeOK /\ [PiecesNext]_pieceVars => PiecesTypeOK'
<1>. SUFFICES ASSUME PiecesTypeOK, [PiecesNext]_pieceVars PROVE PiecesTypeOK'
  OBVIOUS
<1>. USE DEF PiecesTypeOK, Scanning, ChunkEnd, Slice
<1>1. text \in Seq(BOOLEAN)
  OBVIOUS
<1>2. CASE Extend
  BY <1>1, <1>2 DEF Extend
<1>3. CASE Turn
  BY <1>1, <1>3 DEF Turn
<1>4. CASE Split
  BY <1>1, <1>4 DEF Split
<1>5. CASE EndChunk
  BY <1>1, <1>5 DEF EndChunk
<1>6. CASE UNCHANGED pieceVars
  BY <1>6 DEF pieceVars
<1>. QED
  BY <1>2, <1>3, <1>4, <1>5, <1>6 DEF PiecesNext

\* The state of the loop keeps its shape; no run is counted beyond its limit.
THEOREM PiecesTypeCorrect == PiecesSpec => []PiecesTypeOK
BY PiecesInitType, PiecesNextType, PTL DEF PiecesSpec

------------------------------------------------------------------------------
(***************************************************************************)
(* The inductive invariant                                                 *)
(***************************************************************************)
\* The definitions of TextPieces, of any text: what a piece is does not change with
\* the state.
OneKind(t, first, last) == \A k \in first..last : t[k] = t[first]

NoLongRun(t, first, last) ==
    \A a, b \in first..last : OneKind(t, a, b) => b - a < MaxRun

IsNeeded(t, first, last) ==
    \/ last = Len(t)
    \/ \E n \in 1..last : last = n * MaxChars
    \/ last + 1 - MaxRun >= first /\ OneKind(t, last + 1 - MaxRun, last + 1)

IsPiece(t, first, last) ==
    /\ first <= last
    /\ last - first < MaxChars
    /\ NoLongRun(t, first, last)
    /\ IsNeeded(t, first, last)

\* Where the loop is, and what it knows of the run before character i.
LoopInv ==
  /\ chunk <= i
  /\ chunk <= Len(text) =>
        /\ chunk <= sliceStart /\ sliceStart <= ChunkEnd
        /\ sliceStart <= i /\ i <= ChunkEnd + 1
        /\ i = chunk => sliceLen = 0 /\ sliceIsSpace = text[i]
        /\ i > chunk =>
              /\ sliceLen >= 1 /\ sliceStart <= i - sliceLen
              /\ \A k \in (i - sliceLen)..(i - 1) : text[k] = sliceIsSpace
              /\ sliceStart < i - sliceLen => text[i - sliceLen - 1] # sliceIsSpace
        /\ NoLongRun(text, sliceStart, i - 1)

\* Where the pieces so far end.
End == IF pieces = <<>> THEN 0 ELSE pieces[Len(pieces)].last
Covered == IF chunk <= Len(text) THEN sliceStart - 1 ELSE Len(text)

ArePieces ==
    \A k \in 1..Len(pieces) :
        /\ IsPiece(text, pieces[k].first, pieces[k].last)
        /\ pieces[k].first = IF k = 1 THEN 1 ELSE pieces[k - 1].last + 1

\* The chunks before this one are whole, and the pieces end where the next begins.
PieceInv ==
    /\ PiecesTypeOK
    /\ LoopInv
    /\ \E n \in Nat : chunk = n * MaxChars + 1
    /\ ArePieces
    /\ End = Covered
    /\ pieces = <<>> => chunk = 1

LEMMA InitPiece == PiecesInit => PieceInv
<1>. SUFFICES ASSUME PiecesInit PROVE PieceInv
  OBVIOUS
<1>1. PiecesTypeOK
  BY PiecesInitType
<1>2. text \in Seq(BOOLEAN)
  BY <1>1 DEF PiecesTypeOK
<1>3. LoopInv
  BY <1>2 DEF PiecesInit, PiecesStart, LoopInv, ChunkEnd, NoLongRun
<1>4. 0 \in Nat /\ chunk = 0 * MaxChars + 1
  BY DEF PiecesInit, PiecesStart
<1>5. pieces = <<>> /\ chunk = 1 /\ sliceStart = 1
  BY DEF PiecesInit, PiecesStart
<1>6. End = Covered /\ ArePieces
  BY <1>2, <1>5 DEF End, Covered, ArePieces
<1>. QED
  BY <1>1, <1>3, <1>4, <1>5, <1>6 DEF PieceInv

LEMMA PiecesStay ==
    ASSUME PieceInv, UNCHANGED <<text, pieces>>
    PROVE  ArePieces' /\ End' = End
BY DEF PieceInv, ArePieces, End

LEMMA LastOfSeq ==
    ASSUME NEW S, NEW s \in Seq(S), s # <<>>
    PROVE  s[Len(s)] \in S
<1>1. Len(s) \in Nat /\ Len(s) # 0
  OBVIOUS
<1>2. Len(s) \in 1..Len(s)
  BY <1>1
<1>. QED
  BY <1>2

LEMMA EndType == PiecesTypeOK => End \in Nat
<1>. SUFFICES ASSUME pieces \in Seq([first : Nat, last : Nat]), pieces # <<>>
              PROVE  pieces[Len(pieces)].last \in Nat
  BY DEF PiecesTypeOK, End
<1>. QED
  BY LastOfSeq

\* A piece that is appended leaves the others what they were.
LEMMA AppendPiece ==
    ASSUME PieceInv, UNCHANGED text, NEW first \in Nat, NEW last \in Nat, first = End + 1,
           pieces' = Append(pieces, Slice(first, last)), IsPiece(text, first, last)
    PROVE  ArePieces' /\ End' = last /\ pieces' # <<>>
<1>1. pieces \in Seq([first : Nat, last : Nat]) /\ ArePieces
  BY DEF PieceInv, PiecesTypeOK
<1>. PICK n \in Nat : n = Len(pieces)
  BY <1>1
<1>2. /\ Len(pieces') = n + 1
      /\ \A k \in 1..n : pieces'[k] = pieces[k]
      /\ pieces'[n + 1] = [first |-> first, last |-> last]
      /\ pieces = <<>> <=> n = 0
  BY <1>1 DEF Slice
<1>3. End' = last /\ pieces' # <<>>
  BY <1>1, <1>2 DEF End
<1>4. ASSUME NEW k \in 1..n
      PROVE  /\ IsPiece(text, pieces'[k].first, pieces'[k].last)
             /\ pieces'[k].first = IF k = 1 THEN 1 ELSE pieces'[k - 1].last + 1
  <2>1. pieces'[k] = pieces[k] /\ (k # 1 => pieces'[k - 1] = pieces[k - 1])
    BY <1>2
  <2>. QED
    BY <1>1, <2>1 DEF ArePieces
<1>5. /\ IsPiece(text, pieces'[n + 1].first, pieces'[n + 1].last)
      /\ pieces'[n + 1].first = IF n + 1 = 1 THEN 1 ELSE pieces'[n].last + 1
  <2>1. pieces'[n + 1].first = first /\ pieces'[n + 1].last = last
    BY <1>2
  <2>2. n # 0 => pieces'[n] = pieces[n]
    BY <1>2
  <2>. QED
    BY <1>2, <2>1, <2>2 DEF End
<1>6. \A k \in 1..(n + 1) : k \in 1..n \/ k = n + 1
  OBVIOUS
<1>. QED
  BY <1>2, <1>3, <1>4, <1>5, <1>6 DEF ArePieces

------------------------------------------------------------------------------
(***************************************************************************)
(* Every step of the loop                                                  *)
(***************************************************************************)
\* The run before i goes on with character i, and is no longer than its limit.
LEMMA RunGoesOn ==
    ASSUME PieceInv, Extend
    PROVE  LoopInv'
<1>1. /\ text \in Seq(BOOLEAN) /\ chunk \in Nat /\ i \in Nat /\ sliceStart \in Nat
      /\ sliceLen \in Nat /\ ChunkEnd \in Nat /\ LoopInv
      /\ text' = text /\ chunk' = chunk /\ sliceStart' = sliceStart
      /\ sliceIsSpace' = sliceIsSpace /\ i' = i + 1 /\ sliceLen' = sliceLen + 1
      /\ chunk <= i /\ i <= ChunkEnd /\ ChunkEnd <= Len(text) /\ ChunkEnd' = ChunkEnd
      /\ text[i] = sliceIsSpace /\ sliceLen < MaxRun
  BY DEF PieceInv, PiecesTypeOK, Extend, Scanning, LoopInv, ChunkEnd
<1>2. /\ chunk <= sliceStart /\ sliceStart <= i - sliceLen
      /\ \A k \in (i - sliceLen)..i : text[k] = text[i]
      /\ sliceStart < i - sliceLen => text[i - sliceLen - 1] # text[i]
  BY <1>1 DEF LoopInv
<1>3. ASSUME NEW a \in sliceStart..i, NEW b \in sliceStart..i, OneKind(text, a, b)
      PROVE  b - a < MaxRun
  <2>1. CASE b < i
    BY <1>1, <1>3, <2>1 DEF LoopInv, NoLongRun
  <2>2. CASE b = i /\ i - sliceLen <= a
    BY <1>1, <2>2
  <2>3. CASE b = i /\ a < i - sliceLen
    <3>1. i - sliceLen - 1 \in a..b /\ i \in a..b
      BY <1>1, <2>3
    <3>. QED
      BY <1>1, <1>2, <1>3, <2>3, <3>1 DEF OneKind
  <2>. QED
    BY <1>1, <2>1, <2>2, <2>3
<1>. QED
  BY <1>1, <1>2, <1>3 DEF LoopInv, NoLongRun

\* A run that begins is one character long.
LEMMA RunBegins ==
    ASSUME PieceInv, Turn
    PROVE  LoopInv'
<1>1. /\ text \in Seq(BOOLEAN) /\ chunk \in Nat /\ i \in Nat /\ sliceStart \in Nat
      /\ sliceLen \in Nat /\ ChunkEnd \in Nat /\ LoopInv
      /\ text' = text /\ chunk' = chunk /\ sliceStart' = sliceStart
      /\ sliceIsSpace' = text[i] /\ i' = i + 1 /\ sliceLen' = 1
      /\ chunk <= i /\ i <= ChunkEnd /\ ChunkEnd <= Len(text) /\ ChunkEnd' = ChunkEnd
      /\ text[i] # sliceIsSpace
  BY DEF PieceInv, PiecesTypeOK, Turn, Scanning, LoopInv, ChunkEnd
<1>2. chunk < i /\ chunk <= sliceStart /\ sliceStart <= i - 1 /\ text[i - 1] # text[i]
  BY <1>1 DEF LoopInv
<1>3. ASSUME NEW a \in sliceStart..i, NEW b \in sliceStart..i, OneKind(text, a, b)
      PROVE  b - a < MaxRun
  <2>1. CASE b < i
    BY <1>1, <1>3, <2>1 DEF LoopInv, NoLongRun
  <2>2. CASE b = i /\ a = i
    BY <1>1, <2>2
  <2>3. CASE b = i /\ a < i
    <3>1. i - 1 \in a..b /\ i \in a..b
      BY <1>1, <2>3
    <3>. QED
      BY <1>1, <1>2, <1>3, <2>3, <3>1 DEF OneKind
  <2>. QED
    BY <1>1, <2>1, <2>2, <2>3
<1>. QED
  BY <1>1, <1>2, <1>3 DEF LoopInv, NoLongRun

\* A run that is too long is cut before character i.
LEMMA RunIsCut ==
    ASSUME PieceInv, Split
    PROVE  PieceInv'
<1>1. /\ text \in Seq(BOOLEAN) /\ chunk \in Nat /\ i \in Nat /\ sliceStart \in Nat \ {0}
      /\ sliceLen = MaxRun /\ ChunkEnd \in Nat /\ LoopInv
      /\ text' = text /\ chunk' = chunk /\ sliceStart' = i
      /\ sliceIsSpace' = sliceIsSpace /\ i' = i + 1 /\ sliceLen' = 1
      /\ chunk <= i /\ i <= ChunkEnd /\ ChunkEnd <= Len(text) /\ ChunkEnd' = ChunkEnd
      /\ text[i] = sliceIsSpace /\ ChunkEnd <= chunk + MaxChars - 1
      /\ pieces' = Append(pieces, Slice(sliceStart, i - 1))
  BY DEF PieceInv, PiecesTypeOK, Split, Scanning, LoopInv, ChunkEnd
<1>2. /\ chunk < i /\ chunk <= sliceStart /\ sliceStart <= i - MaxRun
      /\ \A k \in (i - MaxRun)..i : text[k] = text[i]
      /\ NoLongRun(text, sliceStart, i - 1)
  BY <1>1 DEF LoopInv
<1>3. LoopInv'
  BY <1>1, <1>2 DEF LoopInv, NoLongRun
<1>4. OneKind(text, i - 1 + 1 - MaxRun, i - 1 + 1) /\ i - 1 + 1 - MaxRun >= sliceStart
  BY <1>1, <1>2 DEF OneKind
<1>5. IsPiece(text, sliceStart, i - 1)
  BY <1>1, <1>2, <1>4 DEF IsPiece, IsNeeded
<1>6. sliceStart = End + 1 /\ i - 1 \in Nat
  BY <1>1, <1>2, EndType DEF PieceInv, Covered
<1>7. ArePieces' /\ End' = i - 1 /\ pieces' # <<>>
  BY <1>1, <1>5, <1>6, AppendPiece
<1>8. PiecesTypeOK'
  BY PiecesNextType DEF PieceInv, PiecesNext
<1>9. End' = Covered'
  BY <1>1, <1>7 DEF Covered
<1>. QED
  BY <1>1, <1>3, <1>7, <1>8, <1>9 DEF PieceInv

LEMMA TimesGrows ==
    ASSUME NEW a \in Nat, NEW b \in Nat \ {0}
    PROVE  a <= a * b
<1>1. PICK c \in Nat : b = c + 1
  <2>1. b - 1 \in Nat /\ b = (b - 1) + 1
    OBVIOUS
  <2>. QED
    BY <2>1
<1>2. a * (c + 1) = a * c + a
  OBVIOUS
<1>3. a * c \in Nat
  OBVIOUS
<1>. QED
  BY <1>1, <1>2, <1>3

\* What is left of a chunk is its last piece.
LEMMA ChunkEnds ==
    ASSUME PieceInv, EndChunk
    PROVE  PieceInv'
<1>1. /\ text \in Seq(BOOLEAN) /\ chunk \in Nat \ {0} /\ i \in Nat
      /\ sliceStart \in Nat \ {0} /\ ChunkEnd \in Nat
      /\ text' = text /\ chunk' = chunk + MaxChars /\ sliceStart' = chunk'
      /\ i' = chunk' /\ sliceLen' = 0
      /\ i > ChunkEnd /\ chunk <= Len(text) /\ ChunkEnd <= Len(text)
      /\ ChunkEnd = chunk + MaxChars - 1 \/ (ChunkEnd = Len(text) /\ ChunkEnd < chunk + MaxChars - 1)
      /\ pieces' = Append(pieces, Slice(sliceStart, ChunkEnd))
  BY DEF PieceInv, PiecesTypeOK, EndChunk, Scanning, ChunkEnd
<1>2. /\ i = ChunkEnd + 1 /\ chunk <= sliceStart /\ sliceStart <= ChunkEnd
      /\ NoLongRun(text, sliceStart, ChunkEnd)
  BY <1>1 DEF PieceInv, LoopInv
<1>3. PICK n \in Nat : chunk = n * MaxChars + 1
  BY DEF PieceInv
<1>4. n + 1 \in Nat /\ chunk' = (n + 1) * MaxChars + 1
  BY <1>1, <1>3
<1>5. n + 1 <= (n + 1) * MaxChars
  BY <1>4, TimesGrows
<1>6. IsNeeded(text, sliceStart, ChunkEnd)
  <2>1. CASE ChunkEnd = Len(text)
    BY <2>1 DEF IsNeeded
  <2>2. CASE ChunkEnd = chunk + MaxChars - 1
    <3>1. ChunkEnd = (n + 1) * MaxChars /\ n + 1 \in 1..ChunkEnd
      BY <1>1, <1>4, <1>5, <2>2
    <3>. QED
      BY <3>1 DEF IsNeeded
  <2>. QED
    BY <1>1, <2>1, <2>2
<1>7. IsPiece(text, sliceStart, ChunkEnd)
  BY <1>1, <1>2, <1>6 DEF IsPiece
<1>8. sliceStart = End + 1
  BY <1>1, EndType DEF PieceInv, Covered
<1>9. ArePieces' /\ End' = ChunkEnd /\ pieces' # <<>>
  BY <1>1, <1>7, <1>8, AppendPiece
<1>10. PiecesTypeOK'
  BY PiecesNextType DEF PieceInv, PiecesNext
<1>11. LoopInv'
  <2>1. CASE chunk' <= Len(text)
    <3>1. chunk' <= ChunkEnd' /\ ChunkEnd' \in Nat
      BY <1>1, <2>1 DEF ChunkEnd
    <3>2. text[chunk'] \in BOOLEAN
      BY <1>1, <2>1
    <3>3. sliceIsSpace' = text[chunk']
      BY <1>1, <2>1, <3>2 DEF EndChunk
    <3>4. NoLongRun(text', sliceStart', i' - 1)
      <4>1. \A a \in chunk'..(chunk' - 1) : FALSE
        BY <1>1
      <4>. QED
        BY <1>1, <4>1 DEF NoLongRun
    <3>5. i' = chunk' /\ sliceStart' = chunk' /\ sliceLen' = 0 /\ text' = text /\ chunk' \in Nat
      BY <1>1
    <3>6. sliceIsSpace' = text'[i'] /\ NoLongRun(text', sliceStart', i' - 1)
      BY <3>3, <3>4, <3>5, Zenon
    <3>7. chunk' <= i' /\ sliceStart' <= i' /\ i' <= ChunkEnd' + 1 /\ ~(i' > chunk')
      <4>1. ASSUME NEW c \in Nat, NEW e \in Nat, c <= e
            PROVE  c <= c /\ c <= e + 1 /\ ~(c > c)
        BY <4>1
      <4>. QED
        BY <3>1, <3>5, <4>1, Zenon
    <3>8. chunk' <= sliceStart' /\ sliceStart' <= ChunkEnd'
      BY <3>1, <3>5
    <3>. QED
      BY <3>5, <3>6, <3>7, <3>8, Zenon DEF LoopInv
  <2>2. CASE ~(chunk' <= Len(text))
    BY <1>1, <2>2 DEF LoopInv
  <2>. QED
    BY <2>1, <2>2
<1>12. End' = Covered'
  BY <1>1, <1>9 DEF Covered
<1>. QED
  BY <1>4, <1>9, <1>10, <1>11, <1>12 DEF PieceInv

LEMMA NextPiece == PieceInv /\ [PiecesNext]_pieceVars => PieceInv'
<1>. SUFFICES ASSUME PieceInv, [PiecesNext]_pieceVars PROVE PieceInv'
  OBVIOUS
<1>1. PiecesTypeOK'
  BY PiecesNextType DEF PieceInv
<1>2. ASSUME LoopInv', UNCHANGED <<text, pieces, chunk, sliceStart>>
      PROVE  PieceInv'
  <2>1. ArePieces' /\ End' = End
    BY <1>2, PiecesStay
  <2>. QED
    BY <1>1, <1>2, <2>1 DEF PieceInv, Covered
<1>3. CASE Extend
  BY <1>2, <1>3, RunGoesOn DEF Extend
<1>4. CASE Turn
  BY <1>2, <1>4, RunBegins DEF Turn
<1>5. CASE Split
  BY <1>5, RunIsCut
<1>6. CASE EndChunk
  BY <1>6, ChunkEnds
<1>7. CASE UNCHANGED pieceVars
  <2>1. LoopInv'
    BY <1>7 DEF pieceVars, PieceInv, LoopInv, ChunkEnd
  <2>. QED
    BY <1>2, <1>7, <2>1 DEF pieceVars
<1>. QED
  BY <1>3, <1>4, <1>5, <1>6, <1>7 DEF PiecesNext

------------------------------------------------------------------------------
\* Nothing of a text is lost or encoded twice when it is cut, and no piece is longer, or
\* has a longer run, than tiktoken takes (tokenization_kimi.py:157-187, 235-258).
THEOREM TextIsPieced == PiecesSpec => []PiecesAreTheText
<1>1. PieceInv => PiecesAreTheText
  <2>. SUFFICES ASSUME PieceInv PROVE PiecesAreTheText
    OBVIOUS
  <2>1. text \in Seq(BOOLEAN) /\ pieces \in Seq([first : Nat, last : Nat])
    BY DEF PieceInv, PiecesTypeOK
  <2>2. chunk > Len(text) => IF pieces = <<>> THEN text = <<>> ELSE pieces[Len(pieces)].last = Len(text)
    BY <2>1 DEF PieceInv, PiecesTypeOK, End, Covered
  <2>3. ASSUME NEW k \in 1..Len(pieces)
        PROVE  /\ pieces[k].first = IF k = 1 THEN 1 ELSE pieces[k - 1].last + 1
               /\ pieces[k].first <= pieces[k].last
               /\ pieces[k].last - pieces[k].first < MaxChars
               /\ \A a, b \in pieces[k].first..pieces[k].last : SameKind(a, b) => b - a < MaxRun
    BY DEF PieceInv, ArePieces, IsPiece, NoLongRun, OneKind, SameKind
  <2>. QED
    BY <2>2, <2>3 DEF PiecesAreTheText
<1>. QED
  BY <1>1, InitPiece, NextPiece, PTL DEF PiecesSpec

\* No text is cut where its tokens could have been found in one piece
\* (tokenization_kimi.py:237-258).
THEOREM OnlyLongRunsAreCut == PiecesSpec => []CutsAreNeeded
<1>1. PieceInv => CutsAreNeeded
  BY DEF PieceInv, ArePieces, IsPiece, IsNeeded, OneKind, SameKind, CutsAreNeeded
<1>. QED
  BY <1>1, InitPiece, NextPiece, PTL DEF PiecesSpec
==============================================================================
