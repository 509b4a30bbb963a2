----------------------------- MODULE RequestCompat -----------------------------
(***************************************************************************)
(* What a chat request goes through on its way to a renderer:              *)
(* normalize_compatibility_fields (request_compat.py), the profile's       *)
(* defaults (service.py), the validation of ChatCompletionRequest and the  *)
(* fields the five renderers read (renderers.py).                          *)
(*                                                                         *)
(* A request is a record of the fields these steps look at.  A field holds *)
(* the name of a value: "absent" for a key that is not there, "null" for   *)
(* None, "true" and "false", "odd" for a value of another type.  The       *)
(* object form of "thinking" is the name of its type ("untyped" if it has  *)
(* none), its clear_thinking is the field "nested".  "kwargs" stands for   *)
(* chat_template_kwargs: "true" is {thinking: true, enable_thinking: true}.*)
(* An effort is a known name, "other" for an unknown one, "number" for an  *)
(* integer from 1 to 100, "outside" for any other integer (a boolean is    *)
(* one), "odd" for what is neither a string nor an integer.  A message has *)
(* its role, its prefix and whether it carries reasoning or tool calls.    *)
(* Contents, tools and media are left out: stripping media touches none of *)
(* these fields.                                                           *)
(*                                                                         *)
(* A definition whose name begins with Bug is a wrong variant of the one   *)
(* after it (or after its siblings): a mistake the code could contain.     *)
(***************************************************************************)
EXTENDS Naturals, Sequences

CONSTANTS Requests,    \* the requests clients may send
          Profiles     \* the models: renderer, flags and default of each

Bools    == {"true", "false"}
Absence  == {"absent", "null"}
Objects  == {"enabled", "disabled", "auto", "untyped"}
Efforts  == {"none", "minimal", "low", "medium", "high", "xhigh", "max"}
IntegerEfforts == {"number", "outside"}
OtherEfforts == IntegerEfforts \cup {"other", "odd"}

Roles    == {"user", "assistant", "missing"}
Message  == [role : Roles, prefix : Bools \cup {"absent", "odd"}, reasoning : BOOLEAN]
Request  ==
    [thinking : Bools \cup Objects \cup {"absent", "odd"},
     nested   : Bools \cup Absence,
     enable   : Bools \cup {"absent", "odd"},
     effort   : Efforts \cup Absence \cup OtherEfforts,
     clear    : Bools \cup Absence,
     kwargs   : Bools \cup {"absent"},
     cont     : Bools \cup {"absent", "odd"},
     gen      : Bools \cup {"absent", "odd"},
     messages : Seq(Message)]
Renderers == {"hf", "deepseek_v32", "deepseek_v4", "deepseek_v41", "kimi_k3"}
Profile   == [renderer : Renderers, minimalDisables : BOOLEAN,
              clearDefault : Bools \cup {"absent"}]

ASSUME RequestsAssumption == Requests \subseteq Request
ASSUME ProfilesAssumption == Profiles \subseteq Profile

VARIABLES sent,      \* the request as the client sent it
          profile,   \* the model it is for
          request,   \* the working copy
          stage,     \* the step that comes next
          status,    \* "pending", "counted", "rejected" (400) or "failed" (500)
          prompt     \* what the renderer read from the request

vars == <<sent, profile, request, stage, status, prompt>>

Unread == [thinking |-> "absent", effort |-> "absent", clear |-> "absent",
           continues |-> "absent", opens |-> "absent"]

Init == /\ sent \in Requests
        /\ profile \in Profiles
        /\ request = sent
        /\ stage = "thinking"
        /\ status = "pending"
        /\ prompt = Unread

--------------------------------------------------------------------------------
(* The thinking switches. *)

\* What "thinking" and then "enable_thinking" say, "absent" if neither does.
Explicit(r) ==
    IF r.thinking \in {"true", "enabled", "untyped"} THEN "true"
    ELSE IF r.thinking \in {"false", "disabled"} THEN "false"
    ELSE IF r.enable \in Bools THEN r.enable
    ELSE "absent"

ForcedOff(r, p) == p.minimalDisables /\ r.effort \in {"none", "minimal"}

ByEffort(r) == IF r.effort \notin Efforts THEN "absent"
               ELSE IF r.effort = "none" THEN "false" ELSE "true"

Switch(r, p) == IF ForcedOff(r, p) THEN "false"
                ELSE IF Explicit(r) = "absent" THEN ByEffort(r)
                ELSE Explicit(r)

\* An explicit switch removes an effort that contradicts it.
BugEffortStays(r, p) == r.effort
BugAlwaysRemoved(r, p) == IF Explicit(r) # "absent" /\ r.effort \in Efforts THEN "null" ELSE r.effort
EffortKept(r, p) == IF /\ ~ForcedOff(r, p)
                       /\ Explicit(r) # "absent"
                       /\ ByEffort(r) \notin {"absent", Explicit(r)}
                    THEN "null" ELSE r.effort

Clear(r) == IF r.thinking \in Objects /\ r.nested # "absent"
            THEN r.nested ELSE r.clear

\* The client's template kwargs are dropped, the switch writes its own.
NormalizeThinking(r, p) ==
    LET switch == Switch(r, p)
    IN [r EXCEPT !.clear    = Clear(r),
                 !.effort   = EffortKept(r, p),
                 !.kwargs   = switch,
                 !.thinking = IF switch = "absent" THEN @ ELSE switch,
                 !.nested   = IF switch = "absent" THEN @ ELSE "absent"]

Thinking == /\ stage = "thinking"
            /\ request' = NormalizeThinking(request, profile)
            /\ stage' = "continuation"
            /\ UNCHANGED <<sent, profile, status, prompt>>

--------------------------------------------------------------------------------
(* The continuation options. *)

FinalPrefix(r) == IF r.messages = <<>> THEN "absent"
                  ELSE r.messages[Len(r.messages)].prefix
FinalRole(r)   == IF r.messages = <<>> THEN "missing"
                  ELSE r.messages[Len(r.messages)].role

TopLevel(r)  == r.cont = "true" /\ r.gen = "false"
Continues(r) == FinalPrefix(r) = "true" \/ TopLevel(r)

NotBoolean(r) == \/ "odd" \in {r.cont, r.gen}
                 \/ \E i \in 1 .. Len(r.messages) : r.messages[i].prefix = "odd"
Misplaced(r)  == \E i \in 1 .. Len(r.messages) :
                     i < Len(r.messages) /\ r.messages[i].prefix = "true"
Conflicting(r) == IF FinalPrefix(r) = "true"
                  THEN r.cont = "false" \/ r.gen = "true"
                  ELSE FinalPrefix(r) = "false"

Refused(r) == \/ NotBoolean(r)
              \/ Misplaced(r)
              \/ Continues(r) /\ (FinalRole(r) # "assistant" \/ Conflicting(r))

BugUnite(r) == [r EXCEPT !.cont = "true", !.gen = "false"]
Unite(r) == [r EXCEPT !.cont = "true", !.gen = "false",
                      !.messages[Len(r.messages)].prefix = "true"]

NormalizeContinuation(r) == IF Continues(r) THEN Unite(r) ELSE r

RefuseContinuation == /\ stage = "continuation"
                      /\ Refused(request)
                      /\ stage' = "done"
                      /\ status' = "rejected"
                      /\ UNCHANGED <<sent, profile, request, prompt>>

Continuation == /\ stage = "continuation"
                /\ ~Refused(request)
                /\ request' = NormalizeContinuation(request)
                /\ stage' = "defaults"
                /\ UNCHANGED <<sent, profile, status, prompt>>

--------------------------------------------------------------------------------
(* Defaults and validation. *)

WithDefaults(r, p) == [r EXCEPT !.clear = IF @ \in Absence THEN p.clearDefault ELSE @]

Defaults == /\ stage = "defaults"
            /\ request' = WithDefaults(request, profile)
            /\ stage' = "validation"
            /\ UNCHANGED <<sent, profile, status, prompt>>

\* add_generation_prompt is true, continue_final_message false by default.
Generates(r) == r.gen # "false"

Invalid(r) == \/ \E i \in 1 .. Len(r.messages) : r.messages[i].role = "missing"
              \/ Generates(r) /\ r.cont = "true"

Validate == /\ stage = "validation"
            /\ stage' = IF Invalid(request) THEN "done" ELSE "render"
            /\ status' = IF Invalid(request) THEN "rejected" ELSE status
            /\ UNCHANGED <<sent, profile, request, prompt>>

--------------------------------------------------------------------------------
(* The renderers. *)

\* The mode of a model whose request has no switch.
ModelDefault(p) == CASE p.renderer = "hf" -> "absent"
                     [] p.renderer = "kimi_k3" -> "true"
                     [] OTHER -> "false"

ReadThinking(r, p) ==
    IF p.renderer \in {"deepseek_v4", "deepseek_v41"} /\ r.effort = "none" THEN "false"
    ELSE IF r.kwargs # "absent" THEN r.kwargs
    ELSE IF p.renderer = "kimi_k3" /\ r.effort = "none" THEN "false"
    ELSE ModelDefault(p)

\* The names the specialised renderers translate before they encode.
Translated(r, p) ==
    CASE r.effort = "xhigh" /\ p.renderer \in {"deepseek_v4", "deepseek_v41"} -> "max"
      [] r.effort = "minimal" /\ p.renderer \in {"deepseek_v4", "deepseek_v41"} -> "low"
      [] r.effort = "medium" /\ p.renderer = "deepseek_v4" -> "low"
      [] r.effort = "medium" /\ p.renderer = "deepseek_v41" -> "high"
      [] OTHER -> r.effort

\* None leaves the encoder its default, and so do, for all but templates, "none" (Kimi K3
\* turns it into the switch), for V4 what is no string and for V4.1 what is no integer either.
ReadEffort(r, p) ==
    CASE r.effort \in Absence -> "default"
      [] p.renderer = "deepseek_v32" -> "default"
      [] p.renderer # "hf" /\ r.effort = "none" -> "default"
      [] p.renderer = "deepseek_v4" /\ r.effort \in IntegerEfforts \cup {"odd"} -> "default"
      [] p.renderer = "deepseek_v41" /\ r.effort = "odd" -> "default"
      [] OTHER -> Translated(r, p)

\* Whether the last message is left open: V3.2 reads its prefix, HF templates the top level.
ReadContinuation(r, p) ==
    CASE p.renderer = "hf" -> IF r.cont = "true" THEN "true" ELSE "false"
      [] p.renderer = "deepseek_v32" -> IF FinalPrefix(r) = "true" THEN "true" ELSE "false"
      [] OTHER -> "absent"

\* Whether an answer is opened: HF templates and Kimi K3 take add_generation_prompt.
ReadOpening(r, p) ==
    IF p.renderer \notin {"hf", "kimi_k3"} THEN "absent"
    ELSE IF Generates(r) THEN "true" ELSE "false"

Read(r, p) == [thinking  |-> ReadThinking(r, p),
               effort    |-> ReadEffort(r, p),
               clear     |-> IF r.clear = "null" THEN "absent" ELSE r.clear,
               continues |-> ReadContinuation(r, p),
               opens     |-> ReadOpening(r, p)]

\* The encoder's own check of the effort: V4 and V4.1 make it at every message, K3 once
\* and only when it thinks.
BadEffort(r, p) ==
    LET effort == ReadEffort(r, p)
    IN CASE p.renderer \in {"deepseek_v4", "deepseek_v41"} ->
              /\ r.messages # <<>>
              /\ effort \notin {"default", "low", "high", "max"}
              /\ ~(p.renderer = "deepseek_v41" /\ effort = "number")
         [] p.renderer = "kimi_k3" ->
              /\ ReadThinking(r, p) = "true"
              /\ effort \notin {"default", "low", "high", "max"}
         [] OTHER -> FALSE

\* V3.2 wants reasoning in every assistant message after the last user message.
BadReasoning(r, p) ==
    /\ p.renderer = "deepseek_v32"
    /\ ReadThinking(r, p) = "true"
    /\ \E i \in 1 .. Len(r.messages) :
          /\ r.messages[i].role = "assistant"
          /\ ~r.messages[i].reasoning
          /\ \A j \in i .. Len(r.messages) : r.messages[j].role # "user"

\* A ValueError of the encoder is not mapped by count.
Raises(r, p) == BadEffort(r, p) \/ BadReasoning(r, p)

Render == /\ stage = "render"
          /\ prompt' = Read(request, profile)
          /\ status' = IF Raises(request, profile) THEN "failed" ELSE "counted"
          /\ stage' = "done"
          /\ UNCHANGED <<sent, profile, request>>

Next == \/ Thinking
        \/ RefuseContinuation
        \/ Continuation
        \/ Defaults
        \/ Validate
        \/ Render

Spec == Init /\ [][Next]_vars

--------------------------------------------------------------------------------
(* Properties. *)

Stages == {"thinking", "continuation", "defaults", "validation", "render", "done"}

\* Every value keeps its type on the way, in particular what the renderer reads.
TypeOK ==
    /\ sent \in Request /\ request \in Request
    /\ profile \in Profile
    /\ stage \in Stages
    /\ status \in {"pending", "counted", "rejected", "failed"}
    /\ prompt \in [thinking : Bools \cup {"absent"},
                   effort : Efforts \cup OtherEfforts \cup {"absent", "default"},
                   clear : Bools \cup {"absent"},
                   continues : Bools \cup {"absent"},
                   opens : Bools \cup {"absent"}]

Rendered == status \in {"counted", "failed"}

\* The order README.md gives: GLM-5.2's none and minimal, then thinking, then
\* enable_thinking, then reasoning_effort; the first that says something decides.
Opinions(r, p) ==
    << IF p.minimalDisables /\ r.effort \in {"none", "minimal"} THEN "false" ELSE "absent",
       CASE r.thinking \in {"true", "enabled", "untyped"} -> "true"
         [] r.thinking \in {"false", "disabled"} -> "false"
         [] OTHER -> "absent",
       IF r.enable \in Bools THEN r.enable ELSE "absent",
       CASE r.effort = "none" -> "false"
         [] r.effort \in Efforts \ {"none"} -> "true"
         [] OTHER -> "absent" >>

Decides(r, p, i) == /\ Opinions(r, p)[i] # "absent"
                    /\ \A j \in 1 .. i - 1 : Opinions(r, p)[j] = "absent"

\* Whatever mode a renderer ends up in, through its own reading of kwargs and effort, is
\* the one the first opinion of the client's request asks for, and the model's own mode
\* if the request has none (README.md, "Thinking"; renderers.py).
FirstOpinionDecides ==
    Rendered =>
        /\ \A i \in 1 .. 4 :
             Decides(sent, profile, i) => prompt.thinking = Opinions(sent, profile)[i]
        /\ (\A i \in 1 .. 4 : Opinions(sent, profile)[i] = "absent")
             => prompt.thinking = ModelDefault(profile)

\* No renderer or template is handed a switch and an effort that contradict each other,
\* but for GLM-5.2's minimal, which switches thinking off (request_compat.py:72).
SwitchAndEffortAgree ==
    Rendered =>
        /\ request.kwargs = "true" => request.effort # "none"
        /\ request.kwargs = "false" =>
              \/ request.effort \notin Efforts \ {"none"}
              \/ request.effort = "minimal" /\ profile.minimalDisables

\* The three ways to ask for a continuation agree in every request that is rendered, so
\* that a renderer that reads the message and one that reads the top level do the same, and
\* one that is told whether to open an answer opens none (request_compat.py:86-130, the
\* union of its design document).
ContinuationUnited ==
    Rendered =>
        /\ (request.cont = "true") <=> (FinalPrefix(request) = "true")
        /\ request.cont = "true" => request.gen = "false" /\ FinalRole(request) = "assistant"
        /\ request.cont = "true" => prompt.opens # "true"
        /\ \A i \in 1 .. Len(request.messages) - 1 : request.messages[i].prefix # "true"

\* Normalising a request again changes nothing: an adapter in front of the service may
\* have done it already.
NormalizedOnce ==
    stage = "defaults" =>
        /\ NormalizeThinking(request, profile) = request
        /\ ~Refused(request)
        /\ NormalizeContinuation(request) = request

\* The clear_thinking of the object form replaces the top-level one, None included, and
\* None takes the model's default (request_compat.py:51, service.py:94).
ClearThinkingReplaced ==
    Rendered =>
        LET given == IF sent.thinking \in Objects /\ sent.nested # "absent"
                     THEN sent.nested ELSE sent.clear
        IN prompt.clear = IF given \in Bools THEN given ELSE profile.clearDefault

\* README.md: a request whose fields cannot be processed is answered 400.  An error of
\* a renderer about the request's own fields would have to be a rejection.
UnprocessableIsRejected == status # "failed"
================================================================================
