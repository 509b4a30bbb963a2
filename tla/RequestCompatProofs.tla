-------------------------- MODULE RequestCompatProofs --------------------------
(***************************************************************************)
(* What holds of every request, conversations of any length included, and  *)
(* of every model.  Each step of the pipeline is a function of the working *)
(* copy, so that the inductive invariant says, per stage, which functions  *)
(* have been applied to what the client sent (Applied).  The properties    *)
(* then are facts about these functions, stated as lemmas.                 *)
(***************************************************************************)
EXTENDS RequestCompat, TLAPS

--------------------------------------------------------------------------------
(* The steps keep the type of a request. *)

LEMMA ThinkingType ==
    ASSUME NEW r \in Request, NEW p \in Profile
    PROVE  /\ NormalizeThinking(r, p) \in Request
           /\ NormalizeThinking(r, p).kwargs = Switch(r, p)
           /\ NormalizeThinking(r, p).effort = EffortKept(r, p)
           /\ NormalizeThinking(r, p).clear = Clear(r)
           /\ NormalizeThinking(r, p).cont = r.cont
           /\ NormalizeThinking(r, p).gen = r.gen
           /\ NormalizeThinking(r, p).messages = r.messages
<1>1. Switch(r, p) \in Bools \cup {"absent"}
  BY DEF Switch, Explicit, ByEffort, ForcedOff, Request, Bools
<1>2. EffortKept(r, p) \in Efforts \cup Absence \cup OtherEfforts
  BY DEF EffortKept, Request, Absence
<1>3. Clear(r) \in Bools \cup Absence
  BY DEF Clear, Request
<1> DEFINE t == IF Switch(r, p) = "absent" THEN r.thinking ELSE Switch(r, p)
           n == IF Switch(r, p) = "absent" THEN r.nested ELSE "absent"
<1>4. NormalizeThinking(r, p) = [r EXCEPT !.clear = Clear(r), !.effort = EffortKept(r, p),
                                   !.kwargs = Switch(r, p), !.thinking = t, !.nested = n]
  BY DEF NormalizeThinking
<1>5. t \in Bools \cup Objects \cup {"absent", "odd"} /\ n \in Bools \cup Absence
  BY <1>1 DEF Request, Absence
<1> HIDE DEF t, n
<1> QED
  BY <1>1, <1>2, <1>3, <1>4, <1>5 DEF Request

LEMMA UniteType ==
    ASSUME NEW r \in Request, Continues(r), ~Refused(r)
    PROVE  /\ Unite(r) \in Request
           /\ Len(r.messages) \in 1 .. Len(r.messages)
           /\ Unite(r).messages
                = [r.messages EXCEPT ![Len(r.messages)].prefix = "true"]
           /\ Len(Unite(r).messages) = Len(r.messages)
           /\ Unite(r).cont = "true" /\ Unite(r).gen = "false"
           /\ Unite(r).kwargs = r.kwargs /\ Unite(r).effort = r.effort
           /\ Unite(r).clear = r.clear /\ Unite(r).thinking = r.thinking
           /\ FinalPrefix(Unite(r)) = "true" /\ FinalRole(Unite(r)) = "assistant"
           /\ \A i \in 1 .. Len(r.messages) - 1 : Unite(r).messages[i] = r.messages[i]
<1> DEFINE n == Len(r.messages)
           m == [r.messages EXCEPT ![n].prefix = "true"]
<1>1. FinalRole(r) = "assistant"
  BY DEF Refused
<1>2. r.messages \in Seq(Message) /\ n \in Nat \ {0} /\ r.messages # <<>>
  BY <1>1 DEF FinalRole, Request
<1>3. n \in 1 .. n
  BY <1>2
<1>4. r.messages[n] \in Message /\ r.messages[n].role = "assistant"
  BY <1>1, <1>2, <1>3 DEF FinalRole
<1>5. [r.messages[n] EXCEPT !.prefix = "true"] \in Message
  BY <1>4 DEF Message, Bools
<1>6. /\ m \in Seq(Message) /\ Len(m) = n
      /\ m[n] = [r.messages[n] EXCEPT !.prefix = "true"]
      /\ \A i \in 1 .. n - 1 : m[i] = r.messages[i]
  BY <1>2, <1>3, <1>5
<1>7. m[n].prefix = "true" /\ m[n].role = "assistant"
  BY <1>4, <1>6 DEF Message
<1>8. m # <<>>
  BY <1>2, <1>6
<1>9. /\ Unite(r) \in Request
      /\ Unite(r).messages = m
      /\ Unite(r).cont = "true" /\ Unite(r).gen = "false"
      /\ Unite(r).kwargs = r.kwargs /\ Unite(r).effort = r.effort
      /\ Unite(r).clear = r.clear /\ Unite(r).thinking = r.thinking
  BY <1>6 DEF Unite, Request, Bools
<1> QED
  BY <1>3, <1>6, <1>7, <1>8, <1>9 DEF FinalPrefix, FinalRole

LEMMA ContinuationType ==
    ASSUME NEW r \in Request, ~Refused(r)
    PROVE  /\ NormalizeContinuation(r) \in Request
           /\ NormalizeContinuation(r).kwargs = r.kwargs
           /\ NormalizeContinuation(r).effort = r.effort
           /\ NormalizeContinuation(r).clear = r.clear
           /\ NormalizeContinuation(r).thinking = r.thinking
           /\ NormalizeContinuation(r).nested = r.nested
<1>1. CASE Continues(r)
  <2>1. Unite(r) \in Request /\ Unite(r).nested = r.nested
    BY <1>1, UniteType DEF Unite, Request
  <2> QED
    BY <1>1, <2>1, UniteType DEF NormalizeContinuation
<1>2. CASE ~Continues(r)
  BY <1>2 DEF NormalizeContinuation
<1> QED
  BY <1>1, <1>2

LEMMA DefaultsType ==
    ASSUME NEW r \in Request, NEW p \in Profile
    PROVE  /\ WithDefaults(r, p) \in Request
           /\ WithDefaults(r, p).kwargs = r.kwargs
           /\ WithDefaults(r, p).effort = r.effort
           /\ WithDefaults(r, p).cont = r.cont
           /\ WithDefaults(r, p).gen = r.gen
           /\ WithDefaults(r, p).messages = r.messages
           /\ WithDefaults(r, p).clear
                = IF r.clear \in Absence THEN p.clearDefault ELSE r.clear
<1>1. (IF r.clear \in Absence THEN p.clearDefault ELSE r.clear) \in Bools \cup Absence
  BY DEF Request, Profile, Absence
<1> QED
  BY <1>1 DEF WithDefaults, Request

LEMMA ReadType ==
    ASSUME NEW r \in Request, NEW p \in Profile
    PROVE  Read(r, p) \in [thinking : Bools \cup {"absent"},
                          effort : Efforts \cup OtherEfforts \cup {"absent", "default"},
                          clear : Bools \cup {"absent"},
                          continues : Bools \cup {"absent"},
                          opens : Bools \cup {"absent"}]
<1>1. ReadThinking(r, p) \in Bools \cup {"absent"}
  BY DEF ReadThinking, ModelDefault, Request, Profile, Renderers, Bools
<1>2. ReadEffort(r, p) \in Efforts \cup OtherEfforts \cup {"absent", "default"}
  <2>1. r.effort \in Absence \/ r.effort \in Efforts \cup OtherEfforts
    BY DEF Request
  <2>2. Translated(r, p) \in {r.effort, "max", "low", "high"}
    BY DEF Translated
  <2> QED
    BY <2>1, <2>2 DEF ReadEffort, Efforts
<1>3. ReadContinuation(r, p) \in Bools \cup {"absent"}
  BY DEF ReadContinuation, Bools
<1>4. (IF r.clear = "null" THEN "absent" ELSE r.clear) \in Bools \cup {"absent"}
  BY DEF Request, Absence
<1>5. ReadOpening(r, p) \in Bools \cup {"absent"}
  BY DEF ReadOpening, Bools
<1> QED
  BY <1>1, <1>2, <1>3, <1>4, <1>5 DEF Read

--------------------------------------------------------------------------------
(* What has been applied to the client's request at each stage. *)

Switched == NormalizeThinking(sent, profile)
United   == NormalizeContinuation(Switched)
Complete == WithDefaults(United, profile)

Applied ==
    /\ stage = "thinking" => request = sent
    /\ stage = "continuation" => request = Switched
    /\ stage = "defaults" => request = United
    /\ stage \in {"validation", "render"} \/ Rendered => request = Complete
    /\ stage \in {"defaults", "validation", "render"} \/ Rendered => ~Refused(Switched)
    /\ stage = "render" \/ Rendered => ~Invalid(request)
    /\ Rendered => prompt = Read(request, profile)

Progress ==
    /\ stage # "done" => status = "pending"
    /\ stage = "done" => status # "pending"

IInv == TypeOK /\ Progress /\ Applied

LEMMA InitIInv == Init => IInv
<1> SUFFICES ASSUME Init PROVE IInv
  OBVIOUS
<1>1. sent \in Request /\ profile \in Profile
  BY RequestsAssumption, ProfilesAssumption DEF Init
<1>2. Unread \in [thinking : Bools \cup {"absent"},
                 effort : Efforts \cup OtherEfforts \cup {"absent", "default"},
                 clear : Bools \cup {"absent"}, continues : Bools \cup {"absent"},
                 opens : Bools \cup {"absent"}]
  BY DEF Unread
<1> QED
  BY <1>1, <1>2 DEF Init, IInv, TypeOK, Progress, Applied, Stages, Rendered

LEMMA NextIInv == IInv /\ [Next]_vars => IInv'
<1> SUFFICES ASSUME IInv, [Next]_vars PROVE IInv'
  OBVIOUS
<1> USE DEF Rendered
<1>t. sent \in Request /\ profile \in Profile /\ request \in Request
  BY DEF IInv, TypeOK
<1>s. Switched \in Request
  BY <1>t, ThinkingType DEF Switched
<1>1. CASE Thinking
  <2>1. NormalizeThinking(request, profile) \in Request
    BY <1>t, ThinkingType
  <2>2. request' = Switched' /\ request' \in Request
    BY <1>1, <2>1 DEF Thinking, IInv, Applied, Switched
  <2> QED
    BY <1>1, <2>2 DEF Thinking, IInv, TypeOK, Progress, Applied, Stages
<1>2. CASE RefuseContinuation
  BY <1>2 DEF RefuseContinuation, IInv, TypeOK, Progress, Applied, Stages
<1>3. CASE Continuation
  <2>1. request = Switched /\ ~Refused(Switched)
    BY <1>3 DEF Continuation, IInv, Applied
  <2>2. United \in Request
    BY <1>s, <2>1, ContinuationType DEF United
  <2>3. request' = United' /\ request' \in Request /\ ~Refused(Switched)'
    BY <1>3, <2>1, <2>2 DEF Continuation, United, Switched
  <2> QED
    BY <1>3, <2>3 DEF Continuation, IInv, TypeOK, Progress, Applied, Stages
<1>4. CASE Defaults
  <2>1. request = United /\ ~Refused(Switched)
    BY <1>4 DEF Defaults, IInv, Applied
  <2>2. Complete \in Request
    BY <1>t, <2>1, DefaultsType DEF Complete
  <2>3. request' = Complete' /\ request' \in Request /\ ~Refused(Switched)'
    BY <1>4, <2>1, <2>2 DEF Defaults, Complete, United, Switched
  <2> QED
    BY <1>4, <2>3 DEF Defaults, IInv, TypeOK, Progress, Applied, Stages
<1>5. CASE Validate
  <2>1. /\ request = Complete /\ ~Refused(Switched)
        /\ Complete' = Complete /\ Switched' = Switched /\ request' = request
    BY <1>5 DEF Validate, IInv, Applied, Complete, United, Switched
  <2> QED
    BY <1>5, <2>1 DEF Validate, IInv, TypeOK, Progress, Applied, Stages, Invalid, Generates
<1>6. CASE Render
  <2>1. /\ request = Complete /\ ~Refused(Switched) /\ ~Invalid(request)
        /\ Complete' = Complete /\ Switched' = Switched /\ request' = request
    BY <1>6 DEF Render, IInv, Applied, Complete, United, Switched
  <2>2. prompt' = Read(request', profile') /\ ~Invalid(request')
    BY <1>6, <2>1 DEF Render
  <2>3. prompt' \in [thinking : Bools \cup {"absent"},
                    effort : Efforts \cup OtherEfforts \cup {"absent", "default"},
                    clear : Bools \cup {"absent"}, continues : Bools \cup {"absent"},
                 opens : Bools \cup {"absent"}]
    BY <1>6, <1>t, ReadType DEF Render
  <2> QED
    BY <1>6, <2>1, <2>2, <2>3 DEF Render, IInv, TypeOK, Progress, Applied, Stages
<1>7. CASE UNCHANGED vars
  BY <1>7 DEF vars, IInv, TypeOK, Progress, Applied, Complete, United, Switched
<1> QED
  BY <1>1, <1>2, <1>3, <1>4, <1>5, <1>6, <1>7 DEF Next

LEMMA InvariantIInv == Spec => []IInv
BY InitIInv, NextIInv, PTL DEF Spec

\* Every value keeps its type on the way, for any set of requests and models.
THEOREM TypeCorrect == Spec => []TypeOK
<1>1. IInv => TypeOK
  BY DEF IInv
<1> QED
  BY <1>1, InvariantIInv, PTL

--------------------------------------------------------------------------------
(* The switch. *)

\* An effort that would turn the switch round has been removed.
LEMMA EffortDoesNotReverse ==
    ASSUME NEW r \in Request, NEW p \in Profile
    PROVE  /\ Switch(r, p) = "true" => EffortKept(r, p) # "none"
           /\ Switch(r, p) = "absent" => EffortKept(r, p) \notin Efforts
           /\ Switch(r, p) = "false" =>
                 \/ EffortKept(r, p) \notin Efforts \ {"none"}
                 \/ EffortKept(r, p) = "minimal" /\ p.minimalDisables
<1>1. CASE ForcedOff(r, p)
  BY <1>1 DEF ForcedOff, Switch, EffortKept, Efforts
<1>2. CASE ~ForcedOff(r, p) /\ Explicit(r) = "absent"
  BY <1>2 DEF Switch, EffortKept, ByEffort, Efforts
<1>3. CASE ~ForcedOff(r, p) /\ Explicit(r) # "absent"
  BY <1>3 DEF Switch, EffortKept, ByEffort, Efforts
<1> QED
  BY <1>1, <1>2, <1>3

\* What every renderer makes of the switch and the effort that are left.
LEMMA RendererFollowsSwitch ==
    ASSUME NEW r \in Request, NEW p \in Profile, NEW d \in Request,
           d.kwargs = Switch(r, p), d.effort = EffortKept(r, p)
    PROVE  ReadThinking(d, p) = IF Switch(r, p) # "absent" THEN Switch(r, p)
                                ELSE ModelDefault(p)
<1>1. Switch(r, p) \in {"true", "false", "absent"}
  BY DEF Switch, Explicit, ByEffort, Bools
<1>2. d.effort = "none" => Switch(r, p) = "false"
  BY <1>1, EffortDoesNotReverse DEF Efforts
<1> QED
  BY <1>1, <1>2 DEF ReadThinking

LEMMA SwitchIsFirstOpinion ==
    ASSUME NEW r \in Request, NEW p \in Profile
    PROVE  /\ \A i \in 1 .. 4 : Decides(r, p, i) => Switch(r, p) = Opinions(r, p)[i]
           /\ (\A i \in 1 .. 4 : Opinions(r, p)[i] = "absent") => Switch(r, p) = "absent"
           /\ \A i \in 1 .. 4 : Opinions(r, p)[i] \in {"true", "false", "absent"}
<1> DEFINE o1 == IF ForcedOff(r, p) THEN "false" ELSE "absent"
           o2 == IF r.thinking \in {"true", "enabled", "untyped"} THEN "true"
                 ELSE IF r.thinking \in {"false", "disabled"} THEN "false" ELSE "absent"
           o3 == IF r.enable \in Bools THEN r.enable ELSE "absent"
           o4 == ByEffort(r)
<1>1. Opinions(r, p) = <<o1, o2, o3, o4>>
  <2>1. (CASE r.thinking \in {"true", "enabled", "untyped"} -> "true"
           [] r.thinking \in {"false", "disabled"} -> "false"
           [] OTHER -> "absent") = o2
    OBVIOUS
  <2>2. (CASE r.effort = "none" -> "false"
           [] r.effort \in Efforts \ {"none"} -> "true"
           [] OTHER -> "absent") = o4
    BY DEF ByEffort, Efforts
  <2> HIDE DEF o2, o4
  <2> QED
    BY <2>1, <2>2 DEF Opinions, ForcedOff
<1>2. /\ Opinions(r, p)[1] = o1 /\ Opinions(r, p)[2] = o2
      /\ Opinions(r, p)[3] = o3 /\ Opinions(r, p)[4] = o4
  BY <1>1
<1>3. Explicit(r) = IF o2 # "absent" THEN o2 ELSE o3
  BY DEF Explicit
<1>4. Switch(r, p) = IF o1 # "absent" THEN o1
                     ELSE IF o2 # "absent" THEN o2
                     ELSE IF o3 # "absent" THEN o3 ELSE o4
  BY <1>3 DEF Switch, Bools
<1>5. \A i \in 1 .. 4 : i = 1 \/ i = 2 \/ i = 3 \/ i = 4
  OBVIOUS
<1>6. /\ o1 \in {"false", "absent"} /\ o2 \in {"true", "false", "absent"}
      /\ o3 \in {"true", "false", "absent"} /\ o4 \in {"true", "false", "absent"}
  BY DEF ByEffort, Bools
<1> HIDE DEF o1, o2, o3, o4
<1>7. /\ Decides(r, p, 1) => Switch(r, p) = Opinions(r, p)[1]
      /\ Decides(r, p, 2) => Switch(r, p) = Opinions(r, p)[2]
      /\ Decides(r, p, 3) => Switch(r, p) = Opinions(r, p)[3]
      /\ Decides(r, p, 4) => Switch(r, p) = Opinions(r, p)[4]
  BY <1>2, <1>4 DEF Decides
<1> QED
  BY <1>2, <1>4, <1>5, <1>6, <1>7

\* The complete request carries the switch and the effort of the normalisation.
LEMMA CompleteFields ==
    ASSUME IInv, Rendered
    PROVE  /\ request = Complete /\ ~Refused(Switched) /\ ~Invalid(request)
           /\ prompt = Read(request, profile)
           /\ sent \in Request /\ profile \in Profile /\ request \in Request
           /\ Switched \in Request /\ United \in Request
           /\ request.kwargs = Switch(sent, profile)
           /\ request.effort = EffortKept(sent, profile)
           /\ request.clear = IF Clear(sent) \in Absence THEN profile.clearDefault
                               ELSE Clear(sent)
           /\ request.cont = United.cont /\ request.gen = United.gen
           /\ request.messages = United.messages
<1>1. /\ request = Complete /\ ~Refused(Switched) /\ ~Invalid(request)
      /\ prompt = Read(request, profile)
      /\ sent \in Request /\ profile \in Profile /\ request \in Request
  BY DEF IInv, TypeOK, Applied
<1>2. /\ Switched \in Request /\ Switched.kwargs = Switch(sent, profile)
      /\ Switched.effort = EffortKept(sent, profile) /\ Switched.clear = Clear(sent)
  BY <1>1, ThinkingType DEF Switched
<1>3. /\ United \in Request /\ United.kwargs = Switched.kwargs
      /\ United.effort = Switched.effort /\ United.clear = Switched.clear
  BY <1>1, <1>2, ContinuationType DEF United
<1> QED
  BY <1>1, <1>2, <1>3, DefaultsType DEF Complete

\* Whatever a client sends, every renderer ends up in the mode the first opinion of the
\* request asks for, and in the model's own mode if there is none.
THEOREM RendererObeysFirstOpinion == Spec => []FirstOpinionDecides
<1>1. IInv => FirstOpinionDecides
  <2> SUFFICES ASSUME IInv, Rendered
      PROVE /\ \A i \in 1 .. 4 :
                 Decides(sent, profile, i) => prompt.thinking = Opinions(sent, profile)[i]
            /\ (\A i \in 1 .. 4 : Opinions(sent, profile)[i] = "absent")
                 => prompt.thinking = ModelDefault(profile)
    BY DEF FirstOpinionDecides
  <2>1. prompt.thinking = ReadThinking(request, profile)
    BY CompleteFields DEF Read
  <2>2. ReadThinking(request, profile)
          = IF Switch(sent, profile) # "absent" THEN Switch(sent, profile)
            ELSE ModelDefault(profile)
    BY CompleteFields, RendererFollowsSwitch
  <2>3. \A i \in 1 .. 4 : Decides(sent, profile, i) => Opinions(sent, profile)[i] # "absent"
    BY DEF Decides
  <2> QED
    BY <2>1, <2>2, <2>3, CompleteFields, SwitchIsFirstOpinion
<1> QED
  BY <1>1, InvariantIInv, PTL

\* No renderer is handed a switch and an effort that contradict each other.
THEOREM EffortAgrees == Spec => []SwitchAndEffortAgree
<1>1. IInv => SwitchAndEffortAgree
  BY CompleteFields, EffortDoesNotReverse DEF SwitchAndEffortAgree
<1> QED
  BY <1>1, InvariantIInv, PTL

\* The clear_thinking of the object form replaces the other one and takes the default.
THEOREM ClearThinkingIsReplaced == Spec => []ClearThinkingReplaced
<1>1. IInv => ClearThinkingReplaced
  <2> SUFFICES ASSUME IInv, Rendered
      PROVE prompt.clear = IF Clear(sent) \in Bools THEN Clear(sent) ELSE profile.clearDefault
    BY DEF ClearThinkingReplaced, Clear
  <2>1. prompt.clear = IF request.clear = "null" THEN "absent" ELSE request.clear
    BY CompleteFields DEF Read
  <2>2. Clear(sent) \in Bools \cup Absence
    BY CompleteFields DEF Clear, Request
  <2>3. profile.clearDefault \in Bools \cup {"absent"}
    BY CompleteFields DEF Profile
  <2> QED
    BY <2>1, <2>2, <2>3, CompleteFields DEF Bools, Absence
<1> QED
  BY <1>1, InvariantIInv, PTL

--------------------------------------------------------------------------------
(* The continuation. *)

\* An accepted request that continues is united; one that does not has no prefix.
LEMMA UnitedIsConsistent ==
    ASSUME NEW r \in Request, ~Refused(r), NEW u, u = NormalizeContinuation(r)
    PROVE  /\ FinalPrefix(u) = "true" => u.cont = "true" /\ u.gen = "false"
           /\ u.cont = "true" /\ u.gen = "false" => FinalPrefix(u) = "true"
           /\ FinalPrefix(u) = "true" => FinalRole(u) = "assistant"
           /\ \A i \in 1 .. Len(u.messages) - 1 : u.messages[i].prefix # "true"
<1>0. r.messages \in Seq(Message) /\ Len(r.messages) \in Nat
  BY DEF Request
<1>1. \A i \in 1 .. Len(r.messages) - 1 : r.messages[i].prefix # "true"
  BY <1>0 DEF Refused, Misplaced
<1>2. CASE Continues(r)
  <2>1. u = Unite(r)
    BY <1>2 DEF NormalizeContinuation
  <2>2. /\ u.cont = "true" /\ u.gen = "false"
        /\ FinalPrefix(u) = "true" /\ FinalRole(u) = "assistant"
        /\ Len(u.messages) = Len(r.messages)
        /\ \A i \in 1 .. Len(r.messages) - 1 : u.messages[i] = r.messages[i]
    BY <1>2, <2>1, UniteType
  <2>3. \A i \in 1 .. Len(u.messages) - 1 : u.messages[i].prefix # "true"
    BY <1>1, <2>2
  <2> QED
    BY <2>2, <2>3
<1>3. CASE ~Continues(r)
  <2>1. u = r
    BY <1>3 DEF NormalizeContinuation
  <2> QED
    BY <1>1, <1>3, <2>1 DEF Continues, TopLevel
<1> QED
  BY <1>2, <1>3

\* The three ways to ask for a continuation agree in every request that is rendered, and
\* no answer is opened for one.
THEOREM ContinuationIsUnited == Spec => []ContinuationUnited
<1>1. IInv => ContinuationUnited
  <2> SUFFICES ASSUME IInv, Rendered PROVE ContinuationUnited
    BY DEF ContinuationUnited
  <2>1. /\ FinalPrefix(request) = FinalPrefix(United)
        /\ FinalRole(request) = FinalRole(United)
    BY CompleteFields DEF FinalPrefix, FinalRole
  <2>2. request.cont = "true" => request.gen = "false"
    BY CompleteFields DEF Invalid, Generates
  <2>3. request.gen = "false" => prompt.opens # "true"
    BY CompleteFields DEF Read, ReadOpening, Generates
  <2> QED
    BY <2>1, <2>2, <2>3, CompleteFields, UnitedIsConsistent DEF ContinuationUnited, United
<1> QED
  BY <1>1, InvariantIInv, PTL

\* A switch that has been written decides the same way when it is read again.
LEMMA SwitchAgain ==
    ASSUME NEW r \in Request, NEW p \in Profile, NEW d \in Request,
           d.thinking = IF Switch(r, p) = "absent" THEN r.thinking ELSE Switch(r, p),
           d.enable = r.enable,
           d.effort = EffortKept(r, p)
    PROVE  Switch(d, p) = Switch(r, p) /\ EffortKept(d, p) = EffortKept(r, p)
<1>1. Switch(r, p) \in {"true", "false", "absent"}
  BY DEF Switch, Explicit, ByEffort, Bools
<1>2. CASE ForcedOff(r, p)
  BY <1>2 DEF ForcedOff, Switch, EffortKept
<1>3. CASE ~ForcedOff(r, p) /\ Explicit(r) = "absent"
  <2>1. EffortKept(r, p) = r.effort /\ Switch(r, p) = ByEffort(r)
    BY <1>3 DEF EffortKept, Switch
  <2>2. ForcedOff(d, p) = FALSE /\ ByEffort(d) = ByEffort(r)
    BY <1>3, <2>1 DEF ForcedOff, ByEffort
  <2>3. Explicit(d) = ByEffort(r)
    BY <1>1, <1>3, <2>1 DEF Explicit
  <2> QED
    BY <2>1, <2>2, <2>3 DEF Switch, EffortKept
<1>4. CASE ~ForcedOff(r, p) /\ Explicit(r) # "absent"
  <2>1. Switch(r, p) = Explicit(r) /\ Explicit(d) = Explicit(r)
    BY <1>1, <1>4 DEF Switch, Explicit
  <2>2. ~ForcedOff(d, p)
    BY <1>4 DEF ForcedOff, EffortKept
  <2>3. ByEffort(d) \in {"absent", Explicit(r)}
    BY <1>4 DEF ByEffort, EffortKept, Efforts
  <2> QED
    BY <1>4, <2>1, <2>2, <2>3 DEF Switch, EffortKept
<1> QED
  BY <1>2, <1>3, <1>4

LEMMA ThinkingAgain ==
    ASSUME NEW r \in Request, NEW p \in Profile, NEW d, d = NormalizeThinking(r, p)
    PROVE  NormalizeThinking(d, p) = d
<1>1. d \in Request /\ d.effort = EffortKept(r, p) /\ d.clear = Clear(r)
                   /\ d.kwargs = Switch(r, p)
  BY ThinkingType
<1>2. /\ d.thinking = IF Switch(r, p) = "absent" THEN r.thinking ELSE Switch(r, p)
      /\ d.nested = IF Switch(r, p) = "absent" THEN r.nested ELSE "absent"
      /\ d.enable = r.enable
  BY DEF NormalizeThinking, Request
<1>3. Switch(d, p) = Switch(r, p) /\ EffortKept(d, p) = EffortKept(r, p)
  BY <1>1, <1>2, SwitchAgain
<1>4. Clear(d) = d.clear
  BY <1>1, <1>2 DEF Clear
<1> DEFINE e == NormalizeThinking(d, p)
<1>5. e \in Request /\ e.effort = d.effort /\ e.clear = d.clear /\ e.kwargs = d.kwargs
      /\ e.cont = d.cont /\ e.gen = d.gen /\ e.messages = d.messages
  BY <1>1, <1>3, <1>4, ThinkingType
<1>6. e.thinking = d.thinking /\ e.nested = d.nested /\ e.enable = d.enable
  BY <1>1, <1>2, <1>3 DEF NormalizeThinking, Request
<1> HIDE DEF e
<1>7. e = d
  BY <1>1, <1>5, <1>6 DEF Request
<1> QED
  BY <1>7 DEF e

\* Uniting a united request changes nothing, and it is accepted again.
LEMMA ContinuationAgain ==
    ASSUME NEW r \in Request, ~Refused(r), NEW u, u = NormalizeContinuation(r)
    PROVE  ~Refused(u) /\ NormalizeContinuation(u) = u
<1>0. r.messages \in Seq(Message) /\ Len(r.messages) \in Nat
  BY DEF Request
<1>1. CASE ~Continues(r)
  BY <1>1 DEF NormalizeContinuation
<1>2. CASE Continues(r)
  <2> DEFINE n == Len(r.messages)
  <2>1. u = Unite(r) /\ u \in Request
    BY <1>2, UniteType DEF NormalizeContinuation
  <2>2. /\ u.cont = "true" /\ u.gen = "false"
        /\ FinalPrefix(u) = "true" /\ FinalRole(u) = "assistant"
        /\ Len(u.messages) = n /\ n \in 1 .. n
        /\ \A i \in 1 .. n - 1 : u.messages[i] = r.messages[i]
    <3>1. Len(Unite(r).messages) = Len(r.messages) /\ Len(r.messages) \in 1 .. Len(r.messages)
      BY <1>2, UniteType
    <3>2. /\ Unite(r).cont = "true" /\ Unite(r).gen = "false"
          /\ FinalPrefix(Unite(r)) = "true" /\ FinalRole(Unite(r)) = "assistant"
          /\ \A i \in 1 .. Len(r.messages) - 1 : Unite(r).messages[i] = r.messages[i]
      BY <1>2, UniteType
    <3> QED
      BY <2>1, <3>1, <3>2
  <2>3. u.messages[n].prefix = "true"
    BY <2>2 DEF FinalPrefix
  <2>4. ~NotBoolean(u)
    <3>1. \A i \in 1 .. n : r.messages[i].prefix # "odd"
      BY DEF Refused, NotBoolean
    <3>2. \A i \in 1 .. n : i = n \/ i \in 1 .. n - 1
      BY <1>0
    <3> QED
      BY <2>2, <2>3, <3>1, <3>2 DEF NotBoolean
  <2>5. ~Misplaced(u)
    <3>1. \A i \in 1 .. n : i < n => r.messages[i].prefix # "true"
      BY DEF Refused, Misplaced
    <3>2. \A i \in 1 .. n : i < n => i \in 1 .. n - 1
      BY <1>0
    <3> QED
      BY <2>2, <3>1, <3>2 DEF Misplaced
  <2>6. ~Refused(u) /\ Continues(u)
    BY <2>2, <2>4, <2>5 DEF Refused, Conflicting, Continues
  <2>7. Unite(u).messages = u.messages
    <3>1. u.messages \in Seq(Message) /\ u.messages[n] \in Message
      BY <2>1, <2>2 DEF Request
    <3>2. [u.messages[n] EXCEPT !.prefix = "true"] = u.messages[n]
      BY <2>3, <3>1 DEF Message
    <3>3. [u.messages EXCEPT ![n] = u.messages[n]] = u.messages
      BY <2>2, <3>1
    <3>4. Unite(u).messages = [u.messages EXCEPT ![n].prefix = "true"]
      BY <2>1, <2>2, <2>6, UniteType
    <3>5. [u.messages EXCEPT ![n].prefix = "true"]
            = [u.messages EXCEPT ![n] = [u.messages[n] EXCEPT !.prefix = "true"]]
      OBVIOUS
    <3> QED
      BY <3>2, <3>3, <3>4, <3>5
  <2>8. Unite(u) = u
    <3> DEFINE m == [u.messages EXCEPT ![Len(u.messages)].prefix = "true"]
    <3>1. Unite(u) = [u EXCEPT !.cont = "true", !.gen = "false", !.messages = m]
      BY DEF Unite
    <3>2. Unite(u).messages = m
      <4> HIDE DEF m
      <4> QED
        BY <2>1, <3>1 DEF Request
    <3>3. m = u.messages
      BY <2>7, <3>2
    <3> HIDE DEF m
    <3>4. Unite(u) = [u EXCEPT !.cont = u.cont, !.gen = u.gen, !.messages = u.messages]
      BY <2>2, <3>1, <3>3
    <3> QED
      BY <2>1, <3>4 DEF Request
  <2> QED
    BY <2>6, <2>8 DEF NormalizeContinuation
<1> QED
  BY <1>1, <1>2

\* Normalising the thinking fields does not see what the continuation changes.
LEMMA ThinkingOfUnited ==
    ASSUME NEW r \in Request, NEW p \in Profile, ~Refused(r), Continues(r),
           NormalizeThinking(r, p) = r
    PROVE  NormalizeThinking(Unite(r), p) = Unite(r)
<1> DEFINE u == Unite(r)
           e == NormalizeThinking(u, p)
<1>1. /\ u \in Request /\ u.thinking = r.thinking /\ u.effort = r.effort
      /\ u.clear = r.clear /\ u.kwargs = r.kwargs
  BY UniteType
<1>2. u.nested = r.nested /\ u.enable = r.enable
  BY DEF Unite, Request
<1>3. Switch(u, p) = Switch(r, p) /\ EffortKept(u, p) = EffortKept(r, p) /\ Clear(u) = Clear(r)
  BY <1>1, <1>2 DEF Switch, EffortKept, Clear, ForcedOff, Explicit, ByEffort
<1>4. /\ r.kwargs = Switch(r, p) /\ r.effort = EffortKept(r, p) /\ r.clear = Clear(r)
      /\ r.thinking = IF Switch(r, p) = "absent" THEN r.thinking ELSE Switch(r, p)
      /\ r.nested = IF Switch(r, p) = "absent" THEN r.nested ELSE "absent"
  <2>1. /\ NormalizeThinking(r, p).thinking
             = IF Switch(r, p) = "absent" THEN r.thinking ELSE Switch(r, p)
        /\ NormalizeThinking(r, p).nested
             = IF Switch(r, p) = "absent" THEN r.nested ELSE "absent"
    BY DEF NormalizeThinking, Request
  <2> QED
    BY <2>1, ThinkingType
<1> HIDE DEF u
<1>5. /\ e \in Request /\ e.effort = u.effort /\ e.clear = u.clear /\ e.kwargs = u.kwargs
      /\ e.cont = u.cont /\ e.gen = u.gen /\ e.messages = u.messages
  BY <1>1, <1>3, <1>4, ThinkingType
<1>6. e.thinking = u.thinking /\ e.nested = u.nested /\ e.enable = u.enable
  BY <1>1, <1>2, <1>3, <1>4 DEF NormalizeThinking, Request
<1> HIDE DEF e
<1>7. e = u
  BY <1>1, <1>5, <1>6 DEF Request
<1> QED
  BY <1>7 DEF e, u

\* Normalising a normalised request changes nothing.
THEOREM NormalizationIsIdempotent == Spec => []NormalizedOnce
<1>1. IInv => NormalizedOnce
  <2> SUFFICES ASSUME IInv, stage = "defaults"
      PROVE /\ NormalizeThinking(request, profile) = request
            /\ ~Refused(request)
            /\ NormalizeContinuation(request) = request
    BY DEF NormalizedOnce
  <2>1. /\ request = NormalizeContinuation(Switched) /\ ~Refused(Switched)
        /\ sent \in Request /\ profile \in Profile
    BY DEF IInv, TypeOK, Applied, United
  <2>2. Switched \in Request /\ NormalizeThinking(Switched, profile) = Switched
    BY <2>1, ThinkingType, ThinkingAgain DEF Switched
  <2>3. ~Refused(request) /\ NormalizeContinuation(request) = request
    BY <2>1, <2>2, ContinuationAgain
  <2>4. NormalizeThinking(request, profile) = request
    BY <2>1, <2>2, ThinkingOfUnited DEF NormalizeContinuation
  <2> QED
    BY <2>3, <2>4
<1> QED
  BY <1>1, InvariantIInv, PTL
================================================================================
