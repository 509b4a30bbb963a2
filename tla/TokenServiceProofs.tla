------------------------- MODULE TokenServiceProofs -------------------------
(***************************************************************************)
(* Proofs about TokenService, for any registry and any number of threads.  *)
(***************************************************************************)
EXTENDS TokenService, TLAPS

USE GroupAssumption, CountsAssumption

------------------------------------------------------------------------------
(***************************************************************************)
(* Type correctness                                                        *)
(***************************************************************************)
LEMMA InitType == Init => TypeOK
BY DEF Init, TypeOK, EncoderOrNone, PCs, Caches, GroupWork

\* Making an encoder keeps the types, whoever asked for it.
LEMMA MakeType ==
    ASSUME TypeOK, NEW t \in Threads, NEW source \in Profiles,
           NEW next \in {"restore", "publish"}, profile[t] # None,
           next = "restore" => GroupOf[profile[t]] # None,
           Make(t, source, next)
    PROVE  TypeOK'
<1>. USE DEF TypeOK, cacheVars, budgetVars, remoteVars
<1>1. NewEncoder(source) \in EncoderObjects
  BY DEF NewEncoder, EncoderObjects
<1>2. NewEncoder(source) # None
  BY <1>1, NotAnEncoder
<1>3. encoder' = [encoder EXCEPT ![t] = NewEncoder(source)] /\ pc' = [pc EXCEPT ![t] = next]
  BY DEF Make, Hold, Goto
<1>4. encoder' \in [Threads -> EncoderOrNone] /\ pc' \in [Threads -> PCs]
  BY <1>1, <1>3 DEF EncoderOrNone, PCs, Building
<1>5. made' \in [Profiles -> Nat]
  BY DEF Make
<1>6. \A u \in Threads : /\ pc'[u] \in {"store", "publish", "encode"} => encoder'[u] # None
                         /\ pc'[u] # "idle" => profile'[u] # None
                         /\ pc'[u] \in GroupWork => GroupOf[profile'[u]] # None
  BY <1>2, <1>3 DEF Make, GroupWork
<1>. QED
  BY <1>4, <1>5, <1>6 DEF Make

\* A thread leaving count takes its locals along.
LEMMA LeaveType ==
    ASSUME TypeOK, NEW t \in Threads, Leave(t)
    PROVE  /\ pc' \in [Threads -> PCs]
           /\ profile' \in [Threads -> Profiles \cup {None}]
           /\ encoder' \in [Threads -> EncoderOrNone]
           /\ \A u \in Threads :
                 /\ pc'[u] \in {"store", "publish", "encode"} => encoder'[u] # None
                 /\ pc'[u] # "idle" => profile'[u] # None
                 /\ pc'[u] \in GroupWork => GroupOf[profile'[u]] # None
BY DEF TypeOK, GroupWork, Leave, Goto, Hold, PCs, EncoderOrNone

LEMMA NextType == TypeOK /\ [Next]_vars => TypeOK'
<1>. SUFFICES ASSUME TypeOK, [Next]_vars PROVE TypeOK'
  OBVIOUS
<1>. USE DEF TypeOK, cacheVars, budgetVars, remoteVars, Goto, Hold
<1>1. ASSUME NEW t \in Threads, Step(t) PROVE TypeOK'
  <2>. USE DEF PCs, Building, EncoderOrNone, GroupWork
  <2>1. CASE Encode(t)
    BY <2>1, LeaveType DEF Encode
  <2>2. CASE Lookup(t)
    BY <2>2 DEF Lookup
  <2>3. CASE Acquire(t)
    BY <2>3 DEF Acquire
  <2>4. CASE Publish(t)
    BY <2>4 DEF Publish, Release
  <2>5. CASE FindEncoder(t)
    BY <2>5 DEF FindEncoder
  <2>6. CASE SaveBudget(t)
    BY <2>6 DEF SaveBudget
  <2>7. CASE SetBudget(t)
    <3>1. GroupOf[profile[t]] \in Groups
      BY <2>7 DEF SetBudget
    <3>. QED
      BY <2>7, <3>1 DEF SetBudget
  <2>8. CASE MakeGroupEncoder(t)
    <3>1. GroupOf[profile[t]] \in Groups /\ profile[t] # None
      BY <2>8 DEF MakeGroupEncoder
    <3>2. CASE Make(t, SourceOf[GroupOf[profile[t]]], "restore")
      BY <3>1, <3>2, MakeType
    <3>3. CASE ~Make(t, SourceOf[GroupOf[profile[t]]], "restore")
      BY <2>8, <3>1, <3>3 DEF MakeGroupEncoder
    <3>. QED
      BY <3>2, <3>3
  <2>9. CASE RestoreBudget(t)
    BY <2>9, LeaveType DEF RestoreBudget, Release
  <2>10. CASE StoreEncoder(t)
    BY <2>10 DEF StoreEncoder
  <2>11. CASE LoadTemplate(t)
    BY <2>11 DEF LoadTemplate
  <2>12. CASE EnterRemote(t)
    BY <2>12 DEF EnterRemote, Caches
  <2>13. CASE LeaveRemote(t)
    BY <2>13, LeaveType DEF LeaveRemote, Release, Caches
  <2>14. CASE OwnEncoder(t)
    BY <2>14, MakeType DEF OwnEncoder
  <2>. QED
    BY <1>1, <2>1, <2>2, <2>3, <2>4, <2>5, <2>6, <2>7, <2>8, <2>9, <2>10, <2>11, <2>12,
       <2>13, <2>14 DEF Step
<1>2. ASSUME NEW t \in Threads, Raise(t) PROVE TypeOK'
  BY <1>2, LeaveType DEF Raise, Release
<1>3. ASSUME NEW t \in Threads, NEW p \in Profiles, Count(t, p) PROVE TypeOK'
  BY <1>3 DEF Count, PCs, GroupWork
<1>4. CASE Quiet \/ UNCHANGED vars
  BY <1>4 DEF Quiet, vars
<1>. QED
  BY <1>1, <1>2, <1>3, <1>4 DEF Next

\* The state keeps its shape, and a thread its profile and its encoder.
THEOREM TypeCorrect == Spec => []TypeOK
BY InitType, NextType, PTL DEF Spec
------------------------------------------------------------------------------
(***************************************************************************)
(* One builder per model, and a renderer that stays                        *)
(***************************************************************************)

\* RenderersStay needs that a thread only builds what is not in the cache, and
\* this only lasts because it holds the lock of the profile.
BuildInv ==
    /\ TypeOK
    /\ LockedWhileBuilt
    /\ \A t \in Threads : pc[t] \in Building => renderers[profile[t]] = None

LEMMA InitBuild == Init => BuildInv
BY InitType DEF Init, BuildInv, LockedWhileBuilt, Building

\* What a step of a thread may do to the lock and to the cache: nothing, or take
\* the lock of a profile without renderer, or leave it, with or without a renderer.
Stay(t) ==
    /\ pc[t] \in Building <=> pc'[t] \in Building
    /\ pc[t] \in Building => profile'[t] = profile[t]
    /\ UNCHANGED <<lock, renderers>>
Enter(t) ==
    /\ pc[t] \notin Building /\ pc'[t] \in Building
    /\ lock[profile[t]] = None /\ renderers[profile[t]] = None
    /\ lock' = [lock EXCEPT ![profile[t]] = t]
    /\ profile'[t] = profile[t]
    /\ UNCHANGED renderers
Exit(t) ==
    /\ pc[t] \in Building /\ pc'[t] \notin Building
    /\ Release(t)
    /\ \/ UNCHANGED renderers
       \/ renderers' = [renderers EXCEPT ![profile[t]] = encoder[t]]

\* Every step of a thread is one of the three and leaves the other threads alone.
LEMMA StepsAre ==
    ASSUME TypeOK, NEW t \in Threads,
           Step(t) \/ Raise(t) \/ \E p \in Profiles : Count(t, p)
    PROVE  /\ Stay(t) \/ Enter(t) \/ Exit(t)
           /\ \A u \in Threads \ {t} : pc'[u] = pc[u] /\ profile'[u] = profile[u]
<1>. USE DEF Building, Goto, Leave, cacheVars
<1>1. pc \in [Threads -> PCs] /\ profile \in [Threads -> Profiles \cup {None}]
  BY DEF TypeOK
<1>2. CASE Encode(t) \/ Lookup(t) \/ \E p \in Profiles : Count(t, p)
  <2>1. /\ pc[t] \notin Building /\ pc'[t] \notin Building /\ UNCHANGED <<lock, renderers>>
        /\ \A u \in Threads \ {t} : pc'[u] = pc[u] /\ profile'[u] = profile[u]
    BY <1>1, <1>2 DEF Encode, Lookup, Count
  <2>. QED
    BY <2>1 DEF Stay
<1>3. CASE FindEncoder(t) \/ SaveBudget(t) \/ SetBudget(t)
  BY <1>1, <1>3 DEF Stay, FindEncoder, SaveBudget, SetBudget
<1>4. CASE MakeGroupEncoder(t) \/ OwnEncoder(t)
  BY <1>1, <1>4 DEF Stay, MakeGroupEncoder, OwnEncoder, Make
<1>5. CASE StoreEncoder(t) \/ LoadTemplate(t) \/ EnterRemote(t)
  BY <1>1, <1>5 DEF Stay, StoreEncoder, LoadTemplate, EnterRemote
<1>6. CASE Acquire(t)
  BY <1>1, <1>6 DEF Stay, Enter, Acquire
<1>7. CASE Publish(t)
  BY <1>1, <1>7 DEF Exit, Publish
<1>8. CASE RestoreBudget(t)
  BY <1>1, <1>8 DEF Stay, Exit, RestoreBudget
<1>9. CASE LeaveRemote(t)
  BY <1>1, <1>9 DEF Stay, Exit, LeaveRemote
<1>10. CASE Raise(t)
  <2>1. pc[t] \in Building
    BY <1>10 DEF Raise, MayRaise
  <2>. QED
    BY <1>1, <1>10, <2>1 DEF Exit, Raise
<1>. QED
  BY <1>2, <1>3, <1>4, <1>5, <1>6, <1>7, <1>8, <1>9, <1>10 DEF Step

LEMMA NextBuild ==
    BuildInv /\ [Next]_vars =>
        /\ BuildInv'
        /\ \A p \in Profiles : renderers[p] # None => renderers'[p] = renderers[p]
<1>. SUFFICES ASSUME BuildInv, [Next]_vars
              PROVE  /\ LockedWhileBuilt'
                     /\ \A t \in Threads : pc'[t] \in Building => renderers'[profile'[t]] = None
                     /\ \A p \in Profiles : renderers[p] # None => renderers'[p] = renderers[p]
  BY NextType DEF BuildInv
<1>. USE DEF LockedWhileBuilt
<1>1. /\ lock \in [Profiles -> Threads \cup {None}] /\ None \notin Threads
      /\ renderers \in [Profiles -> EncoderOrNone]
      /\ \A t \in Threads : pc[t] \in Building => profile[t] \in Profiles
      /\ \A t \in Threads : profile[t] # None => profile[t] \in Profiles
  BY DEF BuildInv, TypeOK, Building
<1>2. /\ LockedWhileBuilt
      /\ \A t \in Threads : pc[t] \in Building => renderers[profile[t]] = None
  BY DEF BuildInv
<1>3. ASSUME NEW t \in Threads, Stay(t) \/ Enter(t) \/ Exit(t),
             \A u \in Threads \ {t} : pc'[u] = pc[u] /\ profile'[u] = profile[u]
      PROVE  /\ LockedWhileBuilt'
             /\ \A u \in Threads : pc'[u] \in Building => renderers'[profile'[u]] = None
             /\ \A p \in Profiles : renderers[p] # None => renderers'[p] = renderers[p]
  <2>1. CASE Stay(t)
    BY <1>1, <1>2, <1>3, <2>1 DEF Stay
  <2>2. CASE Enter(t)
    BY <1>1, <1>2, <1>3, <2>2 DEF Enter
  <2>3. CASE Exit(t)
    BY <1>1, <1>2, <1>3, <2>3 DEF Exit, Release
  <2>. QED
    BY <1>3, <2>1, <2>2, <2>3
<1>4. CASE \E t \in Threads : Step(t) \/ Raise(t) \/ \E p \in Profiles : Count(t, p)
  BY <1>3, <1>4, StepsAre DEF BuildInv
<1>5. CASE Quiet \/ UNCHANGED vars
  BY <1>2, <1>5 DEF Quiet, vars, cacheVars
<1>. QED
  BY <1>4, <1>5 DEF Next

\* However many threads call count, one at a time builds a model, and it holds the
\* lock of the model exactly as long.
THEOREM OneBuilder == Spec => []LockedWhileBuilt
<1>1. BuildInv => LockedWhileBuilt
  BY DEF BuildInv
<1>. QED
  BY InitBuild, NextBuild, <1>1, PTL DEF Spec

\* A renderer in the cache is never replaced.
THEOREM RenderersAreFinal == Spec => RenderersStay
<1>1. BuildInv /\ [Next]_vars =>
         [\A p \in Profiles : renderers[p] # None => renderers'[p] = renderers[p]]_vars
  BY NextBuild
<1>. QED
  BY InitBuild, NextBuild, <1>1, PTL DEF Spec, RenderersStay

------------------------------------------------------------------------------
(***************************************************************************)
(* The module cache                                                        *)
(***************************************************************************)

ModulesPrivate ==
    modules = (IF \E t \in Threads : pc[t] = "remote" THEN "private" ELSE "shared")

\* The cache a thread will restore is the process's own one, because the lock
\* keeps a second thread from saving the private one.
RemoteInv ==
    /\ TypeOK
    /\ \A t \in Threads : remoteLock = t <=> pc[t] = "remote"
    /\ \A t \in Threads : original[t] = "shared"
    /\ ModulesPrivate

LEMMA InitRemote == Init => RemoteInv
BY InitType DEF Init, RemoteInv, ModulesPrivate

\* All steps but those of the remote load leave its state alone.
LEMMA RemoteStepsAre ==
    ASSUME TypeOK, NEW t \in Threads,
           Step(t) \/ Raise(t) \/ \E p \in Profiles : Count(t, p)
    PROVE  /\ \A u \in Threads \ {t} : pc'[u] = pc[u]
           /\ \/ EnterRemote(t)
              \/ LeaveRemote(t)
              \/ UNCHANGED remoteVars /\ pc[t] # "remote" /\ pc'[t] # "remote"
<1>. USE DEF Goto, Leave
<1>1. pc \in [Threads -> PCs]
  BY DEF TypeOK
<1>2. CASE Encode(t) \/ Lookup(t) \/ Acquire(t) \/ \E p \in Profiles : Count(t, p)
  BY <1>1, <1>2 DEF Encode, Lookup, Acquire, Count
<1>3. CASE FindEncoder(t) \/ SaveBudget(t) \/ SetBudget(t) \/ StoreEncoder(t) \/ LoadTemplate(t)
  BY <1>1, <1>3 DEF FindEncoder, SaveBudget, SetBudget, StoreEncoder, LoadTemplate
<1>4. CASE MakeGroupEncoder(t) \/ OwnEncoder(t)
  BY <1>1, <1>4 DEF MakeGroupEncoder, OwnEncoder, Make
<1>5. CASE RestoreBudget(t) \/ Publish(t) \/ Raise(t)
  BY <1>1, <1>5 DEF RestoreBudget, Publish, Raise, MayRaise
<1>6. CASE EnterRemote(t) \/ LeaveRemote(t)
  BY <1>1, <1>6 DEF EnterRemote, LeaveRemote
<1>. QED
  BY <1>2, <1>3, <1>4, <1>5, <1>6 DEF Step

LEMMA NextRemote == RemoteInv /\ [Next]_vars => RemoteInv'
<1>. SUFFICES ASSUME RemoteInv, [Next]_vars
              PROVE  /\ \A t \in Threads : remoteLock' = t <=> pc'[t] = "remote"
                     /\ \A t \in Threads : original'[t] = "shared"
                     /\ ModulesPrivate'
  BY NextType DEF RemoteInv
<1>. USE DEF ModulesPrivate, Goto, Leave, remoteVars
<1>1. /\ None \notin Threads /\ pc \in [Threads -> PCs] /\ original \in [Threads -> Caches]
      /\ \A t \in Threads : remoteLock = t <=> pc[t] = "remote"
      /\ \A t \in Threads : original[t] = "shared"
      /\ ModulesPrivate
  BY DEF RemoteInv, TypeOK
<1>2. ASSUME NEW t \in Threads, EnterRemote(t)
      PROVE  /\ \A u \in Threads : remoteLock' = u <=> pc'[u] = "remote"
             /\ \A u \in Threads : original'[u] = "shared"
             /\ ModulesPrivate'
  BY <1>1, <1>2 DEF EnterRemote
<1>3. ASSUME NEW t \in Threads, LeaveRemote(t)
      PROVE  /\ \A u \in Threads : remoteLock' = u <=> pc'[u] = "remote"
             /\ \A u \in Threads : original'[u] = "shared"
             /\ ModulesPrivate'
  BY <1>1, <1>3 DEF LeaveRemote
<1>4. CASE \E t \in Threads : Step(t) \/ Raise(t) \/ \E p \in Profiles : Count(t, p)
  BY <1>1, <1>2, <1>3, <1>4, RemoteStepsAre DEF RemoteInv
<1>5. CASE Quiet \/ UNCHANGED vars
  BY <1>1, <1>5 DEF Quiet, vars
<1>. QED
  BY <1>4, <1>5 DEF Next

------------------------------------------------------------------------------
(***************************************************************************)
(* Encoders and their budget, if one thread makes the calls                *)
(***************************************************************************)

\* The encoder cache and the budget have no lock: what follows holds because the
\* executor of the scheduler has one thread, and only then.
Sole(t) == \A u \in Threads \ {t} : counts[u] = 0

FitsGroup(e, g) == e # None /\ e.source = SourceOf[g] /\ e.budget = Budget[g]

FitsAlone(e, p) == e.source = p /\ e.budget = DefaultBudget

\* What the encoder in a thread's hand is, and what it left behind in the library.
InHand(t) ==
    LET p == profile[t]  g == GroupOf[p] IN
    /\ budget = IF pc[t] \in {"make", "restore"} THEN Budget[g] ELSE DefaultBudget
    /\ pc[t] \in {"set", "make", "restore"} => previous[t] = DefaultBudget
    /\ pc[t] \in {"idle", "lookup", "lock", "build", "save", "set", "make"} => encoder[t] = None
    /\ pc[t] \in GroupWork => g # None /\ encoders[g] = None
    /\ pc[t] \in {"restore", "store"} /\ encoder[t] # None => FitsGroup(encoder[t], g)
    /\ pc[t] \in {"template", "remote", "own", "publish"} /\ g # None =>
          encoders[g] # None /\ encoder[t] = encoders[g]
    /\ pc[t] \in {"template", "remote", "own"} /\ g = None => encoder[t] = None
    /\ pc[t] = "publish" /\ g = None => FitsAlone(encoder[t], p)

Cached ==
    /\ \A g \in Groups : encoders[g] # None => FitsGroup(encoders[g], g)
    /\ \A p \in Profiles : renderers[p] # None =>
          IF GroupOf[p] = None THEN FitsAlone(renderers[p], p)
          ELSE encoders[GroupOf[p]] # None /\ renderers[p] = encoders[GroupOf[p]]

EncoderInv ==
    /\ TypeOK
    /\ \A t \in Threads : counts[t] = 0 => pc[t] = "idle"
    /\ \A t \in Threads : Sole(t) => InHand(t) /\ Cached

LEMMA InitEncoder == Init => EncoderInv
BY InitType DEF Init, EncoderInv, Sole, InHand, Cached, GroupWork

\* One step of the only thread: what it has in hand stays right, and so do the caches.
LEMMA StepEncoder ==
    ASSUME TypeOK, NEW t \in Threads, InHand(t), Cached,
           Step(t) \/ Raise(t) \/ \E p \in Profiles : Count(t, p)
    PROVE  InHand(t)' /\ Cached'
<1>. USE DEF Goto, Hold, Leave, cacheVars, budgetVars, GroupWork
<1>1. /\ pc \in [Threads -> PCs] /\ profile \in [Threads -> Profiles \cup {None}]
      /\ encoder \in [Threads -> EncoderOrNone] /\ previous \in [Threads -> Nat]
      /\ renderers \in [Profiles -> EncoderOrNone] /\ encoders \in [Groups -> EncoderOrNone]
      /\ \A u \in Threads : pc[u] # "idle" => profile[u] \in Profiles
      /\ \A u \in Threads : pc[u] \in {"store", "publish"} => encoder[u] # None
      /\ None \notin Groups
  BY DEF TypeOK
<1>2. InHand(t) /\ Cached
  OBVIOUS
<1>3. CASE Encode(t) \/ Raise(t) \/ \E p \in Profiles : Count(t, p)
  <2>1. Cached'
    BY <1>2, <1>3 DEF Encode, Raise, Count, Cached
  <2>2. InHand(t)'
    BY <1>1, <1>2, <1>3 DEF Encode, Raise, MayRaise, Count, InHand
  <2>. QED
    BY <2>1, <2>2
<1>4. CASE Lookup(t) \/ Acquire(t)
  <2>1. Cached'
    BY <1>2, <1>4 DEF Lookup, Acquire, Cached
  <2>2. InHand(t)'
    BY <1>1, <1>2, <1>4 DEF Lookup, Acquire, InHand
  <2>. QED
    BY <2>1, <2>2
<1>5. CASE FindEncoder(t)
  <2>1. Cached'
    BY <1>2, <1>5 DEF FindEncoder, Cached
  <2>2. InHand(t)'
    BY <1>1, <1>2, <1>5 DEF FindEncoder, InHand
  <2>. QED
    BY <2>1, <2>2
<1>6. CASE SaveBudget(t) \/ SetBudget(t)
  <2>1. Cached'
    BY <1>2, <1>6 DEF SaveBudget, SetBudget, Cached
  <2>2. InHand(t)'
    BY <1>1, <1>2, <1>6 DEF SaveBudget, SetBudget, InHand
  <2>. QED
    BY <2>1, <2>2
<1>7. CASE MakeGroupEncoder(t)
  <2>1. Cached'
    BY <1>2, <1>7 DEF MakeGroupEncoder, Make, Cached
  <2>2. GroupOf[profile[t]] \in Groups
    BY <1>1, <1>2, <1>7 DEF MakeGroupEncoder, InHand
  <2>3. FitsGroup(NewEncoder(SourceOf[GroupOf[profile[t]]]), GroupOf[profile[t]])
    <3>1. NewEncoder(SourceOf[GroupOf[profile[t]]]) # None
      BY <2>2, NotAnEncoder DEF NewEncoder, EncoderObjects, TypeOK
    <3>. QED
      BY <1>2, <1>7, <3>1 DEF FitsGroup, NewEncoder, InHand, MakeGroupEncoder
  <2>4. InHand(t)'
    BY <1>1, <1>2, <1>7, <2>3 DEF MakeGroupEncoder, Make, InHand
  <2>. QED
    BY <2>1, <2>4
<1>8. CASE RestoreBudget(t)
  <2>1. Cached'
    BY <1>2, <1>8 DEF RestoreBudget, Cached
  <2>2. InHand(t)'
    BY <1>1, <1>2, <1>8 DEF RestoreBudget, InHand
  <2>. QED
    BY <2>1, <2>2
<1>9. CASE StoreEncoder(t)
  <2>1. /\ FitsGroup(encoder[t], GroupOf[profile[t]]) /\ GroupOf[profile[t]] \in Groups
        /\ encoders[GroupOf[profile[t]]] = None
    BY <1>1, <1>2, <1>9 DEF StoreEncoder, InHand
  <2>2. Cached'
    BY <1>1, <1>2, <1>9, <2>1 DEF StoreEncoder, Cached, FitsGroup
  <2>3. InHand(t)'
    BY <1>1, <1>2, <1>9, <2>1 DEF StoreEncoder, InHand
  <2>. QED
    BY <2>2, <2>3
<1>10. CASE LoadTemplate(t) \/ EnterRemote(t) \/ LeaveRemote(t)
  <2>1. Cached'
    BY <1>2, <1>10 DEF LoadTemplate, EnterRemote, LeaveRemote, Cached
  <2>2. InHand(t)'
    BY <1>1, <1>2, <1>10 DEF LoadTemplate, EnterRemote, LeaveRemote, InHand
  <2>. QED
    BY <2>1, <2>2
<1>11. CASE OwnEncoder(t)
  <2>1. Cached'
    BY <1>2, <1>11 DEF OwnEncoder, Make, Cached
  <2>2. FitsAlone(NewEncoder(profile[t]), profile[t])
    BY <1>2, <1>11 DEF OwnEncoder, InHand, NewEncoder, FitsAlone
  <2>3. InHand(t)'
    BY <1>1, <1>2, <1>11, <2>2 DEF OwnEncoder, Make, InHand
  <2>. QED
    BY <2>1, <2>3
<1>12. CASE Publish(t)
  <2>1. Cached'
    BY <1>1, <1>2, <1>12 DEF Publish, InHand, Cached
  <2>2. InHand(t)'
    BY <1>1, <1>2, <1>12 DEF Publish, InHand
  <2>. QED
    BY <2>1, <2>2
<1>. QED
  BY <1>3, <1>4, <1>5, <1>6, <1>7, <1>8, <1>9, <1>10, <1>11, <1>12 DEF Step

\* A call is counted when it begins, and a thread that has made none is idle.
LEMMA StepCounts ==
    ASSUME EncoderInv, NEW t \in Threads,
           Step(t) \/ Raise(t) \/ \E p \in Profiles : Count(t, p)
    PROVE  /\ counts'[t] # 0
           /\ \A u \in Threads \ {t} : counts'[u] = counts[u] /\ pc'[u] = pc[u]
<1>. USE DEF Goto, Leave
<1>1. /\ counts \in [Threads -> Nat] /\ pc \in [Threads -> PCs]
      /\ pc[t] # "idle" => counts[t] # 0
  BY DEF EncoderInv, TypeOK
<1>2. CASE \E p \in Profiles : Count(t, p)
  BY <1>1, <1>2 DEF Count
<1>3. CASE Raise(t) \/ Encode(t) \/ Lookup(t) \/ Acquire(t) \/ Publish(t)
  BY <1>1, <1>3 DEF Raise, MayRaise, Encode, Lookup, Acquire, Publish
<1>4. CASE FindEncoder(t) \/ SaveBudget(t) \/ SetBudget(t) \/ StoreEncoder(t) \/ LoadTemplate(t)
  BY <1>1, <1>4 DEF FindEncoder, SaveBudget, SetBudget, StoreEncoder, LoadTemplate
<1>5. CASE MakeGroupEncoder(t) \/ OwnEncoder(t)
  BY <1>1, <1>5 DEF MakeGroupEncoder, OwnEncoder, Make
<1>6. CASE RestoreBudget(t) \/ EnterRemote(t) \/ LeaveRemote(t)
  BY <1>1, <1>6 DEF RestoreBudget, EnterRemote, LeaveRemote
<1>. QED
  BY <1>2, <1>3, <1>4, <1>5, <1>6 DEF Step

\* The thread that is alone after a step was alone before it, and made the step.
LEMMA NextEncoder == EncoderInv /\ [Next]_vars => EncoderInv'
<1>. SUFFICES ASSUME EncoderInv, [Next]_vars
              PROVE  /\ \A t \in Threads : counts'[t] = 0 => pc'[t] = "idle"
                     /\ \A t \in Threads : Sole(t)' => InHand(t)' /\ Cached'
  BY NextType DEF EncoderInv
<1>1. ASSUME NEW t \in Threads, Step(t) \/ Raise(t) \/ \E p \in Profiles : Count(t, p)
      PROVE  /\ \A u \in Threads : counts'[u] = 0 => pc'[u] = "idle"
             /\ \A u \in Threads : Sole(u)' => InHand(u)' /\ Cached'
  <2>1. /\ counts'[t] # 0
        /\ \A u \in Threads \ {t} : counts'[u] = counts[u] /\ pc'[u] = pc[u]
    BY <1>1, StepCounts
  <2>2. \A u \in Threads : counts'[u] = 0 => pc'[u] = "idle"
    BY <2>1 DEF EncoderInv
  <2>3. \A u \in Threads : Sole(u)' => u = t /\ Sole(t)
    BY <2>1 DEF Sole
  <2>4. Sole(t) => InHand(t)' /\ Cached'
    BY <1>1, StepEncoder DEF EncoderInv
  <2>. QED
    BY <2>2, <2>3, <2>4
<1>2. CASE Quiet \/ UNCHANGED vars
  <2>1. UNCHANGED vars
    BY <1>2 DEF Quiet
  <2>. QED
    BY <2>1 DEF vars, cacheVars, budgetVars, EncoderInv, Sole, InHand, Cached
<1>. QED
  BY <1>1, <1>2 DEF Next

\* If one thread makes the calls, two models of one group never get two encoders,
\* and every cached renderer encodes with the right assets and budget.
THEOREM EncodersAreRight == Spec => []EncodersFit
<1>1. ASSUME EncoderInv PROVE EncodersFit
  <2>1. SUFFICES ASSUME Cached
                 PROVE  \A p \in Profiles :
                          LET e == renderers[p]  g == GroupOf[p] IN
                          e # None =>
                              IF g = None THEN e.source = p /\ e.budget = DefaultBudget
                              ELSE /\ e.source = SourceOf[g] /\ e.budget = Budget[g]
                                   /\ \A q \in Profiles : GroupOf[q] = g => renderers[q] \in {e, None}
    BY <1>1 DEF EncodersFit, EncoderInv, Alone, Sole
  <2>2. \A p \in Profiles : GroupOf[p] \in Groups \cup {None}
    OBVIOUS
  <2>. QED
    BY <2>1, <2>2 DEF Cached, FitsAlone, FitsGroup
<1>2. EncoderInv /\ [Next]_vars => EncoderInv'
  BY NextEncoder
<1>. QED
  BY InitEncoder, <1>1, <1>2, PTL DEF Spec

\* Remote code is loaded with the private module cache and only then, however many
\* threads load; and the library's budget is back, if one thread makes the calls.
THEOREM LibrariesAreRestored == Spec => []LibrariesRestored
<1>1. ASSUME EncoderInv, RemoteInv PROVE LibrariesRestored
  <2>1. \A t \in Threads : Sole(t) /\ pc[t] \notin {"make", "restore"} => budget = DefaultBudget
    BY <1>1 DEF EncoderInv, InHand
  <2>. QED
    BY <1>1, <2>1 DEF RemoteInv, ModulesPrivate, LibrariesRestored, Alone, Sole
<1>2. EncoderInv /\ [Next]_vars => EncoderInv'
  BY NextEncoder
<1>3. RemoteInv /\ [Next]_vars => RemoteInv'
  BY NextRemote
<1>. QED
  BY InitEncoder, InitRemote, <1>1, <1>2, <1>3, PTL DEF Spec
=============================================================================
