---------------------------- MODULE TokenService ----------------------------
(***************************************************************************)
(* TokenCountService of src/maas_tokenizer/service.py, with what its       *)
(* threads share: the renderer and encoder caches, one lock per profile,   *)
(* the Gigatoken cache budget (a global of the library, encoders.py) and   *)
(* the remote-code module cache (a global of transformers, renderers.py).  *)
(*                                                                         *)
(* A thread runs `count` for one profile at a time.  A step is the code    *)
(* between two accesses to shared state; whatever only the holder of a     *)
(* lock touches belongs to the step that takes or releases the lock.       *)
(* Verifying assets, making an encoder, loading a template and encoding    *)
(* may all raise.                                                          *)
(*                                                                         *)
(* A definition whose name begins with Bug is a wrong variant of the one   *)
(* after it: a mistake the code could contain.                             *)
(***************************************************************************)
EXTENDS Integers

CONSTANTS
    Threads,       \* the threads that call count
    Profiles,      \* the registered profiles
    Groups,        \* the groups of _ENCODER_GROUPS
    GroupOf,       \* the group of each profile, or None
    SourceOf,      \* the profile whose assets feed the encoder of a group
    Budget,        \* max_cache_bytes of each group
    DefaultBudget, \* the library's budget when the process starts
    Templated,     \* the profiles whose renderer loads a template tokenizer
    Remote,        \* of these, the ones with trust_remote_code
    MaxCounts,     \* bound: how often each thread calls count
    None

ASSUME GroupAssumption ==
    /\ GroupOf \in [Profiles -> Groups \cup {None}]
    /\ SourceOf \in [Groups -> Profiles]
    /\ Budget \in [Groups -> Nat] /\ DefaultBudget \in Nat
    /\ Remote \subseteq Templated /\ Templated \subseteq Profiles
    /\ None \notin Threads \cup Profiles \cup Groups
ASSUME CountsAssumption == MaxCounts \in [Threads -> Nat]

VARIABLES
    renderers,   \* _renderers: the encoder inside the renderer of a profile, or None
    encoders,    \* _encoders: the encoder of each group, or None
    made,        \* how many encoders were made from the assets of each profile
    lock,        \* _locks: who holds the lock of each profile, or None
    budget,      \* gt.get_max_cache_bytes()
    remoteLock,  \* who holds _REMOTE_CODE_LOCK, or None
    modules,     \* HF_MODULES_CACHE
    pc,          \* where each thread is in count
    profile,     \* the profile each thread counts for
    encoder,     \* its local variable encoder
    previous,    \* its local variable previous, while it has one
    original,    \* its local variable original, while it has one
    counts       \* calls of count so far

cacheVars == <<renderers, encoders, made>>
remoteVars == <<remoteLock, modules, original>>
budgetVars == <<budget, previous>>
vars == <<cacheVars, lock, budgetVars, remoteVars, pc, profile, encoder, counts>>

\* An encoder object: whose assets it has, the cache budget it was made with, and
\* its number among those made from the same assets.
EncoderObjects == [source : Profiles, budget : Nat, serial : Nat]

ASSUME NotAnEncoder == None \notin EncoderObjects

\* Inside `with self._lock_for(...)`, and outside it.
Building == {"build", "save", "set", "make", "restore", "store", "template", "remote",
             "own", "publish"}
PCs == {"idle", "lookup", "lock", "encode"} \cup Building

Caches == {"shared", "private"}

Init ==
    /\ renderers = [p \in Profiles |-> None]
    /\ encoders = [g \in Groups |-> None]
    /\ made = [p \in Profiles |-> 0]
    /\ lock = [p \in Profiles |-> None]
    /\ budget = DefaultBudget
    /\ previous = [t \in Threads |-> DefaultBudget]
    /\ remoteLock = None
    /\ modules = "shared"
    /\ original = [t \in Threads |-> "shared"]
    /\ pc = [t \in Threads |-> "idle"]
    /\ profile = [t \in Threads |-> None]
    /\ encoder = [t \in Threads |-> None]
    /\ counts = [t \in Threads |-> 0]

------------------------------------------------------------------------------
Goto(t, place) == pc' = [pc EXCEPT ![t] = place]

Hold(t, e) == encoder' = [encoder EXCEPT ![t] = e]

\* count returns or raises: its local variables are gone.
Leave(t) ==
    /\ Goto(t, "idle")
    /\ profile' = [profile EXCEPT ![t] = None]
    /\ Hold(t, None)

\* Leaving the with block, by a return or by an exception.
Release(t) == lock' = [lock EXCEPT ![profile[t]] = None]

(***************************************************************************)
(* count()                                                                 *)
(***************************************************************************)
\* The request names a registered model and passes validation.  (Another
\* request is answered before it reaches any shared state.)
Count(t, p) ==
    /\ pc[t] = "idle"
    /\ counts[t] < MaxCounts[t]
    /\ counts' = [counts EXCEPT ![t] = @ + 1]
    /\ profile' = [profile EXCEPT ![t] = p]
    /\ Goto(t, "lookup")
    /\ UNCHANGED <<cacheVars, lock, budgetVars, remoteVars, encoder>>

\* renderer.encode(parsed): count returns the number of tokens, or raises.
Encode(t) ==
    /\ pc[t] = "encode"
    /\ Leave(t)
    /\ UNCHANGED <<cacheVars, lock, budgetVars, remoteVars, counts>>

------------------------------------------------------------------------------
(***************************************************************************)
(* _renderer_for()                                                         *)
(***************************************************************************)
\* The look into the cache before the lock.
Lookup(t) ==
    /\ pc[t] = "lookup"
    /\ Hold(t, renderers[profile[t]])
    /\ Goto(t, IF renderers[profile[t]] = None THEN "lock" ELSE "encode")
    /\ UNCHANGED <<cacheVars, lock, budgetVars, remoteVars, profile, counts>>

\* Taking the lock and looking again.  A renderer found there is returned, and
\* the lock released, before anyone else can tell.
BugAcquire(t) ==
    /\ pc[t] = "lock"
    /\ lock[profile[t]] = None
    /\ lock' = [lock EXCEPT ![profile[t]] = t]
    /\ Goto(t, "build")
    /\ UNCHANGED <<cacheVars, budgetVars, remoteVars, profile, encoder, counts>>
Acquire(t) ==
    /\ pc[t] = "lock"
    /\ lock[profile[t]] = None
    /\ Hold(t, renderers[profile[t]])
    /\ \/ /\ renderers[profile[t]] = None
          /\ lock' = [lock EXCEPT ![profile[t]] = t]
          /\ Goto(t, "build")
       \/ /\ renderers[profile[t]] # None
          /\ Goto(t, "encode")
          /\ UNCHANGED lock
    /\ UNCHANGED <<cacheVars, budgetVars, remoteVars, profile, counts>>

\* Something raises before the renderer is complete: the assets of the profile or
\* of its group's source do not verify, the template tokenizer does not load, or
\* the renderer cannot be made.
MayRaise(t) ==
    \/ pc[t] \in {"build", "save", "own"}
    \/ pc[t] = "template" /\ profile[t] \in Templated \ Remote

BugRaise(t) ==
    /\ MayRaise(t)
    /\ Leave(t)
    /\ UNCHANGED <<cacheVars, lock, budgetVars, remoteVars, counts>>
Raise(t) ==
    /\ MayRaise(t)
    /\ Leave(t)
    /\ Release(t)
    /\ UNCHANGED <<cacheVars, budgetVars, remoteVars, counts>>

\* The renderer enters the cache and the lock is released.
Publish(t) ==
    /\ pc[t] = "publish"
    /\ renderers' = [renderers EXCEPT ![profile[t]] = encoder[t]]
    /\ Release(t)
    /\ Goto(t, "encode")
    /\ UNCHANGED <<encoders, made, budgetVars, remoteVars, profile, encoder, counts>>

------------------------------------------------------------------------------
(***************************************************************************)
(* _encoder_for() and GigaTokenEncoder.from_assets()                       *)
(***************************************************************************)
\* The assets are verified: use the group's encoder if there is one.
FindEncoder(t) ==
    LET g == GroupOf[profile[t]] IN
    /\ pc[t] = "build"
    /\ \/ /\ g = None
          /\ Goto(t, "template")
          /\ UNCHANGED encoder
       \/ /\ g # None
          /\ Hold(t, encoders[g])
          /\ Goto(t, IF encoders[g] = None THEN "save" ELSE "template")
    /\ UNCHANGED <<cacheVars, lock, budgetVars, remoteVars, profile, counts>>

\* The assets of the group's source are verified: get_max_cache_bytes ...
SaveBudget(t) ==
    /\ pc[t] = "save"
    /\ previous' = [previous EXCEPT ![t] = budget]
    /\ Goto(t, "set")
    /\ UNCHANGED <<cacheVars, lock, budget, remoteVars, profile, encoder, counts>>

\* ... and set_max_cache_bytes.
SetBudget(t) ==
    /\ pc[t] = "set"
    /\ budget' = Budget[GroupOf[profile[t]]]
    /\ Goto(t, "make")
    /\ UNCHANGED <<cacheVars, lock, previous, remoteVars, profile, encoder, counts>>

\* An encoder made now from the assets of `source`.
NewEncoder(source) == [source |-> source, budget |-> budget, serial |-> made[source]]

Make(t, source, next) ==
    /\ Hold(t, NewEncoder(source))
    /\ made' = [made EXCEPT ![source] = @ + 1]
    /\ Goto(t, next)
    /\ UNCHANGED <<renderers, encoders, lock, budgetVars, remoteVars, profile, counts>>

MakeGroupEncoder(t) ==
    /\ pc[t] = "make"
    /\ \/ Make(t, SourceOf[GroupOf[profile[t]]], "restore")
       \/ /\ Goto(t, "restore")     \* gt.Tokenizer raises
          /\ UNCHANGED <<cacheVars, lock, budgetVars, remoteVars, profile, encoder, counts>>

\* The finally clause; if gt.Tokenizer raised, the exception goes on to count.
RestoreBudget(t) ==
    /\ pc[t] = "restore"
    /\ budget' = previous[t]
    /\ previous' = [previous EXCEPT ![t] = DefaultBudget]
    /\ \/ /\ encoder[t] # None
          /\ Goto(t, "store")
          /\ UNCHANGED <<lock, profile, encoder>>
       \/ /\ encoder[t] = None
          /\ Release(t)
          /\ Leave(t)
    /\ UNCHANGED <<cacheVars, remoteVars, counts>>

BugStoreEncoder(t) ==
    /\ pc[t] = "store"
    /\ Goto(t, "template")
    /\ UNCHANGED <<cacheVars, lock, budgetVars, remoteVars, profile, encoder, counts>>
StoreEncoder(t) ==
    /\ pc[t] = "store"
    /\ encoders' = [encoders EXCEPT ![GroupOf[profile[t]]] = encoder[t]]
    /\ Goto(t, "template")
    /\ UNCHANGED <<renderers, made, lock, budgetVars, remoteVars, profile, encoder, counts>>

------------------------------------------------------------------------------
(***************************************************************************)
(* build_renderer() and _load_tokenizer()                                  *)
(***************************************************************************)
\* The template tokenizer is loaded, or the renderer needs none.
LoadTemplate(t) ==
    /\ pc[t] = "template"
    /\ profile[t] \notin Remote
    /\ Goto(t, "own")
    /\ UNCHANGED <<cacheVars, lock, budgetVars, remoteVars, profile, encoder, counts>>

\* With remote code: point the module cache at a private directory, under the lock.
EnterRemote(t) ==
    /\ pc[t] = "template"
    /\ profile[t] \in Remote
    /\ remoteLock = None
    /\ remoteLock' = t
    /\ original' = [original EXCEPT ![t] = modules]
    /\ modules' = "private"
    /\ Goto(t, "remote")
    /\ UNCHANGED <<cacheVars, lock, budgetVars, profile, encoder, counts>>

\* The template is loaded, or from_pretrained raises.
BugLeaveRemote(t) ==
    /\ pc[t] = "remote"
    /\ remoteLock' = None
    /\ \/ /\ Goto(t, "own")
          /\ modules' = original[t]
          /\ UNCHANGED <<lock, profile, encoder>>
       \/ /\ Release(t)
          /\ Leave(t)
          /\ UNCHANGED modules
    /\ UNCHANGED <<cacheVars, budgetVars, original, counts>>
LeaveRemote(t) ==
    /\ pc[t] = "remote"
    /\ modules' = original[t]
    /\ original' = [original EXCEPT ![t] = "shared"]
    /\ remoteLock' = None
    /\ \/ /\ Goto(t, "own")
          /\ UNCHANGED <<lock, profile, encoder>>
       \/ /\ Release(t)
          /\ Leave(t)
    /\ UNCHANGED <<cacheVars, budgetVars, counts>>

\* A renderer that was given no encoder makes one from its own assets.
OwnEncoder(t) ==
    /\ pc[t] = "own"
    /\ \/ /\ encoder[t] = None
          /\ Make(t, profile[t], "publish")
       \/ /\ encoder[t] # None
          /\ Goto(t, "publish")
          /\ UNCHANGED <<cacheVars, lock, budgetVars, remoteVars, profile, encoder, counts>>

------------------------------------------------------------------------------
Step(t) ==
    \/ Encode(t)
    \/ Lookup(t)
    \/ Acquire(t)
    \/ Publish(t)
    \/ FindEncoder(t)
    \/ SaveBudget(t)
    \/ SetBudget(t)
    \/ MakeGroupEncoder(t)
    \/ RestoreBudget(t)
    \/ StoreEncoder(t)
    \/ LoadTemplate(t)
    \/ EnterRemote(t)
    \/ LeaveRemote(t)
    \/ OwnEncoder(t)

\* Every thread has made its calls.
Quiet ==
    /\ \A t \in Threads : pc[t] = "idle" /\ counts[t] = MaxCounts[t]
    /\ UNCHANGED vars

Next ==
    \/ \E t \in Threads : Step(t) \/ Raise(t) \/ \E p \in Profiles : Count(t, p)
    \/ Quiet

Spec == Init /\ [][Next]_vars

\* A thread inside count goes on whenever the lock it waits for is free.  Nothing
\* has to fail.
Fairness == \A t \in Threads : WF_vars(Step(t))

FairSpec == Spec /\ Fairness

------------------------------------------------------------------------------
(***************************************************************************)
(* Properties                                                              *)
(***************************************************************************)
EncoderOrNone == EncoderObjects \cup {None}

\* In _encoder_for, where the group has no encoder yet.
GroupWork == {"save", "set", "make", "restore", "store"}

\* The state has the expected shape; a thread that stores, publishes or uses an
\* encoder has one, and one that makes an encoder for a group has a group.
TypeOK ==
    /\ renderers \in [Profiles -> EncoderOrNone]
    /\ encoders \in [Groups -> EncoderOrNone]
    /\ made \in [Profiles -> Nat]
    /\ lock \in [Profiles -> Threads \cup {None}]
    /\ budget \in Nat
    /\ previous \in [Threads -> Nat]
    /\ remoteLock \in Threads \cup {None}
    /\ modules \in Caches
    /\ original \in [Threads -> Caches]
    /\ pc \in [Threads -> PCs]
    /\ profile \in [Threads -> Profiles \cup {None}]
    /\ encoder \in [Threads -> EncoderOrNone]
    /\ counts \in [Threads -> Nat]
    /\ \A t \in Threads :
          /\ pc[t] \in {"store", "publish", "encode"} => encoder[t] # None
          /\ pc[t] # "idle" => profile[t] # None
          /\ pc[t] \in GroupWork => GroupOf[profile[t]] # None

\* A model is built by one thread at a time, and the lock of a profile is held
\* exactly while somebody builds it: an exception on the way releases it
\* (service.py:130-143).
LockedWhileBuilt ==
    \A t \in Threads, p \in Profiles :
        lock[p] = t <=> pc[t] \in Building /\ profile[t] = p

\* A renderer in the cache stays: no later build replaces it under the threads
\* that already use it (service.py:131-137).
RenderersStay ==
    [][\A p \in Profiles : renderers[p] # None => renderers'[p] = renderers[p]]_vars

\* Every call of count comes back: no lock is left behind, none is waited for in
\* a circle (service.py:130, renderers.py:56).
EveryCountReturns == \A t \in Threads : pc[t] # "idle" ~> pc[t] = "idle"

\* One thread makes all the calls, as the one of the scheduler's executor does.
\* Neither the encoder cache nor the library's budget has a lock.
Alone == \E t \in Threads : \A u \in Threads \ {t} : counts[u] = 0

\* If one thread makes the calls, a cached renderer encodes with the assets and the
\* cache budget of its group, and with the object of the other models of the group;
\* one outside the groups, with its own assets and the default budget (README.md:39,
\* service.py:150-161, encoders.py:30-38).
EncodersFit ==
    Alone => \A p \in Profiles :
        LET e == renderers[p]  g == GroupOf[p] IN
        e # None =>
            IF g = None THEN e.source = p /\ e.budget = DefaultBudget
            ELSE /\ e.source = SourceOf[g] /\ e.budget = Budget[g]
                 /\ \A q \in Profiles : GroupOf[q] = g => renderers[q] \in {e, None}

\* What a load changes in the libraries is put back, after a failed one too: remote
\* code is loaded with the private module cache and nothing else is; and if one thread
\* makes the calls, the cache budget is back whenever no encoder is being made
\* (renderers.py:56-64, encoders.py:33-38).
LibrariesRestored ==
    /\ modules = (IF \E t \in Threads : pc[t] = "remote" THEN "private" ELSE "shared")
    /\ Alone /\ (\A t \in Threads : pc[t] \notin {"make", "restore"}) => budget = DefaultBudget
=============================================================================
