--------------------------- MODULE DerivedTypeCache ---------------------------
(***************************************************************************)
(* The derived type model binder: DerivedTypeModelBinderCache              *)
(* (src/MVCContrib/Binders), its static dictionaries and salt, the binder  *)
(* that reads them when a form is posted, and the page helper TypeStamp    *)
(* that puts a stamp into the form.                                        *)
(*                                                                         *)
(* Requests and start-up code use it concurrently.  The two dictionaries   *)
(* of stamps are concurrent ones, an access to them is one step.  That of  *)
(* base types, and the one inside the framework's ModelBinders.Binders, are *)
(* plain Dictionaries: an Add is two steps, Adds that overlap may lose      *)
(* entries, and an enumerator fails when its dictionary was changed.  A     *)
(* stamp is the HMAC of a type's name under the salt: here the pair of the  *)
(* two.                                                                    *)
(***************************************************************************)
EXTENDS Naturals, Sequences

CONSTANTS
    Threads,        \* threads of the application domain
    Bases,          \* types with derived types
    Types,          \* derived types
    Derived,        \* Derived[b]: what the application registers for b
    Salts,          \* salts in use
    OriginalSalt,   \* the salt compiled into the class
    None,           \* a key that is not in a dictionary
    OwnBinders,     \* bases for which the application may install its binder
    MaxCalls        \* bound: calls altogether

Stamps == Types \X Salts

Answers == {"none", "true", "false", "ok", "failed"}

ASSUME TypeAssumption ==
    /\ Derived \in [Bases -> Seq(Types)]
    /\ Types # {} /\ Bases # {}
    /\ OwnBinders \subseteq Bases
    /\ None \notin Types \cup Bases \cup Stamps \cup Answers
ASSUME SaltAssumption == OriginalSalt \in Salts
ASSUME BoundAssumption == MaxCalls \in Nat

VARIABLES
    typeCache,  \* _typeCache: the base types registered
    hashToType, \* _hashToTypeDictionary
    typeToHash, \* _typeToHashDictionary
    salt,       \* _activeEncryptionSalt
    binders,    \* ModelBinders.Binders: the framework's binder of each base
    pc,         \* where each thread is
    calls,      \* how many calls there have been
    reply,      \* what its last call returned: an answer or the type it bound
    base, rest, stamp,  \* RegisterDerivedTypes: its base, the derived types to
                \* come, the stamp of the current one; a post: base and stamp
    overlap,    \* Add: another Add of the dictionary ran meanwhile
    todo, stale, \* Reset: bases still to enumerate; _typeCache changed meanwhile
    posted,     \* the page a post comes from, or None
    pages,      \* history: the pages rendered with a stamp
    ready,      \* history: bases whose registration has returned true
    bindable,   \* history: the post has a stamp of this era for a ready base,
                \* and came while no binder was being stored
    raced,      \* history: two Adds of _typeCache have overlapped
    torn,       \* history: two Adds of ModelBinders.Binders have overlapped
    mixed       \* history: a Reset and a registration have overlapped

tables == <<typeCache, hashToType, typeToHash, salt, binders>>
registration == <<base, rest, stamp, overlap>>
resetVars == <<todo, stale>>
history == <<posted, pages, ready, bindable, raced, torn, mixed>>
vars == <<tables, pc, calls, reply, registration, resetVars, history>>

Pages == [type: Types, stamp: Stamps, live: BOOLEAN]

Registering == {"find", "insert", "item", "hashToType", "typeToHash", "binder"}
Resetting == {"remove", "clearHashes", "clearTypes", "clearCache", "resetSalt"}
PCs == {"idle", "detect"} \cup Registering \cup Resetting

TypeOK ==
    /\ typeCache \subseteq Bases
    /\ hashToType \in [Stamps -> Types \cup {None}]
    /\ typeToHash \in [Types -> Stamps \cup {None}]
    /\ salt \in Salts
    /\ binders \in [Bases -> {"none", "derived", "app"}]
    /\ pc \in [Threads -> PCs] /\ calls \in 0..MaxCalls
    /\ reply \in [Threads -> Answers \cup Types \cup Bases]
    /\ base \in [Threads -> Bases] /\ rest \in [Threads -> Seq(Types)]
    /\ stamp \in [Threads -> Stamps \cup {None}]
    /\ overlap \in [Threads -> BOOLEAN]
    /\ todo \in [Threads -> SUBSET Bases] /\ stale \in [Threads -> BOOLEAN]
    /\ posted \in [Threads -> Pages \cup {None}]
    /\ pages \subseteq Pages
    /\ ready \subseteq Bases
    /\ bindable \in [Threads -> BOOLEAN]
    /\ raced \in BOOLEAN /\ torn \in BOOLEAN /\ mixed \in BOOLEAN

\* The application may have installed a binder of its own beforehand.
Init ==
    /\ typeCache = {}
    /\ hashToType = [s \in Stamps |-> None]
    /\ typeToHash = [ty \in Types |-> None]
    /\ salt = OriginalSalt
    /\ \E own \in SUBSET OwnBinders :
          binders = [b \in Bases |-> IF b \in own THEN "app" ELSE "none"]
    /\ pc = [t \in Threads |-> "idle"] /\ calls = 0
    /\ reply = [t \in Threads |-> "none"]
    /\ base = [t \in Threads |-> CHOOSE b \in Bases : TRUE]
    /\ rest = [t \in Threads |-> <<>>]
    /\ stamp = [t \in Threads |-> None]
    /\ overlap = [t \in Threads |-> FALSE]
    /\ todo = [t \in Threads |-> {}] /\ stale = [t \in Threads |-> FALSE]
    /\ posted = [t \in Threads |-> None]
    /\ pages = {} /\ ready = {}
    /\ bindable = [t \in Threads |-> FALSE]
    /\ raced = FALSE /\ torn = FALSE /\ mixed = FALSE

-----------------------------------------------------------------------------
(* Steps *)

Goto(t, to) == pc' = [pc EXCEPT ![t] = to]

Return(t, answer) ==
    /\ Goto(t, "idle")
    /\ reply' = [reply EXCEPT ![t] = answer]

\* An idle thread makes one more call.
Enter(t) ==
    /\ pc[t] = "idle"
    /\ calls < MaxCalls
    /\ calls' = calls + 1

In(places) == {t \in Threads : pc[t] \in places}

\* RegisterDerivedTypes(b, Derived[b])
Register(t) ==
    /\ Enter(t)
    /\ \E b \in Bases : base' = [base EXCEPT ![t] = b]
    /\ Goto(t, "find")
    /\ posted' = [posted EXCEPT ![t] = None]
    /\ mixed' = (mixed \/ In(Resetting) # {})
    /\ UNCHANGED <<tables, reply, rest, stamp, overlap, resetVars,
                   pages, ready, bindable, raced, torn>>

\* An Add that looks its key up overlaps those that have yet to store theirs.
Overlap(t, place) ==
    overlap' = [u \in Threads |-> IF u = t THEN In({place}) # {}
                                  ELSE overlap[u] \/ u \in In({place})]

\* _typeCache.Add looks the key up; its ArgumentException becomes false.
Find(t) ==
    /\ pc[t] = "find"
    /\ IF base[t] \in typeCache
       THEN Return(t, "false") /\ UNCHANGED <<overlap, raced>>
       ELSE /\ Goto(t, "insert")
            /\ Overlap(t, "insert")
            /\ raced' = (raced \/ In({"insert"}) # {})
            /\ UNCHANGED reply
    /\ UNCHANGED <<tables, calls, base, rest, stamp, resetVars,
                   posted, pages, ready, bindable, torn, mixed>>

\* Those who enumerate _typeCache notice, when it did change.
Changed(t) == stale' = [u \in Threads |-> stale[u] \/ (u # t /\ pc[u] = "remove")]

\* _typeCache.Add stores the entry.  Adds that overlap may lose some.
Insert(t) ==
    /\ pc[t] = "insert"
    /\ LET added == typeCache \cup {base[t]}
       IN  typeCache' \in IF overlap[t] THEN SUBSET added ELSE {added}
    /\ Changed(t)
    /\ rest' = [rest EXCEPT ![t] = Derived[base[t]]]
    /\ overlap' = [overlap EXCEPT ![t] = FALSE]
    /\ Goto(t, "item")
    /\ UNCHANGED <<hashToType, typeToHash, salt, binders, calls, reply,
                   base, stamp, todo, history>>

\* The stamp of the next derived type, under the salt of the moment.
EncryptStringToBase64(t) ==
    /\ pc[t] = "item"
    /\ rest[t] # <<>>
    /\ stamp' = [stamp EXCEPT ![t] = <<Head(rest[t]), salt>>]
    /\ Goto(t, "hashToType")
    /\ UNCHANGED <<tables, calls, reply, base, rest, overlap, resetVars, history>>

HashToType(t) ==
    /\ pc[t] = "hashToType"
    /\ hashToType' = [hashToType EXCEPT ![stamp[t]] = Head(rest[t])]
    /\ Goto(t, "typeToHash")
    /\ UNCHANGED <<typeCache, typeToHash, salt, binders, calls, reply,
                   registration, resetVars, history>>

TypeToHash(t) ==
    /\ pc[t] = "typeToHash"
    /\ typeToHash' = [typeToHash EXCEPT ![Head(rest[t])] = stamp[t]]
    /\ rest' = [rest EXCEPT ![t] = Tail(@)]
    /\ stamp' = [stamp EXCEPT ![t] = None]
    /\ Goto(t, "item")
    /\ UNCHANGED <<typeCache, hashToType, salt, binders, calls, reply,
                   base, overlap, resetVars, history>>

\* ModelBinders.Binders.Add looks the base up, and throws when it has a binder.
FindBinder(t) ==
    /\ pc[t] = "item"
    /\ rest[t] = <<>>
    /\ IF binders[base[t]] # "none"
       THEN Return(t, "failed") /\ UNCHANGED <<overlap, torn>>
       ELSE /\ Goto(t, "binder")
            /\ Overlap(t, "binder")
            /\ torn' = (torn \/ In({"binder"}) # {})
            /\ UNCHANGED reply
    /\ UNCHANGED <<tables, calls, base, rest, stamp, resetVars,
                   posted, pages, ready, bindable, raced, mixed>>

\* ModelBinders.Binders.Add stores the binder.  Adds that overlap may lose some.
AddBinder(t) ==
    /\ pc[t] = "binder"
    /\ LET added == [binders EXCEPT ![base[t]] = "derived"]
       IN  \E lost \in IF overlap[t] THEN SUBSET Bases ELSE {{}} :
              binders' = [b \in Bases |-> IF b \in lost THEN "none" ELSE added[b]]
    /\ ready' = ready \cup {base[t]}
    /\ Return(t, "true")
    /\ overlap' = [overlap EXCEPT ![t] = FALSE]
    /\ UNCHANGED <<typeCache, hashToType, typeToHash, salt, calls, base, rest, stamp,
                   resetVars, posted, pages, bindable, raced, torn, mixed>>

\* Variant of SetTypeStampSaltValue that drops the stamps of the former salt.
SetTypeStampSaltValueForgetting(t) ==
    /\ Enter(t)
    /\ salt' \in Salts
    /\ hashToType' = [s \in Stamps |-> None]
    /\ Return(t, "ok")
    /\ posted' = [posted EXCEPT ![t] = None]
    /\ UNCHANGED <<typeCache, typeToHash, binders, registration, resetVars,
                   pages, ready, bindable, raced, torn, mixed>>

SetTypeStampSaltValue(t) ==
    /\ Enter(t)
    /\ salt' \in Salts
    /\ Return(t, "ok")
    /\ posted' = [posted EXCEPT ![t] = None]
    /\ UNCHANGED <<typeCache, hashToType, typeToHash, binders, registration,
                   resetVars, pages, ready, bindable, raced, torn, mixed>>

\* A page renders the stamp of its model: TypeStamp calls GetTypeName.
GetTypeName(t) ==
    /\ Enter(t)
    /\ \E ty \in Types :
          IF typeToHash[ty] = None
          THEN Return(t, "failed") /\ UNCHANGED pages
          ELSE /\ pages' = pages \cup {[type |-> ty, stamp |-> typeToHash[ty],
                                        live |-> In(Resetting) = {}]}
               /\ Return(t, "ok")
    /\ posted' = [posted EXCEPT ![t] = None]
    /\ UNCHANGED <<tables, registration, resetVars, ready, bindable, raced, torn, mixed>>

\* A form is posted whose model is of type b: the framework asks its binders
\* for b's, and may miss it while another is being stored.  DetectTypeStamp finds
\* the stamp of a page, no stamp, or a value that is not a string array;
\* GetDerivedType comes next.
Post(t) ==
    /\ Enter(t)
    /\ \E b \in Bases, found \in {TRUE} \cup (IF In({"binder"}) # {} THEN {FALSE} ELSE {}) :
          LET derived == found /\ binders[b] = "derived"
          IN  \/ \E page \in pages :
                    /\ posted' = [posted EXCEPT ![t] = page]
                    /\ bindable' = [bindable EXCEPT ![t] =
                                       page.live /\ b \in ready /\ In({"binder"}) = {}]
                    /\ IF derived
                       THEN /\ Goto(t, "detect")
                            /\ stamp' = [stamp EXCEPT ![t] = page.stamp]
                            /\ base' = [base EXCEPT ![t] = b]
                            /\ UNCHANGED reply
                       ELSE Return(t, b) /\ UNCHANGED <<stamp, base>>
              \/ /\ posted' = [posted EXCEPT ![t] = None]
                 /\ \/ Return(t, b)
                    \/ derived /\ Return(t, "failed")
                 /\ UNCHANGED <<bindable, stamp, base>>
    /\ UNCHANGED <<tables, rest, overlap, resetVars, pages, ready, raced, torn, mixed>>

\* Variant of DetectInstantiationType that does not test the answer for null.
DetectInstantiationTypeUnchecked(t) ==
    /\ pc[t] = "detect"
    /\ Return(t, hashToType[stamp[t]])
    /\ stamp' = [stamp EXCEPT ![t] = None]
    /\ UNCHANGED <<tables, calls, base, rest, overlap, resetVars, history>>

\* GetDerivedType of the posted stamp: a type, or null and an exception.
DetectInstantiationType(t) ==
    /\ pc[t] = "detect"
    /\ LET type == hashToType[stamp[t]]
       IN  Return(t, IF type = None THEN "failed" ELSE type)
    /\ stamp' = [stamp EXCEPT ![t] = None]
    /\ UNCHANGED <<tables, calls, base, rest, overlap, resetVars, history>>

\* Reset begins: whatever was handed out may stop to bind.
NewEra ==
    /\ pages' = {[page EXCEPT !.live = FALSE] : page \in pages}
    /\ ready' = {}
    /\ bindable' = [t \in Threads |-> FALSE]
    /\ mixed' = (mixed \/ In(Registering) # {})

\* Variant of Reset that clears the cache before it enumerates it.
ResetEmptied(t) ==
    /\ Enter(t)
    /\ NewEra
    /\ typeCache' = {}
    /\ todo' = [todo EXCEPT ![t] = {}]
    /\ stale' = [stale EXCEPT ![t] = FALSE]
    /\ posted' = [posted EXCEPT ![t] = None]
    /\ Goto(t, "remove")
    /\ UNCHANGED <<hashToType, typeToHash, salt, binders, reply, registration, raced, torn>>

\* Reset asks _typeCache for its enumerator.
Reset(t) ==
    /\ Enter(t)
    /\ NewEra
    /\ todo' = [todo EXCEPT ![t] = typeCache]
    /\ stale' = [stale EXCEPT ![t] = FALSE]
    /\ posted' = [posted EXCEPT ![t] = None]
    /\ Goto(t, "remove")
    /\ UNCHANGED <<tables, reply, registration, raced, torn>>

\* The loop of Reset: MoveNext throws when _typeCache has changed; else the
\* binder of the next base is removed, whoever installed it.
RemoveBinders(t) ==
    /\ pc[t] = "remove"
    /\ \/ /\ stale[t]
          /\ Return(t, "failed")
          /\ todo' = [todo EXCEPT ![t] = {}]
          /\ UNCHANGED binders
       \/ /\ ~stale[t] /\ todo[t] = {}
          /\ Goto(t, "clearHashes")
          /\ UNCHANGED <<binders, todo, reply>>
       \/ /\ ~stale[t]
          /\ \E b \in todo[t] :
                /\ binders' = [binders EXCEPT ![b] = "none"]
                /\ todo' = [todo EXCEPT ![t] = @ \ {b}]
          /\ UNCHANGED <<pc, reply>>
    /\ UNCHANGED <<typeCache, hashToType, typeToHash, salt, calls, registration,
                   stale, history>>

ClearHashes(t) ==
    /\ pc[t] = "clearHashes"
    /\ hashToType' = [s \in Stamps |-> None]
    /\ Goto(t, "clearTypes")
    /\ UNCHANGED <<typeCache, typeToHash, salt, binders, calls, reply, registration,
                   resetVars, history>>

ClearTypes(t) ==
    /\ pc[t] = "clearTypes"
    /\ typeToHash' = [ty \in Types |-> None]
    /\ Goto(t, "clearCache")
    /\ UNCHANGED <<typeCache, hashToType, salt, binders, calls, reply, registration,
                   resetVars, history>>

ClearCache(t) ==
    /\ pc[t] = "clearCache"
    /\ typeCache' = {}
    /\ IF typeCache # {} THEN Changed(t) ELSE UNCHANGED stale
    /\ Goto(t, "resetSalt")
    /\ UNCHANGED <<hashToType, typeToHash, salt, binders, calls, reply, registration,
                   todo, history>>

ResetSalt(t) ==
    /\ pc[t] = "resetSalt"
    /\ salt' = OriginalSalt
    /\ Return(t, "ok")
    /\ UNCHANGED <<typeCache, hashToType, typeToHash, binders, calls, registration,
                   resetVars, history>>

\* A call of the application.
Call(t) ==
    \/ Register(t) \/ SetTypeStampSaltValue(t) \/ GetTypeName(t)
    \/ Post(t) \/ Reset(t)

\* The next step of a call under way.
Step(t) ==
    \/ Find(t) \/ Insert(t) \/ EncryptStringToBase64(t) \/ HashToType(t)
    \/ TypeToHash(t) \/ FindBinder(t) \/ AddBinder(t)
    \/ DetectInstantiationType(t)
    \/ RemoveBinders(t) \/ ClearHashes(t) \/ ClearTypes(t) \/ ClearCache(t)
    \/ ResetSalt(t)

\* All calls have been made and have returned.
Finished ==
    /\ calls = MaxCalls
    /\ \A t \in Threads : pc[t] = "idle"
    /\ UNCHANGED vars

Next == (\E t \in Threads : Call(t) \/ Step(t)) \/ Finished

Spec == Init /\ [][Next]_vars

-----------------------------------------------------------------------------
(* Properties *)

\* A stamp that GetTypeName would hand out is one that GetDerivedType turns
\* back into the same type, through concurrent registrations of a type for
\* several bases and changes of the salt in between; Reset, which clears the
\* two dictionaries one after the other, and a registration that overlaps it
\* are excepted (DerivedTypeModelBinderCache.cs:54-59, 111-112).
StampsResolve ==
    ~mixed /\ In({"clearTypes"}) = {} =>
        \A ty \in Types :
            typeToHash[ty] # None => hashToType[typeToHash[ty]] = ty

\* A form posted to a base whose registration had returned true, from a page
\* rendered since the last Reset, is bound to the type the page was rendered
\* for, although the salt may have changed and the type may have been
\* registered for another base meanwhile (DerivedTypeModelBinder.cs:29-56).
\* Two Adds of ModelBinders.Binders that overlap are excepted, they may lose the
\* binder of any base, and so is a post that reads it while another is stored.
PostBinds ==
    \A t \in Threads :
        /\ ~mixed /\ ~torn /\ posted[t] # None /\ bindable[t] /\ pc[t] = "idle"
        => reply[t] = posted[t].type

\* Stamps bind: those in the dictionaries, and those already on a page.
StampsBind == StampsResolve /\ PostBinds

\* A derived type binder that the framework holds belongs to a base that is
\* in the cache: Reset will find and remove it, so the base can be registered
\* again (DerivedTypeModelBinderCache.cs:43, 62, 108-115).  Registrations that
\* overlap each other or a Reset are excepted, they may lose the entry.
BinderIsCached ==
    ~raced /\ ~mixed =>
        \A b \in Bases : binders[b] = "derived" => b \in typeCache
=============================================================================
