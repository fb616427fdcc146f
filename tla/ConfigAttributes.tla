-------------------------- MODULE ConfigAttributes --------------------------
(* The Config service of maki-bindings.cpp: ConfigItems and ConfigAttributes     *)
(* that scripts declare, look up, set and listen to, kept across restarts in the *)
(* preference store (wq_pref_load/save of SkinRuntimeBridge.cpp).                *)
EXTENDS ScriptDispatch

CONSTANTS Item, Name,
          Declared,     \* the <<item, name>> pairs the scripts declare
          Value,
          Default,      \* Declared -> Value: the default of the declaration
          Empty,        \* the value of an attribute nobody gave one
          MaxDepth      \* s_depth's bound, 32 in the code

Key == Item \X Name

(* Two items do not declare the same name: the second would get the first one's   *)
(* attribute, its default and its place in the store (README, "Hazards").         *)
ASSUME ConfigAssumption ==
    /\ Declared \subseteq Key
    /\ \A k, l \in Declared : k[2] = l[2] => k = l
    /\ Default \in [Declared -> Value]
    /\ Empty \notin Value
    /\ NoKey \notin Key
    /\ MaxDepth \in Nat \ {0}

VARIABLES scoped,       \* attrByScopedName: keys -> the attribute they resolve to
          byName,       \* attrByAnyName: names -> the attribute that came first
          value,        \* attrStore: attribute -> its value; an attribute is
                        \* identified by the key that minted it
          prefs,        \* the INI file: attribute's key -> value
          bound,        \* script -> the attribute its variable is assigned to
          heard,        \* script -> what it last read of that attribute
          missed        \* history: attributes set where the guard kept
                        \* onDataChanged from firing, or of which a round has
                        \* skipped entries, and not fired since

configVars == <<scoped, byName, value, prefs, bound, heard, missed>>

ProcessInit ==
    /\ scoped = <<>>
    /\ byName = <<>>
    /\ value = <<>>
    /\ bound = [s \in Script |-> NoKey]
    /\ heard = [s \in Script |-> Empty]
    /\ missed = {}

ConfigInit == ProcessInit /\ prefs = [k \in Key |-> Empty]

-----------------------------------------------------------------------------
(* getOrCreateAttr: by item and name, else by the bare name, else a new one.      *)
Resolve(k) ==
    IF k \in DOMAIN scoped THEN scoped[k]
    ELSE IF k[2] \in DOMAIN byName THEN byName[k[2]]
    ELSE k

(* Writes into a table, over what it has for the key or only if it has nothing.   *)
Put(f, k, v) == [x \in DOMAIN f \cup {k} |-> IF x = k THEN v ELSE f[x]]
PutIfNone(f, k, v) == IF k \in DOMAIN f THEN f ELSE Put(f, k, v)

Mint(k) ==
    /\ scoped' = Put(scoped, k, Resolve(k))
    /\ byName' = PutIfNone(byName, k[2], k)

(* The script assigns the attribute to its variable: the VM takes the variable    *)
(* from the attribute it was assigned to before.                                 *)
Assign(s, a, v) ==
    /\ bound' = [bound EXCEPT ![s] = a]
    /\ heard' = [heard EXCEPT ![s] = v]

(* Mutant: the declared default overrides the user's value.                       *)
InitialDefault(k) == Default[k]

(* What newAttribute gives the attribute: the user's value, else the default.     *)
Initial(k) == LET kept == prefs[Resolve(k)]
              IN IF kept = Empty THEN Default[k] ELSE kept

(* item.newAttribute(name, default).                                             *)
NewAttribute(s, k) ==
    /\ k \in Declared
    /\ Mint(k)
    /\ value' = Put(value, Resolve(k), Initial(k))
    /\ Assign(s, Resolve(k), Initial(k))
    /\ UNCHANGED <<dispatchVars, prefs, missed>>

(* item.getAttribute(name): through another item only once the name is declared,  *)
(* or the lookup would mint the attribute in that item's scope.                   *)
GetAttribute(s, k) ==
    /\ k \in Declared \/ k[2] \in DOMAIN byName
    /\ Mint(k)
    /\ value' = PutIfNone(value, Resolve(k), Empty)
    /\ Assign(s, Resolve(k), value'[Resolve(k)])
    /\ UNCHANGED <<dispatchVars, prefs, missed>>

-----------------------------------------------------------------------------
Depth == Cardinality({i \in DOMAIN frames : frames[i].event = "onDataChanged"})

Store(a, v) ==
    /\ value' = [value EXCEPT ![a] = v]
    /\ prefs' = [prefs EXCEPT ![a] = v]

(* Mutant: a handler that sets an attribute again is not told of it.              *)
FireOutermost(a) ==
    IF Depth = 0
    THEN /\ Room
         /\ Push(Walk("onDataChanged", a))
         /\ missed' = missed \ {a}
    ELSE UNCHANGED <<frames, missed>>

(* onDataChanged fires inside the setData that changes the value, however deep,    *)
(* until the guard.                                                              *)
FireDataChanged(a) ==
    IF Depth < MaxDepth
    THEN /\ Room
         /\ Push(Walk("onDataChanged", a))
         /\ missed' = missed \ {a}
    ELSE /\ missed' = missed \cup {a}
         /\ UNCHANGED frames

(* attribute.setData(v), by the handler of any script: a string is stored and     *)
(* saved; anything else only fires.                                              *)
SetData(a, v) ==
    /\ Running
    /\ a \in DOMAIN value
    /\ IF v \in Value THEN Store(a, v) ELSE UNCHANGED <<value, prefs>>
    /\ FireDataChanged(a)
    /\ UNCHANGED <<live, table, current, scoped, byName, bound, heard>>

(* The handler onDataChanged of s reads the value.                                *)
Hear(event, a, s) ==
    heard' = IF event = "onDataChanged" THEN [heard EXCEPT ![s] = value[a]]
             ELSE heard

-----------------------------------------------------------------------------
(* Properties.                                                                   *)

(* What a declaration of k reads, or would read if it were made now.              *)
Reads(k) ==
    LET a == Resolve(k)
        v == IF a \in DOMAIN value THEN value[a] ELSE Empty
    IN IF v # Empty THEN v ELSE Initial(k)

(* What the user set stays set: through restarts, declarations in any order,      *)
(* lookups and unloaded scripts, nothing but a setData on it changes what a       *)
(* setting reads ("so preference-gated skin behaviour survives restarts",         *)
(* maki-bindings.cpp:1562-1563).                                                 *)
SettingsKept ==
    [][\A k \in Declared :
          Reads(k)' # Reads(k) => \E v \in Value : SetData(Resolve(k), v)
      ]_<<dispatchVars, configVars>>

(* When the last handler has returned, what each listener last read is the value  *)
(* of its attribute, although handlers set the attribute again while others were  *)
(* still to hear of it and load and unload windows: unless the depth guard kept a *)
(* change from them, the table closed up under the round they wait for, or they   *)
(* looked it up before anybody gave it a value.                                   *)
ListenersAgree ==
    Resting =>
        \A s \in ToSet(table) :
            bound[s] = NoKey \/ bound[s] \in missed
            \/ heard[s] \in {Empty, value[bound[s]]}
=============================================================================
