----------------------------- MODULE MCExchange -----------------------------
(***************************************************************************)
(* The values TLC exchanges: a few documented ones of every kind, numbers  *)
(* around the limits, values of other kinds, and objects with any of their *)
(* members missing.                                                        *)
(***************************************************************************)
EXTENDS Exchange, FiniteSetsExt, TLC

ArgumentValues ==
  [string    |-> { Str("x"), Str("y") },
   bool      |-> { Bool(TRUE), Bool(FALSE) },
   double    |-> { Float(h) : h \in {-1, 0, 1, 2, 3} },
   uint      |-> { Num(0), Num(UintLimit - 1) },
   AgePolicy |-> { Enumerator(e) : e \in Enums.AgePolicy },
   CloseType |-> { Enumerator(e) : e \in Enums.CloseType },
   ErrorType |-> { Enumerator(e) : e \in Enums.ErrorType },
   flatmap   |-> { Obj([k \in ks |-> Str("x")]) : ks \in SUBSET {"k"} }]

Strangers == { Null, Str("bogus"), Arr(<<>>) }
Bools     == { Bool(TRUE), Bool(FALSE) }
Texts     == { Str("x"), Str("1") }
Uints     == { Num(n) : n \in {-1, 0, 3, UintLimit - 1, UintLimit} } \union
             { Float(3), Float(6), Bool(TRUE) }
Beyond    == { Float(-3), Float(2 * UintLimit + 1) }
Doubles   == { Num(1), Num(11), Float(1), Float(3), Float(21) }
Items(x, y) == { Arr(<<>>), Arr(<<x>>), Arr(<<x, y>>), Arr(<<y, x, y>>) }
Voices    == Items(Str("x"), Str("y")) \union Items(Str("x"), Num(1)) \union
             { Obj([a |-> Str("x"), b |-> Str("y")]) }
TextsOf(enum) == { Str(p[1]) : p \in enum }

Members ==
  [bool |-> Bools, string |-> Texts, double |-> Doubles, uint |-> Uints,
   strings |-> Items(Str("x"), Str("y")) \union Items(Str("x"), Num(1)),
   voices |-> Voices, SpeechState |-> Uints,
   LifecycleState |-> { Str("active"), Str("paused") }]

\* Every choice of one element from each of the sets.
Combined(sets) ==
  FoldSet(LAMBDA f, some : { g @@ (f :> x) : g \in some, x \in sets[f] },
          { [f \in {} |-> Null] }, DOMAIN sets)

\* Every object with some of the members of a class, and with values that
\* are meant for them or are not.
Objects(class, some) ==
  UNION { { Obj(m) : m \in Combined([f \in fs |-> Members[class.reads[f]] \union some]) }
          : fs \in SUBSET DOMAIN class.reads }

\* What a provider may add to the documented members.
Styled == { Obj(v.members @@ [styles |-> Null]) : v \in Objects(ClosedCaptions, {}) }

Changes == Objects(StateChange, { Str("bogus") })

Sizes(class) == { Obj(m) : m \in UNION { Combined([f \in fs |-> { Num(0), Num(UintLimit - 1), Null }])
                                         : fs \in SUBSET DOMAIN class.reads } }

JsonValues ==
  [bool    |-> Bools \union Strangers,
   string  |-> Texts \union Strangers \union { Num(1) },
   uint    |-> Uints \union Beyond \union Strangers,
   strings |-> Members.strings \union Strangers,
   void    |-> { Null },
   DeviceClass    |-> TextsOf(DeviceClassEnum) \union Strangers,
   LifecycleState |-> TextsOf(LifecycleStateEnum) \union Strangers,
   history |-> Strangers \union { Arr(<<x>>) : x \in Changes } \union
               { Arr(<<x, y>>) : x \in Changes, y \in Changes },
   MemoryInfo |-> Sizes(MemoryInfo) \union Strangers,
   ClosedCaptionsSettings |->
     Objects(ClosedCaptions, { Null }) \union Styled \union Strangers] @@
  [c \in DOMAIN JsonData |-> Objects(JsonData[c], { Null }) \union Strangers]

\* TLC evaluates the two tables once, and what a CONSTANT stands for each time.
MCArguments == ArgumentValues
MCPayloads  == JsonValues
=============================================================================
