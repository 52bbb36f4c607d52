---------------------------- MODULE IntakeSafety ----------------------------
(***************************************************************************)
(* Proofs about Intake: types, the back-off schedule, the connection mode, *)
(* the policy of a run and the IP filter, for any number of forms, faults  *)
(* and stops, any addresses, and any subset of the policy's keys in any    *)
(* order.                                                                  *)
(***************************************************************************)
EXTENDS Intake, FiniteSetTheorems, WellFoundedInduction, TLAPS

----------------------------------------------------------------------------
(* The schedule.  Induction over the natural numbers is used in the form   *)
(* "a set that holds 0 and with each number the next holds them all".      *)

\* A set of numbers that holds 0 and is closed under successor is all of Nat.
LEMMA SetInduction ==
    ASSUME NEW S, 0 \in S, \A n \in Nat : n \in S => n + 1 \in S
    PROVE  \A n \in Nat : n \in S
<1> SUFFICES ASSUME NEW z \in Nat, z \notin S PROVE FALSE
  OBVIOUS
<1> DEFINE T == Nat \ S
           R == OpToRel(<, Nat)
<1>1. T # {} /\ T \subseteq Nat
  OBVIOUS
<1>2. IsWellFoundedOn(R, Nat)
  BY NatLessThanWellFounded
<1>3. \A x, y \in Nat : x < y => <<x, y>> \in R
  BY DEF OpToRel
<1> HIDE DEF R
<1>4. PICK x \in T : \A y \in T : ~(<<y, x>> \in R)
  <2> HIDE DEF T
  <2> QED
    BY <1>1, <1>2, WFMin
<1>5. x \in Nat /\ x # 0 /\ x \notin S
  OBVIOUS
<1>6. x - 1 \in Nat /\ x - 1 < x
  BY <1>5
<1>7. x - 1 \in S
  <2>1. CASE x - 1 \in T
    BY <2>1, <1>3, <1>4, <1>5, <1>6
  <2> QED
    BY <2>1, <1>6
<1>8. (x - 1) + 1 \in S
  BY <1>6, <1>7
<1> QED
  BY <1>5, <1>8

\* The recursive definition defines what it says.
LEMMA DoubledDef ==
    Doubled = [n \in Nat |-> IF n = 0 THEN BaseBackoff ELSE 2 * Doubled[n - 1]]
<1> DEFINE Up(g, n) ==
             /\ g \in [0 .. n -> Nat] /\ g[0] = BaseBackoff
             /\ \A i \in 1 .. n : g[i] = 2 * g[i - 1]
           S == {n \in Nat : \E g : Up(g, n)}
<1>1. \A n \in Nat : n \in S
  <2>1. 0 \in S
    <3>1. Up([i \in 0 .. 0 |-> BaseBackoff], 0)
      BY BackoffAssumption
    <3> QED
      BY <3>1
  <2>2. ASSUME NEW n \in Nat, n \in S PROVE n + 1 \in S
    <3>1. PICK g : Up(g, n)
      BY <2>2
    <3> DEFINE h == [i \in 0 .. n + 1 |-> IF i = n + 1 THEN 2 * g[n] ELSE g[i]]
    <3>2. Up(h, n + 1)
      <4>1. h \in [0 .. n + 1 -> Nat] /\ h[0] = BaseBackoff
        BY <3>1
      <4>2. \A i \in 1 .. n + 1 : h[i] = 2 * h[i - 1]
        BY <3>1
      <4> QED
        BY <4>1, <4>2
    <3> HIDE DEF Up, h
    <3>3. n + 1 \in Nat /\ \E k : Up(k, n + 1)
      BY <3>2
    <3> QED
      BY <3>3
  <2> HIDE DEF S
  <2> QED
    BY <2>1, <2>2, SetInduction
<1>2. \A m, n \in Nat : \A g, h : m <= n /\ Up(g, m) /\ Up(h, n) => g[m] = h[m]
  <2> SUFFICES ASSUME NEW g, NEW h, NEW top \in Nat, NEW low \in Nat, low <= top,
                      Up(g, low), Up(h, top)
               PROVE  g[low] = h[low]
    OBVIOUS
  <2> DEFINE A == {i \in Nat : i <= low => g[i] = h[i]}
  <2>1. 0 \in A
    OBVIOUS
  <2>2. ASSUME NEW i \in Nat, i \in A PROVE i + 1 \in A
    BY <2>2
  <2> HIDE DEF A
  <2>3. low \in A
    BY <2>1, <2>2, SetInduction
  <2> QED
    BY <2>3 DEF A
<1> DEFINE F(n) == CHOOSE g : Up(g, n)
           f == [n \in Nat |-> F(n)[n]]
<1>3. \A n \in Nat : Up(F(n), n)
  BY <1>1
<1> HIDE DEF F
<1>4. f = [n \in Nat |-> IF n = 0 THEN BaseBackoff ELSE 2 * f[n - 1]]
  <2>1. ASSUME NEW n \in Nat
        PROVE  f[n] = IF n = 0 THEN BaseBackoff ELSE 2 * f[n - 1]
    <3>1. CASE n = 0
      BY <1>3, <3>1
    <3>2. CASE n # 0
      <4>1. n - 1 \in Nat /\ n - 1 <= n /\ n \in 1 .. n
        BY <3>2
      <4>2. Up(F(n), n) /\ Up(F(n - 1), n - 1)
        BY <4>1, <1>3
      <4>3. F(n)[n] = 2 * F(n)[n - 1]
        BY <4>1, <4>2
      <4> HIDE DEF Up
      <4>4. F(n - 1)[n - 1] = F(n)[n - 1]
        BY <4>1, <4>2, <1>2
      <4> QED
        BY <3>2, <4>1, <4>3, <4>4
    <3> QED
      BY <3>1, <3>2
  <2> QED
    BY <2>1
<1> HIDE DEF f
<1>5. \E g : g = [n \in Nat |-> IF n = 0 THEN BaseBackoff ELSE 2 * g[n - 1]]
  BY <1>4
<1> QED
  BY <1>5 DEF Doubled

\* The schedule begins with the base, doubles, and outgrows any number.
LEMMA Schedule ==
    /\ Doubled[0] = BaseBackoff
    /\ \A n \in Nat : /\ Doubled[n] \in Nat /\ Doubled[n] > n
                      /\ Doubled[n + 1] = 2 * Doubled[n]
<1>1. Doubled[0] = BaseBackoff
  BY DoubledDef
<1>2. \A n \in Nat : Doubled[n + 1] = 2 * Doubled[n]
  <2> TAKE n \in Nat
  <2>1. n + 1 \in Nat /\ n + 1 # 0 /\ (n + 1) - 1 = n
    OBVIOUS
  <2> QED
    BY <2>1, DoubledDef
<1> DEFINE S == {n \in Nat : Doubled[n] \in Nat /\ Doubled[n] > n}
<1>3. 0 \in S
  BY <1>1, BackoffAssumption
<1>4. ASSUME NEW n \in Nat, n \in S PROVE n + 1 \in S
  BY <1>2, <1>4
<1>5. \A n \in Nat : n \in S
  <2> HIDE DEF S
  <2> QED
    BY <1>3, <1>4, SetInduction
<1> QED
  BY <1>1, <1>2, <1>5

----------------------------------------------------------------------------
(* The writes of a form.                                                   *)

KeyCount == Len(PolicyKeys)

\* The keys of the policy: there are some, each once, none of another form.
LEMMA PolicyKeysFacts ==
    /\ KeyCount \in Nat /\ KeyCount >= 1 /\ DOMAIN PolicyKeys = 1 .. KeyCount
    /\ ToSet(PolicyKeys) = {PolicyKeys[i] : i \in 1 .. KeyCount}
    /\ \A i \in 1 .. KeyCount :
          PolicyKeys[i] \in ChoiceKeys \cup LimitKeys \cup {"require_token", "tokens"}
    /\ \A i, j \in 1 .. KeyCount : PolicyKeys[i] = PolicyKeys[j] => i = j
    /\ Last(PolicyKeys) = PolicyKeys[KeyCount]
    /\ ToSet(PolicyKeys) \cap (FilterKeys \cup ToSet(MailboxKeys)) = {}
    /\ ToSet(MailboxKeys) = {"host", "user", "tls", "starttls"}
<1>1. PolicyKeys \in Seq(ChoiceKeys \cup LimitKeys \cup {"require_token", "tokens"})
      /\ PolicyKeys # << >>
  BY PolicyKeysAssumption
<1>2. KeyCount \in Nat /\ KeyCount >= 1 /\ DOMAIN PolicyKeys = 1 .. KeyCount
  BY <1>1 DEF KeyCount
<1>3. \A i \in 1 .. KeyCount :
          PolicyKeys[i] \in ChoiceKeys \cup LimitKeys \cup {"require_token", "tokens"}
  BY <1>1, <1>2 DEF KeyCount
<1>4. \A i, j \in 1 .. KeyCount : PolicyKeys[i] = PolicyKeys[j] => i = j
  BY <1>2, PolicyKeysAssumption DEF IsInjective
<1>5. ToSet(PolicyKeys) = {PolicyKeys[i] : i \in 1 .. KeyCount}
  BY <1>2 DEF ToSet
<1>6. ToSet(MailboxKeys) = {"host", "user", "tls", "starttls"}
  BY DEF ToSet, MailboxKeys
<1>7. ToSet(PolicyKeys) \cap (FilterKeys \cup ToSet(MailboxKeys)) = {}
  BY <1>3, <1>5, <1>6 DEF FilterKeys, ChoiceKeys, LimitKeys
<1>8. Last(PolicyKeys) = PolicyKeys[KeyCount]
  BY DEF Last, KeyCount
<1> QED
  BY <1>2, <1>3, <1>4, <1>5, <1>6, <1>7, <1>8

\* The policy form writes the keys of the policy in order, then the filter's.
LEMMA PolicyFormWrites ==
    ASSUME NEW f \in PolicyForms
    PROVE  /\ Len(FormWrites(f)) = KeyCount \/ Len(FormWrites(f)) = KeyCount + 2
           /\ \A i \in 1 .. KeyCount :
                 FormWrites(f)[i] = Write(PolicyKeys[i], PolicyValue(f, PolicyKeys[i]))
           /\ Len(FormWrites(f)) > KeyCount =>
                 /\ FormWrites(f)[KeyCount + 1].key = "allowed_subnets"
                 /\ FormWrites(f)[KeyCount + 2].key = "disable_ipv6"
<1> DEFINE P == PolicyWrites(f)
           F == FilterWrites(f)
           V == {P[i] : i \in DOMAIN P} \cup {F[i] : i \in DOMAIN F}
<1>1. KeyCount \in Nat /\ DOMAIN PolicyKeys = 1 .. KeyCount
  BY PolicyKeysFacts
<1>2. P \in Seq(V) /\ Len(P) = KeyCount
      /\ \A i \in 1 .. KeyCount : P[i] = Write(PolicyKeys[i], PolicyValue(f, PolicyKeys[i]))
  <2>1. P = [i \in 1 .. KeyCount |-> Write(PolicyKeys[i], PolicyValue(f, PolicyKeys[i]))]
    BY <1>1 DEF PolicyWrites
  <2> HIDE DEF P
  <2>2. DOMAIN P = 1 .. KeyCount /\ P \in [1 .. KeyCount -> V]
    BY <2>1
  <2> HIDE DEF V
  <2>3. P \in Seq(V) /\ Len(P) = KeyCount
    BY <1>1, <2>2
  <2> QED
    BY <2>1, <2>3
<1>3. F \in Seq(V)
      /\ \/ Len(F) = 0
         \/ Len(F) = 2 /\ F[1].key = "allowed_subnets" /\ F[2].key = "disable_ipv6"
  <2>1. CASE f.subnets = Invalid
    BY <2>1 DEF FilterWrites
  <2>2. CASE f.subnets # Invalid
    <3> DEFINE a == Write("allowed_subnets", f.subnets)
               b == Write("disable_ipv6", f.disableIPv6)
    <3>1. F = <<a, b>>
      BY <2>2 DEF FilterWrites
    <3>2. a \in V /\ b \in V /\ a.key = "allowed_subnets" /\ b.key = "disable_ipv6"
      <4> HIDE DEF P, F, a, b
      <4>1. DOMAIN F = 1 .. 2 /\ F[1] = a /\ F[2] = b
        BY <3>1
      <4>2. a \in V /\ b \in V
        BY <4>1
      <4> QED
        BY <4>2 DEF a, b, Write
    <3> HIDE DEF P, F, V, a, b
    <3> QED
      BY <3>1, <3>2
  <2> QED
    BY <2>1, <2>2
<1>4. FormWrites(f) = P \o F
  BY DEF FormWrites
<1> HIDE DEF P, F, V
<1> QED
  BY <1>1, <1>2, <1>3, <1>4

\* The mailbox form writes host, user and the two flags of the mode.
LEMMA MailboxFormWrites ==
    ASSUME NEW f \in MailboxForms
    PROVE  /\ Len(FormWrites(f)) = 4
           /\ FormWrites(f)[1].key = "host" /\ FormWrites(f)[2].key = "user"
           /\ FormWrites(f)[3].key = "tls" /\ FormWrites(f)[4].key = "starttls"
           /\ FormWrites(f)[3].value = (ModeOf(f) = "tls")
           /\ FormWrites(f)[4].value = (ModeOf(f) = "starttls")
<1>1. FormWrites(f) = MailboxWrites(f)
  BY IntakeAssumption DEF FormWrites
<1> QED
  BY <1>1 DEF MailboxWrites, Write

\* What the form stores is what LoadPolicy expects.
LEMMA PolicyValueTyped ==
    ASSUME NEW f \in PolicyForms, NEW key \in ToSet(PolicyKeys)
    PROVE  TypedValue(key, PolicyValue(f, key))
<1>1. key \in ChoiceKeys \cup LimitKeys \cup {"require_token", "tokens"}
  BY PolicyKeysFacts
<1>2. /\ f.require \in BOOLEAN /\ f.tokens \in TokenLists
      /\ f.maxEmail \in Numbers /\ f.maxAttachments \in Numbers
      /\ f.maxAttach \in Numbers
  BY FormsAssumption
<1>3. \A n \in Numbers, d \in Nat :
         PositiveOr(d, n) \in Numbers /\ NaturalOr(d, n) \in Numbers
  BY DEF PositiveOr, NaturalOr, Numbers
<1> QED
  BY <1>1, <1>2, <1>3 DEF TypedValue, PolicyValue, LimitKeys, ChoiceKeys

\* Every form has a write, and every write is of a key of its own half or of
\* the filter, with a value of its type.
LEMMA FormWritesFacts ==
    ASSUME NEW f \in Forms
    PROVE  /\ Len(FormWrites(f)) \in Nat \ {0}
           /\ \A i \in 1 .. Len(FormWrites(f)) :
                 LET w == FormWrites(f)[i]
                 IN  /\ w.key \in Keys
                     /\ w.key \in ToSet(PolicyKeys) <=> f \in PolicyForms /\ i <= KeyCount
                     /\ w.key \in ToSet(MailboxKeys) <=> f \in MailboxForms
                     /\ w.key \in ToSet(PolicyKeys) => TypedValue(w.key, w.value)
<1>1. CASE f \in PolicyForms
  <2>1. f \notin MailboxForms
    BY <1>1, IntakeAssumption
  <2>2. /\ KeyCount \in Nat /\ KeyCount >= 1
        /\ ToSet(PolicyKeys) = {PolicyKeys[i] : i \in 1 .. KeyCount}
        /\ ToSet(PolicyKeys) \cap (FilterKeys \cup ToSet(MailboxKeys)) = {}
    BY PolicyKeysFacts
  <2>3. Len(FormWrites(f)) \in Nat \ {0}
    BY <1>1, <2>2, PolicyFormWrites
  <2>4. ASSUME NEW i \in 1 .. Len(FormWrites(f)), i <= KeyCount
        PROVE  /\ FormWrites(f)[i].key \in ToSet(PolicyKeys)
               /\ TypedValue(FormWrites(f)[i].key, FormWrites(f)[i].value)
    <3>1. FormWrites(f)[i] = Write(PolicyKeys[i], PolicyValue(f, PolicyKeys[i]))
      BY <1>1, <2>2, <2>3, <2>4, PolicyFormWrites
    <3>2. PolicyKeys[i] \in ToSet(PolicyKeys)
      BY <2>2, <2>3, <2>4
    <3> QED
      BY <1>1, <3>1, <3>2, PolicyValueTyped DEF Write
  <2>5. ASSUME NEW i \in 1 .. Len(FormWrites(f)), i > KeyCount
        PROVE  FormWrites(f)[i].key \in FilterKeys
    <3>1. i = KeyCount + 1 \/ i = KeyCount + 2
      BY <1>1, <2>2, <2>3, <2>5, PolicyFormWrites
    <3> QED
      BY <1>1, <2>2, <2>3, <2>5, <3>1, PolicyFormWrites DEF FilterKeys
  <2>6. ToSet(MailboxKeys) \cap FilterKeys = {}
    BY PolicyKeysFacts DEF FilterKeys
  <2> QED
    BY <1>1, <2>1, <2>2, <2>3, <2>4, <2>5, <2>6 DEF Keys
<1>2. CASE f \in MailboxForms
  <2>1. f \notin PolicyForms
    BY <1>2, IntakeAssumption
  <2>2. Len(FormWrites(f)) = 4
        /\ \A i \in 1 .. 4 : FormWrites(f)[i].key \in ToSet(MailboxKeys)
    <3>1. /\ FormWrites(f)[1].key = "host" /\ FormWrites(f)[2].key = "user"
          /\ FormWrites(f)[3].key = "tls" /\ FormWrites(f)[4].key = "starttls"
      BY <1>2, MailboxFormWrites
    <3>2. \A i \in 1 .. 4 : i = 1 \/ i = 2 \/ i = 3 \/ i = 4
      OBVIOUS
    <3>3. ToSet(MailboxKeys) = {"host", "user", "tls", "starttls"}
      BY PolicyKeysFacts
    <3>4. Len(FormWrites(f)) = 4
      BY <1>2, MailboxFormWrites
    <3> QED
      BY <3>1, <3>2, <3>3, <3>4
  <2>3. \A k \in ToSet(MailboxKeys) : k \in Keys /\ k \notin ToSet(PolicyKeys)
    BY PolicyKeysFacts DEF Keys
  <2> QED
    BY <1>2, <2>1, <2>2, <2>3
<1> QED
  BY <1>1, <1>2 DEF Forms

----------------------------------------------------------------------------
(* Types.                                                                  *)

\* Where the loop stands in the policy, and what it holds when it does not read.
LoopOK ==
    /\ loop.pc = "policy" => loop.next <= KeyCount
    /\ loop.pc \notin {"policy", "run"} => loop.next = 1 /\ loop.policy = DefaultPolicy

TypeInv == TypeOK /\ LoopOK

LEMMA DefaultPolicyTyped == DefaultPolicy \in Policies
BY DEF DefaultPolicy, Policies, Modes, TokenLocations

\* What LoadPolicy makes of a typed value is a policy again.
LEMMA TakeTyped ==
    ASSUME NEW policy \in Policies, NEW key \in ToSet(PolicyKeys), NEW value,
           TypedValue(key, value)
    PROVE  Take(policy, key, value) \in Policies
<1>1. key \in ChoiceKeys \cup LimitKeys \cup {"require_token", "tokens"}
  BY PolicyKeysFacts
<1>2. \A n \in Numbers, d \in Nat \ {0} : PositiveOr(d, n) \in Nat \ {0}
  BY DEF PositiveOr, Unusable, Numbers
<1>3. CASE value = Blank
  BY <1>3 DEF Take
<1>4. CASE value # Blank /\ key \in ChoiceKeys
  BY <1>4 DEF Take, OneOf, ChoiceKeys, Policies
<1>5. CASE value # Blank /\ key \in {"require_token", "tokens"}
  BY <1>5 DEF Take, TypedValue, TokenLists, Policies
<1>6. CASE value # Blank /\ key \in LimitKeys
  BY <1>2, <1>6 DEF Take, TypedValue, LimitKeys, Policies
<1> QED
  BY <1>1, <1>3, <1>4, <1>5, <1>6

LoopTyped == loop \in LoopStates /\ LoopOK

LEMMA BackoffTyped ==
    ASSUME LoopTyped, Backoff PROVE LoopTyped'
<1> DEFINE n == IF loop.failures < MaxBackoff THEN loop.failures + 1 ELSE loop.failures
<1>1. n \in 0 .. MaxBackoff
  BY BackoffAssumption DEF LoopTyped, LoopStates
<1>2. loop' = [loop EXCEPT !.pc = "backoff", !.next = 1, !.policy = DefaultPolicy,
                           !.failures = n]
  BY DEF Backoff
<1> HIDE DEF n
<1>3. loop' = [pc |-> "backoff", next |-> 1, policy |-> DefaultPolicy,
               backoff |-> loop.backoff, failures |-> n]
  BY <1>2 DEF LoopTyped, LoopStates
<1>4. loop.backoff \in BaseBackoff .. MaxBackoff
  BY DEF LoopTyped, LoopStates
<1>5. loop' \in LoopStates
  BY <1>1, <1>3, <1>4, DefaultPolicyTyped, BackoffAssumption DEF LoopStates
<1> QED
  BY <1>3, <1>5 DEF LoopTyped, LoopOK

LEMMA LoadedTyped ==
    ASSUME LoopTyped, LoopAt("policy"), NEW policy \in Policies, Loaded(policy)
    PROVE  LoopTyped'
<1>1. KeyCount \in Nat /\ KeyCount >= 1
  BY PolicyKeysFacts
<1>2. loop.next \in Nat /\ 1 <= loop.next /\ loop.next <= KeyCount
  BY DEF LoopTyped, LoopStates, LoopOK, LoopAt
<1> DEFINE pc == IF loop.next = KeyCount THEN "run" ELSE "policy"
<1>3. loop' = [pc |-> pc, next |-> loop.next + 1, policy |-> policy,
               backoff |-> loop.backoff, failures |-> loop.failures]
  BY DEF Loaded, KeyCount, LoopTyped, LoopStates
<1>4. loop.backoff \in BaseBackoff .. MaxBackoff /\ loop.failures \in 0 .. MaxBackoff
  BY DEF LoopTyped, LoopStates
<1>5. loop' \in LoopStates
  BY <1>2, <1>3, <1>4, BackoffAssumption DEF LoopStates
<1> QED
  BY <1>1, <1>2, <1>3, <1>5 DEF LoopTyped, LoopOK

LEMMA StartLoopTyped ==
    ASSUME NEW pc \in {"config", "sleep", "dead"}
    PROVE  loop' = [StartLoop EXCEPT !.pc = pc] => LoopTyped'
<1> SUFFICES ASSUME loop' = [StartLoop EXCEPT !.pc = pc] PROVE LoopTyped'
  OBVIOUS
<1>1. KeyCount \in Nat /\ KeyCount >= 1
  BY PolicyKeysFacts
<1>2. BaseBackoff \in BaseBackoff .. MaxBackoff /\ 0 \in 0 .. MaxBackoff
  BY BackoffAssumption
<1> DEFINE l == [pc |-> pc, next |-> 1, policy |-> DefaultPolicy,
                 backoff |-> BaseBackoff, failures |-> 0]
<1>3. loop' = l
  BY DEF StartLoop
<1>4. l \in LoopStates
  BY <1>2, DefaultPolicyTyped, BackoffAssumption DEF LoopStates
<1>5. l.pc = pc /\ l.next = 1 /\ l.policy = DefaultPolicy
  OBVIOUS
<1> HIDE DEF l
<1> QED
  BY <1>1, <1>3, <1>4, <1>5 DEF LoopTyped, LoopOK

\* A step of the loop, whatever happens to the rest, keeps the loop's type.
LEMMA LoopStepTyped ==
    ASSUME LoopTyped, Typed(settings),
           LoopStep \/ ReadPolicyKeyFails \/ RunPanics \/ loop' = StartLoop
    PROVE  LoopTyped'
<1>1. CASE LoadConfig
  <2>1. CASE Configured
    <3>1. KeyCount \in Nat /\ KeyCount >= 1
      BY PolicyKeysFacts
    <3> QED
      BY <1>1, <2>1, <3>1 DEF LoadConfig, LoopTyped, LoopStates, LoopOK, LoopAt, KeyCount
  <2>2. CASE ~Configured
    BY <1>1, <2>2, BackoffTyped DEF LoadConfig
  <2> QED
    BY <2>1, <2>2
<1>2. CASE ReadPolicyKey
  <2>1. LoopAt("policy") /\ loop.policy \in Policies
    BY <1>2 DEF ReadPolicyKey, LoopTyped, LoopStates
  <2>2. PolicyKeys[loop.next] \in ToSet(PolicyKeys)
    BY <2>1, PolicyKeysFacts DEF LoopTyped, LoopStates, LoopOK, LoopAt
  <2> QED
    BY <1>2, <2>1, <2>2, TakeTyped, LoadedTyped DEF ReadPolicyKey, Typed
<1>3. CASE ReadPolicyKeyFails
  BY <1>3, LoadedTyped DEF ReadPolicyKeyFails, LoopTyped, LoopStates
<1>4. CASE RunSucceeds
  BY <1>4, StartLoopTyped DEF RunSucceeds
<1>5. CASE RunFails
  BY <1>5, BackoffTyped DEF RunFails
<1>6. CASE RunPanics
  BY <1>6, StartLoopTyped DEF RunPanics
<1>7. CASE Wake
  <2>1. loop.next = 1 /\ loop.policy = DefaultPolicy
    BY <1>7 DEF Wake, LoopTyped, LoopOK, LoopAt
  <2>2. CASE LoopAt("sleep") /\ loop' = [loop EXCEPT !.pc = "config"]
    BY <2>1, <2>2 DEF LoopTyped, LoopStates, LoopOK
  <2>3. CASE LoopAt("backoff")
             /\ loop' = [loop EXCEPT
                           !.pc = "config",
                           !.backoff = IF 2 * @ > MaxBackoff THEN MaxBackoff ELSE 2 * @]
    <3> DEFINE b == IF 2 * loop.backoff > MaxBackoff THEN MaxBackoff ELSE 2 * loop.backoff
    <3>1. b \in BaseBackoff .. MaxBackoff
      BY BackoffAssumption DEF LoopTyped, LoopStates
    <3>2. loop' = [loop EXCEPT !.pc = "config", !.backoff = b]
      BY <2>3
    <3> HIDE DEF b
    <3> QED
      BY <2>1, <3>1, <3>2 DEF LoopTyped, LoopStates, LoopOK
  <2> QED
    BY <1>7, <2>2, <2>3 DEF Wake
<1>8. CASE loop' = StartLoop
  BY <1>8, StartLoopTyped DEF StartLoop
<1> QED
  BY <1>1, <1>2, <1>3, <1>4, <1>5, <1>6, <1>7, <1>8 DEF LoopStep

SaversTyped == saver \in [Savers -> SaverStates] /\ \A s \in Savers : FormOK(saver[s])

LEMMA IdleSaverTyped == IdleSaver \in SaverStates /\ FormOK(IdleSaver)
BY DEF IdleSaver, SaverStates, FormOK

\* One write: the table and the savers keep their types, and a policy form that
\* ends is a policy form.
LEMMA SavedTyped ==
    ASSUME SaversTyped, NEW s \in Savers, At(s, "save"), NEW table, NEW good \in BOOLEAN,
           Saved(s, table, good),
           settled \in PolicyForms \cup {NoForm},
           chosen \in {"unset", "tls", "starttls", "plain", NoMode}, torn \in BOOLEAN
    PROVE  /\ SaversTyped'
           /\ settled' \in PolicyForms \cup {NoForm}
           /\ chosen' \in {"unset", "tls", "starttls", "plain", NoMode} /\ torn' \in BOOLEAN
<1> DEFINE f == saver[s].form
<1>1. f \in Forms /\ saver[s].next \in 1 .. Len(FormWrites(f))
  BY DEF SaversTyped, SaverStates, FormOK, At
<1>2. SaversTyped'
  <2>1. ASSUME NEW q \in Savers
        PROVE  saver'[q] \in SaverStates /\ FormOK(saver'[q])
    <3>1. saver[q] \in SaverStates /\ FormOK(saver[q])
      BY DEF SaversTyped
    <3>2. CASE q = s
      <4>1. \/ saver'[q] = IdleSaver
            \/ /\ saver[s].next # Len(FormWrites(f))
               /\ \E c \in BOOLEAN :
                     saver'[q] = [saver[s] EXCEPT !.next = @ + 1, !.clean = c]
        <5> DEFINE c == saver[s].clean /\ (NextWrite(s).key \in FilterKeys
                                            \/ (good /\ Rivals(s) = {}))
        <5>1. saver'[q] = IF saver[s].next = Len(FormWrites(f)) THEN IdleSaver
                          ELSE [saver[s] EXCEPT !.next = @ + 1, !.clean = c]
          BY <3>2 DEF Saved
        <5>2. c \in BOOLEAN
          OBVIOUS
        <5> HIDE DEF c
        <5> QED
          BY <5>1, <5>2
      <4>2. CASE saver'[q] = IdleSaver
        BY <4>2, IdleSaverTyped
      <4>3. ASSUME NEW c \in BOOLEAN, saver[s].next # Len(FormWrites(f)),
                   saver'[q] = [saver[s] EXCEPT !.next = @ + 1, !.clean = c]
            PROVE  saver'[q] \in SaverStates /\ FormOK(saver'[q])
        <5>1. saver[s].next + 1 \in Nat \ {0}
              /\ saver[s].next + 1 <= Len(FormWrites(saver[s].form))
          BY <1>1, <4>3, FormWritesFacts
        <5>2. saver[s] \in SaverStates
          BY DEF SaversTyped
        <5>3. saver'[q] \in SaverStates
          BY <4>3, <5>1, <5>2 DEF SaverStates
        <5>4. saver'[q].pc = "save" /\ saver'[q].form = saver[s].form
              /\ saver'[q].next = saver[s].next + 1
          BY <4>3, <5>2 DEF SaverStates, At
        <5> QED
          BY <1>1, <5>1, <5>3, <5>4 DEF FormOK
      <4> QED
        BY <4>1, <4>2, <4>3
    <3>3. CASE q # s
      <4>1. \/ saver'[q] = saver[q]
            \/ saver'[q] = [saver[q] EXCEPT !.clean = FALSE]
            \/ \E c \in BOOLEAN :
                  saver'[q] = [saver[q] EXCEPT !.admitted = c, !.changes = @ \cup {s}]
        <5> DEFINE c == saver[q].admitted \/ Admits(table, saver[q].ip)
        <5>1. \/ saver'[q] = saver[q]
              \/ saver'[q] = [saver[q] EXCEPT !.clean = FALSE]
              \/ saver'[q] = [saver[q] EXCEPT !.admitted = c, !.changes = @ \cup {s}]
          BY <3>3 DEF Saved
        <5>2. c \in BOOLEAN
          OBVIOUS
        <5> HIDE DEF c
        <5> QED
          BY <5>1, <5>2
      <4>2. saver[q].changes \cup {s} \in SUBSET Savers
        BY <3>1 DEF SaverStates
      <4> QED
        BY <3>1, <4>1, <4>2 DEF SaverStates, FormOK
    <3> QED
      BY <3>2, <3>3
  <2>2. DOMAIN saver' = Savers /\ saver' = [q \in Savers |-> saver'[q]]
    BY DEF Saved
  <2> QED
    BY <2>1, <2>2 DEF SaversTyped
<1>3. settled' \in PolicyForms \cup {NoForm}
  <2>1. NextWrite(s).key \in ToSet(PolicyKeys) => f \in PolicyForms
    BY <1>1, FormWritesFacts DEF NextWrite
  <2> QED
    BY <2>1 DEF Saved
<1>4. chosen' \in {"unset", "tls", "starttls", "plain", NoMode}
  BY DEF Saved, ModeOf
<1>5. torn' \in BOOLEAN
  BY DEF Saved
<1> QED
  BY <1>2, <1>3, <1>4, <1>5

LEMMA EnterTyped ==
    ASSUME SaversTyped, NEW s \in Savers, At(s, "subnets"), Enter(s)
    PROVE  SaversTyped'
<1>1. saver[s] \in SaverStates /\ FormOK(saver[s])
  BY DEF SaversTyped
<1> DEFINE r == [saver[s] EXCEPT !.pc = "save", !.ip = NoAddress, !.admitted = FALSE,
                                 !.changes = {}]
<1>2. r \in SaverStates /\ r.pc = "save" /\ r.form = saver[s].form /\ r.next = saver[s].next
  BY <1>1 DEF SaverStates
<1>3. saver[s].form \in Forms /\ saver[s].next = 1
  BY <1>1 DEF FormOK, At
<1>4. FormOK(r)
  BY <1>2, <1>3, FormWritesFacts DEF FormOK
<1>5. saver' = [saver EXCEPT ![s] = r]
  BY DEF Enter
<1> HIDE DEF r
<1> QED
  BY <1>2, <1>4, <1>5 DEF SaversTyped

LEMMA ArriveTyped ==
    ASSUME TypeInv, NEW s \in Savers, NEW ip \in Addresses, NEW form \in Forms,
           NEW admitted \in BOOLEAN, Arrive(s, ip, form, admitted),
           faults' \in 0 .. MaxFaults
    PROVE  TypeInv'
<1> DEFINE r == [IdleSaver EXCEPT !.pc = "subnets", !.ip = ip, !.form = form,
                                  !.admitted = admitted]
<1>1. r \in SaverStates /\ FormOK(r)
  <2>1. r \in SaverStates /\ r.pc = "subnets" /\ r.form = form /\ r.next = IdleSaver.next
    BY IdleSaverTyped DEF SaverStates
  <2> QED
    BY <2>1 DEF IdleSaver, FormOK
<1>2. saver' = [saver EXCEPT ![s] = r]
  BY DEF Arrive
<1> HIDE DEF r
<1>3. saver' \in [Savers -> SaverStates] /\ \A q \in Savers : FormOK(saver'[q])
  BY <1>1, <1>2 DEF TypeInv, TypeOK
<1>4. submits' \in 0 .. MaxSaves
  BY IntakeAssumption DEF Arrive, Savers
<1>5. UNCHANGED <<settings, loop, stops, settled, chosen, torn>>
  BY DEF Arrive, historyVars
<1> QED
  BY <1>3, <1>4, <1>5 DEF TypeInv, TypeOK, LoopOK

LEMMA FaultTyped ==
    ASSUME faults \in 0 .. MaxFaults, Fault PROVE faults' \in 0 .. MaxFaults
BY IntakeAssumption DEF Fault

\* One write of a form, whatever becomes of it, in a table that stays typed.
LEMMA WriteTyped ==
    ASSUME TypeInv, NEW s \in Savers, At(s, "save"), NEW table, NEW good \in BOOLEAN,
           Saved(s, table, good), DOMAIN table = Keys, Typed(table),
           UNCHANGED <<loop, submits, stops>>, faults' \in 0 .. MaxFaults
    PROVE  TypeInv'
<1>1. SaversTyped /\ settled \in PolicyForms \cup {NoForm}
      /\ chosen \in {"unset", "tls", "starttls", "plain", NoMode} /\ torn \in BOOLEAN
  BY DEF TypeInv, TypeOK, SaversTyped
<1>2. /\ SaversTyped'
      /\ settled' \in PolicyForms \cup {NoForm}
      /\ chosen' \in {"unset", "tls", "starttls", "plain", NoMode} /\ torn' \in BOOLEAN
  BY <1>1, SavedTyped
<1>3. DOMAIN settings' = Keys /\ Typed(settings')
  BY DEF Saved
<1> QED
  BY <1>2, <1>3 DEF TypeInv, TypeOK, LoopOK, SaversTyped, LoopStates

\* A write leaves a typed table.
LEMMA TableTyped ==
    ASSUME TypeInv, NEW s \in Savers, At(s, "save")
    PROVE  LET table == [settings EXCEPT ![NextWrite(s).key] = NextWrite(s).value]
           IN  DOMAIN table = Keys /\ Typed(table)
<1>1. saver[s].form \in Forms
      /\ saver[s].next \in 1 .. Len(FormWrites(saver[s].form))
  BY DEF TypeInv, TypeOK, SaverStates, FormOK, At
<1>2. NextWrite(s).key \in ToSet(PolicyKeys) => TypedValue(NextWrite(s).key, NextWrite(s).value)
  BY <1>1, FormWritesFacts DEF NextWrite
<1>3. DOMAIN settings = Keys /\ \A k \in ToSet(PolicyKeys) : TypedValue(k, settings[k])
  BY DEF TypeInv, TypeOK, Typed
<1>4. ToSet(PolicyKeys) \subseteq Keys
  BY DEF Keys
<1> QED
  BY <1>2, <1>3, <1>4 DEF Typed

LEMMA TypeInvInit == Init => TypeInv
<1> SUFFICES ASSUME Init PROVE TypeInv
  OBVIOUS
<1>1. DOMAIN settings = Keys /\ Typed(settings)
  BY StoredAssumption DEF Init, SettingsInit
<1>2. saver \in [Savers -> SaverStates] /\ \A s \in Savers : FormOK(saver[s])
  BY IdleSaverTyped DEF Init
<1>3. loop \in LoopStates /\ LoopOK
  BY PolicyKeysFacts, DefaultPolicyTyped, BackoffAssumption
     DEF Init, LoopInit, StartLoop, LoopStates, LoopOK
<1>4. submits \in 0 .. MaxSaves /\ faults \in 0 .. MaxFaults /\ stops \in 0 .. MaxStops
  BY IntakeAssumption DEF Init
<1>5. /\ settled \in PolicyForms \cup {NoForm}
      /\ chosen \in {"unset", "tls", "starttls", "plain", NoMode} /\ torn \in BOOLEAN
  BY DEF Init, DialMode
<1> QED
  BY <1>1, <1>2, <1>3, <1>4, <1>5 DEF TypeInv, TypeOK

\* A step of the loop or a restart: the table and the counters of requests stay.
LEMMA LoopPartTyped ==
    ASSUME TypeInv,
           LoopStep \/ ReadPolicyKeyFails \/ Backoff \/ RunPanics \/ loop' = StartLoop,
           UNCHANGED <<settings, submits, settled>>, SaversTyped',
           chosen' \in {chosen, NoMode}, torn' \in BOOLEAN,
           faults' \in 0 .. MaxFaults, stops' \in 0 .. MaxStops
    PROVE  TypeInv'
<1>1. LoopTyped /\ Typed(settings)
  BY DEF TypeInv, TypeOK, LoopTyped
<1>2. LoopTyped'
  BY <1>1, LoopStepTyped, BackoffTyped
<1> QED
  BY <1>2 DEF TypeInv, TypeOK, LoopTyped, SaversTyped

LEMMA TypeInvStep == TypeInv /\ [Next]_vars => TypeInv'
<1> SUFFICES ASSUME TypeInv, [Next]_vars PROVE TypeInv'
  OBVIOUS
<1>1. SaversTyped /\ faults \in 0 .. MaxFaults /\ stops \in 0 .. MaxStops
      /\ torn \in BOOLEAN
  BY DEF TypeInv, TypeOK, SaversTyped
<1>2. ASSUME NEW s \in Savers, NEW ip \in Addresses, NEW form \in Forms, CheckIPv6(s, ip, form)
      PROVE  TypeInv'
  <2>1. Admits(settings, ip) \in BOOLEAN
    BY DEF Admits
  <2> QED
    BY <1>1, <1>2, <2>1, ArriveTyped DEF CheckIPv6
<1>3. ASSUME NEW s \in Savers, NEW ip \in Addresses, NEW form \in Forms,
             CheckIPv6Fails(s, ip, form)
      PROVE  TypeInv'
  BY <1>1, <1>3, ArriveTyped, FaultTyped DEF CheckIPv6Fails
<1>4. ASSUME NEW s \in Savers, CheckSubnets(s)
      PROVE  TypeInv'
  <2>1. SaversTyped'
    <3>1. CASE Enter(s)
      BY <1>1, <1>4, <3>1, EnterTyped DEF CheckSubnets
    <3>2. CASE saver' = [saver EXCEPT ![s] = IdleSaver]
      BY <1>1, <3>2, IdleSaverTyped DEF SaversTyped
    <3> QED
      BY <1>4, <3>1, <3>2 DEF CheckSubnets
  <2> QED
    BY <1>4, <2>1 DEF CheckSubnets, historyVars, TypeInv, TypeOK, SaversTyped, LoopOK
<1>5. ASSUME NEW s \in Savers, CheckSubnetsFails(s)
      PROVE  TypeInv'
  <2>1. SaversTyped' /\ faults' \in 0 .. MaxFaults
    BY <1>1, <1>5, EnterTyped, FaultTyped DEF CheckSubnetsFails
  <2> QED
    BY <1>5, <2>1 DEF CheckSubnetsFails, historyVars, TypeInv, TypeOK, SaversTyped, LoopOK
<1>6. ASSUME NEW s \in Savers, SaveKey(s)
      PROVE  TypeInv'
  BY <1>1, <1>6, TableTyped, WriteTyped DEF SaveKey
<1>7. ASSUME NEW s \in Savers, SaveKeyFails(s)
      PROVE  TypeInv'
  <2>1. DOMAIN settings = Keys /\ Typed(settings)
    BY DEF TypeInv, TypeOK
  <2> QED
    BY <1>1, <1>7, <2>1, WriteTyped, FaultTyped DEF SaveKeyFails
<1>8. CASE Poll
  BY <1>1, <1>8, LoopPartTyped DEF Poll, intakeRest, SaversTyped
<1>9. CASE PollFails
  <2>1. faults' \in 0 .. MaxFaults
    BY <1>1, <1>9, FaultTyped DEF PollFails
  <2> QED
    BY <1>1, <1>9, <2>1, LoopPartTyped DEF PollFails, intakeRest, SaversTyped
<1>10. CASE Panic
  BY <1>1, <1>10, LoopPartTyped DEF Panic, intakeRest, SaversTyped
<1>11. CASE Restart
  <2>1. SaversTyped'
    BY <1>11, IdleSaverTyped DEF Restart, SaversTyped
  <2>2. stops' \in 0 .. MaxStops
    BY <1>1, <1>11, IntakeAssumption DEF Restart
  <2> QED
    BY <1>1, <1>11, <2>1, <2>2, LoopPartTyped DEF Restart
<1>12. CASE UNCHANGED vars
  BY <1>12 DEF vars, historyVars, TypeInv, TypeOK, LoopOK
<1> QED
  BY <1>2, <1>3, <1>4, <1>5, <1>6, <1>7, <1>8, <1>9, <1>10, <1>11, <1>12 DEF Next, Serve

\* The inductive invariant behind the types: while it reads the policy the loop
\* stands at one of its keys, and outside it holds the default policy.
THEOREM TypeInvAlways == Spec => []TypeInv
<1>1. Init => TypeInv
  BY TypeInvInit
<1>2. TypeInv /\ [Next]_vars => TypeInv'
  BY TypeInvStep
<1> QED
  BY <1>1, <1>2, PTL DEF Spec

\* Every variable of Intake always has its type: no loaded limit is 0 and no
\* loaded mode unknown, whatever text a form or the table held.
THEOREM IntakeTypes == Spec => []TypeOK
<1>1. TypeInv => TypeOK
  BY DEF TypeInv
<1> QED
  BY <1>1, TypeInvAlways, PTL

----------------------------------------------------------------------------
(* The back-off.                                                           *)

LEMMA MinOfTwo ==
    ASSUME NEW a \in Nat, NEW b \in Nat
    PROVE  Min({a, b}) = IF a <= b THEN a ELSE b
<1> DEFINE m == IF a <= b THEN a ELSE b
<1>1. m \in {a, b} /\ \A y \in {a, b} : m <= y
  OBVIOUS
<1>2. \A x \in {a, b} : (\A y \in {a, b} : x <= y) => x = m
  OBVIOUS
<1> HIDE DEF m
<1>3. Min({a, b}) = m
  BY <1>1, <1>2 DEF Min
<1> QED
  BY <1>3 DEF m

Cut(n) == IF MaxBackoff <= n THEN MaxBackoff ELSE n

\* Between two waits the next wait is known: the base doubled once for each
\* failure in a row, cut off at the limit.
WaitInv ==
    IF LoopAt("backoff")
    THEN loop.failures >= 1 /\ loop.backoff = Cut(Doubled[loop.failures - 1])
    ELSE loop.backoff = Cut(Doubled[loop.failures])

\* What a step may do to the loop.
LEMMA LoopSteps ==
    ASSUME [Next]_vars
    PROVE  \/ UNCHANGED loop \/ LoopStep \/ ReadPolicyKeyFails \/ RunPanics
           \/ loop' = StartLoop \/ (LoopAt("config") /\ Backoff)
<1>1. ASSUME NEW s, Serve(s) PROVE UNCHANGED loop
  BY <1>1 DEF Serve, CheckIPv6, CheckIPv6Fails, Arrive, CheckSubnets, CheckSubnetsFails,
              SaveKey, SaveKeyFails
<1>2. UNCHANGED vars => UNCHANGED loop
  BY DEF vars
<1>3. Poll => LoopStep
  BY DEF Poll
<1>4. PollFails => ReadPolicyKeyFails \/ (LoopAt("config") /\ Backoff)
  BY DEF PollFails
<1>5. (Panic => RunPanics) /\ (Restart => loop' = StartLoop)
  BY DEF Panic, Restart
<1> QED
  BY <1>1, <1>2, <1>3, <1>4, <1>5 DEF Next

LEMMA WaitAfterFailure ==
    ASSUME TypeInv, WaitInv, ~LoopAt("backoff"), Backoff
    PROVE  WaitInv'
<1> DEFINE n == loop.failures
           k == IF n < MaxBackoff THEN n + 1 ELSE n
<1>1. loop \in LoopStates
  BY DEF TypeInv, TypeOK
<1>2. loop'.pc = "backoff" /\ loop'.backoff = loop.backoff /\ loop'.failures = k
  BY <1>1 DEF Backoff, LoopStates
<1>3. n \in 0 .. MaxBackoff /\ MaxBackoff \in Nat /\ MaxBackoff >= 1
  BY <1>1, BackoffAssumption DEF LoopStates
<1>4. loop.backoff = Cut(Doubled[n])
  BY DEF WaitInv
<1>5. CASE n < MaxBackoff
  BY <1>2, <1>3, <1>4, <1>5 DEF WaitInv, LoopAt
<1>6. CASE n = MaxBackoff
  <2>1. Doubled[MaxBackoff] > MaxBackoff /\ Doubled[MaxBackoff - 1] > MaxBackoff - 1
        /\ Doubled[MaxBackoff - 1] \in Nat /\ Doubled[MaxBackoff] \in Nat
    BY <1>3, Schedule
  <2> QED
    BY <1>2, <1>3, <1>4, <1>6, <2>1 DEF WaitInv, LoopAt, Cut
<1> QED
  BY <1>3, <1>5, <1>6

LEMMA WaitDoubles ==
    ASSUME TypeInv, WaitInv, LoopAt("backoff"), Wake
    PROVE  WaitInv'
<1> DEFINE n == loop.failures
<1>1. loop \in LoopStates
  BY DEF TypeInv, TypeOK
<1>2. loop'.pc = "config" /\ loop'.failures = n
      /\ loop'.backoff = IF 2 * loop.backoff > MaxBackoff THEN MaxBackoff ELSE 2 * loop.backoff
  BY <1>1 DEF Wake, LoopAt, LoopStates
<1>3. n \in Nat /\ n >= 1 /\ loop.backoff = Cut(Doubled[n - 1])
  BY <1>1, BackoffAssumption DEF LoopStates, WaitInv
<1>4. n - 1 \in Nat /\ (n - 1) + 1 = n
  BY <1>3
<1>5. Doubled[n - 1] \in Nat /\ Doubled[n] = 2 * Doubled[n - 1]
  BY <1>4, Schedule
<1>6. loop'.backoff = Cut(Doubled[n])
  BY <1>2, <1>3, <1>5, BackoffAssumption DEF Cut
<1> QED
  BY <1>2, <1>6 DEF WaitInv, LoopAt

LEMMA WaitInvStep == TypeInv /\ WaitInv /\ [Next]_vars => WaitInv'
<1> SUFFICES ASSUME TypeInv, WaitInv, [Next]_vars PROVE WaitInv'
  OBVIOUS
<1>1. loop \in LoopStates
  BY DEF TypeInv, TypeOK
<1>2. Cut(Doubled[0]) = BaseBackoff
  BY Schedule, BackoffAssumption DEF Cut
<1>3. CASE UNCHANGED loop
  BY <1>3 DEF WaitInv, LoopAt
<1>4. CASE Backoff /\ (LoopAt("config") \/ LoopAt("run"))
  BY <1>4, WaitAfterFailure DEF LoopAt
<1>5. CASE Wake
  <2>1. CASE LoopAt("sleep")
    BY <1>1, <1>5, <2>1 DEF Wake, WaitInv, LoopAt, LoopStates
  <2> QED
    BY <1>5, <2>1, WaitDoubles DEF Wake
<1>6. CASE /\ ~LoopAt("backoff") /\ loop'.pc # "backoff"
           /\ loop'.backoff = loop.backoff /\ loop'.failures = loop.failures
  BY <1>6 DEF WaitInv, LoopAt
<1>7. CASE loop'.pc # "backoff" /\ loop'.backoff = BaseBackoff /\ loop'.failures = 0
  BY <1>2, <1>7 DEF WaitInv, LoopAt
<1>8. ASSUME NEW policy, LoopAt("policy"), Loaded(policy)
      PROVE  WaitInv'
  BY <1>1, <1>6, <1>8 DEF Loaded, LoopStates, LoopAt
<1>9. LoadConfig => (Backoff /\ LoopAt("config")) \/ <1>6!1
  BY <1>1 DEF LoadConfig, LoopStates, LoopAt
<1>10. RunSucceeds \/ RunPanics \/ loop' = StartLoop => <1>7!1
  BY DEF RunSucceeds, RunPanics, StartLoop
<1>11. \/ UNCHANGED loop \/ LoopStep \/ ReadPolicyKeyFails \/ RunPanics
       \/ loop' = StartLoop \/ (LoopAt("config") /\ Backoff)
  BY LoopSteps
<1> QED
  BY <1>3, <1>4, <1>5, <1>6, <1>7, <1>8, <1>9, <1>10, <1>11
     DEF LoopStep, ReadPolicyKey, ReadPolicyKeyFails, RunFails

\* The wait after the n-th failure in a row is the base doubled n - 1 times, and
\* never more than the limit, for any base and any limit not below it.
THEOREM BackoffScheduleAlways == Spec => []BackoffSchedule
<1>1. Init => WaitInv
  BY Schedule, BackoffAssumption DEF Init, LoopInit, StartLoop, WaitInv, LoopAt, Cut
<1>2. TypeInv /\ WaitInv /\ [Next]_vars => WaitInv'
  BY WaitInvStep
<1>3. TypeInv /\ WaitInv => BackoffSchedule
  <2> SUFFICES ASSUME TypeInv, WaitInv, LoopAt("backoff")
               PROVE  loop.backoff = Min({MaxBackoff, Doubled[loop.failures - 1]})
    BY DEF BackoffSchedule
  <2>1. loop.failures - 1 \in Nat
    BY BackoffAssumption DEF WaitInv, TypeInv, TypeOK, LoopStates
  <2> QED
    BY <2>1, Schedule, MinOfTwo, BackoffAssumption DEF WaitInv, Cut
<1> QED
  BY <1>1, <1>2, <1>3, TypeInvAlways, PTL DEF Spec

----------------------------------------------------------------------------
(* A write.                                                                *)

\* The writes of the two kinds of form are kept apart: what a saver that is
\* midway has to do with a key.
LEMMA HalfFacts ==
    ASSUME NEW f \in Forms
    PROVE  /\ f \in PolicyForms => Half(f) = ToSet(PolicyKeys)
           /\ f \in MailboxForms => Half(f) = ToSet(MailboxKeys) /\ f \notin PolicyForms
           /\ ToSet(PolicyKeys) # ToSet(MailboxKeys)
<1>1. f \in MailboxForms => f \notin PolicyForms
  BY IntakeAssumption
<1>2. ToSet(PolicyKeys) # ToSet(MailboxKeys)
  BY PolicyKeysFacts
<1> QED
  BY <1>1, <1>2 DEF Half

\* Where a request that saves a form stands.
LEMMA SaverAt ==
    ASSUME TypeInv, NEW s \in Savers, At(s, "save")
    PROVE  /\ saver[s].form \in Forms
           /\ saver[s].next \in 1 .. Len(FormWrites(saver[s].form))
           /\ saver[s].clean \in BOOLEAN
           /\ saver[s].form \in MailboxForms => Len(FormWrites(saver[s].form)) = 4
           /\ Midway(s) <=>
                 /\ saver[s].next > 1
                 /\ saver[s].form \in PolicyForms => saver[s].next <= KeyCount
<1>1. saver[s] \in SaverStates /\ saver[s].form \in Forms
      /\ saver[s].next \in 1 .. Len(FormWrites(saver[s].form))
  BY DEF TypeInv, TypeOK, SaverStates, FormOK, At
<1>2. saver[s].form \in MailboxForms => Len(FormWrites(saver[s].form)) = 4
  BY MailboxFormWrites
<1>3. NextWrite(s).key \in Half(saver[s].form) <=>
         (saver[s].form \in PolicyForms => saver[s].next <= KeyCount)
  BY <1>1, HalfFacts, FormWritesFacts DEF NextWrite, Forms
<1> QED
  BY <1>1, <1>2, <1>3 DEF Midway, SaverStates

\* What a write leaves behind of its own request and of the others.
LEMMA SavedOwn ==
    ASSUME TypeInv, NEW s \in Savers, At(s, "save"), NEW table, NEW good \in BOOLEAN,
           Saved(s, table, good)
    PROVE  \/ saver[s].next = Len(FormWrites(saver[s].form)) /\ saver'[s] = IdleSaver
           \/ /\ saver[s].next < Len(FormWrites(saver[s].form))
              /\ saver'[s].pc = "save" /\ saver'[s].form = saver[s].form
              /\ saver'[s].next = saver[s].next + 1
              /\ saver'[s].clean => saver[s].clean
              /\ saver'[s].clean /\ NextWrite(s).key \notin FilterKeys =>
                    good /\ Rivals(s) = {}
<1> DEFINE clean == saver[s].clean /\ (NextWrite(s).key \in FilterKeys
                                        \/ (good /\ Rivals(s) = {}))
           last == saver[s].next = Len(FormWrites(saver[s].form))
<1>1. saver[s] \in SaverStates
  BY DEF TypeInv, TypeOK
<1>2. saver'[s] = IF last THEN IdleSaver ELSE [saver[s] EXCEPT !.next = @ + 1, !.clean = clean]
  BY DEF Saved
<1>3. saver[s].next \in 1 .. Len(FormWrites(saver[s].form))
      /\ Len(FormWrites(saver[s].form)) \in Nat
  BY SaverAt, FormWritesFacts
<1>4. CASE last
  BY <1>2, <1>4
<1>5. CASE ~last
  <2>1. saver'[s] = [saver[s] EXCEPT !.next = @ + 1, !.clean = clean]
    BY <1>2, <1>5
  <2>2. clean => saver[s].clean /\ (NextWrite(s).key \notin FilterKeys => good /\ Rivals(s) = {})
    OBVIOUS
  <2>3. saver[s].next < Len(FormWrites(saver[s].form))
    BY <1>3, <1>5
  <2> HIDE DEF clean, last
  <2>4. saver'[s].pc = "save" /\ saver'[s].form = saver[s].form
        /\ saver'[s].next = saver[s].next + 1 /\ saver'[s].clean = clean
    BY <1>1, <2>1 DEF SaverStates, At
  <2> QED
    BY <2>2, <2>3, <2>4
<1> QED
  BY <1>4, <1>5

\* A write that succeeds alone leaves the save clean.
LEMMA SavedClean ==
    ASSUME TypeInv, NEW s \in Savers, At(s, "save"), NEW table,
           Saved(s, table, TRUE), saver[s].clean, Rivals(s) = {},
           saver[s].next < Len(FormWrites(saver[s].form))
    PROVE  /\ saver'[s].pc = "save" /\ saver'[s].form = saver[s].form
           /\ saver'[s].next = saver[s].next + 1 /\ saver'[s].clean
<1>1. saver[s] \in SaverStates
  BY DEF TypeInv, TypeOK
<1>2. saver[s].next \in 1 .. Len(FormWrites(saver[s].form))
  BY SaverAt
<1> DEFINE clean == saver[s].clean /\ (NextWrite(s).key \in FilterKeys
                                        \/ (TRUE /\ Rivals(s) = {}))
           last == saver[s].next = Len(FormWrites(saver[s].form))
<1>3. saver'[s] = IF last THEN IdleSaver ELSE [saver[s] EXCEPT !.next = @ + 1, !.clean = clean]
  BY DEF Saved
<1>4. clean /\ ~last
  BY <1>2
<1> HIDE DEF clean, last
<1> QED
  BY <1>1, <1>3, <1>4 DEF SaverStates, At

LEMMA SavedOther ==
    ASSUME TypeInv, NEW s \in Savers, At(s, "save"), NEW table, NEW good \in BOOLEAN,
           Saved(s, table, good), NEW q \in Savers, q # s
    PROVE  /\ saver'[q].pc = saver[q].pc /\ saver'[q].form = saver[q].form
           /\ saver'[q].next = saver[q].next /\ saver'[q].ip = saver[q].ip
           /\ saver'[q].clean => saver[q].clean
           /\ saver'[q].clean # saver[q].clean => q \in Rivals(s)
           /\ q \in Rivals(s) /\ NextWrite(s).key \notin FilterKeys => ~saver'[q].clean
           /\ IF At(q, "subnets") /\ NextWrite(s).key \in FilterKeys
              THEN /\ saver'[q].admitted <=> saver[q].admitted \/ Admits(table, saver[q].ip)
                   /\ saver'[q].changes = saver[q].changes \cup {s}
              ELSE /\ saver'[q].admitted = saver[q].admitted
                   /\ saver'[q].changes = saver[q].changes
<1> DEFINE c == saver[q].admitted \/ Admits(table, saver[q].ip)
           key == NextWrite(s).key
<1>1. saver[q] \in SaverStates
  BY DEF TypeInv, TypeOK
<1>2. saver'[q] = IF q \in Rivals(s) /\ key \notin FilterKeys
                  THEN [saver[q] EXCEPT !.clean = FALSE]
                  ELSE IF At(q, "subnets") /\ key \in FilterKeys
                  THEN [saver[q] EXCEPT !.admitted = c, !.changes = @ \cup {s}]
                  ELSE saver[q]
  BY DEF Saved
<1>3. c <=> saver[q].admitted \/ Admits(table, saver[q].ip)
  OBVIOUS
<1>4. CASE q \in Rivals(s) /\ key \notin FilterKeys
  BY <1>1, <1>2, <1>4 DEF SaverStates
<1>5. CASE At(q, "subnets") /\ key \in FilterKeys
  <2> HIDE DEF c
  <2>1. saver'[q] = [saver[q] EXCEPT !.admitted = c, !.changes = @ \cup {s}]
    BY <1>2, <1>5
  <2> QED
    BY <1>1, <1>3, <1>5, <2>1 DEF SaverStates
<1>6. CASE ~(q \in Rivals(s) /\ key \notin FilterKeys)
           /\ ~(At(q, "subnets") /\ key \in FilterKeys)
  BY <1>1, <1>2, <1>6 DEF SaverStates
<1> QED
  BY <1>4, <1>5, <1>6

----------------------------------------------------------------------------
(* Requests that are not being saved.                                      *)

\* No request has come that is not counted.
Unused == \A s \in Savers : s > submits => At(s, "idle")

\* A step that leaves alone the table and every request that saves, and after
\* which a request that saves has either been doing so or is at its first key.
Aside ==
    /\ UNCHANGED settings
    /\ \A q \in Savers : At(q, "save") => saver'[q] = saver[q]
    /\ \A q \in Savers : saver'[q].pc = "save" =>
          saver'[q] = saver[q] \/ saver'[q].next = 1

LEMMA ArriveAside ==
    ASSUME TypeInv, Unused, NEW s \in Savers, NEW ip, NEW form, NEW admitted,
           Arrive(s, ip, form, admitted)
    PROVE  Aside /\ Unused'
<1>1. At(s, "idle") /\ submits \in Nat /\ s = submits + 1 /\ submits' = s
  BY DEF Unused, Arrive, TypeInv, TypeOK
<1> DEFINE r == [IdleSaver EXCEPT !.pc = "subnets", !.ip = ip, !.form = form,
                                  !.admitted = admitted]
<1>2. saver' = [saver EXCEPT ![s] = r] /\ UNCHANGED settings
  BY DEF Arrive
<1>3. r.pc = "subnets"
  BY DEF IdleSaver
<1>4. DOMAIN saver = Savers
  BY DEF TypeInv, TypeOK
<1> HIDE DEF r
<1>5. saver'[s] = r /\ \A q \in Savers : q # s => saver'[q] = saver[q]
  BY <1>2, <1>4
<1> QED
  BY <1>1, <1>2, <1>3, <1>5 DEF Aside, Unused, At, Savers

LEMMA EnterAside ==
    ASSUME TypeInv, Unused, NEW s \in Savers, At(s, "subnets"),
           Enter(s) \/ saver' = [saver EXCEPT ![s] = IdleSaver],
           UNCHANGED <<settings, submits>>
    PROVE  Aside /\ Unused'
<1>1. s <= submits /\ submits \in Nat
  BY DEF Unused, At, TypeInv, TypeOK, Savers
<1>2. DOMAIN saver = Savers /\ saver[s] \in SaverStates /\ saver[s].next = 1
  BY DEF TypeInv, TypeOK, FormOK, At
<1>3. saver'[s].next = 1 /\ \A q \in Savers : q # s => saver'[q] = saver[q]
  <2>1. CASE Enter(s)
    BY <1>2, <2>1 DEF Enter, SaverStates
  <2>2. CASE saver' = [saver EXCEPT ![s] = IdleSaver]
    BY <1>2, <2>2 DEF IdleSaver
  <2> QED
    BY <2>1, <2>2
<1> QED
  BY <1>1, <1>3 DEF Aside, Unused, At, Savers

LEMMA SavedUnused ==
    ASSUME TypeInv, Unused, NEW s \in Savers, At(s, "save"), NEW table, NEW good \in BOOLEAN,
           Saved(s, table, good), UNCHANGED submits
    PROVE  Unused'
<1>1. ~(s > submits)
  BY DEF Unused, At
<1>2. \A q \in Savers : q # s => saver'[q].pc = saver[q].pc
  BY SavedOther
<1> QED
  BY <1>1, <1>2 DEF Unused, At

\* Every step is one write of a form, or goes on beside those that are saving,
\* or is a restart.
LEMMA IntakeSteps ==
    ASSUME TypeInv, Unused, [Next]_vars
    PROVE  /\ Unused'
           /\ \/ \E s \in Savers : SaveKey(s) \/ SaveKeyFails(s)
              \/ Restart
              \/ Aside /\ UNCHANGED <<settled, chosen>>
<1>1. ASSUME NEW s \in Savers, NEW ip \in Addresses, NEW form \in Forms,
             CheckIPv6(s, ip, form) \/ CheckIPv6Fails(s, ip, form)
      PROVE  Unused' /\ Aside /\ UNCHANGED <<settled, chosen>>
  <2>1. PICK admitted : Arrive(s, ip, form, admitted)
    BY <1>1 DEF CheckIPv6, CheckIPv6Fails
  <2> QED
    BY <2>1, ArriveAside DEF Arrive, historyVars
<1>2. ASSUME NEW s \in Savers, CheckSubnets(s) \/ CheckSubnetsFails(s)
      PROVE  Unused' /\ Aside /\ UNCHANGED <<settled, chosen>>
  <2>1. At(s, "subnets") /\ (Enter(s) \/ saver' = [saver EXCEPT ![s] = IdleSaver])
        /\ UNCHANGED <<settings, submits, settled, chosen>>
    BY <1>2 DEF CheckSubnets, CheckSubnetsFails, historyVars
  <2> QED
    BY <2>1, EnterAside
<1>3. ASSUME NEW s \in Savers, SaveKey(s) \/ SaveKeyFails(s) PROVE Unused'
  <2>1. PICK good \in BOOLEAN : \E table : Saved(s, table, good)
    BY <1>3 DEF SaveKey, SaveKeyFails
  <2> QED
    BY <1>3, <2>1, SavedUnused DEF SaveKey, SaveKeyFails
<1>4. CASE Poll \/ PollFails \/ Panic \/ UNCHANGED vars
  <2>1. UNCHANGED <<settings, saver, submits, settled, chosen>>
    BY <1>4 DEF Poll, PollFails, Panic, intakeRest, vars, historyVars
  <2> QED
    BY <2>1 DEF Unused, Aside, At
<1>5. CASE Restart
  BY <1>5 DEF Restart, Unused, At, IdleSaver
<1> QED
  BY <1>1, <1>2, <1>3, <1>4, <1>5 DEF Next, Serve

----------------------------------------------------------------------------
(* The connection mode.                                                    *)

\* The request has written the flag for TLS and not yet the one for STARTTLS.
AtFlag(s) == At(s, "save") /\ saver[s].form \in MailboxForms /\ saver[s].next = 4

\* A save that nothing has disturbed finds the flag for TLS as it wrote it.
FlagKept ==
    \A s \in Savers : AtFlag(s) /\ saver[s].clean =>
        settings["tls"] = (ModeOf(saver[s].form) = "tls")

\* While somebody knows the mode saved last, every save under way is undisturbed,
\* and the flag of an encrypted mode is set, but for the one for TLS that a save
\* has just written.
ModeKnown ==
    chosen # NoMode =>
        /\ \A s \in Savers : Midway(s) /\ saver[s].form \in MailboxForms => saver[s].clean
        /\ chosen = "starttls" => settings["starttls"] = TRUE
        /\ chosen = "tls" => settings["tls"] = TRUE \/ \E s \in Savers : AtFlag(s)
        /\ chosen = "unset" => settings["tls"] = Blank \/ \E s \in Savers : AtFlag(s)

ModeInv == FlagKept /\ ModeKnown

\* The write of a key that is none of the mailbox's.
LEMMA ModeElsewhere ==
    ASSUME TypeInv, ModeInv, NEW s \in Savers, At(s, "save"), NEW table, NEW good \in BOOLEAN,
           Saved(s, table, good), saver[s].form \in PolicyForms,
           table["tls"] = settings["tls"], table["starttls"] = settings["starttls"]
    PROVE  ModeInv'
<1>1. saver[s].form \in Forms /\ saver[s].form \notin MailboxForms
      /\ NextWrite(s).key \notin ToSet(MailboxKeys)
  BY SaverAt, FormWritesFacts, IntakeAssumption DEF NextWrite
<1>2. chosen' = chosen /\ settings' = table
  BY <1>1 DEF Saved
<1>3. ASSUME NEW q \in Savers, saver'[q].form \in MailboxForms, saver'[q].pc = "save"
      PROVE  /\ q # s /\ saver'[q].pc = saver[q].pc /\ saver'[q].form = saver[q].form
             /\ saver'[q].next = saver[q].next /\ saver'[q].clean = saver[q].clean
  <2>1. q # s
    BY <1>1, <1>3, SavedOwn DEF IdleSaver
  <2>2. saver[q].form \in MailboxForms /\ saver[q].form \in Forms
    BY <1>3, <2>1, SavedOther DEF Forms
  <2>3. q \notin Rivals(s)
    BY <1>1, <2>2, HalfFacts DEF Rivals, Forms
  <2> QED
    BY <2>1, <2>3, SavedOther
<1>4. \A q \in Savers : AtFlag(q)' => AtFlag(q) /\ saver'[q].clean = saver[q].clean
                                      /\ saver'[q].form = saver[q].form
  BY <1>3 DEF AtFlag, At
<1>5. \A q \in Savers : AtFlag(q) => AtFlag(q)'
  BY <1>1, SavedOther DEF AtFlag, At
<1>6. \A q \in Savers : Midway(q)' /\ saver'[q].form \in MailboxForms =>
         Midway(q) /\ saver[q].form \in MailboxForms /\ saver'[q].clean = saver[q].clean
  <2> SUFFICES ASSUME NEW q \in Savers, Midway(q)', saver'[q].form \in MailboxForms
               PROVE  Midway(q) /\ saver[q].form \in MailboxForms
                      /\ saver'[q].clean = saver[q].clean
    OBVIOUS
  <2>1. saver'[q].pc = "save"
    BY DEF Midway, At
  <2>2. /\ q # s /\ saver'[q].pc = saver[q].pc /\ saver'[q].form = saver[q].form
        /\ saver'[q].next = saver[q].next /\ saver'[q].clean = saver[q].clean
    BY <1>3, <2>1
  <2> QED
    BY <2>2 DEF Midway, At, NextWrite
<1> QED
  BY <1>2, <1>4, <1>5, <1>6 DEF ModeInv, FlagKept, ModeKnown

\* A write of the mailbox form that failed or met another one.
LEMMA ModeDisturbed ==
    ASSUME TypeInv, ModeInv, NEW s \in Savers, At(s, "save"), NEW table, NEW good \in BOOLEAN,
           Saved(s, table, good), saver[s].form \in MailboxForms,
           ~(saver[s].clean /\ good /\ Rivals(s) = {})
    PROVE  ModeInv'
<1>1. saver[s].form \in Forms /\ saver[s].form \notin PolicyForms
      /\ NextWrite(s).key \in ToSet(MailboxKeys)
  BY SaverAt, FormWritesFacts, HalfFacts DEF NextWrite
<1>2. NextWrite(s).key \notin FilterKeys
  BY <1>1, PolicyKeysFacts DEF FilterKeys
<1>3. chosen' = NoMode /\ settings' = table
  BY <1>1, <1>2 DEF Saved
<1>4. ASSUME NEW q \in Savers, AtFlag(q)', saver'[q].clean
      PROVE  settings'["tls"] = (ModeOf(saver'[q].form) = "tls")
  <2>1. q # s
    BY <1>2, <1>4, SavedOwn DEF AtFlag, At, IdleSaver
  <2>2. AtFlag(q) /\ saver[q].clean /\ q \notin Rivals(s) /\ saver'[q].form = saver[q].form
    BY <1>2, <1>4, <2>1, SavedOther DEF AtFlag, At
  <2>3. saver[q].form \in Forms /\ saver[q].form \notin PolicyForms /\ Midway(q)
    BY <2>2, SaverAt, HalfFacts DEF AtFlag
  <2>4. Half(saver[q].form) = Half(saver[s].form)
    BY <1>1, <2>2, <2>3, HalfFacts DEF AtFlag
  <2> QED
    BY <2>1, <2>2, <2>3, <2>4 DEF Rivals
<1> QED
  BY <1>3, <1>4 DEF ModeInv, FlagKept, ModeKnown

\* A write of the mailbox form that succeeds, in a save that nothing disturbed.
LEMMA ModeWritten ==
    ASSUME TypeInv, ModeInv, NEW s \in Savers, At(s, "save"), saver[s].form \in MailboxForms,
           Saved(s, [settings EXCEPT ![NextWrite(s).key] = NextWrite(s).value], TRUE),
           saver[s].clean, Rivals(s) = {}
    PROVE  ModeInv'
<1> DEFINE f == saver[s].form
           key == NextWrite(s).key
<1>1. f \in Forms /\ f \notin PolicyForms /\ key \in ToSet(MailboxKeys)
      /\ saver[s].next \in 1 .. 4 /\ Len(FormWrites(f)) = 4
  BY SaverAt, FormWritesFacts, HalfFacts DEF NextWrite
<1>2. key \notin FilterKeys
  BY <1>1, PolicyKeysFacts DEF FilterKeys
<1>3. \A q \in Savers : Midway(q) /\ saver[q].form \in MailboxForms => q = s
  <2> SUFFICES ASSUME NEW q \in Savers, Midway(q), saver[q].form \in MailboxForms, q # s
               PROVE  FALSE
    OBVIOUS
  <2>1. saver[q].form \in Forms
    BY DEF Forms
  <2>2. Half(saver[q].form) = Half(saver[s].form)
    BY <1>1, <2>1, HalfFacts
  <2> QED
    BY <2>2 DEF Rivals
<1>4. \A q \in Savers : AtFlag(q) => q = s
  <2> SUFFICES ASSUME NEW q \in Savers, AtFlag(q) PROVE Midway(q)
    BY <1>3 DEF AtFlag
  <2>1. saver[q].form \in Forms /\ saver[q].form \notin PolicyForms
    BY SaverAt, HalfFacts DEF AtFlag
  <2> QED
    BY <2>1, SaverAt DEF AtFlag
<1>5. \A q \in Savers : q # s =>
         ~AtFlag(q)' /\ ~(Midway(q)' /\ saver'[q].form \in MailboxForms)
  <2> SUFFICES ASSUME NEW q \in Savers, q # s
               PROVE  ~AtFlag(q)' /\ ~(Midway(q)' /\ saver'[q].form \in MailboxForms)
    OBVIOUS
  <2>1. saver'[q].pc = saver[q].pc /\ saver'[q].form = saver[q].form
        /\ saver'[q].next = saver[q].next
    BY SavedOther
  <2> QED
    BY <1>3, <1>4, <2>1 DEF AtFlag, Midway, At, NextWrite
<1>6. /\ FormWrites(f)[1].key = "host" /\ FormWrites(f)[2].key = "user"
      /\ FormWrites(f)[3].key = "tls" /\ FormWrites(f)[4].key = "starttls"
      /\ FormWrites(f)[3].value = (ModeOf(f) = "tls")
      /\ FormWrites(f)[4].value = (ModeOf(f) = "starttls")
  BY MailboxFormWrites
<1>7. chosen' = IF saver[s].next = 4 THEN ModeOf(f) ELSE chosen
  BY <1>1, <1>2 DEF Saved
<1>8. settings' = [settings EXCEPT ![key] = NextWrite(s).value]
  BY DEF Saved
<1>9. DOMAIN settings = Keys /\ "tls" \in Keys /\ "starttls" \in Keys
  BY PolicyKeysFacts DEF Keys, TypeInv, TypeOK
<1>10. saver[s].next < 4 =>
         /\ saver'[s].pc = "save" /\ saver'[s].form = f
         /\ saver'[s].next = saver[s].next + 1 /\ saver'[s].clean
  <2> DEFINE table == [settings EXCEPT ![key] = NextWrite(s).value]
  <2>1. Saved(s, table, TRUE)
    OBVIOUS
  <2> HIDE DEF table
  <2> QED
    BY <1>1, <2>1, SavedClean
<1>11. saver[s].next = 4 => saver'[s].pc = "idle"
  BY <1>1 DEF Saved, IdleSaver
<1>12. CASE saver[s].next \in {1, 2}
  <2>1. settings'["tls"] = settings["tls"] /\ settings'["starttls"] = settings["starttls"]
    BY <1>6, <1>8, <1>9, <1>12 DEF NextWrite
  <2>2. saver'[s].next # 4 /\ (Midway(s)' => saver'[s].clean) /\ ~AtFlag(s)'
    BY <1>1, <1>12, <1>10 DEF AtFlag
  <2>3. ~AtFlag(s)
    BY <1>12 DEF AtFlag
  <2> QED
    BY <1>4, <1>5, <1>7, <1>12, <2>1, <2>2, <2>3 DEF ModeInv, FlagKept, ModeKnown
<1>13. CASE saver[s].next = 3
  <2>1. settings'["tls"] = (ModeOf(f) = "tls") /\ settings'["starttls"] = settings["starttls"]
    BY <1>6, <1>8, <1>9, <1>13 DEF NextWrite
  <2>2. saver'[s].next = 4 /\ saver'[s].pc = "save" /\ saver'[s].form = f /\ saver'[s].clean
    BY <1>1, <1>13, <1>10
  <2>3. AtFlag(s)'
    BY <2>2 DEF AtFlag, At
  <2> QED
    BY <1>5, <1>7, <1>13, <2>1, <2>2, <2>3 DEF ModeInv, FlagKept, ModeKnown
<1>14. CASE saver[s].next = 4
  <2>1. settings'["tls"] = settings["tls"] /\ settings'["starttls"] = (ModeOf(f) = "starttls")
    BY <1>6, <1>8, <1>9, <1>14 DEF NextWrite
  <2>2. settings["tls"] = (ModeOf(f) = "tls")
    BY <1>14 DEF ModeInv, FlagKept, AtFlag
  <2>3. saver'[s].pc = "idle"
    BY <1>14, <1>11
  <2>4. ~AtFlag(s)' /\ ~Midway(s)'
    BY <2>3 DEF AtFlag, Midway, At
  <2>5. chosen' = ModeOf(f) /\ chosen' # "unset"
    BY <1>7, <1>14 DEF ModeOf
  <2>6. /\ chosen' = "tls" => settings'["tls"] = TRUE
        /\ chosen' = "starttls" => settings'["starttls"] = TRUE
    BY <2>1, <2>2, <2>5
  <2> QED
    BY <1>5, <2>4, <2>5, <2>6 DEF ModeInv, FlagKept, ModeKnown
<1> QED
  BY <1>1, <1>12, <1>13, <1>14

LEMMA ModeSaveKey ==
    ASSUME TypeInv, ModeInv, NEW s \in Savers, SaveKey(s)
    PROVE  ModeInv'
<1> DEFINE table == [settings EXCEPT ![NextWrite(s).key] = NextWrite(s).value]
<1>1. At(s, "save") /\ Saved(s, table, TRUE)
  BY DEF SaveKey
<1>2. saver[s].form \in Forms
  BY <1>1, SaverAt
<1>3. CASE saver[s].form \in PolicyForms
  <2>1. NextWrite(s).key \notin ToSet(MailboxKeys)
    BY <1>1, <1>2, <1>3, SaverAt, FormWritesFacts, HalfFacts DEF NextWrite
  <2>2. "tls" # NextWrite(s).key /\ "starttls" # NextWrite(s).key
    BY <2>1, PolicyKeysFacts
  <2>3. table["tls"] = settings["tls"] /\ table["starttls"] = settings["starttls"]
    BY <2>2
  <2> HIDE DEF table
  <2> QED
    BY <1>1, <1>3, <2>3, ModeElsewhere
<1>4. CASE saver[s].form \in MailboxForms /\ saver[s].clean /\ Rivals(s) = {}
  BY <1>1, <1>4, ModeWritten
<1>5. CASE saver[s].form \in MailboxForms /\ ~(saver[s].clean /\ Rivals(s) = {})
  <2> HIDE DEF table
  <2> QED
    BY <1>1, <1>5, ModeDisturbed
<1> QED
  BY <1>2, <1>3, <1>4, <1>5 DEF Forms

LEMMA ModeSaveKeyFails ==
    ASSUME TypeInv, ModeInv, NEW s \in Savers, SaveKeyFails(s)
    PROVE  ModeInv'
<1>1. At(s, "save") /\ Saved(s, settings, FALSE)
  BY DEF SaveKeyFails
<1>2. saver[s].form \in Forms
  BY <1>1, SaverAt
<1>3. CASE saver[s].form \in PolicyForms
  BY <1>1, <1>3, ModeElsewhere
<1>4. CASE saver[s].form \in MailboxForms
  BY <1>1, <1>4, ModeDisturbed
<1> QED
  BY <1>2, <1>3, <1>4 DEF Forms

LEMMA ModeAside ==
    ASSUME TypeInv, ModeInv, Aside, UNCHANGED chosen
    PROVE  ModeInv'
<1>1. \A q \in Savers : (saver'[q].pc = "save" /\ saver'[q].next > 1) => saver'[q] = saver[q]
  BY DEF Aside
<1>2. \A q \in Savers : AtFlag(q)' => AtFlag(q) /\ saver'[q] = saver[q]
  BY <1>1 DEF AtFlag, At
<1>3. \A q \in Savers : AtFlag(q) => AtFlag(q)'
  BY DEF AtFlag, At, Aside
<1>4. \A q \in Savers : Midway(q)' => Midway(q) /\ saver'[q] = saver[q]
  BY <1>1 DEF Midway, At, NextWrite
<1> QED
  BY <1>2, <1>3, <1>4 DEF ModeInv, FlagKept, ModeKnown, Aside

LEMMA ModeRestart ==
    ASSUME TypeInv, ModeInv, Restart
    PROVE  ModeInv'
<1>1. \A q \in Savers : saver'[q].pc = "idle"
  BY DEF Restart, IdleSaver
<1>2. \A q \in Savers : ~AtFlag(q)' /\ ~Midway(q)'
  BY <1>1 DEF AtFlag, Midway, At
<1>3. settings' = settings
  BY DEF Restart
<1>4. CASE \E s \in Savers : Midway(s) /\ saver[s].form \in MailboxForms
  BY <1>2, <1>4 DEF Restart, ModeInv, FlagKept, ModeKnown
<1>5. CASE ~\E s \in Savers : Midway(s) /\ saver[s].form \in MailboxForms
  <2>1. chosen' = chosen
    BY <1>5 DEF Restart
  <2>2. ASSUME NEW s \in Savers, AtFlag(s) PROVE FALSE
    <3>1. saver[s].form \in Forms /\ saver[s].form \notin PolicyForms
      BY <2>2, SaverAt, HalfFacts DEF AtFlag
    <3> QED
      BY <1>5, <2>2, <3>1, SaverAt DEF AtFlag
  <2> QED
    BY <1>2, <1>3, <2>1, <2>2 DEF ModeInv, FlagKept, ModeKnown
<1> QED
  BY <1>4, <1>5

\* With a mode known, its flag is set, or a save of another mode than TLS has
\* written the first of its two.
LEMMA ModeIsSafe == TypeInv /\ ModeInv => EncryptionKept
<1> SUFFICES ASSUME TypeInv, ModeInv, DialMode = "plain", settings["tls"] # Blank,
                    chosen \notin {"plain", NoMode}
             PROVE  \E s \in Savers :
                       /\ Midway(s) /\ saver[s].form \in MailboxForms
                       /\ ModeOf(saver[s].form) # "tls"
  BY DEF EncryptionKept
<1>1. chosen \in {"unset", "tls", "starttls"}
  BY DEF TypeInv, TypeOK
<1>2. settings["tls"] # TRUE /\ settings["starttls"] # TRUE
  BY DEF DialMode
<1>3. chosen \in {"unset", "tls"}
  BY <1>1, <1>2 DEF ModeInv, ModeKnown
<1>4. PICK s \in Savers : AtFlag(s)
  BY <1>2, <1>3 DEF ModeInv, ModeKnown
<1>5. saver[s].form \in MailboxForms /\ saver[s].form \notin PolicyForms /\ At(s, "save")
      /\ saver[s].next = 4
  BY <1>4, HalfFacts DEF AtFlag, Forms
<1>6. Midway(s)
  BY <1>5, SaverAt
<1>7. saver[s].clean
  BY <1>5, <1>6 DEF ModeInv, ModeKnown
<1>8. ModeOf(saver[s].form) # "tls"
  BY <1>2, <1>4, <1>7 DEF ModeInv, FlagKept
<1> QED
  BY <1>5, <1>6, <1>8

LEMMA UnusedAlways == Spec => []Unused
<1>1. Init => Unused
  BY DEF Init, Unused, At, IdleSaver
<1>2. TypeInv /\ Unused /\ [Next]_vars => Unused'
  BY IntakeSteps
<1> QED
  BY <1>1, <1>2, TypeInvAlways, PTL DEF Spec

\* A mailbox whose form was saved last with an encrypted mode is dialled in
\* plain only while a form for STARTTLS or plain is being saved, for any number
\* of forms.  The first form on a new database, a mailbox that was plain before,
\* and saves that failed, were cut short or ran into each other are left out.
THEOREM EncryptionKeptAlways == Spec => []EncryptionKept
<1>1. Init => ModeInv
  BY DEF Init, DialMode, ModeInv, FlagKept, ModeKnown, AtFlag, Midway, At, IdleSaver
<1>2. TypeInv /\ Unused /\ ModeInv /\ [Next]_vars => ModeInv'
  BY IntakeSteps, ModeSaveKey, ModeSaveKeyFails, ModeAside, ModeRestart
<1>3. TypeInv /\ ModeInv => EncryptionKept
  BY ModeIsSafe
<1> QED
  BY <1>1, <1>2, <1>3, TypeInvAlways, UnusedAlways, PTL DEF Spec

----------------------------------------------------------------------------
(* The policy of a run.                                                    *)

\* What the policy holds for a key.
Field(policy, key) ==
    CASE key = "mode" -> policy.mode
      [] key = "require_token" -> policy.tokenRequired
      [] key = "token_location" -> policy.tokenLocation
      [] key = "tokens" -> policy.tokens
      [] key = "max_email_mb" -> policy.maxSize
      [] key = "max_attachments" -> policy.maxAttachments
      [] key = "max_attach_mb" -> policy.maxAttachSize

\* What LoadPolicy makes of a stored value, when nothing but the default was there.
Loads(key, value) == Field(Take(DefaultPolicy, key, value), key)

\* Reading a key changes its own field, to what the stored value stands for.
LEMMA TakeField ==
    ASSUME NEW policy \in Policies, NEW key \in ToSet(PolicyKeys),
           NEW other \in ToSet(PolicyKeys), NEW value,
           Field(policy, key) = Field(DefaultPolicy, key)
    PROVE  Field(Take(policy, key, value), other) =
              IF other = key THEN Loads(key, value) ELSE Field(policy, other)
<1> DEFINE K == {"mode", "token_location", "max_email_mb", "max_attachments",
                 "max_attach_mb", "require_token", "tokens"}
<1>1. key \in K /\ other \in K
  BY PolicyKeysFacts DEF ChoiceKeys, LimitKeys
<1>2. DefaultPolicy \in Policies
  BY DefaultPolicyTyped
<1>3. CASE value = Blank
  BY <1>3 DEF Take, Loads
<1>4. CASE value # Blank /\ key = "mode"
  BY <1>1, <1>2, <1>4 DEF Take, Loads, Field, Policies
<1>5. CASE value # Blank /\ key = "token_location"
  BY <1>1, <1>2, <1>5 DEF Take, Loads, Field, Policies
<1>6. CASE value # Blank /\ key = "require_token"
  BY <1>1, <1>2, <1>6 DEF Take, Loads, Field, Policies
<1>7. CASE value # Blank /\ key = "tokens"
  BY <1>1, <1>2, <1>7 DEF Take, Loads, Field, Policies
<1>8. CASE value # Blank /\ key = "max_email_mb"
  BY <1>1, <1>2, <1>8 DEF Take, Loads, Field, Policies
<1>9. CASE value # Blank /\ key = "max_attachments"
  BY <1>1, <1>2, <1>9 DEF Take, Loads, Field, Policies
<1>10. CASE value # Blank /\ key = "max_attach_mb"
  BY <1>1, <1>2, <1>10 DEF Take, Loads, Field, Policies
<1> QED
  BY <1>1, <1>3, <1>4, <1>5, <1>6, <1>7, <1>8, <1>9, <1>10

\* A policy that holds for every key what was stored by a form is what the user
\* who submitted the form asked for.
LEMMA FieldsHonour ==
    ASSUME NEW f \in PolicyForms, NEW policy \in Policies,
           \A key \in ToSet(PolicyKeys) : Field(policy, key) = Loads(key, PolicyValue(f, key))
    PROVE  Honours(policy, f)
<1>1. /\ f.require \in BOOLEAN /\ f.tokens \in TokenLists
      /\ f.maxEmail \in Numbers /\ f.maxAttachments \in Numbers /\ f.maxAttach \in Numbers
  BY FormsAssumption
<1>2. \A n \in Numbers, d \in Nat \ {0} :
         /\ PositiveOr(d, n) \in Nat \ {0} /\ PositiveOr(d, PositiveOr(d, n)) = PositiveOr(d, n)
         /\ NaturalOr(d, n) \in Nat /\ PositiveOr(d, NaturalOr(d, n)) = PositiveOr(d, n)
         /\ PositiveOr(d, n) # Blank /\ NaturalOr(d, n) # Blank
  BY TextAssumption DEF PositiveOr, NaturalOr, Unusable, Numbers
<1>3. DefaultPolicy.maxSize = 10 /\ DefaultPolicy.maxAttachments = 5
      /\ DefaultPolicy.maxAttachSize = 5 /\ DefaultPolicy.tokens = {}
  BY DEF DefaultPolicy
<1>4. DefaultPolicy \in Policies
  BY DefaultPolicyTyped
<1>5. "mode" \in ToSet(PolicyKeys) =>
         policy.mode = IF f.mode \in Modes THEN f.mode ELSE "relaxed"
  BY <1>4, TextAssumption DEF Field, Loads, Take, PolicyValue, OneOf, Policies, Modes
<1>6. "require_token" \in ToSet(PolicyKeys) => policy.tokenRequired = f.require
  BY <1>1, <1>4, TextAssumption DEF Field, Loads, Take, PolicyValue, Policies
<1>7. "token_location" \in ToSet(PolicyKeys) =>
         policy.tokenLocation = IF f.location \in TokenLocations THEN f.location ELSE "subject"
  BY <1>4, TextAssumption DEF Field, Loads, Take, PolicyValue, OneOf, Policies, TokenLocations
<1>8. "tokens" \in ToSet(PolicyKeys) =>
         policy.tokens = IF f.tokens = Blank THEN {} ELSE f.tokens
  BY <1>3, <1>4 DEF Field, Loads, Take, PolicyValue, Policies
<1>9. "max_email_mb" \in ToSet(PolicyKeys) => policy.maxSize = PositiveOr(10, f.maxEmail)
  BY <1>1, <1>2, <1>3, <1>4 DEF Field, Loads, Take, PolicyValue, Policies
<1>10. "max_attachments" \in ToSet(PolicyKeys) =>
          policy.maxAttachments = PositiveOr(5, f.maxAttachments)
  BY <1>1, <1>2, <1>3, <1>4 DEF Field, Loads, Take, PolicyValue, Policies
<1>11. "max_attach_mb" \in ToSet(PolicyKeys) => policy.maxAttachSize = PositiveOr(5, f.maxAttach)
  BY <1>1, <1>2, <1>3, <1>4 DEF Field, Loads, Take, PolicyValue, Policies
<1> QED
  BY <1>5, <1>6, <1>7, <1>8, <1>9, <1>10, <1>11 DEF Honours

\* The table holds what the form stores for a key.
Holds(table, f, i) == table[PolicyKeys[i]] = PolicyValue(f, PolicyKeys[i])

\* A save that nothing has disturbed finds the keys it has written as it wrote them.
KeysKept ==
    \A s \in Savers :
        At(s, "save") /\ saver[s].form \in PolicyForms /\ saver[s].clean
           /\ saver[s].next <= KeyCount
        => \A i \in 1 .. saver[s].next - 1 : Holds(settings, saver[s].form, i)

\* The policy form saved last is what is stored.
KeysSettled == settled # NoForm => \A i \in 1 .. KeyCount : Holds(settings, settled, i)

\* A load that no write and no failed read has met holds what is stored, as far
\* as it has come.
KeysLoaded ==
    LoopAt("policy") /\ ~torn =>
        \A i \in 1 .. KeyCount :
            LET key == PolicyKeys[i]
            IN  Field(loop.policy, key) =
                   IF i < loop.next THEN Loads(key, settings[key]) ELSE Field(DefaultPolicy, key)

\* The table after a write: the other keys stay, and the key is written unless
\* the write fails.
WriteOf(s, table, good) ==
    /\ \A key \in Keys : key # NextWrite(s).key => table[key] = settings[key]
    /\ good => table[NextWrite(s).key] = NextWrite(s).value

\* A write of a key that is none of the policy's.
LEMMA KeysElsewhere ==
    ASSUME TypeInv, KeysKept, KeysSettled, KeysLoaded,
           NEW s \in Savers, At(s, "save"), NEW table, NEW good \in BOOLEAN,
           Saved(s, table, good), WriteOf(s, table, good), UNCHANGED loop,
           NextWrite(s).key \notin ToSet(PolicyKeys)
    PROVE  KeysKept' /\ KeysSettled' /\ KeysLoaded'
<1>1. settings' = table /\ settled' = settled /\ (~torn' => ~torn)
  BY DEF Saved
<1>2. \A i \in 1 .. KeyCount : PolicyKeys[i] \in Keys /\ PolicyKeys[i] \in ToSet(PolicyKeys)
  BY PolicyKeysFacts DEF Keys
<1>3. \A i \in 1 .. KeyCount : settings'[PolicyKeys[i]] = settings[PolicyKeys[i]]
  BY <1>1, <1>2 DEF WriteOf
<1>4. saver[s].form \in Forms /\ saver[s].next \in 1 .. Len(FormWrites(saver[s].form))
      /\ KeyCount \in Nat
  BY SaverAt, PolicyKeysFacts
<1>5. saver[s].form \in PolicyForms => saver[s].next > KeyCount
  BY <1>4, FormWritesFacts DEF NextWrite
<1>6. ASSUME NEW q \in Savers, saver'[q].pc = "save", saver'[q].form \in PolicyForms,
             saver'[q].clean, saver'[q].next <= KeyCount
      PROVE  /\ saver[q].pc = "save" /\ saver[q].form = saver'[q].form
             /\ saver[q].clean /\ saver[q].next = saver'[q].next
  <2>1. q # s
    BY <1>4, <1>5, <1>6, SavedOwn DEF IdleSaver
  <2> QED
    BY <1>6, <2>1, SavedOther
<1>7. \A q \in Savers, i \in Nat :
         At(q, "save") => (i \in 1 .. saver[q].next - 1 /\ saver[q].next <= KeyCount
                              => i \in 1 .. KeyCount)
  BY <1>4, SaverAt
<1>8. KeysKept'
  <2> SUFFICES ASSUME NEW q \in Savers, saver'[q].pc = "save", saver'[q].form \in PolicyForms,
                      saver'[q].clean, saver'[q].next <= KeyCount,
                      NEW i, i \in 1 .. saver'[q].next - 1
               PROVE  Holds(settings', saver'[q].form, i)
    BY DEF KeysKept, At
  <2>1. /\ saver[q].pc = "save" /\ saver[q].form = saver'[q].form
        /\ saver[q].clean /\ saver[q].next = saver'[q].next
    BY <1>6
  <2>2. i \in 1 .. KeyCount /\ Holds(settings, saver[q].form, i)
    BY <1>7, <2>1 DEF KeysKept, At
  <2> QED
    BY <1>3, <2>1, <2>2 DEF Holds
<1>9. KeysSettled'
  BY <1>1, <1>3 DEF KeysSettled, Holds
<1>10. KeysLoaded'
  BY <1>1, <1>3 DEF KeysLoaded, LoopAt
<1> QED
  BY <1>8, <1>9, <1>10

\* A write of a key of the policy.
LEMMA KeysWritten ==
    ASSUME TypeInv, KeysKept, KeysSettled, KeysLoaded,
           NEW s \in Savers, At(s, "save"), NEW table, NEW good \in BOOLEAN,
           Saved(s, table, good), WriteOf(s, table, good), UNCHANGED loop,
           NextWrite(s).key \in ToSet(PolicyKeys)
    PROVE  KeysKept' /\ KeysSettled' /\ KeysLoaded'
<1> DEFINE f == saver[s].form
           n == saver[s].next
           key == NextWrite(s).key
<1>1. f \in Forms /\ n \in 1 .. Len(FormWrites(f)) /\ KeyCount \in Nat
  BY SaverAt, PolicyKeysFacts
<1>2. f \in PolicyForms /\ n <= KeyCount
  BY <1>1, FormWritesFacts DEF NextWrite
<1>3. n \in 1 .. KeyCount
  BY <1>1, <1>2
<1>4. NextWrite(s) = Write(PolicyKeys[n], PolicyValue(f, PolicyKeys[n]))
  BY <1>2, <1>3, PolicyFormWrites DEF NextWrite
<1>5. key = PolicyKeys[n] /\ NextWrite(s).value = PolicyValue(f, PolicyKeys[n])
  BY <1>4 DEF Write
<1>6. \A i \in 1 .. KeyCount : i # n => PolicyKeys[i] # key /\ PolicyKeys[i] \in Keys
  BY <1>3, <1>5, PolicyKeysFacts DEF Keys
<1>7. key \notin FilterKeys
  BY PolicyKeysFacts
<1>8. settings' = table
  BY DEF Saved
<1>9. ASSUME saver[s].clean, good
      PROVE  \A i \in 1 .. n : Holds(settings', f, i)
  <2>1. \A i \in 1 .. n - 1 : Holds(settings, f, i)
    BY <1>2, <1>9 DEF KeysKept
  <2>2. \A i \in 1 .. n - 1 : i \in 1 .. KeyCount /\ i # n
    <3> HIDE DEF n
    <3> QED
      BY <1>1, <1>3
  <2>3. \A i \in 1 .. n - 1 : i \in 1 .. KeyCount /\ i # n /\ Holds(settings, f, i)
    BY <2>1, <2>2
  <2>4. \A i \in 1 .. n - 1 : Holds(settings', f, i)
    BY <1>6, <1>8, <2>3 DEF Holds, WriteOf
  <2>5. Holds(settings', f, n)
    BY <1>5, <1>8, <1>9 DEF Holds, WriteOf
  <2>6. \A i \in 1 .. n : i = n \/ i \in 1 .. n - 1
    BY <1>3
  <2> HIDE DEF f, n
  <2> QED
    BY <2>4, <2>5, <2>6
<1>10. KeysKept'
  <2> SUFFICES ASSUME NEW q \in Savers, saver'[q].pc = "save", saver'[q].form \in PolicyForms,
                      saver'[q].clean, saver'[q].next <= KeyCount,
                      NEW i, i \in 1 .. saver'[q].next - 1
               PROVE  Holds(settings', saver'[q].form, i)
    BY DEF KeysKept, At
  <2>1. CASE q = s
    <3>1. saver'[s].form = f /\ saver'[s].next = n + 1 /\ saver[s].clean /\ good
      BY <1>7, <2>1, SavedOwn DEF IdleSaver
    <3>2. i \in 1 .. n
      BY <1>3, <2>1, <3>1
    <3> QED
      BY <1>9, <2>1, <3>1, <3>2
  <2>2. CASE q # s
    <3>1. saver[q].pc = "save" /\ saver[q].form = saver'[q].form /\ q \notin Rivals(s)
          /\ saver[q].next = saver'[q].next
      BY <1>7, <2>2, SavedOther
    <3>2. saver[q].next \in Nat /\ saver[q].next > 1 /\ saver[q].form \in Forms
      BY <3>1, SaverAt, FormWritesFacts DEF At
    <3>3. Midway(q)
      BY <3>1, <3>2, SaverAt DEF At
    <3>4. Half(saver[q].form) = Half(saver[s].form)
      BY <1>2, <3>1, HalfFacts DEF Forms
    <3> QED
      BY <2>2, <3>1, <3>3, <3>4 DEF Rivals
  <2> QED
    BY <2>1, <2>2
<1>11. KeysSettled'
  <2> SUFFICES ASSUME settled' # NoForm PROVE \A i \in 1 .. KeyCount : Holds(settings', settled', i)
    BY DEF KeysSettled
  <2>1. key = Last(PolicyKeys) /\ saver[s].clean /\ good /\ settled' = f
    BY <1>7 DEF Saved
  <2>2. n = KeyCount
    <3> HIDE DEF f, n, key
    <3>1. PolicyKeys[n] = PolicyKeys[KeyCount] /\ KeyCount \in 1 .. KeyCount
      BY <1>5, <2>1, PolicyKeysFacts
    <3> QED
      BY <1>3, <3>1, PolicyKeysFacts
  <2> QED
    BY <1>9, <2>1, <2>2
<1>12. KeysLoaded'
  BY DEF Saved, KeysLoaded, LoopAt
<1> QED
  BY <1>10, <1>11, <1>12

LEMMA KeysSaved ==
    ASSUME TypeInv, KeysKept, KeysSettled, KeysLoaded, NEW s \in Savers,
           SaveKey(s) \/ SaveKeyFails(s)
    PROVE  KeysKept' /\ KeysSettled' /\ KeysLoaded'
<1>1. CASE SaveKey(s)
  <2> DEFINE table == [settings EXCEPT ![NextWrite(s).key] = NextWrite(s).value]
  <2>1. At(s, "save") /\ Saved(s, table, TRUE) /\ UNCHANGED loop
    BY <1>1 DEF SaveKey
  <2>2. NextWrite(s).key \in Keys
    BY <2>1, SaverAt, FormWritesFacts DEF NextWrite
  <2>3. WriteOf(s, table, TRUE)
    BY <2>2 DEF WriteOf, TypeInv, TypeOK
  <2> HIDE DEF table
  <2> QED
    BY <2>1, <2>3, KeysElsewhere, KeysWritten
<1>2. CASE SaveKeyFails(s)
  <2>1. At(s, "save") /\ Saved(s, settings, FALSE) /\ UNCHANGED loop
    BY <1>2 DEF SaveKeyFails
  <2>2. WriteOf(s, settings, FALSE)
    BY DEF WriteOf
  <2> QED
    BY <2>1, <2>2, KeysElsewhere, KeysWritten
<1> QED
  BY <1>1, <1>2

\* What a step beside those that save does to the load.
LEMMA LoadSteps ==
    ASSUME TypeInv, [Next]_vars,
           \A s \in Savers : ~SaveKey(s) /\ ~SaveKeyFails(s)
    PROVE  \/ torn' /\ ReadPolicyKeyFails
           \/ loop'.pc # "policy" /\ (LoopAt("run") \/ loop'.pc # "run")
           \/ LoopAt("config") /\ loop'.next = 1 /\ loop'.policy = DefaultPolicy
                /\ loop'.pc = "policy"
           \/ ReadPolicyKey /\ torn' = torn
           \/ UNCHANGED <<loop, torn>>
<1>1. loop \in LoopStates /\ torn \in BOOLEAN
  BY DEF TypeInv, TypeOK
<1>2. ASSUME NEW s \in Savers, Serve(s) PROVE UNCHANGED <<loop, torn>>
  BY <1>2 DEF Serve, CheckIPv6, CheckIPv6Fails, Arrive, CheckSubnets, CheckSubnetsFails,
              historyVars
<1>3. ASSUME Backoff PROVE loop'.pc = "backoff"
  BY <1>1, <1>3 DEF Backoff, LoopStates
<1>4. CASE Poll
  <2>1. CASE LoadConfig
    <3>1. CASE Configured
      BY <1>1, <2>1, <3>1 DEF LoadConfig, LoopAt, LoopStates, TypeInv, LoopOK
    <3> QED
      BY <1>3, <2>1, <3>1 DEF LoadConfig
  <2>2. CASE ReadPolicyKey
    <3>1. torn' = torn
      BY <1>1, <1>4, <2>2 DEF Poll, ReadPolicyKey, LoopAt
    <3> QED
      BY <2>2, <3>1
  <2>3. CASE RunSucceeds
    BY <2>3 DEF RunSucceeds, StartLoop
  <2>4. CASE RunFails
    BY <1>3, <2>4 DEF RunFails
  <2>5. CASE Wake
    <3>1. loop'.pc = "config"
      BY <1>1, <2>5 DEF Wake, LoopStates
    <3> QED
      BY <3>1
  <2> QED
    BY <1>4, <2>1, <2>2, <2>3, <2>4, <2>5 DEF Poll, LoopStep
<1>5. CASE PollFails
  BY <1>3, <1>5 DEF PollFails
<1>6. CASE Panic \/ Restart
  <2>1. loop'.pc \in {"dead", "config"}
    BY <1>6 DEF Panic, Restart, RunPanics, StartLoop
  <2> QED
    BY <2>1
<1>7. CASE UNCHANGED vars
  BY <1>7 DEF vars, historyVars
<1> QED
  BY <1>2, <1>4, <1>5, <1>6, <1>7 DEF Next

\* One more key of the policy is read.
LEMMA KeyLoaded ==
    ASSUME TypeInv, KeysLoaded, ReadPolicyKey, ~torn
    PROVE  \A i \in 1 .. KeyCount :
              LET key == PolicyKeys[i]
              IN  Field(loop'.policy, key) =
                     IF i < loop.next + 1 THEN Loads(key, settings[key])
                     ELSE Field(DefaultPolicy, key)
<1> DEFINE n == loop.next
           read == PolicyKeys[n]
<1>1. LoopAt("policy") /\ loop.policy \in Policies /\ n \in 1 .. KeyCount /\ KeyCount \in Nat
  BY PolicyKeysFacts DEF ReadPolicyKey, TypeInv, TypeOK, LoopStates, LoopOK, LoopAt
<1>2. loop'.policy = Take(loop.policy, read, settings[read])
  BY DEF ReadPolicyKey, Loaded, TypeInv, TypeOK, LoopStates
<1>3. read \in ToSet(PolicyKeys) /\ Field(loop.policy, read) = Field(DefaultPolicy, read)
  <2>1. ~(n < n)
    BY <1>1
  <2> QED
    BY <1>1, <2>1, PolicyKeysFacts DEF KeysLoaded
<1> SUFFICES ASSUME NEW i \in 1 .. KeyCount
             PROVE  Field(loop'.policy, PolicyKeys[i]) =
                       IF i < n + 1 THEN Loads(PolicyKeys[i], settings[PolicyKeys[i]])
                       ELSE Field(DefaultPolicy, PolicyKeys[i])
  OBVIOUS
<1>4. PolicyKeys[i] \in ToSet(PolicyKeys) /\ (PolicyKeys[i] = read => i = n)
  BY <1>1, PolicyKeysFacts
<1>5. Field(loop'.policy, PolicyKeys[i]) =
         IF PolicyKeys[i] = read THEN Loads(read, settings[read])
         ELSE Field(loop.policy, PolicyKeys[i])
  BY <1>1, <1>2, <1>3, <1>4, TakeField
<1>6. CASE i = n
  BY <1>1, <1>5, <1>6
<1>7. CASE i # n
  <2>1. Field(loop.policy, PolicyKeys[i]) =
           IF i < n THEN Loads(PolicyKeys[i], settings[PolicyKeys[i]])
           ELSE Field(DefaultPolicy, PolicyKeys[i])
    BY <1>1 DEF KeysLoaded
  <2>2. i < n + 1 <=> i < n
    BY <1>1, <1>7
  <2> QED
    BY <1>4, <1>5, <1>7, <2>1, <2>2
<1> QED
  BY <1>6, <1>7

LEMMA KeysLoadedStep ==
    ASSUME TypeInv, KeysLoaded, [Next]_vars, UNCHANGED settings,
           \A s \in Savers : ~SaveKey(s) /\ ~SaveKeyFails(s)
    PROVE  KeysLoaded'
<1>1. CASE ReadPolicyKey /\ torn' = torn
  <2>1. loop'.next = loop.next + 1
    BY <1>1 DEF ReadPolicyKey, Loaded, TypeInv, TypeOK, LoopStates
  <2> SUFFICES ASSUME ~torn PROVE KeysLoaded'
    BY <1>1 DEF KeysLoaded
  <2> QED
    BY <1>1, <2>1, KeyLoaded DEF KeysLoaded
<1>2. CASE loop'.next = 1 /\ loop'.policy = DefaultPolicy
  BY <1>2 DEF KeysLoaded
<1>3. CASE UNCHANGED <<loop, torn>>
  BY <1>3 DEF KeysLoaded, LoopAt
<1>4. CASE torn' \/ loop'.pc # "policy"
  BY <1>4 DEF KeysLoaded, LoopAt
<1> QED
  BY <1>1, <1>2, <1>3, <1>4, LoadSteps

LEMMA KeysAside ==
    ASSUME KeysKept, KeysSettled, Aside, UNCHANGED settled
    PROVE  KeysKept' /\ KeysSettled'
<1>1. ASSUME NEW q \in Savers, saver'[q].pc = "save", NEW i, i \in 1 .. saver'[q].next - 1
      PROVE  saver'[q] = saver[q]
  <2>1. saver'[q].next # 1
    BY <1>1
  <2> QED
    BY <1>1, <2>1 DEF Aside
<1>2. KeysKept'
  BY <1>1 DEF KeysKept, At, Aside
<1> QED
  BY <1>2 DEF KeysSettled, Aside

LEMMA KeysStep ==
    ASSUME TypeInv, Unused, KeysKept, KeysSettled, KeysLoaded, [Next]_vars
    PROVE  KeysKept' /\ KeysSettled' /\ KeysLoaded'
<1>1. CASE \E s \in Savers : SaveKey(s) \/ SaveKeyFails(s)
  BY <1>1, KeysSaved
<1>2. CASE /\ \A s \in Savers : ~SaveKey(s) /\ ~SaveKeyFails(s)
           /\ Restart
  <2>1. UNCHANGED <<settings, settled>> /\ \A q \in Savers : saver'[q].pc = "idle"
    BY <1>2 DEF Restart, IdleSaver
  <2>2. KeysKept' /\ KeysSettled'
    BY <2>1 DEF KeysKept, KeysSettled, At
  <2> QED
    BY <1>2, <2>1, <2>2, KeysLoadedStep
<1>3. CASE /\ \A s \in Savers : ~SaveKey(s) /\ ~SaveKeyFails(s)
           /\ Aside /\ UNCHANGED <<settled, chosen>>
  BY <1>3, KeysAside, KeysLoadedStep DEF Aside
<1> QED
  BY <1>1, <1>2, <1>3, IntakeSteps

\* A run begins with the last read of the policy.
LEMMA RunHonours ==
    ASSUME TypeInv, TypeInv', Unused, KeysSettled, KeysLoaded, [Next]_vars,
           ~LoopAt("run"), loop'.pc = "run", ~torn', settled' # NoForm
    PROVE  Honours(loop'.policy, settled')
<1>1. ASSUME NEW s \in Savers, SaveKey(s) \/ SaveKeyFails(s) PROVE FALSE
  BY <1>1 DEF SaveKey, SaveKeyFails, LoopAt
<1>2. ReadPolicyKey /\ ~torn
  BY <1>1, LoadSteps DEF LoopAt
<1>3. settled' = settled
  <2>1. ~Restart
    BY DEF Restart, StartLoop
  <2> QED
    BY <1>1, <2>1, IntakeSteps
<1>4. settled \in PolicyForms /\ loop'.policy \in Policies
  BY <1>3 DEF TypeInv, TypeOK, LoopStates
<1>5. loop.next = KeyCount /\ KeyCount \in Nat
  BY <1>2, PolicyKeysFacts
     DEF ReadPolicyKey, Loaded, KeyCount, TypeInv, TypeOK, LoopStates
<1>6. \A i \in 1 .. KeyCount :
         Field(loop'.policy, PolicyKeys[i]) = Loads(PolicyKeys[i], settings[PolicyKeys[i]])
  <2>1. \A i \in 1 .. KeyCount : i < loop.next + 1
    BY <1>5
  <2> QED
    BY <1>2, <2>1, KeyLoaded
<1>7. \A i \in 1 .. KeyCount : settings[PolicyKeys[i]] = PolicyValue(settled, PolicyKeys[i])
  BY <1>3 DEF KeysSettled, Holds
<1>8. \A key \in ToSet(PolicyKeys) :
         Field(loop'.policy, key) = Loads(key, PolicyValue(settled, key))
  BY <1>6, <1>7, PolicyKeysFacts
<1> QED
  BY <1>3, <1>4, <1>8, FieldsHonour

\* A run works with exactly the policy that was saved last, unless its load met
\* a write or a failed read or that save was disturbed, for any subset of the
\* seven keys in any order, any forms and any number of them.
THEOREM RunsPolicyAsSaved == Spec => PolicyAsSaved
<1>1. Init => KeysKept /\ KeysSettled /\ KeysLoaded
  BY DEF Init, LoopInit, StartLoop, KeysKept, KeysSettled, KeysLoaded, At, LoopAt, IdleSaver
<1>2. /\ TypeInv /\ Unused /\ KeysKept /\ KeysSettled /\ KeysLoaded /\ [Next]_vars
      => KeysKept' /\ KeysSettled' /\ KeysLoaded'
  BY KeysStep
<1>3. /\ TypeInv /\ TypeInv' /\ Unused /\ KeysSettled /\ KeysLoaded /\ [Next]_vars
      => (~LoopAt("run") /\ loop'.pc = "run" /\ ~torn' /\ settled' # NoForm
            => Honours(loop'.policy, settled'))
  BY RunHonours
<1> QED
  BY <1>1, <1>2, <1>3, TypeInvAlways, UnusedAlways, PTL DEF Spec, PolicyAsSaved

----------------------------------------------------------------------------
(* The IP filter.                                                          *)

\* The request has come and will not write the list of subnets any more.
Past(q) ==
    /\ q <= submits
    /\ \/ At(q, "idle")
       \/ At(q, "save") /\ saver[q].form \in PolicyForms /\ saver[q].next = KeyCount + 2

\* What a request that waits for the second check knows, as long as the filter
\* has not admitted it and at most one save has changed the filter: its address
\* is in no subnet, and only a save that is past the list can have shut IPv6 out.
ShutOut(s) ==
    At(s, "subnets") /\ ~saver[s].admitted =>
        /\ saver[s].changes = {} =>
              /\ ~PassesSubnets(settings, saver[s].ip)
              /\ PassesIPv6(settings, saver[s].ip)
        /\ \A q \in Savers : saver[s].changes = {q} =>
              /\ ~PassesSubnets(settings, saver[s].ip)
              /\ PassesIPv6(settings, saver[s].ip) \/ Past(q)

FilterInv == \A s \in Savers : ShutOut(s)

\* A filter key is written only by a policy form, the list before the flag.
LEMMA FilterWriteAt ==
    ASSUME TypeInv, NEW s \in Savers, At(s, "save"), NextWrite(s).key \in FilterKeys
    PROVE  /\ saver[s].form \in PolicyForms /\ KeyCount \in Nat
           /\ Len(FormWrites(saver[s].form)) = KeyCount + 2
           /\ \/ saver[s].next = KeyCount + 1 /\ NextWrite(s).key = "allowed_subnets"
              \/ saver[s].next = KeyCount + 2 /\ NextWrite(s).key = "disable_ipv6"
<1>1. saver[s].form \in Forms /\ saver[s].next \in 1 .. Len(FormWrites(saver[s].form))
      /\ KeyCount \in Nat
  BY SaverAt, PolicyKeysFacts
<1>2. NextWrite(s).key \notin ToSet(PolicyKeys) /\ NextWrite(s).key \notin ToSet(MailboxKeys)
  BY PolicyKeysFacts DEF FilterKeys
<1>3. saver[s].form \in PolicyForms /\ saver[s].next > KeyCount
  BY <1>1, <1>2, FormWritesFacts DEF NextWrite, Forms
<1> QED
  BY <1>1, <1>3, PolicyFormWrites DEF NextWrite

\* A request that is past the list stays so.
LEMMA PastStays ==
    ASSUME TypeInv, NEW s \in Savers, At(s, "save"), NEW table, NEW good \in BOOLEAN,
           Saved(s, table, good), UNCHANGED submits, NEW q \in Savers, Past(q)
    PROVE  Past(q)'
<1>1. CASE q = s
  <2>1. saver[s].form \in PolicyForms /\ saver[s].next = KeyCount + 2 /\ KeyCount \in Nat
    BY <1>1, PolicyKeysFacts DEF Past, At
  <2>2. Len(FormWrites(saver[s].form)) \in {KeyCount, KeyCount + 2}
        /\ saver[s].next \in 1 .. Len(FormWrites(saver[s].form))
    BY <2>1, SaverAt, PolicyFormWrites
  <2>3. saver'[s].pc = "idle"
    BY <2>1, <2>2, SavedOwn DEF IdleSaver
  <2> QED
    BY <1>1, <2>3 DEF Past, At
<1>2. CASE q # s
  BY <1>2, SavedOther DEF Past, At
<1> QED
  BY <1>1, <1>2

\* One write of a form, seen by a request between its two checks.
LEMMA FilterWritten ==
    ASSUME TypeInv, Unused, FilterInv, NEW s \in Savers, At(s, "save"), NEW table,
           NEW good \in BOOLEAN, Saved(s, table, good), WriteOf(s, table, good),
           UNCHANGED submits
    PROVE  FilterInv'
<1> SUFFICES ASSUME NEW q \in Savers, saver'[q].pc = "subnets", ~saver'[q].admitted
             PROVE  /\ saver'[q].changes = {} =>
                          /\ ~PassesSubnets(settings', saver'[q].ip)
                          /\ PassesIPv6(settings', saver'[q].ip)
                    /\ \A p \in Savers : saver'[q].changes = {p} =>
                          /\ ~PassesSubnets(settings', saver'[q].ip)
                          /\ PassesIPv6(settings', saver'[q].ip) \/ Past(p)'
  BY DEF FilterInv, ShutOut, At
<1> DEFINE key == NextWrite(s).key
           ip == saver[q].ip
<1>1. q # s
  BY SavedOwn DEF IdleSaver
<1>2. At(q, "subnets") /\ saver'[q].ip = ip
  BY <1>1, SavedOther DEF At
<1>3. settings' = table
  BY DEF Saved
<1>4. {"allowed_subnets", "disable_ipv6"} \subseteq Keys
  BY DEF Keys, FilterKeys
<1>5. CASE key \notin FilterKeys
  <2>1. table["allowed_subnets"] = settings["allowed_subnets"]
        /\ table["disable_ipv6"] = settings["disable_ipv6"]
    BY <1>4, <1>5 DEF WriteOf, FilterKeys
  <2>2. saver[q].admitted = saver'[q].admitted /\ saver[q].changes = saver'[q].changes
    BY <1>1, <1>5, SavedOther
  <2>3. /\ saver[q].changes = {} => ~PassesSubnets(settings, ip) /\ PassesIPv6(settings, ip)
        /\ \A p \in Savers : saver[q].changes = {p} =>
              /\ ~PassesSubnets(settings, ip)
              /\ PassesIPv6(settings, ip) \/ Past(p)
    BY <1>2, <2>2 DEF FilterInv, ShutOut
  <2>4. /\ PassesSubnets(table, ip) <=> PassesSubnets(settings, ip)
        /\ PassesIPv6(table, ip) <=> PassesIPv6(settings, ip)
    BY <2>1 DEF PassesSubnets, PassesIPv6
  <2> QED
    BY <1>2, <1>3, <2>2, <2>3, <2>4, PastStays
<1>6. CASE key \in FilterKeys
  <2>1. ~saver[q].admitted /\ ~Admits(table, ip) /\ saver'[q].changes = saver[q].changes \cup {s}
    BY <1>1, <1>2, <1>6, SavedOther
  <2>2. saver'[q].changes # {}
        /\ \A p \in Savers : saver'[q].changes = {p} =>
              p = s /\ (saver[q].changes = {} \/ saver[q].changes = {s})
    BY <2>1
  <2> SUFFICES ASSUME saver[q].changes = {} \/ saver[q].changes = {s}
               PROVE  /\ ~PassesSubnets(table, ip)
                      /\ PassesIPv6(table, ip) \/ Past(s)'
    BY <1>2, <1>3, <2>2
  <2>3. ~PassesSubnets(settings, ip) /\ (PassesIPv6(settings, ip) \/ Past(s))
    BY <1>2, <2>1 DEF FilterInv, ShutOut
  <2>4. CASE saver[s].next = KeyCount + 1 /\ key = "allowed_subnets"
    <3>1. PassesIPv6(settings, ip)
      BY <1>6, <2>3, <2>4, FilterWriteAt DEF Past, At
    <3>2. PassesIPv6(table, ip)
      BY <1>4, <2>4, <3>1 DEF PassesIPv6, WriteOf
    <3> QED
      BY <2>1, <3>2 DEF Admits
  <2>5. CASE saver[s].next = KeyCount + 2 /\ key = "disable_ipv6"
    <3>1. ~PassesSubnets(table, ip)
      BY <1>4, <2>3, <2>5 DEF PassesSubnets, WriteOf
    <3>2. saver'[s].pc = "idle"
      BY <1>6, <2>5, FilterWriteAt, SavedOwn DEF IdleSaver
    <3>3. s <= submits
      BY DEF Unused, At, TypeInv, TypeOK, Savers
    <3> QED
      BY <3>1, <3>2, <3>3 DEF Past, At
  <2> QED
    BY <1>6, <2>4, <2>5, FilterWriteAt
<1> QED
  BY <1>5, <1>6

\* A step that changes one request, which waits for no check and is not past the
\* list, leaves the others what they know.
LEMMA FilterOthers ==
    ASSUME FilterInv, NEW s \in Savers, UNCHANGED settings,
           submits' >= submits, submits \in Nat, submits' \in Nat,
           \A q \in Savers : q # s => saver'[q] = saver[q],
           ~Past(s), ShutOut(s)'
    PROVE  FilterInv'
<1>1. \A q \in Savers : Past(q) => Past(q)'
  BY DEF Past, At, Savers
<1>2. ASSUME NEW q \in Savers, q # s PROVE ShutOut(q)'
  <2>1. ShutOut(q) /\ saver'[q] = saver[q]
    BY <1>2 DEF FilterInv
  <2> QED
    BY <1>1, <2>1 DEF ShutOut, At
<1> QED
  BY <1>2 DEF FilterInv

LEMMA FilterArrive ==
    ASSUME TypeInv, Unused, FilterInv, NEW s \in Savers, NEW ip, NEW form,
           CheckIPv6(s, ip, form) \/ CheckIPv6Fails(s, ip, form)
    PROVE  FilterInv'
<1>1. PICK admitted \in BOOLEAN :
         /\ Arrive(s, ip, form, admitted)
         /\ ~admitted => PassesIPv6(settings, ip) /\ ~PassesSubnets(settings, ip)
  BY DEF CheckIPv6, CheckIPv6Fails, Admits
<1> DEFINE r == [IdleSaver EXCEPT !.pc = "subnets", !.ip = ip, !.form = form,
                                  !.admitted = admitted]
<1>2. saver' = [saver EXCEPT ![s] = r] /\ UNCHANGED settings /\ s = submits + 1 /\ submits' = s
  BY <1>1 DEF Arrive
<1>3. r.admitted = admitted /\ r.changes = {} /\ r.ip = ip
  BY DEF IdleSaver
<1>4. DOMAIN saver = Savers /\ submits \in Nat
  BY DEF TypeInv, TypeOK
<1> HIDE DEF r
<1>5. saver'[s] = r /\ \A q \in Savers : q # s => saver'[q] = saver[q]
  BY <1>2, <1>4
<1>6. ~Past(s)
  BY <1>2, <1>4 DEF Past
<1>7. ShutOut(s)'
  BY <1>1, <1>2, <1>3, <1>5 DEF ShutOut, At
<1>8. submits' >= submits /\ submits' \in Nat
  BY <1>2, <1>4
<1> QED
  BY <1>2, <1>4, <1>5, <1>6, <1>7, <1>8, FilterOthers

LEMMA FilterEnter ==
    ASSUME TypeInv, FilterInv, NEW s \in Savers, At(s, "subnets"),
           Enter(s) \/ saver' = [saver EXCEPT ![s] = IdleSaver],
           UNCHANGED <<settings, submits>>
    PROVE  FilterInv'
<1>1. DOMAIN saver = Savers /\ submits \in Nat /\ saver[s] \in SaverStates
  BY DEF TypeInv, TypeOK
<1>2. saver'[s].pc # "subnets" /\ \A q \in Savers : q # s => saver'[q] = saver[q]
  <2>1. CASE Enter(s)
    BY <1>1, <2>1 DEF Enter, SaverStates
  <2>2. CASE saver' = [saver EXCEPT ![s] = IdleSaver]
    BY <1>1, <2>2 DEF IdleSaver
  <2> QED
    BY <2>1, <2>2
<1>3. ~Past(s) /\ ShutOut(s)'
  BY <1>2 DEF Past, ShutOut, At
<1> QED
  BY <1>1, <1>2, <1>3, FilterOthers

LEMMA FilterStep ==
    ASSUME TypeInv, Unused, FilterInv, [Next]_vars
    PROVE  FilterInv'
<1>1. ASSUME NEW s \in Savers, NEW ip \in Addresses, NEW form \in Forms,
             CheckIPv6(s, ip, form) \/ CheckIPv6Fails(s, ip, form)
      PROVE  FilterInv'
  BY <1>1, FilterArrive
<1>2. ASSUME NEW s \in Savers, CheckSubnets(s) \/ CheckSubnetsFails(s)
      PROVE  FilterInv'
  <2>1. At(s, "subnets") /\ (Enter(s) \/ saver' = [saver EXCEPT ![s] = IdleSaver])
        /\ UNCHANGED <<settings, submits>>
    BY <1>2 DEF CheckSubnets, CheckSubnetsFails
  <2> QED
    BY <2>1, FilterEnter
<1>3. ASSUME NEW s \in Savers, SaveKey(s)
      PROVE  FilterInv'
  <2> DEFINE table == [settings EXCEPT ![NextWrite(s).key] = NextWrite(s).value]
  <2>1. At(s, "save") /\ Saved(s, table, TRUE) /\ UNCHANGED submits
    BY <1>3 DEF SaveKey
  <2>2. NextWrite(s).key \in Keys
    BY <2>1, SaverAt, FormWritesFacts DEF NextWrite
  <2>3. WriteOf(s, table, TRUE)
    BY <2>2 DEF WriteOf, TypeInv, TypeOK
  <2> HIDE DEF table
  <2> QED
    BY <2>1, <2>3, FilterWritten
<1>4. ASSUME NEW s \in Savers, SaveKeyFails(s)
      PROVE  FilterInv'
  <2>1. At(s, "save") /\ Saved(s, settings, FALSE) /\ UNCHANGED submits
    BY <1>4 DEF SaveKeyFails
  <2>2. WriteOf(s, settings, FALSE)
    BY DEF WriteOf
  <2> QED
    BY <2>1, <2>2, FilterWritten
<1>5. CASE Poll \/ PollFails \/ Panic \/ UNCHANGED vars
  <2>1. UNCHANGED <<settings, saver, submits>>
    BY <1>5 DEF Poll, PollFails, Panic, intakeRest, vars
  <2> QED
    BY <2>1 DEF FilterInv, ShutOut, Past, At
<1>6. CASE Restart
  <2>1. \A q \in Savers : saver'[q].pc = "idle"
    BY <1>6 DEF Restart, IdleSaver
  <2> QED
    BY <2>1 DEF FilterInv, ShutOut, At
<1> QED
  BY <1>1, <1>2, <1>3, <1>4, <1>5, <1>6 DEF Next, Serve

\* A set of at most one save is empty or a single save.
LEMMA AtMostOne ==
    ASSUME NEW S \in SUBSET Savers, ~(Cardinality(S) > 1)
    PROVE  S = {} \/ \E q \in Savers : S = {q}
<1>1. MaxSaves \in Nat /\ 1 \in Nat
  BY IntakeAssumption
<1>2. IsFiniteSet(Savers)
  BY <1>1, FS_Interval DEF Savers
<1>3. IsFiniteSet(S) /\ Cardinality(S) \in Nat
  BY <1>2, FS_Subset, FS_CardinalityType
<1>4. CASE Cardinality(S) = 0
  BY <1>3, <1>4, FS_EmptySet
<1>5. CASE Cardinality(S) = 1
  BY <1>3, <1>5, FS_Singleton
<1> QED
  BY <1>3, <1>4, <1>5

\* The second check only lets in a request whose address is in a subnet.
LEMMA EntersAdmitted ==
    ASSUME TypeInv, Unused, FilterInv, [Next]_vars, NEW s \in Savers,
           At(s, "subnets"), saver'[s].pc = "save",
           ~saver[s].admitted, ~(Cardinality(saver[s].changes) > 1)
    PROVE  faults' # faults
<1>1. ~PassesSubnets(settings, saver[s].ip)
  <2>1. saver[s].changes \in SUBSET Savers
    BY DEF TypeInv, TypeOK, SaverStates
  <2> QED
    BY <2>1, AtMostOne DEF FilterInv, ShutOut
<1>2. DOMAIN saver = Savers /\ faults \in Nat /\ submits \in Nat
  BY DEF TypeInv, TypeOK
<1>3. ASSUME NEW q \in Savers, NEW ip \in Addresses, NEW form \in Forms,
             CheckIPv6(q, ip, form) \/ CheckIPv6Fails(q, ip, form)
      PROVE  FALSE
  <2>1. PICK admitted : Arrive(q, ip, form, admitted)
    BY <1>3 DEF CheckIPv6, CheckIPv6Fails
  <2>2. q # s
    BY <1>2, <2>1 DEF Arrive, Unused, At
  <2>3. saver'[s] = saver[s]
    BY <1>2, <2>1, <2>2 DEF Arrive
  <2> QED
    BY <2>3 DEF At
<1>4. ASSUME NEW q \in Savers, CheckSubnets(q) \/ CheckSubnetsFails(q)
      PROVE  faults' # faults
  <2>1. CASE CheckSubnetsFails(q)
    BY <1>2, <2>1 DEF CheckSubnetsFails, Fault
  <2>2. CASE CheckSubnets(q)
    <3>1. CASE q = s
      BY <1>1, <1>2, <2>2, <3>1 DEF CheckSubnets, IdleSaver
    <3>2. CASE q # s
      BY <1>2, <2>2, <3>2 DEF CheckSubnets, Enter, At
    <3> QED
      BY <3>1, <3>2
  <2> QED
    BY <1>4, <2>1, <2>2
<1>5. ASSUME NEW q \in Savers, SaveKey(q) \/ SaveKeyFails(q)
      PROVE  FALSE
  <2>1. PICK good \in BOOLEAN : \E table : Saved(q, table, good)
    BY <1>5 DEF SaveKey, SaveKeyFails
  <2>2. At(q, "save") /\ q # s
    BY <1>5 DEF SaveKey, SaveKeyFails, At
  <2>3. saver'[s].pc = "subnets"
    BY <2>1, <2>2, SavedOther DEF At
  <2> QED
    BY <2>3
<1>6. CASE Poll \/ PollFails \/ Panic \/ UNCHANGED vars
  <2>1. saver' = saver
    BY <1>6 DEF Poll, PollFails, Panic, intakeRest, vars
  <2> QED
    BY <2>1 DEF At
<1>7. CASE Restart
  BY <1>7 DEF Restart, IdleSaver
<1> QED
  BY <1>3, <1>4, <1>5, <1>6, <1>7 DEF Next, Serve

\* The two checks of the filter, read one after the other while forms are being
\* saved, never let a request in that no filter stored meanwhile admits, unless
\* two saves changed the filter between them or a read failed.
THEOREM FilterAdmitsAtOnce == Spec => AdmittedAtOnce
<1>1. Init => FilterInv
  BY DEF Init, FilterInv, ShutOut, At, IdleSaver
<1>2. TypeInv /\ Unused /\ FilterInv /\ [Next]_vars => FilterInv'
  BY FilterStep
<1>3. TypeInv /\ Unused /\ FilterInv /\ [Next]_vars =>
         \A s \in Savers :
            At(s, "subnets") /\ saver'[s].pc = "save" =>
               \/ saver[s].admitted
               \/ Cardinality(saver[s].changes) > 1
               \/ faults' # faults
  BY EntersAdmitted
<1> QED
  BY <1>1, <1>2, <1>3, TypeInvAlways, UnusedAlways, PTL DEF Spec, AdmittedAtOnce
=============================================================================
