---------------------------- MODULE Lifecycle_proofs ----------------------------
(***************************************************************************)
(* The cleanups of a suite, for any suites that register a resource once   *)
(* and in the order in which they make them, and whatever goes wrong.      *)
(***************************************************************************)
EXTENDS Lifecycle, WellFoundedInduction, TLAPS

-----------------------------------------------------------------------------
(* Stacks.                                                                 *)

\* Every element has its place once, and none is behind what R relates it to.
Ordered(s, R) == \A m, n \in DOMAIN s : m < n => <<s[m], s[n]>> \notin R
Once(s) == \A m, n \in DOMAIN s : s[m] = s[n] => m = n

LEMMA Joined ==
  ASSUME NEW T, NEW s \in Seq(T), NEW t \in Seq(T)
  PROVE  /\ s \o t \in Seq(T) /\ Len(s \o t) = Len(s) + Len(t)
         /\ \A j \in 1..Len(s) + Len(t) :
              (s \o t)[j] = IF j <= Len(s) THEN s[j] ELSE t[j - Len(s)]
OBVIOUS

LEMMA RemovedElements ==
  ASSUME NEW T, NEW s \in Seq(T), NEW k \in DOMAIN s, Once(s), NEW R, Ordered(s, R)
  PROVE  /\ RemoveAt(s, k) \in Seq(T) /\ Once(RemoveAt(s, k)) /\ Ordered(RemoveAt(s, k), R)
         /\ Elements(RemoveAt(s, k)) = Elements(s) \ {s[k]}
<1> DEFINE t == RemoveAt(s, k)
           from(j) == IF j < k THEN j ELSE j + 1
<1>1. /\ Len(s) \in Nat /\ k \in 1..Len(s) /\ DOMAIN s = 1..Len(s)
  OBVIOUS
<1> DEFINE below == SubSeq(s, 1, k - 1)
           above == SubSeq(s, k + 1, Len(s))
<1>2. below \in Seq(T) /\ Len(below) = k - 1 /\ \A j \in 1..k - 1 : below[j] = s[j]
  BY <1>1
<1>3. above \in Seq(T) /\ Len(above) = Len(s) - k /\ \A j \in 1..Len(s) - k : above[j] = s[k + j]
  BY <1>1
<1>0. t = below \o above
  BY DEF RemoveAt
<1> HIDE DEF t, below, above
<1>4. t \in Seq(T) /\ Len(t) = Len(s) - 1 /\ DOMAIN t = 1..Len(s) - 1
  <2>1. t \in Seq(T) /\ Len(t) = Len(below) + Len(above)
    BY <1>0, <1>2, <1>3
  <2>. QED
    BY <1>1, <1>2, <1>3, <2>1
<1>5. ASSUME NEW j \in DOMAIN t PROVE t[j] = s[from(j)] /\ from(j) \in DOMAIN s /\ from(j) # k
  <2>1. CASE j < k
    <3>0. j \in 1..Len(below) + Len(above) /\ j <= Len(below)
      BY <1>1, <1>2, <1>3, <1>4, <2>1
    <3>1. t[j] = below[j]
      BY <1>0, <1>2, <1>3, <3>0, Joined
    <3>. QED
      BY <1>1, <1>2, <1>4, <2>1, <3>1
  <2>2. CASE ~(j < k)
    <3>1. j - (k - 1) \in 1..Len(above) /\ t[j] = above[j - (k - 1)]
      <4>1. /\ j \in 1..Len(below) + Len(above) /\ ~(j <= Len(below))
            /\ j - Len(below) = j - (k - 1) /\ j - (k - 1) \in 1..Len(above)
        BY <1>1, <1>2, <1>3, <1>4, <2>2
      <4>. QED
        BY <1>0, <1>2, <1>3, <4>1, Joined
    <3>2. k + (j - (k - 1)) = j + 1
      BY <1>1, <1>4
    <3>. QED
      BY <1>1, <1>3, <1>4, <2>2, <3>1, <3>2
  <2>. QED
    BY <2>1, <2>2
<1>6. \A m, n \in DOMAIN t : /\ from(m) = from(n) => m = n
                             /\ m < n => from(m) < from(n)
  BY <1>1, <1>4
<1>7. \A n \in DOMAIN s : n = k \/ \E j \in DOMAIN t : from(j) = n
  <2> SUFFICES ASSUME NEW n \in DOMAIN s, n # k PROVE \E j \in DOMAIN t : from(j) = n
    OBVIOUS
  <2>1. CASE n < k
    BY <1>1, <1>4, <2>1
  <2>2. CASE n > k
    <3>1. n - 1 \in DOMAIN t /\ from(n - 1) = n
      BY <1>1, <1>4, <2>2
    <3>. QED
      BY <3>1
  <2>. QED
    BY <1>1, <2>1, <2>2
<1> HIDE DEF from
<1>8. Once(t)
  BY <1>5, <1>6 DEF Once
<1>9. Ordered(t, R)
  BY <1>5, <1>6 DEF Ordered
<1>10. Elements(t) = Elements(s) \ {s[k]}
  <2>1. \A j \in DOMAIN t : t[j] \in Elements(s) \ {s[k]}
    BY <1>5 DEF Elements, Once
  <2>2. \A n \in DOMAIN s : n = k \/ s[n] \in Elements(t)
    BY <1>5, <1>7 DEF Elements
  <2>. QED
    BY <2>1, <2>2 DEF Elements
<1>. QED
  BY <1>4, <1>8, <1>9, <1>10 DEF t

LEMMA RemoveAtType ==
  ASSUME NEW T, NEW s \in Seq(T), NEW k \in DOMAIN s
  PROVE  RemoveAt(s, k) \in Seq(T)
<1>1. SubSeq(s, 1, k - 1) \in Seq(T) /\ SubSeq(s, k + 1, Len(s)) \in Seq(T)
  OBVIOUS
<1>. QED
  BY <1>1 DEF RemoveAt

LEMMA AddedElements ==
  ASSUME NEW T, NEW s \in Seq(T), NEW t \in Seq(T), Once(s), Once(t),
         Elements(s) \cap Elements(t) = {}, NEW R, Ordered(s, R), Ordered(t, R),
         \A a \in Elements(s), b \in Elements(t) : <<a, b>> \notin R
  PROVE  /\ s \o t \in Seq(T) /\ Once(s \o t) /\ Ordered(s \o t, R)
         /\ Elements(s \o t) = Elements(s) \cup Elements(t)
<1>1. /\ s \o t \in Seq(T) /\ Len(s \o t) = Len(s) + Len(t)
      /\ Len(s) \in Nat /\ Len(t) \in Nat
  OBVIOUS
<1>2. ASSUME NEW n \in DOMAIN (s \o t)
      PROVE  \/ n \in DOMAIN s /\ (s \o t)[n] = s[n] /\ s[n] \in Elements(s)
             \/ n > Len(s) /\ n - Len(s) \in DOMAIN t /\ (s \o t)[n] = t[n - Len(s)] /\ t[n - Len(s)] \in Elements(t)
  BY <1>1 DEF Elements
<1>3. ASSUME NEW m \in DOMAIN (s \o t), NEW n \in DOMAIN (s \o t), m < n
      PROVE  (s \o t)[m] # (s \o t)[n] /\ <<(s \o t)[m], (s \o t)[n]>> \notin R
  <2>1. CASE m \in DOMAIN s /\ n \in DOMAIN s
    BY <1>1, <1>2, <1>3, <2>1 DEF Once, Ordered
  <2>2. CASE m \in DOMAIN s /\ n > Len(s)
    BY <1>1, <1>2, <1>3, <2>2
  <2>3. CASE m > Len(s) /\ n > Len(s)
    <3>1. /\ m - Len(s) \in DOMAIN t /\ n - Len(s) \in DOMAIN t /\ m - Len(s) < n - Len(s)
          /\ (s \o t)[m] = t[m - Len(s)] /\ (s \o t)[n] = t[n - Len(s)]
      BY <1>1, <1>3, <2>3
    <3>. QED
      BY <3>1 DEF Once, Ordered
  <2>. QED
    <3>1. m \in 1..Len(s) + Len(t) /\ n \in 1..Len(s) + Len(t) /\ DOMAIN s = 1..Len(s)
      BY <1>1
    <3>2. m \in DOMAIN s \/ m > Len(s)
      BY <1>1, <3>1
    <3>3. n \in DOMAIN s \/ n > Len(s)
      BY <1>1, <3>1
    <3>4. m > Len(s) => n > Len(s)
      BY <1>1, <1>3, <3>1
    <3>. QED
      BY <2>1, <2>2, <2>3, <3>2, <3>3, <3>4
<1>4. Once(s \o t) /\ Ordered(s \o t, R)
  <2>1. \A m, n \in DOMAIN (s \o t) : m = n \/ m < n \/ n < m
    BY <1>1
  <2>. QED
    BY <1>3, <2>1 DEF Once, Ordered
<1>5. \A n \in DOMAIN s : n \in DOMAIN (s \o t) /\ (s \o t)[n] = s[n]
  OBVIOUS
<1>6. \A n \in DOMAIN t : Len(s) + n \in DOMAIN (s \o t) /\ (s \o t)[Len(s) + n] = t[n]
  OBVIOUS
<1>7. Elements(s \o t) = Elements(s) \cup Elements(t)
  <2>1. Elements(s) \cup Elements(t) \subseteq Elements(s \o t)
    BY <1>5, <1>6 DEF Elements
  <2>2. Elements(s \o t) \subseteq Elements(s) \cup Elements(t)
    BY <1>2 DEF Elements
  <2>. QED
    BY <2>1, <2>2
<1>. QED
  BY <1>1, <1>4, <1>7

LEMMA Popped ==
  ASSUME NEW T, NEW s \in Seq(T), s # <<>>, Once(s), NEW R, Ordered(s, R)
  PROVE  LET t == SubSeq(s, 1, Len(s) - 1)
         IN  /\ t \in Seq(T) /\ Once(t) /\ Ordered(t, R)
             /\ Elements(t) = Elements(s) \ {s[Len(s)]}
             /\ s[Len(s)] \in Elements(s)
             /\ \A c \in Elements(t) : <<c, s[Len(s)]>> \notin R
<1> DEFINE t == SubSeq(s, 1, Len(s) - 1)
<1>1. Len(s) \in Nat \ {0} /\ DOMAIN s = 1..Len(s) /\ Len(s) \in DOMAIN s
  OBVIOUS
<1>2. t \in Seq(T) /\ DOMAIN t = 1..Len(s) - 1 /\ \A n \in 1..Len(s) - 1 : t[n] = s[n]
  BY <1>1
<1> HIDE DEF t
<1>3. Once(t) /\ Ordered(t, R)
  <2>1. 1..Len(s) - 1 \subseteq DOMAIN s
    BY <1>1
  <2>. QED
    BY <1>2, <2>1 DEF Once, Ordered
<1>4. \A n \in DOMAIN t : n \in DOMAIN s /\ n < Len(s) /\ n # Len(s)
  BY <1>1, <1>2
<1>5. Elements(t) = Elements(s) \ {s[Len(s)]}
  <2>1. Elements(t) \subseteq Elements(s) \ {s[Len(s)]}
    BY <1>1, <1>2, <1>4 DEF Elements, Once
  <2>2. \A n \in DOMAIN s : n = Len(s) \/ n \in DOMAIN t
    BY <1>1, <1>2
  <2>3. Elements(s) \ {s[Len(s)]} \subseteq Elements(t)
    BY <1>2, <2>2 DEF Elements
  <2>. QED
    BY <2>1, <2>3
<1>6. \A c \in Elements(t) : <<c, s[Len(s)]>> \notin R
  BY <1>1, <1>2, <1>4 DEF Elements, Ordered
<1>7. s[Len(s)] \in Elements(s)
  BY <1>1 DEF Elements
<1>. QED
  BY <1>2, <1>3, <1>5, <1>6, <1>7 DEF t

LEMMA Pushed ==
  ASSUME NEW T, NEW s \in Seq(T), Once(s), NEW R, Ordered(s, R), NEW x \in T, x \notin Elements(s),
         \A a \in Elements(s) : <<a, x>> \notin R
  PROVE  /\ Append(s, x) \in Seq(T) /\ Once(Append(s, x)) /\ Ordered(Append(s, x), R)
         /\ Elements(Append(s, x)) = Elements(s) \cup {x}
<1> DEFINE t == Append(s, x)
<1>1. Len(s) \in Nat /\ DOMAIN s = 1..Len(s)
  OBVIOUS
<1>2. /\ t \in Seq(T) /\ DOMAIN t = 1..Len(s) + 1 /\ t[Len(s) + 1] = x
      /\ \A n \in 1..Len(s) : t[n] = s[n]
  OBVIOUS
<1> HIDE DEF t
<1>3. \A n \in DOMAIN t : (n \in DOMAIN s /\ t[n] = s[n] /\ s[n] \in Elements(s)) \/ (n = Len(s) + 1 /\ t[n] = x)
  BY <1>1, <1>2 DEF Elements
<1>4. Once(t)
  BY <1>3 DEF Once
<1>5. Ordered(t, R)
  <2>1. \A m, n \in DOMAIN t : m < n => m \in DOMAIN s
    BY <1>1, <1>2
  <2>. QED
    BY <1>3, <2>1 DEF Ordered
<1>6. \A n \in DOMAIN s : n \in DOMAIN t /\ t[n] = s[n]
  BY <1>1, <1>2
<1>7. Len(s) + 1 \in DOMAIN t
  BY <1>1, <1>2
<1>8. Elements(t) = Elements(s) \cup {x}
  <2>1. Elements(t) \subseteq Elements(s) \cup {x}
    BY <1>3 DEF Elements
  <2>2. Elements(s) \cup {x} \subseteq Elements(t)
    BY <1>2, <1>6, <1>7 DEF Elements
  <2>. QED
    BY <2>1, <2>2
<1>. QED
  BY <1>2, <1>4, <1>5, <1>8 DEF t

LEMMA NoElements ==
  ASSUME NEW R
  PROVE  Elements(<<>>) = {} /\ Once(<<>>) /\ Ordered(<<>>, R)
BY DEF Elements, Once, Ordered

-----------------------------------------------------------------------------
(* The control of a suite.                                                 *)

LEMMA TheStep ==
  ASSUME NEW u \in Suites
  PROVE  /\ Len(Program[u]) \in Nat /\ DOMAIN Program[u] = 1..Len(Program[u])
         /\ \A k \in DOMAIN Program[u] : IsStep(Program[u][k])
BY ProgramAssumption

\* A block is left for a later step, or for the end of the program.
LEMMA LeaveType ==
  ASSUME suite \in Suites, pc \in 1..Len(Script), NEW b
  PROVE  /\ Leave(b) \in pc + 1..Len(Script) + 1
         /\ ~Inside(b, Leave(b)) /\ \A j \in pc + 1..Leave(b) - 1 : Inside(b, j)
<1> DEFINE K == {k \in pc + 1..Len(Script) + 1 : ~Inside(b, k)}
<1>1. Len(Script) \in Nat
  BY TheStep DEF Script
<1>2. Len(Script) + 1 \in K
  BY <1>1 DEF Inside
<1>3. PICK k \in K : \A j \in K : <<j, k>> \notin OpToRel(<, Nat)
  <2>1. K \subseteq Nat
    BY <1>1
  <2>. QED
    BY <1>2, <2>1, WFMin, NatLessThanWellFounded
<1>4. \A j \in pc + 1..k - 1 : Inside(b, j)
  <2> SUFFICES ASSUME NEW j \in pc + 1..k - 1, ~Inside(b, j) PROVE FALSE
    OBVIOUS
  <2>1. j \in K /\ j \in Nat /\ k \in Nat /\ j < k
    BY <1>1
  <2>. QED
    BY <1>3, <2>1 DEF OpToRel
<1>. QED
  BY <1>4 DEF Leave

LEMMA ProceedType ==
  ASSUME suite \in Suites, pc \in 1..Len(Script), phase = "steps",
         outcome \in {"passed", "failed", "stopped"}, NEW v \in Miss, Proceed(v)
  PROVE  /\ pc' \in 1..Len(Script) + 1
         /\ phase' \in {"steps", "sweep", "ended"}
         /\ outcome' \in {"passed", "failed", "stopped"}
         /\ phase' = "steps" => pc' > pc
         /\ phase' = "ended" => outcome' = "stopped"
<1>1. Len(Script) \in Nat
  BY TheStep DEF Script
<1>2. Leave(At.quits) \in pc + 1..Len(Script) + 1
  BY LeaveType
<1>. QED
  BY <1>1, <1>2 DEF Proceed, Miss

-----------------------------------------------------------------------------
(* Types.                                                                  *)

LEMMA EffectType ==
  ASSUME NEW act, NEW r, NEW a, NEW c \in [Resource -> {"none", "live", "dying", "gone"}]
  PROVE  Effect(act, r, a, c) \in [Resource -> {"none", "live", "dying", "gone"}]
BY DEF Effect

LEMMA CountType == \A b \in BOOLEAN : Count(b) \in Nat
BY DEF Count

LEMMA BlameType ==
  ASSUME faults \in 0..MaxFaults, NEW n \in Nat, Blame(n)
  PROVE  faults' \in 0..MaxFaults
BY FaultsAssumption DEF Blame

LEMMA VerdictType ==
  ASSUME NEW s, IsStep(s), NEW g, NEW o, NEW d, NEW m
  PROVE  Verdict(s, g, o, d, m) \in Miss
BY DEF Verdict, IsStep, Miss

LEMMA ElementsType ==
  ASSUME NEW T, NEW s \in Seq(T)
  PROVE  Elements(s) \subseteq T
BY DEF Elements

LEMMA AtType ==
  ASSUME TypeOK, pc <= Len(Script)
  PROVE  pc \in 1..Len(Script) /\ pc \in DOMAIN Script /\ IsStep(At) /\ At.on \in Seq(Resource)
<1>1. Len(Script) \in Nat /\ DOMAIN Script = 1..Len(Script) /\ \A k \in DOMAIN Script : IsStep(Script[k])
  BY TheStep DEF Script, TypeOK
<1>2. pc \in 1..Len(Script)
  BY <1>1 DEF TypeOK
<1>. QED
  BY <1>1, <1>2 DEF At, IsStep

LEMMA addCleanupType ==
  ASSUME TypeOK, NEW rs \in Seq(Resource), addCleanup(rs)
  PROVE  cleanups' \in Seq(Resource) /\ kept' \subseteq Resource /\ required' \in BOOLEAN
BY ElementsType DEF TypeOK, addCleanup

\* What Answered leaves of a step, whatever it was told.
LEMMA AnsweredStep ==
  ASSUME TypeOK, pc <= Len(Script), phase = "steps", NEW g, NEW o,
         NEW d \in BOOLEAN, NEW m \in BOOLEAN, m => At.gone, Answered(At, g, o, d, m)
  PROVE  /\ faults' \in 0..MaxFaults
         /\ misread' \subseteq Resource
         /\ known' \subseteq Resource
         /\ \E v \in Miss : Proceed(v)
         /\ \E rs \in Seq(Resource) : addCleanup(rs) /\ (rs # <<>> => rs = At.on /\ Keeping(At))
<1>1. IsStep(At) /\ At.on \in Seq(Resource)
  BY AtType
<1>2. faults' \in 0..MaxFaults
  <2>1. Trouble(g) + Trouble(o) + Count(d) + Count(m) \in Nat
    <3>1. Trouble(g) \in Nat /\ Trouble(o) \in Nat
      BY DEF Trouble, Count
    <3>. QED
      BY <3>1, CountType
  <2>. QED
    BY <2>1, BlameType DEF Answered, TypeOK
<1>3. misread' \subseteq Resource
  <2>1. m => First(At) \in Resource
    <3>1. m => Len(At.on) >= 1
      BY <1>1 DEF IsStep
    <3>2. Len(At.on) >= 1 => At.on[1] \in Resource /\ At.on # <<>>
      BY <1>1
    <3>. QED
      BY <3>1, <3>2 DEF First
  <2>. QED
    BY <2>1 DEF Answered, TypeOK
<1>4. known' \subseteq Resource
  <2>1. Elements(At.on) \subseteq Resource
    BY <1>1, ElementsType
  <2>. QED
    BY <2>1 DEF Answered, TypeOK
<1>5. \E v \in Miss : Proceed(v)
  BY <1>1, VerdictType DEF Answered
<1>6. \E rs \in Seq(Resource) : addCleanup(rs) /\ (rs # <<>> => rs = At.on /\ Keeping(At))
  <2>1. PICK v, rs : rs = Registers(At, g, v) /\ addCleanup(rs)
    BY DEF Answered
  <2>2. ASSUME rs # <<>> PROVE rs = At.on /\ Keeping(At)
    <3>1. rs = At.on
      BY <2>1, <2>2 DEF Registers
    <3>2. At.act = "make" /\ At.keeps
      BY <2>1, <2>2 DEF Registers
    <3>. QED
      BY <3>1, <3>2 DEF Keeping
  <2>3. rs \in Seq(Resource)
    <3>1. CASE rs = <<>>
      BY <3>1
    <3>2. CASE rs # <<>>
      BY <1>1, <2>2, <3>2
    <3>. QED
      BY <3>1, <3>2
  <2>. QED
    BY <2>1, <2>2, <2>3
<1>. QED
  BY <1>2, <1>3, <1>4, <1>5, <1>6

\* A command goes on, out or into cleanupAll, and may register what it made.
LEMMA CommandStep ==
  ASSUME TypeOK, Command
  PROVE  /\ cloud' \in [Resource -> {"none", "live", "dying", "gone"}]
         /\ faults' \in 0..MaxFaults
         /\ misread' \subseteq Resource
         /\ known' \subseteq Resource
         /\ \E v \in Miss : Proceed(v)
         /\ \E rs \in Seq(Resource) : addCleanup(rs) /\ (rs # <<>> => rs = At.on /\ Keeping(At))
<1>1. pc <= Len(Script) /\ phase = "steps"
  BY DEF Command, Running
<1>2. cloud' \in [Resource -> {"none", "live", "dying", "gone"}]
  <2>1. PICK g, c, o : /\ c = Effect(At.act, First(At), g, cloud)
                       /\ cloud' = IF Both(At, g) THEN Effect(At.act, Second(At), o, c) ELSE c
    BY DEF Command
  <2>2. c \in [Resource -> {"none", "live", "dying", "gone"}]
    BY <2>1, EffectType DEF TypeOK
  <2>. QED
    BY <2>1, <2>2, EffectType
<1>3. \E g, o : \E d, m \in BOOLEAN : (m => At.gone) /\ Answered(At, g, o, d, m)
  <2>1. PICK s, g, o : s = At /\
          \E d \in {FALSE} \cup {b \in {TRUE} : Compared(s, g) /\ "differ" \in Faults},
             m \in {FALSE} \cup {b \in {TRUE} : s.gone /\ ~Exit0(g) /\ "misread" \in Faults} :
                Answered(s, g, o, d, m)
    BY DEF Command
  <2>. QED
    BY <2>1
<1>. QED
  BY <1>1, <1>2, <1>3, AnsweredStep

LEMMA TypeInvariance ==
  ASSUME TypeOK, [Next]_vars
  PROVE  TypeOK'
<1> USE DEF Running
<1>1. CASE Command
  <2>1. pc <= Len(Script) /\ phase = "steps"
    BY <1>1 DEF Command
  <2>2. PICK rs \in Seq(Resource) : addCleanup(rs)
    BY <1>1, CommandStep
  <2>3. cleanups' \in Seq(Resource) /\ kept' \subseteq Resource /\ required' \in BOOLEAN
    BY <2>2, addCleanupType
  <2>4. /\ cloud' \in [Resource -> {"none", "live", "dying", "gone"}]
        /\ faults' \in 0..MaxFaults
        /\ misread' \subseteq Resource
        /\ known' \subseteq Resource
    BY <1>1, CommandStep
  <2>5. /\ pc' \in 1..Len(Script) + 1
        /\ phase' \in {"steps", "sweep", "ended"}
        /\ outcome' \in {"passed", "failed", "stopped"}
    <3>1. PICK v \in Miss : Proceed(v)
      BY <1>1, CommandStep
    <3>. QED
      BY <2>1, <3>1, AtType, ProceedType DEF TypeOK
  <2>6. UNCHANGED <<suite, failures, settled, tried, stuck>>
    BY <1>1 DEF Command
  <2>. QED
    BY <2>3, <2>4, <2>5, <2>6 DEF TypeOK, Script
<1>2. CASE AddCleanup
  <2>1. pc <= Len(Script) /\ phase = "steps" /\ addCleanup(At.on) /\ Proceed("next") /\ "next" \in Miss
    BY <1>2 DEF AddCleanup, Miss
  <2>2. cleanups' \in Seq(Resource) /\ kept' \subseteq Resource /\ required' \in BOOLEAN
    BY <2>1, AtType, addCleanupType
  <2>3. /\ pc' \in 1..Len(Script) + 1
        /\ phase' \in {"steps", "sweep", "ended"}
        /\ outcome' \in {"passed", "failed", "stopped"}
    BY <2>1, AtType, ProceedType DEF TypeOK
  <2>. QED
    BY <1>2, <2>2, <2>3 DEF AddCleanup, TypeOK, Script
<1>3. CASE DropCleanup
  <2>1. pc <= Len(Script) /\ phase = "steps" /\ dropCleanup(At.on[1]) /\ Proceed("next") /\ "next" \in Miss
    BY <1>3 DEF DropCleanup, Miss
  <2>2. cleanups' \in Seq(Resource)
    BY <2>1, RemoveAtType DEF TypeOK, dropCleanup
  <2>3. /\ pc' \in 1..Len(Script) + 1
        /\ phase' \in {"steps", "sweep", "ended"}
        /\ outcome' \in {"passed", "failed", "stopped"}
    BY <2>1, AtType, ProceedType DEF TypeOK
  <2>4. At.on[1] \in Resource
    BY <1>3, <2>1, AtType DEF DropCleanup, IsStep
  <2>. QED
    BY <1>3, <2>1, <2>2, <2>3, <2>4 DEF DropCleanup, dropCleanup, TypeOK, Script
<1>4. CASE Condition
  <2>1. pc <= Len(Script) /\ phase = "steps" /\ \E v \in Miss : Proceed(v)
    BY <1>4 DEF Condition, Miss
  <2>2. /\ pc' \in 1..Len(Script) + 1
        /\ phase' \in {"steps", "sweep", "ended"}
        /\ outcome' \in {"passed", "failed", "stopped"}
    BY <2>1, AtType, ProceedType DEF TypeOK
  <2>. QED
    BY <1>4, <2>2 DEF Condition, TypeOK, Script
<1>5. CASE mustWaitDeleted
  <2>1. pc <= Len(Script) /\ phase = "steps" /\ \E v \in Miss : Proceed(v)
    BY <1>5 DEF mustWaitDeleted, Miss
  <2>2. /\ pc' \in 1..Len(Script) + 1
        /\ phase' \in {"steps", "sweep", "ended"}
        /\ outcome' \in {"passed", "failed", "stopped"}
    BY <2>1, AtType, ProceedType DEF TypeOK
  <2>3. At.on[1] \in Resource
    BY <1>5, <2>1, AtType DEF mustWaitDeleted, IsStep
  <2>4. misread' \subseteq Resource
    BY <1>5, <2>3 DEF mustWaitDeleted, TypeOK
  <2>5. faults' \in 0..MaxFaults
    BY <1>5, BlameType, CountType DEF mustWaitDeleted, TypeOK
  <2>. QED
    BY <1>5, <2>2, <2>4, <2>5 DEF mustWaitDeleted, TypeOK, Script
<1>6. CASE Finish
  BY <1>6 DEF Finish, TypeOK, Script
<1>7. CASE Sweep
  <2>1. PICK a \in Answers("delete", cleanups[Len(cleanups)], cloud), m \in BOOLEAN :
           /\ Blame(Trouble(a) + Count(m))
           /\ cloud' = Effect("delete", cleanups[Len(cleanups)], a, cloud)
           /\ failures' = (failures \/ ~(Exit0(a) \/ looksDeleted(cleanups[Len(cleanups)], a, m, cloud')))
           /\ misread' = IF m /\ a = "refused" THEN misread \cup {cleanups[Len(cleanups)]} ELSE misread
           /\ tried' = Append(tried, cleanups[Len(cleanups)])
           /\ cleanups' = SubSeq(cleanups, 1, Len(cleanups) - 1)
    BY <1>7 DEF Sweep
  <2>2. cleanups \in Seq(Resource) /\ cleanups # <<>> /\ tried \in Seq(Resource)
    BY <1>7 DEF Sweep, TypeOK
  <2>3. Len(cleanups) \in 1..Len(cleanups) /\ cleanups[Len(cleanups)] \in Resource
    BY <2>2
  <2>4. cleanups' \in Seq(Resource) /\ tried' \in Seq(Resource)
    BY <2>1, <2>2, <2>3
  <2>5. cloud' \in [Resource -> {"none", "live", "dying", "gone"}]
    BY <2>1, EffectType DEF TypeOK
  <2>6. faults' \in 0..MaxFaults
    <3>1. Trouble(a) \in Nat /\ Count(m) \in Nat
      BY DEF Trouble, Count
    <3>. QED
      BY <2>1, <3>1, BlameType DEF TypeOK
  <2>7. failures' \in BOOLEAN
    BY <2>1
  <2>8. misread' \subseteq Resource
    BY <2>1, <2>3 DEF TypeOK
  <2>. QED
    BY <1>7, <2>4, <2>5, <2>6, <2>7, <2>8 DEF Sweep, TypeOK, Script
<1>8. CASE SweepEnd
  BY <1>8 DEF SweepEnd, TypeOK, Script
<1>9. CASE \E r \in Resource : Settle(r)
  <2>1. PICK r \in Resource : Settle(r)
    BY <1>9
  <2>2. cloud' \in [Resource -> {"none", "live", "dying", "gone"}] /\ stuck' \subseteq Resource
    BY <2>1 DEF Settle, TypeOK
  <2>3. faults' \in 0..MaxFaults
    BY <2>1, BlameType DEF Settle, TypeOK
  <2>. QED
    BY <2>1, <2>2, <2>3 DEF Settle, TypeOK, Script
<1>10. CASE UNCHANGED vars
  BY <1>10 DEF vars, TypeOK, Script
<1>. QED
  BY <1>1, <1>2, <1>3, <1>4, <1>5, <1>6, <1>7, <1>8, <1>9, <1>10 DEF Next, Client, Ended

LEMMA TypeInit == Init => TypeOK
<1>1. ASSUME Init PROVE Len(Script) \in Nat
  BY <1>1, TheStep DEF Init, Script
<1>2. ASSUME Init PROVE pc \in 1..Len(Script) + 1
  BY <1>1, <1>2 DEF Init
<1>3. ASSUME Init PROVE cleanups \in Seq(Resource) /\ tried \in Seq(Resource)
  BY <1>3 DEF Init
<1>4. ASSUME Init PROVE cloud \in [Resource -> {"none", "live", "dying", "gone"}] /\ faults \in 0..MaxFaults
  BY <1>4, FaultsAssumption DEF Init
<1>. QED
  BY <1>2, <1>3, <1>4 DEF Init, TypeOK

(***************************************************************************)
(* The variables of the smoke test keep their types, whatever goes wrong.  *)
(***************************************************************************)
THEOREM TypeCorrect == Spec => []TypeOK
<1>1. Init => TypeOK
  BY TypeInit
<1>2. TypeOK /\ [Next]_vars => TypeOK'
  BY TypeInvariance
<1>. QED
  BY <1>1, <1>2, PTL DEF Spec

-----------------------------------------------------------------------------
(* The stack of cleanups.                                                  *)

(* What was registered, and what was dropped, are steps that lie behind.   *)
Past ==
  phase = "steps" =>
    /\ \A r \in kept : \E k \in 1..pc - 1 : Keeping(Script[k]) /\ r \in Elements(Script[k].on)
    /\ \A r \in settled : \E k \in 1..pc - 1 : Script[k].act = "drop" /\ Script[k].on[1] = r

(* What was registered and not dropped is on the stack or was run.         *)
Stack ==
  /\ Once(cleanups) /\ Once(tried)
  /\ Elements(cleanups) \cap Elements(tried) = {}
  /\ Elements(cleanups) \cup Elements(tried) = kept \ settled
  /\ phase = "steps" => tried = <<>>
  /\ phase = "ended" => outcome = "stopped" \/ cleanups = <<>>

(* What is made is above what it is made from, and is run before it.       *)
Before(u) == {p \in Resource \X Resource : <<u, p[1], p[2]>> \in MadeFrom}
After(u) == {p \in Resource \X Resource : <<u, p[2], p[1]>> \in MadeFrom}
Order ==
  /\ Ordered(cleanups, Before(suite))
  /\ Ordered(tried, After(suite))
  /\ \A c \in Elements(cleanups), t \in Elements(tried) : <<suite, c, t>> \notin MadeFrom

\* A step may register what no step behind it has registered or dropped.
LEMMA Fresh ==
  ASSUME TypeOK, Past, RegisterOnce, pc <= Len(Script), phase = "steps", Keeping(At)
  PROVE  /\ Once(At.on)
         /\ Elements(At.on) \cap kept = {}
         /\ Elements(At.on) \cap settled = {}
<1>1. pc \in DOMAIN Script /\ At = Script[pc]
  BY AtType DEF At
<1>2. RegistersOnce(Script)
  BY DEF RegisterOnce, TypeOK, Script
<1>3. /\ \A m, n \in DOMAIN At.on : At.on[m] = At.on[n] => m = n
      /\ \A j \in 1..pc - 1 :
           /\ Keeping(Script[j]) => Elements(Script[j].on) \cap Elements(At.on) = {}
           /\ Script[j].act = "drop" => Script[j].on[1] \notin Elements(At.on)
  BY <1>1, <1>2 DEF RegistersOnce
<1>4. Once(At.on)
  BY <1>3 DEF Once
<1>5. ASSUME NEW r \in Elements(At.on), r \in kept PROVE FALSE
  <2>1. PICK k \in 1..pc - 1 : Keeping(Script[k]) /\ r \in Elements(Script[k].on)
    BY <1>5 DEF Past
  <2>. QED
    BY <1>3, <1>5, <2>1
<1>6. ASSUME NEW r \in Elements(At.on), r \in settled PROVE FALSE
  <2>1. PICK k \in 1..pc - 1 : Script[k].act = "drop" /\ Script[k].on[1] = r
    BY <1>6 DEF Past
  <2>. QED
    BY <1>3, <1>6, <2>1
<1>. QED
  BY <1>4, <1>5, <1>6

\* A step that registers rs and goes on, out or into cleanupAll.
LEMMA RegisterStep ==
  ASSUME TypeOK, Past, Stack, RegisterOnce, pc <= Len(Script), phase = "steps",
         NEW rs \in Seq(Resource), rs # <<>> => rs = At.on /\ Keeping(At), addCleanup(rs),
         NEW v \in Miss, Proceed(v), UNCHANGED <<suite, settled, tried>>
  PROVE  Past' /\ Stack'
<1>1. /\ pc \in 1..Len(Script) /\ At = Script[pc]
      /\ phase' = "steps" => pc' > pc
      /\ phase' = "ended" => outcome' = "stopped"
      /\ phase' \in {"steps", "sweep", "ended"} /\ pc' \in 1..Len(Script) + 1
  BY AtType, ProceedType DEF TypeOK, At
<1>2. Once(rs) /\ Elements(rs) \cap kept = {} /\ Elements(rs) \cap settled = {}
  <2>1. CASE rs = <<>>
    <3>1. Elements(rs) = {} /\ Once(rs)
      BY <2>1, NoElements
    <3>. QED
      BY <3>1
  <2>2. CASE rs # <<>>
    <3>1. rs = At.on /\ Keeping(At)
      BY <2>2
    <3>. QED
      BY <3>1, Fresh
  <2>. QED
    BY <2>1, <2>2
<1>3. cleanups' = cleanups \o rs /\ kept' = kept \cup Elements(rs)
  BY DEF addCleanup
<1>4. cleanups \in Seq(Resource) /\ Once(cleanups) /\ Elements(cleanups) \subseteq kept \ settled
      /\ tried = <<>> /\ Elements(tried) = {}
  BY NoElements DEF TypeOK, Stack
<1>5. Once(cleanups') /\ Elements(cleanups') = Elements(cleanups) \cup Elements(rs)
  <2>1. Ordered(cleanups, {}) /\ Ordered(rs, {}) /\ Elements(cleanups) \cap Elements(rs) = {}
    BY <1>2, <1>4 DEF Ordered
  <2>2. \A a \in Elements(cleanups), b \in Elements(rs) : <<a, b>> \notin {}
    OBVIOUS
  <2>3. Once(cleanups \o rs) /\ Elements(cleanups \o rs) = Elements(cleanups) \cup Elements(rs)
    BY <1>2, <1>4, <2>1, <2>2, AddedElements
  <2>. QED
    BY <1>3, <2>3
<1>6. Stack'
  <2>1. Elements(cleanups') = kept' \ settled'
    BY <1>2, <1>3, <1>4, <1>5 DEF Stack
  <2>. QED
    BY <1>1, <1>4, <1>5, <2>1, NoElements DEF Stack
<1>7. Past'
  <2>1. ASSUME phase' = "steps" PROVE pc \in 1..pc' - 1 /\ 1..pc - 1 \subseteq 1..pc' - 1 /\ Script' = Script
    <3>1. Len(Script) \in Nat
      BY TheStep DEF Script, TypeOK
    <3>2. pc \in Int /\ pc >= 1 /\ pc' \in Int /\ pc' > pc
      BY <1>1, <2>1, <3>1
    <3>3. Script' = Script
      BY DEF Script
    <3>4. \A a, b \in Int : a >= 1 /\ b > a => a \in 1..b - 1 /\ 1..a - 1 \subseteq 1..b - 1
      OBVIOUS
    <3>. QED
      BY <3>2, <3>3, <3>4, Zenon
  <2>2. ASSUME phase' = "steps", NEW r \in kept'
        PROVE  \E k \in 1..pc' - 1 : Keeping(Script[k]) /\ r \in Elements(Script[k].on)
    <3>1. CASE r \in kept
      BY <2>1, <2>2, <3>1 DEF Past
    <3>2. CASE r \in Elements(rs)
      <4>1. rs # <<>>
        BY <3>2, NoElements
      <4>. QED
        BY <1>1, <2>1, <2>2, <3>2, <4>1
    <3>. QED
      BY <1>3, <2>2, <3>1, <3>2
  <2>3. ASSUME phase' = "steps", NEW r \in settled'
        PROVE  \E k \in 1..pc' - 1 : Script[k].act = "drop" /\ Script[k].on[1] = r
    BY <2>1, <2>3 DEF Past
  <2>. QED
    BY <2>1, <2>2, <2>3 DEF Past
<1>. QED
  BY <1>6, <1>7

\* A step that only goes on, out or into cleanupAll.
LEMMA ControlStep ==
  ASSUME TypeOK, Past, Stack, RegisterOnce, pc <= Len(Script), phase = "steps",
         NEW v \in Miss, Proceed(v), UNCHANGED <<suite, settled, tried, kept, cleanups, required>>
  PROVE  Past' /\ Stack'
<1>1. <<>> \in Seq(Resource) /\ Elements(<<>>) = {}
  BY NoElements
<1>2. cleanups \o <<>> = cleanups
  BY DEF TypeOK
<1>3. required \in BOOLEAN
  BY DEF TypeOK
<1>4. addCleanup(<<>>)
  BY <1>1, <1>2, <1>3 DEF addCleanup
<1>. QED
  BY <1>1, <1>4, RegisterStep

LEMMA DropStep ==
  ASSUME TypeOK, Past, Stack, DropCleanup
  PROVE  Past' /\ Stack'
<1> DEFINE r == At.on[1]
<1>1. /\ pc <= Len(Script) /\ phase = "steps" /\ phase' = "steps" /\ pc' = pc + 1
      /\ At.act = "drop" /\ settled' = settled \cup {r} /\ Script' = Script
      /\ UNCHANGED <<suite, kept, tried>>
  BY DEF DropCleanup, Running, Proceed, Script
<1>2. pc \in 1..Len(Script) /\ At = Script[pc] /\ pc \in Nat
  BY <1>1, AtType DEF At
<1>3. /\ cleanups \in Seq(Resource) /\ Once(cleanups)
      /\ tried = <<>> /\ Elements(tried) = {} /\ Elements(cleanups) = kept \ settled
  BY <1>1, NoElements DEF TypeOK, Stack
<1>4. Once(cleanups') /\ Elements(cleanups') = Elements(cleanups) \ {r}
  <2>1. CASE r \in Elements(cleanups)
    <3>1. PICK k \in DOMAIN cleanups : cleanups[k] = r /\ cleanups' = RemoveAt(cleanups, k)
      BY <2>1 DEF DropCleanup, dropCleanup
    <3>2. Ordered(cleanups, {})
      BY DEF Ordered
    <3>3. Once(RemoveAt(cleanups, k)) /\ Elements(RemoveAt(cleanups, k)) = Elements(cleanups) \ {cleanups[k]}
      BY <1>3, <3>2, RemovedElements
    <3>. QED
      BY <3>1, <3>3
  <2>2. CASE r \notin Elements(cleanups)
    <3>1. cleanups' = cleanups
      BY <2>2 DEF DropCleanup, dropCleanup
    <3>. QED
      BY <1>3, <2>2, <3>1
  <2>. QED
    BY <2>1, <2>2
<1>5. Stack'
  BY <1>1, <1>3, <1>4, NoElements DEF Stack
<1>6. Past'
  <2>1. 1..pc - 1 \subseteq 1..pc' - 1 /\ pc \in 1..pc' - 1
    BY <1>1, <1>2
  <2>. QED
    BY <1>1, <1>2, <2>1 DEF Past
<1>. QED
  BY <1>5, <1>6

\* The step that runs the cleanup at the top.
LEMMA SweepStep ==
  ASSUME TypeOK, Stack, Sweep
  PROVE  /\ cleanups \in Seq(Resource) /\ cleanups # <<>>
         /\ cleanups' = SubSeq(cleanups, 1, Len(cleanups) - 1)
         /\ tried' = Append(tried, cleanups[Len(cleanups)])
         /\ cleanups[Len(cleanups)] \in Resource
         /\ cleanups[Len(cleanups)] \notin Elements(tried)
         /\ Elements(tried') = Elements(tried) \cup {cleanups[Len(cleanups)]}
         /\ Stack'
<1> DEFINE r == cleanups[Len(cleanups)]
<1>1. /\ phase = "sweep" /\ cleanups # <<>> /\ tried' = Append(tried, r)
      /\ cleanups' = SubSeq(cleanups, 1, Len(cleanups) - 1)
      /\ UNCHANGED <<phase, outcome, kept, settled>>
  BY DEF Sweep
<1>2. cleanups \in Seq(Resource) /\ tried \in Seq(Resource) /\ Once(cleanups) /\ Once(tried)
      /\ Ordered(cleanups, {}) /\ Ordered(tried, {})
  BY DEF TypeOK, Stack, Ordered
<1>3. /\ Once(cleanups') /\ Elements(cleanups') = Elements(cleanups) \ {r}
      /\ r \in Elements(cleanups)
  BY <1>1, <1>2, Popped
<1>4. r \in Resource /\ r \notin Elements(tried)
  BY <1>2, <1>3, ElementsType DEF Stack
<1>5. Once(tried') /\ Elements(tried') = Elements(tried) \cup {r}
  <2>1. \A a \in Elements(tried) : <<a, r>> \notin {}
    OBVIOUS
  <2>2. Once(Append(tried, r)) /\ Elements(Append(tried, r)) = Elements(tried) \cup {r}
    BY <1>2, <1>4, <2>1, Pushed
  <2>. QED
    BY <1>1, <2>2
<1>6. Stack'
  BY <1>1, <1>3, <1>4, <1>5 DEF Stack
<1>. QED
  BY <1>1, <1>2, <1>4, <1>5, <1>6

LEMMA StackInvariance ==
  ASSUME TypeOK, Past, Stack, RegisterOnce, [Next]_vars
  PROVE  Past' /\ Stack'
<1> USE DEF Running
<1>1. CASE Command
  <2>1. pc <= Len(Script) /\ phase = "steps" /\ UNCHANGED <<suite, settled, tried>>
    BY <1>1 DEF Command
  <2>2. PICK v \in Miss : Proceed(v)
    BY <1>1, CommandStep
  <2>3. PICK rs \in Seq(Resource) : addCleanup(rs) /\ (rs # <<>> => rs = At.on /\ Keeping(At))
    BY <1>1, CommandStep
  <2>. QED
    BY <2>1, <2>2, <2>3, RegisterStep
<1>2. CASE AddCleanup
  <2>1. /\ pc <= Len(Script) /\ phase = "steps" /\ UNCHANGED <<suite, settled, tried>>
        /\ addCleanup(At.on) /\ Proceed("next") /\ "next" \in Miss
    BY <1>2 DEF AddCleanup, Miss
  <2>2. Keeping(At) /\ At.on \in Seq(Resource)
    BY <1>2, <2>1, AtType DEF AddCleanup, Keeping
  <2>. QED
    BY <2>1, <2>2, RegisterStep
<1>3. CASE DropCleanup
  BY <1>3, DropStep
<1>4. CASE Condition
  <2>1. /\ pc <= Len(Script) /\ phase = "steps"
        /\ UNCHANGED <<suite, settled, tried, kept, cleanups, required>>
        /\ \E v \in Miss : Proceed(v)
    BY <1>4 DEF Condition, Miss
  <2>. QED
    BY <2>1, ControlStep
<1>5. CASE mustWaitDeleted
  <2>1. /\ pc <= Len(Script) /\ phase = "steps"
        /\ UNCHANGED <<suite, settled, tried, kept, cleanups, required>>
        /\ \E v \in Miss : Proceed(v)
    BY <1>5 DEF mustWaitDeleted, Miss
  <2>. QED
    BY <2>1, ControlStep
<1>6. CASE Finish
  BY <1>6 DEF Finish, Past, Stack
<1>7. CASE Sweep
  <2>1. phase' = "sweep"
    BY <1>7 DEF Sweep
  <2>. QED
    BY <1>7, <2>1, SweepStep DEF Past
<1>8. CASE SweepEnd
  BY <1>8 DEF SweepEnd, Past, Stack
<1>9. CASE \E r \in Resource : Settle(r)
  BY <1>9 DEF Settle, Past, Stack, Script
<1>10. CASE UNCHANGED vars
  BY <1>10 DEF vars, Past, Stack, Script
<1>. QED
  BY <1>1, <1>2, <1>3, <1>4, <1>5, <1>6, <1>7, <1>8, <1>9, <1>10 DEF Next, Client, Ended

LEMMA StackInit ==
  Init => Past /\ Stack
BY NoElements DEF Init, Past, Stack

(***************************************************************************)
(* cleanupAll goes on behind a cleanup that fails: whatever the cloud      *)
(* answers, a suite that came through it has run every cleanup that was    *)
(* registered and not dropped, each once.                                  *)
(***************************************************************************)
THEOREM EveryCleanup == Spec => []EveryCleanupRuns
<1>1. Init => TypeOK /\ Past /\ Stack
  BY StackInit, TypeInit
<1>2. TypeOK /\ Past /\ Stack /\ [Next]_vars => (TypeOK /\ Past /\ Stack)'
  BY TypeInvariance, StackInvariance, RegisterAssumption
<1>3. Stack => EveryCleanupRuns
  <2> SUFFICES ASSUME Stack, phase = "ended", outcome # "stopped"
               PROVE  /\ Elements(tried) = kept \ settled
                      /\ \A i, j \in DOMAIN tried : tried[i] = tried[j] => i = j
    BY DEF EveryCleanupRuns
  <2>1. cleanups = <<>> /\ Elements(cleanups) = {}
    BY NoElements DEF Stack
  <2>. QED
    BY <2>1 DEF Stack, Once
<1>. QED
  BY <1>1, <1>2, <1>3, PTL DEF Spec

-----------------------------------------------------------------------------
(* The order of the cleanups.                                              *)

\* A step registers nothing that something on the stack was made from.
LEMMA InOrder ==
  ASSUME TypeOK, Past, Stack, RegisterInOrder, pc <= Len(Script), phase = "steps", Keeping(At)
  PROVE  /\ Ordered(At.on, Before(suite))
         /\ \A a \in Elements(cleanups), b \in Elements(At.on) : <<a, b>> \notin Before(suite)
<1>1. pc \in DOMAIN Script /\ At = Script[pc] /\ Script = Program[suite]
  BY AtType DEF At, Script
<1>2. RegistersInOrder(suite)
  BY DEF RegisterInOrder, TypeOK
<1>3. /\ \A m, n \in DOMAIN At.on : m < n => <<suite, At.on[m], At.on[n]>> \notin MadeFrom
      /\ \A j \in 1..pc - 1 : Keeping(Script[j]) =>
           \A a \in Elements(Script[j].on), b \in Elements(At.on) : <<suite, a, b>> \notin MadeFrom
  BY <1>1, <1>2 DEF RegistersInOrder
<1>4. Ordered(At.on, Before(suite))
  BY <1>3 DEF Ordered, Before
<1>5. ASSUME NEW a \in Elements(cleanups), NEW b \in Elements(At.on)
      PROVE  <<a, b>> \notin Before(suite)
  <2>1. a \in kept
    BY DEF Stack
  <2>2. PICK k \in 1..pc - 1 : Keeping(Script[k]) /\ a \in Elements(Script[k].on)
    BY <2>1 DEF Past
  <2>. QED
    BY <1>3, <2>2 DEF Before
<1>. QED
  BY <1>4, <1>5

LEMMA OrderRegister ==
  ASSUME TypeOK, Past, Stack, Order, RegisterOnce, RegisterInOrder,
         pc <= Len(Script), phase = "steps",
         NEW rs \in Seq(Resource), rs # <<>> => rs = At.on /\ Keeping(At), addCleanup(rs),
         UNCHANGED <<suite, tried>>
  PROVE  Order'
<1> DEFINE R == Before(suite)
<1>1. /\ Ordered(rs, R) /\ Once(rs) /\ Elements(rs) \cap Elements(cleanups) = {}
      /\ \A a \in Elements(cleanups), b \in Elements(rs) : <<a, b>> \notin R
  <2>1. CASE rs = <<>>
    <3>1. Elements(rs) = {} /\ Once(rs) /\ Ordered(rs, R)
      BY <2>1, NoElements
    <3>. QED
      BY <3>1
  <2>2. CASE rs # <<>>
    <3>1. rs = At.on /\ Keeping(At)
      BY <2>2
    <3>2. Once(At.on) /\ Elements(At.on) \cap kept = {} /\ Elements(cleanups) \subseteq kept
      BY <3>1, Fresh DEF Stack
    <3>3. /\ Ordered(At.on, R)
          /\ \A a \in Elements(cleanups), b \in Elements(At.on) : <<a, b>> \notin R
      BY <3>1, InOrder
    <3>. QED
      BY <3>1, <3>2, <3>3
  <2>. QED
    BY <2>1, <2>2
<1>2. cleanups \in Seq(Resource) /\ Once(cleanups) /\ Ordered(cleanups, R)
  BY DEF TypeOK, Stack, Order
<1>3. Ordered(cleanups \o rs, R)
  BY <1>1, <1>2, AddedElements
<1>4. Ordered(cleanups', Before(suite)')
  BY <1>3 DEF addCleanup, Before
<1>5. tried' = <<>> /\ Elements(tried') = {} /\ Ordered(tried', After(suite)')
  <2>1. tried' = <<>>
    BY DEF Stack
  <2>. QED
    BY <2>1, NoElements
<1>. QED
  BY <1>4, <1>5 DEF Order

LEMMA OrderInvariance ==
  ASSUME TypeOK, Past, Stack, Order, RegisterOnce, RegisterInOrder, [Next]_vars
  PROVE  Order'
<1> USE DEF Running
<1>1. CASE Command
  <2>1. pc <= Len(Script) /\ phase = "steps" /\ UNCHANGED <<suite, tried>>
    BY <1>1 DEF Command
  <2>2. PICK rs \in Seq(Resource) : addCleanup(rs) /\ (rs # <<>> => rs = At.on /\ Keeping(At))
    BY <1>1, CommandStep
  <2>. QED
    BY <2>1, <2>2, OrderRegister
<1>2. CASE AddCleanup
  <2>1. /\ pc <= Len(Script) /\ phase = "steps" /\ UNCHANGED <<suite, tried>>
        /\ addCleanup(At.on)
    BY <1>2 DEF AddCleanup
  <2>2. Keeping(At) /\ At.on \in Seq(Resource)
    BY <1>2, <2>1, AtType DEF AddCleanup, Keeping
  <2>. QED
    BY <2>1, <2>2, OrderRegister
<1>3. CASE DropCleanup
  <2>1. /\ phase = "steps" /\ UNCHANGED <<suite, tried>> /\ tried = <<>>
        /\ Before(suite)' = Before(suite) /\ After(suite)' = After(suite)
    BY <1>3 DEF DropCleanup, Stack, Before, After
  <2>2. Elements(tried') = {} /\ Ordered(tried', After(suite)')
    BY <2>1, NoElements
  <2>3. Ordered(cleanups', Before(suite))
    <3>1. CASE cleanups' = cleanups
      BY <3>1 DEF Order
    <3>2. CASE cleanups' # cleanups
      <4>1. PICK k \in DOMAIN cleanups : cleanups' = RemoveAt(cleanups, k)
        BY <1>3, <3>2 DEF DropCleanup, dropCleanup
      <4>2. cleanups \in Seq(Resource) /\ Once(cleanups) /\ Ordered(cleanups, Before(suite))
        BY DEF TypeOK, Stack, Order
      <4>3. Ordered(RemoveAt(cleanups, k), Before(suite))
        BY <4>2, RemovedElements
      <4>. QED
        BY <4>1, <4>3
    <3>. QED
      BY <3>1, <3>2
  <2>. QED
    BY <2>1, <2>2, <2>3 DEF Order
<1>4. CASE Sweep
  <2> DEFINE r == cleanups[Len(cleanups)]
  <2>1. /\ suite' = suite /\ Before(suite)' = Before(suite) /\ After(suite)' = After(suite)
        /\ cleanups \in Seq(Resource) /\ tried \in Seq(Resource) /\ cleanups # <<>>
        /\ Once(cleanups) /\ Once(tried)
        /\ Ordered(cleanups, Before(suite)) /\ Ordered(tried, After(suite))
        /\ \A c \in Elements(cleanups), t \in Elements(tried) : <<suite, c, t>> \notin MadeFrom
    BY <1>4 DEF Sweep, TypeOK, Stack, Order, Before, After
  <2>2. /\ cleanups' = SubSeq(cleanups, 1, Len(cleanups) - 1) /\ tried' = Append(tried, r)
        /\ r \in Resource /\ r \notin Elements(tried)
    BY <1>4, SweepStep
  <2>3. /\ Ordered(cleanups', Before(suite))
        /\ Elements(cleanups') = Elements(cleanups) \ {r}
        /\ r \in Elements(cleanups)
        /\ \A c \in Elements(cleanups') : <<c, r>> \notin Before(suite)
    BY <2>1, <2>2, Popped
  <2>4. Ordered(tried', After(suite)) /\ Elements(tried') = Elements(tried) \cup {r}
    <3>1. \A t \in Elements(tried) : <<t, r>> \notin After(suite)
      BY <2>1, <2>3 DEF After
    <3>2. /\ Ordered(Append(tried, r), After(suite))
          /\ Elements(Append(tried, r)) = Elements(tried) \cup {r}
      BY <2>1, <2>2, <3>1, Pushed
    <3>. QED
      BY <2>2, <3>2
  <2>5. ASSUME NEW c \in Elements(cleanups'), NEW t \in Elements(tried')
        PROVE  <<suite, c, t>> \notin MadeFrom
    <3>1. c \in Resource
      BY <2>1, <2>3, ElementsType
    <3>2. CASE t = r
      BY <2>2, <2>3, <3>1, <3>2 DEF Before
    <3>3. CASE t \in Elements(tried)
      BY <2>1, <2>3, <3>3
    <3>. QED
      BY <2>4, <3>2, <3>3
  <2>. QED
    BY <2>1, <2>3, <2>4, <2>5 DEF Order
<1>5. CASE UNCHANGED <<suite, cleanups, tried>>
  BY <1>5 DEF Order, Before, After
<1>. QED
  BY <1>1, <1>2, <1>3, <1>4, <1>5
     DEF Next, Client, Ended, Condition, mustWaitDeleted, Finish, SweepEnd, Settle, vars

(***************************************************************************)
(* The stack is worked from the top: if every suite registers in the order *)
(* in which it makes, no cleanup is run before that of something made from *)
(* its resource.                                                           *)
(***************************************************************************)
THEOREM DependantsGoFirst == Spec => []DependantsFirst
<1>1. Init => TypeOK /\ Past /\ Stack /\ Order
  <2>1. Init => Order
    BY NoElements DEF Init, Order
  <2>. QED
    BY <2>1, StackInit, TypeInit
<1>2. TypeOK /\ Past /\ Stack /\ Order /\ [Next]_vars => (TypeOK /\ Past /\ Stack /\ Order)'
  BY TypeInvariance, StackInvariance, OrderInvariance, RegisterAssumption
<1>3. TypeOK /\ Order => DependantsFirst
  <2> SUFFICES ASSUME TypeOK, Order, NEW i \in DOMAIN tried, NEW j \in DOMAIN tried, i < j
               PROVE  <<suite, tried[j], tried[i]>> \notin MadeFrom
    BY DEF DependantsFirst
  <2>1. tried[i] \in Resource /\ tried[j] \in Resource
    BY DEF TypeOK
  <2>2. <<tried[i], tried[j]>> \notin After(suite)
    BY DEF Order, Ordered
  <2>. QED
    BY <2>1, <2>2 DEF After
<1>. QED
  BY <1>1, <1>2, <1>3, PTL DEF Spec

-----------------------------------------------------------------------------
(* The report.                                                             *)

(* What was dropped from the stack is deleted, and so is what the next     *)
(* steps are going to drop.                                                *)
Dropped ==
  /\ \A r \in settled : Done(r)
  /\ \A r \in settled : phase = "steps" =>
       \A l \in pc..Len(Script) : Script[l].act = "make" => r \notin Elements(Script[l].on)
  /\ phase = "steps" =>
       \A k \in DOMAIN Script : \A j \in 1..k - 1 :
         Clears(Script, j, k) /\ pc \in j + 1..k => Done(Script[k].on[1])

(* A sweep without a failure has deleted what it has tried.                *)
Swept == ~failures => \A r \in Elements(tried) : Done(r)

(* No cleanup is asked for only where none is left on the stack.           *)
Asked ==
  /\ phase = "steps" => ~failures /\ (~required => cleanups = <<>>)
  /\ phase = "ended" /\ ~required => ~failures /\ cleanups = <<>>


\* The first and the second resource of a step are among those it names.
LEMMA Named ==
  ASSUME TypeOK, pc <= Len(Script), At.act \in {"make", "delete"}
  PROVE  /\ Len(At.on) >= 1 /\ First(At) = At.on[1] /\ First(At) \in Elements(At.on)
         /\ At.by = "pair" => Second(At) \in Elements(At.on)
         /\ At.by = "pair" => Elements(At.on) = {First(At), Second(At)}
         /\ At.by # "same"
<1>1. IsStep(At) /\ At.on \in Seq(Resource)
  BY AtType
<1>2. /\ Len(At.on) >= 1 /\ At.by # "same"
      /\ At.by = "pair" => Len(At.on) = 2
  BY <1>1 DEF IsStep
<1>3. At.on # <<>> /\ DOMAIN At.on = 1..Len(At.on) /\ 1 \in DOMAIN At.on
  BY <1>1, <1>2
<1>4. First(At) = At.on[1] /\ First(At) \in Elements(At.on)
  BY <1>3 DEF First, Elements
<1>5. ASSUME At.by = "pair"
      PROVE  Second(At) \in Elements(At.on) /\ Elements(At.on) = {First(At), Second(At)}
  <2>0. Len(At.on) = 2
    BY <1>2, <1>5
  <2>1. DOMAIN At.on = {1, 2}
    <3>1. DOMAIN At.on = 1..2 /\ 1..2 = {1, 2}
      BY <1>3, <2>0
    <3>. QED
      BY <3>1
  <2>2. Second(At) = At.on[2]
    BY <2>0 DEF Second
  <2>. QED
    BY <1>4, <2>1, <2>2 DEF Elements
<1>. QED
  BY <1>2, <1>4, <1>5

\* A command brings to life only what it makes.
LEMMA EffectDone ==
  ASSUME NEW act, NEW r, NEW q, NEW a, NEW c \in [Resource -> {"none", "live", "dying", "gone"}],
         act = "make" => q # r, c[r] # "live", r \in Resource
  PROVE  Effect(act, q, a, c)[r] # "live"
BY DEF Effect

\* What a command was answered, and what the cloud and the suite made of it.
LEMMA TheCommand ==
  ASSUME TypeOK, Command
  PROVE  \E g \in Answers(At.act, First(At), cloud) : \E o : \E d, m \in BOOLEAN :
           LET c == Effect(At.act, First(At), g, cloud)
               v == Verdict(At, g, o, d, m)
           IN  /\ cloud' = IF Both(At, g) THEN Effect(At.act, Second(At), o, c) ELSE c
               /\ Both(At, g) => o \in Answers(At.act, Second(At), c)
               /\ misread' = IF m /\ g = "refused" THEN misread \cup {First(At)} ELSE misread
               /\ addCleanup(Registers(At, g, v)) /\ Proceed(v)
<1>1. PICK g, o :
        /\ g \in Answers(At.act, First(At), cloud)
        /\ Both(At, g) => o \in Answers(At.act, Second(At), Effect(At.act, First(At), g, cloud))
        /\ cloud' = IF Both(At, g) THEN Effect(At.act, Second(At), o, Effect(At.act, First(At), g, cloud))
                    ELSE Effect(At.act, First(At), g, cloud)
        /\ \E d \in {FALSE} \cup {b \in {TRUE} : Compared(At, g) /\ "differ" \in Faults},
              m \in {FALSE} \cup {b \in {TRUE} : At.gone /\ ~Exit0(g) /\ "misread" \in Faults} :
             Answered(At, g, o, d, m)
  <2>1. PICK s, g, c : /\ s = At /\ g \in Answers(s.act, First(s), cloud)
                       /\ c = Effect(s.act, First(s), g, cloud)
                       /\ \E o \in IF Both(s, g) THEN Answers(s.act, Second(s), c) ELSE {"ok"} :
                            /\ cloud' = IF Both(s, g) THEN Effect(s.act, Second(s), o, c) ELSE c
                            /\ \E d \in {FALSE} \cup {b \in {TRUE} : Compared(s, g) /\ "differ" \in Faults},
                                  m \in {FALSE} \cup {b \in {TRUE} : s.gone /\ ~Exit0(g) /\ "misread" \in Faults} :
                                 Answered(s, g, o, d, m)
    BY DEF Command
  <2>2. PICK o \in IF Both(At, g) THEN Answers(At.act, Second(At), c) ELSE {"ok"} :
          /\ cloud' = IF Both(At, g) THEN Effect(At.act, Second(At), o, c) ELSE c
          /\ \E d \in {FALSE} \cup {b \in {TRUE} : Compared(At, g) /\ "differ" \in Faults},
                m \in {FALSE} \cup {b \in {TRUE} : At.gone /\ ~Exit0(g) /\ "misread" \in Faults} :
               Answered(At, g, o, d, m)
    BY <2>1
  <2>3. Both(At, g) => o \in Answers(At.act, Second(At), c)
    BY <2>2
  <2>. QED
    BY <2>1, <2>2, <2>3
<1>2. PICK d \in BOOLEAN, m \in BOOLEAN : Answered(At, g, o, d, m)
  BY <1>1
<1>3. /\ misread' = IF m /\ g = "refused" THEN misread \cup {First(At)} ELSE misread
      /\ addCleanup(Registers(At, g, Verdict(At, g, o, d, m))) /\ Proceed(Verdict(At, g, o, d, m))
  BY <1>2 DEF Answered
<1>. QED
  BY <1>1, <1>3

\* A command leaves done what it does not make.
LEMMA CommandDone ==
  ASSUME TypeOK, Command, NEW r \in Resource, Done(r),
         At.act = "make" => r \notin Elements(At.on)
  PROVE  Done(r)'
<1>1. pc <= Len(Script) /\ stuck' = stuck
  BY DEF Command, Running
<1>2. PICK g, o, d, m :
        /\ cloud' = IF Both(At, g) THEN Effect(At.act, Second(At), o, Effect(At.act, First(At), g, cloud))
                    ELSE Effect(At.act, First(At), g, cloud)
        /\ misread' = IF m /\ g = "refused" THEN misread \cup {First(At)} ELSE misread
  BY TheCommand
<1>3. ASSUME cloud[r] # "live" PROVE cloud'[r] # "live"
  <2>1. cloud \in [Resource -> {"none", "live", "dying", "gone"}]
    BY DEF TypeOK
  <2>2. At.act = "make" => First(At) # r
    BY <1>1, Named
  <2>3. Effect(At.act, First(At), g, cloud)[r] # "live"
    BY <1>3, <2>1, <2>2, EffectDone
  <2>4. Effect(At.act, First(At), g, cloud) \in [Resource -> {"none", "live", "dying", "gone"}]
    BY <2>1, EffectType
  <2>5. At.act = "make" /\ Both(At, g) => Second(At) # r
    BY <1>1, Named DEF Both
  <2>6. Both(At, g) => Effect(At.act, Second(At), o, Effect(At.act, First(At), g, cloud))[r] # "live"
    BY <2>3, <2>4, <2>5, EffectDone
  <2>. QED
    BY <1>2, <2>3, <2>6
<1>. QED
  BY <1>1, <1>2, <1>3 DEF Done

\* Whatever else happens leaves done what was done.
LEMMA OtherDone ==
  ASSUME TypeOK, NEW r \in Resource, Done(r),
         \/ AddCleanup \/ DropCleanup \/ Condition \/ mustWaitDeleted \/ Finish
         \/ Sweep \/ SweepEnd \/ (\E q \in Resource : Settle(q)) \/ UNCHANGED vars
  PROVE  Done(r)'
<1>1. CASE Sweep
  <2>1. PICK q, a, m : /\ cloud' = Effect("delete", q, a, cloud)
                       /\ misread' = IF m /\ a = "refused" THEN misread \cup {q} ELSE misread
                       /\ stuck' = stuck
    BY <1>1 DEF Sweep
  <2>2. cloud[r] # "live" => cloud'[r] # "live"
    BY <2>1, EffectDone DEF TypeOK
  <2>. QED
    BY <2>1, <2>2 DEF Done
<1>2. CASE \E q \in Resource : Settle(q)
  BY <1>2 DEF Settle, TypeOK, Done
<1>3. CASE mustWaitDeleted
  BY <1>3 DEF mustWaitDeleted, Done
<1>4. CASE UNCHANGED <<cloud, misread, stuck>>
  BY <1>4 DEF Done
<1>. QED
  BY <1>1, <1>2, <1>3, <1>4
     DEF AddCleanup, DropCleanup, Condition, Finish, SweepEnd, vars

\* Only a refusal leaves what was to be deleted.
LEMMA AnswerDone ==
  ASSUME NEW q \in Resource, NEW c \in [Resource -> {"none", "live", "dying", "gone"}],
         NEW a \in Answers("delete", q, c)
  PROVE  /\ a \in {"ok", "refused", "lost", "absent"}
         /\ a # "refused" => Effect("delete", q, a, c)[q] # "live"
<1>1. CASE c[q] = "live"
  <2>1. a \in {"ok", "refused", "lost"}
    BY <1>1 DEF Answers
  <2>. QED
    BY <2>1 DEF Effect
<1>2. CASE c[q] # "live"
  <2>1. a \in {"ok", "refused", "absent"}
    BY <1>2 DEF Answers
  <2>. QED
    BY <1>2, <2>1 DEF Effect
<1>. QED
  BY <1>1, <1>2

\* A deletion that lets the suite go on has deleted.
LEMMA DeletionDone ==
  ASSUME TypeOK, Command, At.act = "delete"
  PROVE  \E v \in Miss : /\ Proceed(v)
                         /\ v = "next" => \A r \in Deletes(At) : r \in Resource /\ Done(r)'
                         /\ v = "quit" => "quit" \in {At.miss, At.differ}
<1>1. pc <= Len(Script) /\ IsStep(At) /\ At.act = "delete"
  BY AtType DEF Command, Running
<1>2. PICK g, o : g \in Answers(At.act, First(At), cloud) /\ \E d, m \in BOOLEAN :
        /\ cloud' = IF Both(At, g) THEN Effect(At.act, Second(At), o, Effect(At.act, First(At), g, cloud))
                    ELSE Effect(At.act, First(At), g, cloud)
        /\ Both(At, g) => o \in Answers(At.act, Second(At), Effect(At.act, First(At), g, cloud))
        /\ misread' = IF m /\ g = "refused" THEN misread \cup {First(At)} ELSE misread
        /\ Proceed(Verdict(At, g, o, d, m))
  BY TheCommand
<1>3. PICK d \in BOOLEAN, m \in BOOLEAN :
        /\ misread' = IF m /\ g = "refused" THEN misread \cup {First(At)} ELSE misread
        /\ Proceed(Verdict(At, g, o, d, m))
  BY <1>2
<1> DEFINE v == Verdict(At, g, o, d, m)
           q == First(At)
           c == Effect("delete", q, g, cloud)
<1>4. /\ q = At.on[1] /\ q \in Elements(At.on) /\ At.by # "same"
      /\ At.by = "pair" => Second(At) \in Elements(At.on) /\ Elements(At.on) = {q, Second(At)}
      /\ Elements(At.on) \subseteq Resource /\ q \in Resource
  <2>1. Elements(At.on) \subseteq Resource
    BY <1>1, AtType, ElementsType
  <2>. QED
    BY <1>1, <2>1, Named
<1>5. /\ cloud' = IF Both(At, g) THEN Effect("delete", Second(At), o, c) ELSE c
      /\ Both(At, g) => o \in Answers("delete", Second(At), c)
      /\ g \in Answers("delete", q, cloud)
  BY <1>1, <1>2
<1>6. cloud \in [Resource -> {"none", "live", "dying", "gone"}] /\ c \in [Resource -> {"none", "live", "dying", "gone"}]
  BY EffectType DEF TypeOK
<1>7. g \in {"ok", "refused", "lost", "absent"} /\ (g # "refused" => c[q] # "live")
  BY <1>4, <1>5, <1>6, AnswerDone
<1> HIDE DEF c, q
<1>8. c[q] # "live" => cloud'[q] # "live"
  <2>1. c[q] # "live" => Effect("delete", Second(At), o, c)[q] # "live"
    BY <1>4, <1>6, EffectDone
  <2>. QED
    BY <1>5, <2>1
<1>9. ASSUME v = "next", At.miss # "next"
      PROVE  g # "refused" \/ q \in misread'
  <2>1. CASE m
    BY <1>3, <2>1 DEF q
  <2>2. CASE g = "absent"
    BY <2>2
  <2>3. CASE ~m /\ g # "absent"
    <3>1. Exit0(g)
      BY <1>4, <1>9, <2>3 DEF Verdict
    <3>. QED
      BY <3>1 DEF Exit0
  <2>. QED
    BY <2>1, <2>2, <2>3
<1>10. ASSUME v = "next", NEW r \in Deletes(At) PROVE r \in Resource /\ Done(r)'
  <2>0. CASE r = q /\ At.miss # "next"
    BY <1>4, <1>7, <1>8, <1>9, <1>10, <2>0 DEF Done
  <2>1. CASE At.by # "pair"
    BY <1>1, <1>4, <2>0, <2>1 DEF Deletes, q
  <2>2. CASE At.by = "pair"
    <3>1. ~At.gone /\ At.miss # "next" /\ At.differ # "next" /\ r \in Elements(At.on)
      BY <1>1, <2>2 DEF Deletes
    <3>2. Exit0(g)
      BY <1>10, <2>2, <3>1 DEF Verdict
    <3>3. ~Differs(At, g, o, d)
      BY <1>10, <2>2, <3>1, <3>2 DEF Verdict
    <3>4. Exit0(o) /\ Both(At, g)
      BY <2>2, <3>2, <3>3 DEF Differs, Compared, Both
    <3>5. CASE r = q
      BY <2>0, <3>1, <3>5
    <3>6. CASE r = Second(At)
      <4>1. /\ o \in Answers("delete", r, c) /\ cloud' = Effect("delete", r, o, c)
            /\ r \in Resource
        BY <1>4, <1>5, <3>1, <3>4, <3>6
      <4>2. cloud'[r] # "live"
        BY <1>6, <3>4, <4>1, AnswerDone DEF Exit0
      <4>. QED
        BY <1>4, <2>2, <3>1, <4>2 DEF Done
    <3>. QED
      BY <1>4, <2>2, <3>1, <3>5, <3>6
  <2>. QED
    BY <2>1, <2>2
<1>11. v = "quit" => "quit" \in {At.miss, At.differ}
  BY <1>7 DEF Verdict, Exit0
<1>12. v \in Miss
  BY <1>1, VerdictType
<1>. QED
  BY <1>3, <1>10, <1>11, <1>12

\* So has a wait for the end of it.
LEMMA WaitDone ==
  ASSUME TypeOK, mustWaitDeleted
  PROVE  \E v \in Miss : /\ Proceed(v)
                         /\ v = "next" => \A r \in Deletes(At) : r \in Resource /\ Done(r)'
                         /\ v # "quit"
<1>1. PICK r \in Resource : r = At.on[1] /\ Deletes(At) = {r}
  <2>1. At.act = "gone" /\ pc <= Len(Script)
    BY DEF mustWaitDeleted, Running
  <2>2. At.on \in Seq(Resource) /\ Len(At.on) >= 1
    BY <2>1, AtType DEF IsStep
  <2>. QED
    BY <2>1, <2>2 DEF Deletes
<1>2. /\ UNCHANGED <<cloud, stuck>>
      /\ \/ cloud[r] \notin {"live", "dying"} /\ Proceed("next") /\ UNCHANGED misread
         \/ misread' = misread \cup {r} /\ Proceed("next")
         \/ Proceed("sweep")
  BY <1>1 DEF mustWaitDeleted
<1>3. cloud[r] \notin {"live", "dying"} \/ r \in misread' => Done(r)'
  BY <1>2 DEF Done
<1>. QED
  BY <1>1, <1>2, <1>3 DEF Miss

\* A step that is reached only through j is reached from behind j, or from j.
LEMMA OnlyThrough ==
  ASSUME TypeOK, pc <= Len(Script), phase = "steps", NEW v \in Miss, Proceed(v), phase' = "steps",
         NEW k \in DOMAIN Script, NEW j \in 1..k - 1, Only(Script, j, k), pc' \in j + 1..k
  PROVE  \/ pc \in j + 1..k
         \/ pc = j /\ (v = "next" \/ (v = "quit" /\ "quit" \notin {At.miss, At.differ}))
<1>1. /\ Len(Script) \in Nat /\ DOMAIN Script = 1..Len(Script) /\ suite \in Suites
      /\ pc \in 1..Len(Script) /\ At = Script[pc]
  BY TheStep, AtType DEF Script, TypeOK, At
<1>2. /\ pc \in Int /\ j \in Int /\ k \in Int /\ pc' \in Int /\ k <= Len(Script) /\ j >= 1 /\ k >= 1
      /\ j + 1 <= pc' /\ pc' <= k
  BY <1>1
<1>3. v = "next" \/ v = "quit"
  BY DEF Proceed, Miss
<1>4. CASE v = "next"
  <2>1. pc' = pc + 1
    BY <1>4 DEF Proceed
  <2>. QED
    BY <1>2, <1>4, <2>1
<1>5. CASE v = "quit"
  <2> DEFINE b == At.quits
  <2>1. pc' = Leave(b)
    BY <1>5 DEF Proceed
  <2>2. /\ pc' \in pc + 1..Len(Script) + 1
        /\ ~Inside(b, pc') /\ \A l \in pc + 1..pc' - 1 : Inside(b, l)
    BY <1>1, <2>1, LeaveType
  <2>3. b \notin Script[j].within
    <3>1. pc' <= Len(Script) /\ pc' \in j..k
      BY <1>1, <1>2
    <3>2. Script[j].within \subseteq Script[pc'].within
      BY <3>1 DEF Only
    <3>. QED
      BY <2>2, <3>1, <3>2 DEF Inside
  <2>4. pc >= j
    <3>0. \A x, y, z \in Int : x < y /\ y + 1 <= z => y \in x + 1..z - 1
      OBVIOUS
    <3>1. pc < j => j \in pc + 1..pc' - 1
      BY <1>2, <3>0
    <3>2. pc < j => Inside(b, j)
      BY <2>2, <3>1
    <3>. QED
      BY <1>2, <2>3, <3>2 DEF Inside
  <2>5. pc = j => "quit" \notin {At.miss, At.differ}
    BY <1>1, <2>3 DEF Only
  <2>6. pc < pc'
    BY <1>2, <2>2
  <2>. QED
    BY <1>2, <1>5, <2>4, <2>5, <2>6
<1>. QED
  BY <1>3, <1>4, <1>5

LEMMA DroppedStep ==
  ASSUME TypeOK, Past, Dropped, DropDeleted, pc <= Len(Script), phase = "steps",
         NEW v \in Miss, Proceed(v), UNCHANGED <<suite, settled>>,
         \A r \in Resource : Done(r) /\ (At.act = "make" => r \notin Elements(At.on)) => Done(r)',
         v = "next" => \A r \in Deletes(At) : r \in Resource /\ Done(r)',
         v = "quit" => Deletes(At) = {} \/ "quit" \in {At.miss, At.differ}
  PROVE  Dropped'
<1>1. /\ Len(Script) \in Nat /\ DOMAIN Script = 1..Len(Script) /\ Script' = Script
      /\ pc \in 1..Len(Script) /\ At = Script[pc] /\ \A k \in DOMAIN Script : IsStep(Script[k])
      /\ settled \subseteq Resource /\ settled' = settled
      /\ phase' = "steps" => pc' \in pc + 1..Len(Script) + 1
  BY TheStep, AtType, ProceedType DEF Script, TypeOK, At
<1>2. ASSUME NEW r \in settled PROVE Done(r)'
  BY <1>1, <1>2 DEF Dropped
<1>3. ASSUME phase' = "steps", NEW r \in settled', NEW l \in pc'..Len(Script), Script[l].act = "make"
      PROVE  r \notin Elements(Script[l].on)
  <2>1. l \in pc..Len(Script)
    BY <1>1, <1>3
  <2>. QED
    BY <1>1, <1>3, <2>1 DEF Dropped
<1>4. ASSUME phase' = "steps", NEW k \in DOMAIN Script, NEW j \in 1..k - 1,
             Clears(Script, j, k), pc' \in j + 1..k
      PROVE  Done(Script[k].on[1])'
  <2>1. PICK r \in Resource : r = Script[k].on[1]
    <3>1. Script[k].act = "drop" /\ IsStep(Script[k])
      BY <1>1, <1>4 DEF Clears
    <3>2. Script[k].on \in Seq(Resource) /\ Len(Script[k].on) >= 1
      BY <3>1 DEF IsStep
    <3>. QED
      BY <3>2
  <2>2. \/ pc \in j + 1..k
        \/ pc = j /\ (v = "next" \/ (v = "quit" /\ "quit" \notin {At.miss, At.differ}))
    BY <1>4, OnlyThrough DEF Clears
  <2>3. ASSUME pc \in j + 1..k PROVE Done(r)'
    <3>1. Done(r)
      BY <1>4, <2>1, <2>3 DEF Dropped
    <3>2. At.act = "make" => r \notin Elements(At.on)
      <4>1. pc \in j + 1..Len(Script)
        BY <1>1, <2>3
      <4>. QED
        BY <1>1, <1>4, <2>1, <4>1 DEF Clears
    <3>. QED
      BY <2>1, <3>1, <3>2
  <2>4. ASSUME pc = j, pc \notin j + 1..k PROVE Done(r)'
    <3>1. r \in Deletes(At)
      BY <1>1, <1>4, <2>1, <2>4 DEF Clears
    <3>. QED
      BY <2>2, <2>3, <2>4, <3>1
  <2>5. Done(r)'
    BY <2>2, <2>3, <2>4
  <2>. QED
    BY <1>1, <2>1, <2>5 DEF Done
<1>. QED
  BY <1>1, <1>2, <1>3, <1>4 DEF Dropped

LEMMA DroppedInvariance ==
  ASSUME TypeOK, Past, Dropped, DropDeleted, [Next]_vars
  PROVE  Dropped'
<1> USE DEF Running
<1>0. Script' = Script /\ suite' = suite /\ settled \subseteq Resource
  BY DEF Script, TypeOK, Next, Client, Ended, Command, AddCleanup, DropCleanup, Condition,
         mustWaitDeleted, Finish, Sweep, SweepEnd, Settle, vars
<1>1. CASE Command
  <2>1. pc <= Len(Script) /\ phase = "steps" /\ UNCHANGED <<suite, settled>>
    BY <1>1 DEF Command
  <2>2. \A r \in Resource : Done(r) /\ (At.act = "make" => r \notin Elements(At.on)) => Done(r)'
    BY <1>1, CommandDone
  <2>3. CASE At.act = "delete"
    <3>1. PICK v \in Miss : /\ Proceed(v)
                            /\ v = "next" => \A r \in Deletes(At) : r \in Resource /\ Done(r)'
                            /\ v = "quit" => "quit" \in {At.miss, At.differ}
      BY <1>1, <2>3, DeletionDone
    <3>. QED
      BY <2>1, <2>2, <3>1, DroppedStep
  <2>4. CASE At.act # "delete"
    <3>1. PICK v \in Miss : Proceed(v)
      BY <1>1, CommandStep
    <3>2. Deletes(At) = {}
      BY <1>1, <2>4 DEF Command, Deletes
    <3>. QED
      BY <2>1, <2>2, <3>1, <3>2, DroppedStep
  <2>. QED
    BY <2>3, <2>4
<1>2. CASE AddCleanup \/ Condition
  <2>1. /\ pc <= Len(Script) /\ phase = "steps" /\ UNCHANGED <<suite, settled>>
        /\ \E v \in Miss : Proceed(v)
        /\ Deletes(At) = {}
    BY <1>2 DEF AddCleanup, Condition, Miss, Deletes
  <2>2. \A r \in Resource : Done(r) => Done(r)'
    BY <1>2, OtherDone
  <2>. QED
    BY <2>1, <2>2, DroppedStep
<1>3. CASE mustWaitDeleted
  <2>1. pc <= Len(Script) /\ phase = "steps" /\ UNCHANGED <<suite, settled>>
    BY <1>3 DEF mustWaitDeleted
  <2>2. \A r \in Resource : Done(r) => Done(r)'
    BY <1>3, OtherDone
  <2>3. PICK v \in Miss : /\ Proceed(v)
                          /\ v = "next" => \A r \in Deletes(At) : r \in Resource /\ Done(r)'
                          /\ v # "quit"
    BY <1>3, WaitDone
  <2>. QED
    BY <2>1, <2>2, <2>3, DroppedStep
<1>4. CASE DropCleanup
  <2>1. /\ pc <= Len(Script) /\ phase = "steps" /\ phase' = "steps" /\ pc' = pc + 1
        /\ At.act = "drop" /\ settled' = settled \cup {At.on[1]}
        /\ UNCHANGED <<cloud, misread, stuck>>
    BY <1>4 DEF DropCleanup, Proceed
  <2>2. /\ pc \in 1..Len(Script) /\ At = Script[pc] /\ Len(Script) \in Nat
        /\ DOMAIN Script = 1..Len(Script)
    BY <2>1, AtType, TheStep DEF At, TypeOK, Script
  <2>3. PICK j \in 1..pc - 1 : Clears(Script, j, pc)
    BY <2>1, <2>2 DEF DropDeleted, TypeOK, Script
  <2>4. Done(At.on[1])
    <3>1. pc \in j + 1..pc
      BY <2>2
    <3>. QED
      BY <2>1, <2>2, <2>3, <3>1 DEF Dropped
  <2>5. \A l \in pc..Len(Script) : Script[l].act = "make" => At.on[1] \notin Elements(Script[l].on)
    <3>1. \A l \in pc..Len(Script) : l \in j + 1..Len(Script)
      BY <2>2
    <3>. QED
      BY <2>2, <2>3, <3>1 DEF Clears
  <2>6. \A l \in pc'..Len(Script) : l \in pc..Len(Script)
    BY <2>1, <2>2
  <2>7. \A r : Done(r)' <=> Done(r)
    BY <2>1 DEF Done
  <2>8. \A r \in settled' : Done(r)'
    BY <2>1, <2>4, <2>7 DEF Dropped
  <2>9. \A r \in settled' : \A l \in pc'..Len(Script) : Script[l].act = "make" => r \notin Elements(Script[l].on)
    BY <2>1, <2>5, <2>6 DEF Dropped
  <2>10. ASSUME NEW k \in DOMAIN Script, NEW i \in 1..k - 1, Clears(Script, i, k), pc' \in i + 1..k
         PROVE  Done(Script[k].on[1])'
    <3>1. pc \in i + 1..k
      <4>1. "drop" \notin {"delete", "gone"} /\ Deletes(At) = {}
        BY <2>1 DEF Deletes
      <4>2. pc # i
        BY <2>2, <2>10, <4>1 DEF Clears
      <4>. QED
        BY <2>1, <2>2, <2>10, <4>2
    <3>2. Done(Script[k].on[1])
      BY <2>1, <2>10, <3>1 DEF Dropped
    <3>. QED
      BY <1>0, <2>1, <3>2 DEF Done
  <2>. QED
    BY <1>0, <2>8, <2>9, <2>10 DEF Dropped
<1>5. CASE Finish \/ Sweep \/ SweepEnd
  <2>1. phase' # "steps" /\ settled' = settled
    BY <1>5 DEF Finish, Sweep, SweepEnd
  <2>2. \A r \in Resource : Done(r) => Done(r)'
    BY <1>5, OtherDone
  <2>. QED
    BY <1>0, <2>1, <2>2 DEF Dropped
<1>6. CASE (\E r \in Resource : Settle(r)) \/ UNCHANGED vars
  <2>1. UNCHANGED <<pc, phase, settled>>
    BY <1>6 DEF Settle, vars
  <2>2. \A r \in Resource : Done(r) => Done(r)'
    BY <1>6, OtherDone
  <2>3. ASSUME phase = "steps", NEW k \in DOMAIN Script, NEW j \in 1..k - 1, Clears(Script, j, k), pc \in j + 1..k
        PROVE  Done(Script[k].on[1])'
    <3>1. PICK r \in Resource : r = Script[k].on[1]
      <4>1. Script[k].act = "drop" /\ IsStep(Script[k])
        BY <2>3, TheStep DEF Clears, Script, TypeOK
      <4>2. Script[k].on \in Seq(Resource) /\ Len(Script[k].on) >= 1
        BY <4>1 DEF IsStep
      <4>. QED
        BY <4>2
    <3>2. Done(r)
      BY <2>3, <3>1 DEF Dropped
    <3>3. Done(r)'
      BY <2>2, <3>2
    <3>. QED
      BY <1>0, <3>1, <3>3 DEF Done
  <2>. QED
    BY <1>0, <2>1, <2>2, <2>3 DEF Dropped
<1>. QED
  BY <1>1, <1>2, <1>3, <1>4, <1>5, <1>6 DEF Next, Client, Ended

\* A cleanup that does not count as a failure has deleted its resource.
LEMMA SweepDone ==
  ASSUME TypeOK, Stack, Sweep, ~failures'
  PROVE  ~failures /\ \E r \in Resource : r = cleanups[Len(cleanups)] /\ Done(r)'
<1>1. PICK r \in Resource : r = cleanups[Len(cleanups)]
  BY SweepStep
<1>2. PICK a \in Answers("delete", r, cloud), m \in BOOLEAN :
        /\ cloud' = Effect("delete", r, a, cloud)
        /\ failures' = (failures \/ ~(Exit0(a) \/ looksDeleted(r, a, m, cloud')))
        /\ misread' = IF m /\ a = "refused" THEN misread \cup {r} ELSE misread
  BY <1>1 DEF Sweep
<1>3. ~failures /\ (Exit0(a) \/ looksDeleted(r, a, m, cloud'))
  BY <1>2
<1>4. a \in {"ok", "refused", "lost", "absent"} /\ (a # "refused" => cloud'[r] # "live")
  BY <1>2, AnswerDone DEF TypeOK
<1>5. a = "refused" => r \in misread' \/ cloud'[r] # "live"
  BY <1>2, <1>3 DEF Exit0, looksDeleted
<1>6. Done(r)'
  BY <1>4, <1>5 DEF Done
<1>. QED
  BY <1>1, <1>3, <1>6

LEMMA SweptInvariance ==
  ASSUME TypeOK, Stack, Swept, [Next]_vars
  PROVE  Swept'
<1> USE DEF Running
<1>0. Elements(tried) \subseteq Resource
  BY ElementsType DEF TypeOK
<1>1. CASE Command
  <2>1. tried' = <<>>
    BY <1>1 DEF Command, Stack
  <2>. QED
    BY <2>1, NoElements DEF Swept
<1>2. CASE Sweep
  <2> SUFFICES ASSUME ~failures', NEW r \in Elements(tried') PROVE Done(r)'
    BY DEF Swept
  <2>1. PICK q \in Resource : /\ q = cleanups[Len(cleanups)] /\ Done(q)' /\ ~failures
                              /\ Elements(tried') = Elements(tried) \cup {q}
    BY <1>2, SweepDone, SweepStep
  <2>2. CASE r = q
    BY <2>1, <2>2
  <2>3. CASE r \in Elements(tried)
    <3>1. Done(r) /\ r \in Resource
      BY <1>0, <2>1, <2>3 DEF Swept
    <3>. QED
      BY <1>2, <3>1, OtherDone
  <2>. QED
    BY <2>1, <2>2, <2>3
<1>3. CASE AddCleanup \/ DropCleanup \/ Condition \/ mustWaitDeleted \/ Finish
           \/ SweepEnd \/ (\E q \in Resource : Settle(q)) \/ UNCHANGED vars
  <2>1. UNCHANGED <<tried, failures>>
    BY <1>3 DEF AddCleanup, DropCleanup, Condition, mustWaitDeleted, Finish, SweepEnd, Settle, vars
  <2>2. \A r \in Resource : Done(r) => Done(r)'
    BY <1>3, OtherDone
  <2>. QED
    BY <1>0, <2>1, <2>2 DEF Swept
<1>. QED
  BY <1>1, <1>2, <1>3 DEF Next, Client, Ended

LEMMA AskedInvariance ==
  ASSUME TypeOK, Stack, Asked, [Next]_vars
  PROVE  Asked'
<1> USE DEF Running
<1>1. ASSUME NEW rs \in Seq(Resource), addCleanup(rs), phase = "steps", failures' = failures
      PROVE  Asked'
  <2>1. ~required' => rs = <<>> /\ cleanups = <<>>
    BY <1>1 DEF addCleanup, Asked, TypeOK
  <2>2. <<>> \o <<>> = <<>>
    OBVIOUS
  <2>3. ~required' => cleanups' = <<>>
    BY <1>1, <2>1, <2>2 DEF addCleanup
  <2>. QED
    BY <1>1, <2>3 DEF Asked
<1>2. CASE Command
  <2>1. phase = "steps" /\ failures' = failures
    BY <1>2 DEF Command
  <2>. QED
    BY <1>1, <1>2, <2>1, CommandStep
<1>3. CASE AddCleanup
  <2>1. phase = "steps" /\ failures' = failures /\ addCleanup(At.on) /\ At.on \in Seq(Resource)
    BY <1>3, AtType DEF AddCleanup
  <2>. QED
    BY <1>1, <2>1
<1>4. CASE DropCleanup
  <2>1. /\ phase = "steps" /\ phase' = "steps" /\ failures' = failures
        /\ dropCleanup(At.on[1])
    BY <1>4 DEF DropCleanup, Proceed
  <2>2. ~required' => cleanups' = <<>>
    BY <2>1, NoElements DEF dropCleanup, Asked
  <2>. QED
    BY <2>1, <2>2 DEF Asked
<1>5. CASE Condition \/ mustWaitDeleted
  <2>1. phase = "steps" /\ UNCHANGED <<required, failures, cleanups>>
    BY <1>5 DEF Condition, mustWaitDeleted
  <2>. QED
    BY <2>1 DEF Asked
<1>6. CASE Finish \/ Sweep \/ SweepEnd
  BY <1>6 DEF Finish, Sweep, SweepEnd, Asked
<1>7. CASE (\E q \in Resource : Settle(q)) \/ UNCHANGED vars
  BY <1>7 DEF Settle, vars, Asked
<1>. QED
  BY <1>2, <1>3, <1>4, <1>5, <1>6, <1>7 DEF Next, Client, Ended

(***************************************************************************)
(* A report that asks for no cleanup is true: in any suites that drop only *)
(* what they have deleted, whatever the cloud answers and however a suite  *)
(* ends, all that was registered is deleted, but for what the cloud gave   *)
(* up to delete or refused in the words of "not found".                    *)
(***************************************************************************)
THEOREM HonestReport == Spec => []ReportIsHonest
<1>1. Init => TypeOK /\ Past /\ Stack /\ Dropped /\ Swept /\ Asked
  <2>1. ASSUME Init PROVE Dropped /\ Swept /\ Asked
    BY <2>1, NoElements DEF Init, Dropped, Swept, Asked
  <2>. QED
    BY <2>1, StackInit, TypeInit
<1>2. TypeOK /\ Past /\ Stack /\ Dropped /\ Swept /\ Asked /\ [Next]_vars
        => (TypeOK /\ Past /\ Stack /\ Dropped /\ Swept /\ Asked)'
  BY TypeInvariance, StackInvariance, DroppedInvariance, SweptInvariance, AskedInvariance,
     RegisterAssumption, DropAssumption
<1>3. Stack /\ Dropped /\ Swept /\ Asked => ReportIsHonest
  <2> SUFFICES ASSUME Stack, Dropped, Swept, Asked, phase = "ended", ~required, NEW r \in kept
               PROVE  Done(r)
    BY DEF ReportIsHonest
  <2>1. ~failures /\ Elements(cleanups) = {}
    BY NoElements DEF Asked
  <2>2. r \in settled \/ r \in Elements(tried)
    BY <2>1 DEF Stack
  <2>. QED
    BY <2>1, <2>2 DEF Dropped, Swept
<1>. QED
  BY <1>1, <1>2, <1>3, PTL DEF Spec

==============================================================================
