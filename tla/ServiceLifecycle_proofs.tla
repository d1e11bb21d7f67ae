---------------------- MODULE ServiceLifecycle_proofs ----------------------
(***************************************************************************)
(* Proofs about the service commands for every set of executables and unit *)
(* files and any number of commands, failing steps and kills: types, the   *)
(* inductive invariant IInv and what follows from it.                      *)
(***************************************************************************)
EXTENDS ServiceLifecycle, TLAPS

----------------------------------------------------------------------------
(* Lists of steps                                                          *)

LEMMA Empty == ASSUME NEW b
               PROVE  /\ <<>> \in Seq(StepName) /\ Els(<<>>) = {} /\ InOrder(b, <<>>)
  BY DEF Els, InOrder

LEMMA Singles ==
    ASSUME NEW b, NEW s \in StepName
    PROVE  <<s>> \in Seq(StepName) /\ Els(<<s>>) = {s} /\ InOrder(b, <<s>>)
<1> DEFINE u == <<s>>
<1>1. u \in Seq(StepName) /\ Len(u) = 1 /\ u[1] = s
  OBVIOUS
<1> HIDE DEF u
<1>2. \A i \in 1..Len(u) : i = 1
  BY <1>1
<1>3. 1 \in 1..Len(u)
  BY <1>1
<1>4. Els(u) = {s}
  BY <1>1, <1>2, <1>3 DEF Els
<1>5. InOrder(b, u)
  BY <1>2 DEF InOrder
<1> QED
  BY <1>1, <1>4, <1>5 DEF u

LEMMA Pairs ==
    ASSUME NEW b, NEW s \in StepName, NEW t \in StepName,
           Rank(b, s) < Rank(b, t)
    PROVE  <<s, t>> \in Seq(StepName) /\ Els(<<s, t>>) = {s, t} /\ InOrder(b, <<s, t>>)
<1> DEFINE u == <<s, t>>
<1>1. u \in Seq(StepName) /\ Len(u) = 2 /\ u[1] = s /\ u[2] = t
  OBVIOUS
<1> HIDE DEF u
<1>2. \A i \in 1..Len(u) : i = 1 \/ i = 2
  BY <1>1
<1>3. 1 \in 1..Len(u) /\ 2 \in 1..Len(u)
  BY <1>1
<1>4. Els(u) = {s, t}
  BY <1>1, <1>2, <1>3 DEF Els
<1>5. InOrder(b, u)
  BY <1>1, <1>2 DEF InOrder
<1> QED
  BY <1>1, <1>4, <1>5 DEF u

\* What comes before and what comes after.
LEMMA Joined ==
    ASSUME NEW b, NEW s \in Seq(StepName), NEW t \in Seq(StepName),
           InOrder(b, s), InOrder(b, t),
           \A x \in Els(s), y \in Els(t) : Rank(b, x) < Rank(b, y)
    PROVE  /\ s \o t \in Seq(StepName) /\ Els(s \o t) = Els(s) \cup Els(t)
           /\ InOrder(b, s \o t)
<1> DEFINE u == s \o t
<1>1. u \in Seq(StepName) /\ Len(u) = Len(s) + Len(t) /\ Len(s) \in Nat /\ Len(t) \in Nat
  OBVIOUS
<1>2. \A i \in 1..Len(u) : /\ i <= Len(s) => i \in 1..Len(s) /\ u[i] = s[i]
                           /\ i > Len(s) => /\ i - Len(s) \in 1..Len(t)
                                            /\ u[i] = t[i - Len(s)]
  BY <1>1
<1> HIDE DEF u
<1>3. Els(u) \subseteq Els(s) \cup Els(t)
  <2> SUFFICES ASSUME NEW i \in 1..Len(u) PROVE u[i] \in Els(s) \cup Els(t)
    BY DEF Els
  <2>1. CASE i <= Len(s)
    BY <1>2, <2>1 DEF Els
  <2>2. CASE i > Len(s)
    BY <1>2, <2>2 DEF Els
  <2> QED
    BY <1>1, <2>1, <2>2
<1>4. Els(s) \subseteq Els(u)
  BY <1>1, <1>2 DEF Els
<1>5. Els(t) \subseteq Els(u)
  <2> SUFFICES ASSUME NEW i \in 1..Len(t) PROVE t[i] \in Els(u)
    BY DEF Els
  <2>1. i + Len(s) \in 1..Len(u) /\ i + Len(s) > Len(s) /\ (i + Len(s)) - Len(s) = i
    BY <1>1
  <2>2. u[i + Len(s)] = t[i]
    BY <1>2, <2>1
  <2> QED
    BY <2>1, <2>2 DEF Els
<1>6. InOrder(b, u)
  <2> SUFFICES ASSUME NEW i \in 1..Len(u), NEW j \in 1..Len(u), i < j
               PROVE  Rank(b, u[i]) < Rank(b, u[j])
    BY DEF InOrder
  <2>1. CASE j <= Len(s)
    BY <1>1, <1>2, <2>1 DEF InOrder
  <2>2. CASE i > Len(s)
    <3>1. i - Len(s) \in 1..Len(t) /\ j - Len(s) \in 1..Len(t) /\ i - Len(s) < j - Len(s)
      BY <1>1, <1>2, <2>2
    <3>2. u[i] = t[i - Len(s)] /\ u[j] = t[j - Len(s)]
      BY <1>1, <1>2, <2>2
    <3>3. Rank(b, t[i - Len(s)]) < Rank(b, t[j - Len(s)])
      BY <3>1 DEF InOrder
    <3> QED
      BY <3>2, <3>3
  <2>3. CASE i <= Len(s) /\ j > Len(s)
    BY <1>1, <1>2, <2>3 DEF Els
  <2> QED
    BY <1>1, <2>1, <2>2, <2>3
<1> QED
  BY <1>1, <1>3, <1>4, <1>5, <1>6 DEF u

LEMMA RankType == ASSUME NEW b, NEW s PROVE Rank(b, s) \in Nat
  BY DEF Rank

\* The first step of a list goes.
LEMMA FirstStep ==
    ASSUME NEW b, NEW s \in Seq(StepName), s # <<>>, InOrder(b, s)
    PROVE  /\ Head(s) \in Els(s) /\ Head(s) \in StepName /\ Tail(s) \in Seq(StepName)
           /\ InOrder(b, Tail(s)) /\ Els(Tail(s)) = Els(s) \ {Head(s)}
           /\ \A x \in Els(Tail(s)) : Rank(b, Head(s)) < Rank(b, x)
<1>1. /\ Len(s) \in Nat /\ 1 \in 1..Len(s) /\ Head(s) = s[1] /\ Head(s) \in StepName
      /\ Tail(s) \in Seq(StepName) /\ Len(Tail(s)) = Len(s) - 1
      /\ \A i \in 1..Len(Tail(s)) : i + 1 \in 1..Len(s) /\ Tail(s)[i] = s[i + 1]
  OBVIOUS
<1>2. Head(s) \in Els(s)
  BY <1>1 DEF Els
<1>3. \A x \in Els(Tail(s)) : x \in Els(s) /\ Rank(b, Head(s)) < Rank(b, x)
  BY <1>1 DEF Els, InOrder
<1>4. InOrder(b, Tail(s))
  <2> SUFFICES ASSUME NEW i \in 1..Len(Tail(s)), NEW j \in 1..Len(Tail(s)), i < j
               PROVE  Rank(b, Tail(s)[i]) < Rank(b, Tail(s)[j])
    BY DEF InOrder
  <2>1. i + 1 \in 1..Len(s) /\ j + 1 \in 1..Len(s) /\ i + 1 < j + 1
    BY <1>1
  <2> QED
    BY <1>1, <2>1 DEF InOrder
<1>5. ASSUME NEW x \in Els(s), x # Head(s) PROVE x \in Els(Tail(s))
  <2>1. PICK i \in 1..Len(s) : x = s[i]
    BY DEF Els
  <2>2. i - 1 \in 1..Len(Tail(s)) /\ (i - 1) + 1 = i
    BY <1>1, <1>5, <2>1
  <2> QED
    BY <1>1, <2>1, <2>2 DEF Els
<1>6. Head(s) \notin Els(Tail(s))
  <2>1. ~(Rank(b, Head(s)) < Rank(b, Head(s)))
    BY RankType
  <2> QED
    BY <1>3, <2>1
<1> QED
  BY <1>1, <1>2, <1>3, <1>4, <1>5, <1>6

\* s is a list, in order, of the steps in E, which come from lo to hi.
List(b, s, E, lo, hi) ==
    /\ s \in Seq(StepName) /\ InOrder(b, s) /\ Els(s) = E /\ lo \in Nat /\ hi \in Nat
    /\ \A x \in E : lo <= Rank(b, x) /\ Rank(b, x) <= hi

LEMMA ListNone ==
    ASSUME NEW b, NEW lo \in Nat, NEW hi \in Nat PROVE List(b, <<>>, {}, lo, hi)
  BY Empty DEF List

LEMMA ListOne ==
    ASSUME NEW b, NEW s \in StepName, NEW k \in Nat, Rank(b, s) = k
    PROVE  List(b, <<s>>, {s}, k, k)
  BY Singles DEF List

LEMMA ListTwo ==
    ASSUME NEW b, NEW s \in StepName, NEW t \in StepName, NEW lo \in Nat, NEW hi \in Nat,
           Rank(b, s) = lo, Rank(b, t) = hi, lo < hi
    PROVE  List(b, <<s, t>>, {s, t}, lo, hi)
<1>1. <<s, t>> \in Seq(StepName) /\ InOrder(b, <<s, t>>) /\ Els(<<s, t>>) = {s, t}
  BY Pairs
<1> QED
  BY <1>1 DEF List

\* One list after another.
LEMMA ListJoin ==
    ASSUME NEW b, NEW s, NEW t, NEW E, NEW F, NEW l1, NEW h1, NEW l2, NEW h2,
           List(b, s, E, l1, h1), List(b, t, F, l2, h2), l1 <= l2, h1 < l2, h1 <= h2
    PROVE  List(b, s \o t, E \cup F, l1, h2)
<1>1. \A x \in Els(s), y \in Els(t) : Rank(b, x) < Rank(b, y)
  BY RankType DEF List
<1>2. s \o t \in Seq(StepName) /\ Els(s \o t) = E \cup F /\ InOrder(b, s \o t)
  BY <1>1, Joined DEF List
<1>3. \A x \in E \cup F : l1 <= Rank(b, x) /\ Rank(b, x) <= h2
  BY RankType DEF List
<1> QED
  BY <1>2, <1>3 DEF List

LEMMA ListWhen ==
    ASSUME NEW b, NEW c \in BOOLEAN, NEW s, NEW E, NEW lo, NEW hi, List(b, s, E, lo, hi)
    PROVE  List(b, When(c, s), IF c THEN E ELSE {}, lo, hi)
  BY ListNone DEF When, List

LEMMA Wider ==
    ASSUME NEW b, NEW s, NEW E, NEW lo, NEW hi, List(b, s, E, lo, hi),
           NEW l \in Nat, NEW h \in Nat, l <= lo, hi <= h
    PROVE  List(b, s, E, l, h)
  BY RankType DEF List

LEMMA EnableList ==
    ASSUME NEW b, NEW w
    PROVE  \E E : /\ List(b, EnableSteps(w), E, 7, 8)
                  /\ E \subseteq {"disable", "enable", "enable --runtime"}
                  /\ "disable" \in E /\ (w = "enabled" => "enable" \in E)
                  /\ w = "enabled-runtime" => "enable --runtime" \in E
                  /\ "enable" \in E => w = "enabled"
                  /\ "enable --runtime" \in E => w = "enabled-runtime"
<1>1. /\ {"disable", "enable", "enable --runtime"} \subseteq StepName
      /\ Rank(b, "disable") = 7 /\ Rank(b, "enable") = 8
      /\ Rank(b, "enable --runtime") = 8
  BY DEF StepName, Rank
<1>1a. 7 \in Nat /\ 8 \in Nat /\ 7 < 8
  OBVIOUS
<1>2. CASE w = "enabled"
  <2>1. EnableSteps(w) = <<"disable", "enable">>
    BY <1>2 DEF EnableSteps
  <2>2. List(b, EnableSteps(w), {"disable", "enable"}, 7, 8)
    BY <1>1, <1>1a, <2>1, ListTwo, Zenon
  <2> DEFINE E == {"disable", "enable"}
  <2>3. /\ E \subseteq {"disable", "enable", "enable --runtime"} /\ "disable" \in E
        /\ "enable" \in E /\ "enable --runtime" \notin E
    OBVIOUS
  <2>4. w # "enabled-runtime"
    BY <1>2
  <2>5. List(b, EnableSteps(w), E, 7, 8)
    BY <2>2
  <2> HIDE DEF E
  <2> QED
    BY <1>2, <2>3, <2>4, <2>5, Zenon
<1>3. CASE w = "enabled-runtime"
  <2>1. EnableSteps(w) = <<"disable", "enable --runtime">>
    BY <1>3 DEF EnableSteps
  <2>2. List(b, EnableSteps(w), {"disable", "enable --runtime"}, 7, 8)
    BY <1>1, <1>1a, <2>1, ListTwo, Zenon
  <2> DEFINE E == {"disable", "enable --runtime"}
  <2>3. /\ E \subseteq {"disable", "enable", "enable --runtime"} /\ "disable" \in E
        /\ "enable --runtime" \in E /\ "enable" \notin E
    OBVIOUS
  <2>4. w # "enabled"
    BY <1>3
  <2>5. List(b, EnableSteps(w), E, 7, 8)
    BY <2>2
  <2> HIDE DEF E
  <2> QED
    BY <1>3, <2>3, <2>4, <2>5, Zenon
<1>4. CASE w # "enabled" /\ w # "enabled-runtime"
  <2>1. EnableSteps(w) = <<"disable">>
    BY <1>4 DEF EnableSteps
  <2>2. List(b, EnableSteps(w), {"disable"}, 7, 7)
    BY <1>1, <2>1, ListOne
  <2>3. List(b, EnableSteps(w), {"disable"}, 7, 8)
    BY <2>2, Wider
  <2> DEFINE E == {"disable"}
  <2>4. /\ E \subseteq {"disable", "enable", "enable --runtime"} /\ "disable" \in E
        /\ "enable" \notin E /\ "enable --runtime" \notin E
    OBVIOUS
  <2>5. List(b, EnableSteps(w), E, 7, 8)
    BY <2>3
  <2> HIDE DEF E
  <2> QED
    BY <1>4, <2>4, <2>5, Zenon
<1> QED
  BY <1>2, <1>3, <1>4

LEMMA ActiveList ==
    ASSUME NEW b, NEW w
    PROVE  List(b, ActiveSteps(w),
                IF w = "active" THEN {"reset-failed", "restart"} ELSE {"stop"}, 9, 12)
<1>1. /\ {"reset-failed", "restart", "stop"} \subseteq StepName
      /\ Rank(b, "reset-failed") = 9 /\ Rank(b, "restart") = 12 /\ Rank(b, "stop") = 12
  BY DEF StepName, Rank
<1>2. CASE w = "active"
  BY <1>1, <1>2, ListTwo DEF ActiveSteps
<1>3. CASE w # "active"
  <2>1. List(b, <<"stop">>, {"stop"}, 12, 12)
    BY <1>1, ListOne
  <2>2. List(b, <<"stop">>, {"stop"}, 9, 12)
    BY <2>1, Wider
  <2> QED
    BY <1>3, <2>2 DEF ActiveSteps
<1> QED
  BY <1>2, <1>3

\* The end of an install, and of restore, when there was a unit file: the
\* enablement e and the activity a.
StateSteps(b, e, a, E) ==
    /\ List(b, EnableSteps(e) \o ActiveSteps(a), E, 7, 12)
    /\ E \subseteq {"disable", "enable", "enable --runtime", "reset-failed", "restart",
                    "stop"}
    /\ e = "enabled" => "enable" \in E
    /\ e = "enabled-runtime" => "enable --runtime" \in E
    /\ "enable" \in E => e = "enabled"
    /\ "enable --runtime" \in E => e = "enabled-runtime"
    /\ "disable" \in E
    /\ IF a = "active" THEN "restart" \in E ELSE "stop" \in E

LEMMA StateList ==
    ASSUME NEW b, NEW e, NEW a
    PROVE  \E E : StateSteps(b, e, a, E)
<1>1. PICK E : /\ List(b, EnableSteps(e), E, 7, 8)
               /\ E \subseteq {"disable", "enable", "enable --runtime"}
               /\ "disable" \in E /\ (e = "enabled" => "enable" \in E)
               /\ e = "enabled-runtime" => "enable --runtime" \in E
               /\ "enable" \in E => e = "enabled"
               /\ "enable --runtime" \in E => e = "enabled-runtime"
  BY EnableList
<1> DEFINE F == IF a = "active" THEN {"reset-failed", "restart"} ELSE {"stop"}
<1>2. List(b, ActiveSteps(a), F, 9, 12)
  BY ActiveList
<1>3. F \subseteq {"reset-failed", "restart", "stop"}
      /\ IF a = "active" THEN "restart" \in F ELSE "stop" \in F
  OBVIOUS
<1> HIDE DEF F
<1>4. List(b, EnableSteps(e) \o ActiveSteps(a), E \cup F, 7, 12)
  <2>1. 7 <= 9 /\ 8 < 9 /\ 8 <= 12
    OBVIOUS
  <2> QED
    BY <1>1, <1>2, <2>1, ListJoin, Zenon
<1> DEFINE G == E \cup F
<1>5. /\ G \subseteq {"disable", "enable", "enable --runtime", "reset-failed", "restart",
                      "stop"}
      /\ e = "enabled" => "enable" \in G
      /\ e = "enabled-runtime" => "enable --runtime" \in G
      /\ "enable" \in G => e = "enabled"
      /\ "enable --runtime" \in G => e = "enabled-runtime"
      /\ "disable" \in G
      /\ IF a = "active" THEN "restart" \in G ELSE "stop" \in G
  BY <1>1, <1>3
<1>6. List(b, EnableSteps(e) \o ActiveSteps(a), G, 7, 12)
  BY <1>4
<1> HIDE DEF G
<1> QED
  BY <1>5, <1>6 DEF StateSteps

LEMMA Triples ==
    ASSUME NEW s \in StepName, NEW t \in StepName, NEW u \in StepName
    PROVE  /\ <<s, t, u>> \in Seq(StepName) /\ Els(<<s, t, u>>) = {s, t, u}
           /\ \A b : Rank(b, s) < Rank(b, t) /\ Rank(b, t) < Rank(b, u)
                     => InOrder(b, <<s, t, u>>)
<1> DEFINE v == <<s, t, u>>
<1>1. v \in Seq(StepName) /\ Len(v) = 3 /\ v[1] = s /\ v[2] = t /\ v[3] = u
  OBVIOUS
<1> HIDE DEF v
<1>2. \A i \in 1..Len(v) : i = 1 \/ i = 2 \/ i = 3
  BY <1>1
<1>3. 1 \in 1..Len(v) /\ 2 \in 1..Len(v) /\ 3 \in 1..Len(v)
  BY <1>1
<1>4. Els(v) = {s, t, u}
  BY <1>1, <1>2, <1>3 DEF Els
<1>5. ASSUME NEW b, Rank(b, s) < Rank(b, t), Rank(b, t) < Rank(b, u)
      PROVE  InOrder(b, v)
  <2>1. Rank(b, s) < Rank(b, u)
    BY <1>5, RankType
  <2> QED
    BY <1>1, <1>2, <1>5, <2>1 DEF InOrder
<1> QED
  BY <1>1, <1>4, <1>5 DEF v

LEMMA ListThree ==
    ASSUME NEW b, NEW s \in StepName, NEW t \in StepName, NEW u \in StepName,
           NEW lo \in Nat, NEW k \in Nat, NEW hi \in Nat,
           Rank(b, s) = lo, Rank(b, t) = k, Rank(b, u) = hi, lo < k, k < hi
    PROVE  List(b, <<s, t, u>>, {s, t, u}, lo, hi)
<1>1. /\ <<s, t, u>> \in Seq(StepName) /\ InOrder(b, <<s, t, u>>)
      /\ Els(<<s, t, u>>) = {s, t, u}
  BY Triples
<1> QED
  BY <1>1 DEF List

\* What is set back, or started, at the end of an install.
LEMMA BringUpList ==
    ASSUME NEW b, NEW u, NEW e, NEW a
    PROVE  \E E : /\ List(b, IF u = None THEN <<"enable", "reset-failed", "restart">>
                             ELSE EnableSteps(e) \o ActiveSteps(a), E, 7, 12)
                  /\ E \subseteq {"disable", "enable", "enable --runtime",
                                  "reset-failed", "restart", "stop"}
                  /\ "disable" \in E \/ "enable" \in E
                  /\ "restart" \in E \/ "stop" \in E
<1>1. CASE u = None
  <2>1. /\ {"enable", "reset-failed", "restart"} \subseteq StepName
        /\ Rank(b, "enable") = 8 /\ Rank(b, "reset-failed") = 9
        /\ Rank(b, "restart") = 12
    BY DEF StepName, Rank
  <2>2. 7 \in Nat /\ 8 \in Nat /\ 9 \in Nat /\ 12 \in Nat /\ 8 < 9 /\ 9 < 12
        /\ 7 <= 8 /\ 12 <= 12
    OBVIOUS
  <2> DEFINE E == {"enable", "reset-failed", "restart"}
             s == <<"enable", "reset-failed", "restart">>
  <2>3. List(b, s, E, 8, 12)
    BY <2>1, <2>2, ListThree, Zenon
  <2>4. List(b, s, E, 7, 12)
    BY <2>2, <2>3, Wider, Zenon
  <2>5. /\ E \subseteq {"disable", "enable", "enable --runtime", "reset-failed",
                        "restart", "stop"}
        /\ "enable" \in E /\ "restart" \in E
    OBVIOUS
  <2> HIDE DEF E, s
  <2> QED
    BY <1>1, <2>4, <2>5, Zenon DEF s
<1>2. CASE u # None
  <2>1. PICK E : /\ List(b, EnableSteps(e) \o ActiveSteps(a), E, 7, 12)
                 /\ E \subseteq {"disable", "enable", "enable --runtime",
                                 "reset-failed", "restart", "stop"}
                 /\ "disable" \in E
                 /\ IF a = "active" THEN "restart" \in E ELSE "stop" \in E
    <3>1. \E E : StateSteps(b, e, a, E)
      BY StateList, Zenon
    <3> QED
      BY <3>1 DEF StateSteps
  <2> QED
    BY <1>2, <2>1, Zenon
<1> QED
  BY <1>1, <1>2

LEMMA ApplyList ==
    \E E : /\ List("do", ApplySteps, E, 3, 13)
           /\ E \subseteq {"binary", "unit", "daemon-reload", "disable", "enable",
                           "enable --runtime", "reset-failed", "restart", "stop",
                           "drop preinstall"}
           /\ ~Changed => E = {}
           /\ Changed => /\ "drop preinstall" \in E
                         /\ "restart" \in E \/ "stop" \in E
                         /\ "disable" \in E \/ "enable" \in E
<1> DEFINE c == op.prior.unit # op.unit
           mid == IF op.prior.unit = None THEN <<"enable", "reset-failed", "restart">>
                  ELSE EnableSteps(op.prior.enabled) \o ActiveSteps(op.prior.active)
           R == IF c THEN {"daemon-reload"} ELSE {}
<1>1. /\ {"binary", "unit", "daemon-reload", "drop preinstall"} \subseteq StepName
      /\ Rank("do", "binary") = 3 /\ Rank("do", "unit") = 5
      /\ Rank("do", "daemon-reload") = 6 /\ Rank("do", "drop preinstall") = 13
  BY DEF StepName, Rank
<1>2. 3 \in Nat /\ 5 \in Nat /\ 6 \in Nat /\ 13 \in Nat /\ 3 < 5
  OBVIOUS
<1>3. List("do", <<"binary", "unit">>, {"binary", "unit"}, 3, 5)
  BY <1>1, <1>2, ListTwo, Zenon
<1>4. List("do", <<"daemon-reload">>, {"daemon-reload"}, 6, 6)
  BY <1>1, <1>2, ListOne, Zenon
<1>5. List("do", When(c, <<"daemon-reload">>), R, 6, 6)
  BY <1>4, ListWhen, c \in BOOLEAN
<1>6. PICK E : /\ List("do", mid, E, 7, 12)
               /\ E \subseteq {"disable", "enable", "enable --runtime",
                               "reset-failed", "restart", "stop"}
               /\ "disable" \in E \/ "enable" \in E
               /\ "restart" \in E \/ "stop" \in E
  BY BringUpList, Zenon
<1>7. List("do", <<"drop preinstall">>, {"drop preinstall"}, 13, 13)
  BY <1>1, <1>2, ListOne, Zenon
<1>8. R \subseteq {"daemon-reload"}
  OBVIOUS
<1> HIDE DEF R, mid
<1>9. List("do", <<"binary", "unit">> \o When(c, <<"daemon-reload">>),
          {"binary", "unit"} \cup R, 3, 6)
  <2>1. 3 <= 6 /\ 5 < 6 /\ 5 <= 6
    OBVIOUS
  <2> QED
    BY <1>3, <1>5, <2>1, ListJoin, Zenon
<1>10. List("do", <<"binary", "unit">> \o When(c, <<"daemon-reload">>) \o mid,
           ({"binary", "unit"} \cup R) \cup E, 3, 12)
  <2>1. 3 <= 7 /\ 6 < 7 /\ 6 <= 12
    OBVIOUS
  <2> QED
    BY <1>9, <1>6, <2>1, ListJoin, Zenon
<1> DEFINE all == <<"binary", "unit">> \o When(c, <<"daemon-reload">>) \o mid
                  \o <<"drop preinstall">>
           F == (({"binary", "unit"} \cup R) \cup E) \cup {"drop preinstall"}
<1>11. List("do", all, F, 3, 13)
  <2>1. 3 <= 13 /\ 12 < 13 /\ 12 <= 13
    OBVIOUS
  <2> QED
    BY <1>10, <1>7, <2>1, ListJoin, Zenon
<1>12. /\ F \subseteq {"binary", "unit", "daemon-reload", "disable", "enable",
                       "enable --runtime", "reset-failed", "restart", "stop",
                       "drop preinstall"}
       /\ "drop preinstall" \in F
       /\ "restart" \in F \/ "stop" \in F
       /\ "disable" \in F \/ "enable" \in F
  BY <1>6, <1>8
<1> HIDE DEF F
<1>13. ApplySteps = When(Changed, all)
  BY DEF ApplySteps, mid
<1> HIDE DEF all
<1>14. CASE Changed
  BY <1>11, <1>12, <1>13, <1>14, Zenon DEF When
<1>15. CASE ~Changed
  <2>1. ApplySteps = <<>>
    BY <1>13, <1>15 DEF When
  <2>2. List("do", <<>>, {}, 3, 13)
    BY ListNone
  <2> QED
    BY <1>15, <2>1, <2>2, Zenon
<1> QED
  BY <1>14, <1>15

\* restore: what it sets back, and that it ends with the enablement and the
\* activity that were found.
LEMMA RestoreList ==
    \E E : /\ List("undo", RestoreSteps, E, 1, 12)
           /\ E \subseteq {"stop new", "disable new", "restore binary", "remove binary",
                           "drop preinstall", "restore unit", "remove unit",
                           "daemon-reload", "disable", "enable", "enable --runtime",
                           "reset-failed", "restart", "stop"}
           /\ IF op.prior.bin # None THEN "restore binary" \in E /\ "remove binary" \notin E
              ELSE "remove binary" \in E /\ "restore binary" \notin E
           /\ IF op.prior.unit # None THEN "restore unit" \in E /\ "remove unit" \notin E
              ELSE "remove unit" \in E
           /\ LastEnable \in E /\ LastActive \in E
           /\ op.prior.unit = None =>
                 E \cap {"disable", "enable", "enable --runtime", "restart", "stop"} = {}
           /\ "enable" \in E => op.prior.enabled = "enabled"
           /\ "enable --runtime" \in E => op.prior.enabled = "enabled-runtime"
<1> DEFINE B == IF op.prior.bin # None THEN {"restore binary"} ELSE {"remove binary"}
           U == IF op.prior.unit # None THEN {"restore unit"} ELSE {"remove unit"}
           bs == IF op.prior.bin # None THEN <<"restore binary">> ELSE <<"remove binary">>
           us == IF op.prior.unit # None THEN <<"restore unit">> ELSE <<"remove unit">>
           c == op.prior.unit # None
           end == EnableSteps(op.prior.enabled) \o ActiveSteps(op.prior.active)
<1>1. /\ {"stop new", "disable new", "restore binary", "remove binary",
          "drop preinstall", "restore unit", "remove unit", "daemon-reload"}
            \subseteq StepName
      /\ Rank("undo", "stop new") = 1 /\ Rank("undo", "disable new") = 2
      /\ Rank("undo", "restore binary") = 3 /\ Rank("undo", "remove binary") = 3
      /\ Rank("undo", "drop preinstall") = 4 /\ Rank("undo", "restore unit") = 5
      /\ Rank("undo", "remove unit") = 5 /\ Rank("undo", "daemon-reload") = 6
  BY DEF StepName, Rank
<1>2. /\ 1 \in Nat /\ 2 \in Nat /\ 3 \in Nat /\ 4 \in Nat /\ 5 \in Nat /\ 6 \in Nat
      /\ 1 < 2
  OBVIOUS
<1>3. List("undo", <<"stop new", "disable new">>, {"stop new", "disable new"}, 1, 2)
  BY <1>1, <1>2, ListTwo, Zenon
<1>4. List("undo", <<"restore binary">>, {"restore binary"}, 3, 3)
      /\ List("undo", <<"remove binary">>, {"remove binary"}, 3, 3)
  BY <1>1, <1>2, ListOne, Zenon
<1>5. List("undo", bs, B, 3, 3)
  BY <1>4
<1>6. List("undo", <<"drop preinstall">>, {"drop preinstall"}, 4, 4)
  BY <1>1, <1>2, ListOne, Zenon
<1>7. List("undo", <<"restore unit">>, {"restore unit"}, 5, 5)
      /\ List("undo", <<"remove unit">>, {"remove unit"}, 5, 5)
  BY <1>1, <1>2, ListOne, Zenon
<1>8. List("undo", us, U, 5, 5)
  BY <1>7
<1>9. List("undo", <<"daemon-reload">>, {"daemon-reload"}, 6, 6)
  BY <1>1, <1>2, ListOne, Zenon
<1>10. PICK E : /\ List("undo", end, E, 7, 12)
                /\ E \subseteq {"disable", "enable", "enable --runtime",
                                "reset-failed", "restart", "stop"}
                /\ op.prior.enabled = "enabled" => "enable" \in E
                /\ op.prior.enabled = "enabled-runtime" => "enable --runtime" \in E
                /\ "enable" \in E => op.prior.enabled = "enabled"
                /\ "enable --runtime" \in E => op.prior.enabled = "enabled-runtime"
                /\ "disable" \in E
                /\ IF op.prior.active = "active" THEN "restart" \in E ELSE "stop" \in E
  <2>1. \E E : StateSteps("undo", op.prior.enabled, op.prior.active, E)
    BY StateList, Zenon
  <2> QED
    BY <2>1 DEF StateSteps
<1> DEFINE F == IF c THEN E ELSE {}
<1>11. List("undo", When(c, end), F, 7, 12)
  BY <1>10, ListWhen, c \in BOOLEAN
<1>12. /\ B \subseteq {"restore binary", "remove binary"}
       /\ IF op.prior.bin # None THEN "restore binary" \in B /\ "remove binary" \notin B
          ELSE "remove binary" \in B /\ "restore binary" \notin B
       /\ U \subseteq {"restore unit", "remove unit"}
       /\ IF op.prior.unit # None THEN "restore unit" \in U /\ "remove unit" \notin U
          ELSE "remove unit" \in U
  OBVIOUS
<1>13. /\ F \subseteq {"disable", "enable", "enable --runtime", "reset-failed",
                       "restart", "stop"}
       /\ LastEnable \in F \cup {"disable new"} /\ LastActive \in F \cup {"stop new"}
  <2>1. CASE op.prior.unit = None
    <3>1. LastEnable = "disable new" /\ LastActive = "stop new"
      BY <2>1 DEF LastEnable, LastActive
    <3>2. F = {}
      BY <2>1
    <3> QED
      BY <3>1, <3>2
  <2>2. CASE op.prior.unit # None
    <3>1. LastEnable \in E
      BY <1>10, <2>2 DEF LastEnable
    <3>2. LastActive \in E
      BY <1>10, <2>2 DEF LastActive
    <3> QED
      BY <1>10, <2>2, <3>1, <3>2
  <2> QED
    BY <2>1, <2>2
<1>13a. /\ op.prior.unit = None => F = {}
        /\ "enable" \in F => op.prior.enabled = "enabled"
        /\ "enable --runtime" \in F => op.prior.enabled = "enabled-runtime"
  BY <1>10
<1> HIDE DEF B, U, bs, us, F, end
<1> DEFINE s1 == <<"stop new", "disable new">> \o bs
           s2 == s1 \o <<"drop preinstall">>
           s3 == s2 \o us
           s4 == s3 \o <<"daemon-reload">>
           s5 == s4 \o When(c, end)
           G1 == {"stop new", "disable new"} \cup B
           G2 == G1 \cup {"drop preinstall"}
           G3 == G2 \cup U
           G4 == G3 \cup {"daemon-reload"}
           G5 == G4 \cup F
<1>14. List("undo", s1, G1, 1, 3)
  <2>1. 1 <= 3 /\ 2 < 3 /\ 2 <= 3
    OBVIOUS
  <2> QED
    BY <1>3, <1>5, <2>1, ListJoin, Zenon
<1>15. List("undo", s2, G2, 1, 4)
  <2>1. 1 <= 4 /\ 3 < 4 /\ 3 <= 4
    OBVIOUS
  <2> QED
    BY <1>14, <1>6, <2>1, ListJoin, Zenon
<1>16. List("undo", s3, G3, 1, 5)
  <2>1. 1 <= 5 /\ 4 < 5 /\ 4 <= 5
    OBVIOUS
  <2> QED
    BY <1>15, <1>8, <2>1, ListJoin, Zenon
<1>17. List("undo", s4, G4, 1, 6)
  <2>1. 1 <= 6 /\ 5 < 6 /\ 5 <= 6
    OBVIOUS
  <2> QED
    BY <1>16, <1>9, <2>1, ListJoin, Zenon
<1>18. List("undo", s5, G5, 1, 12)
  <2>1. 1 <= 7 /\ 6 < 7 /\ 6 <= 12
    OBVIOUS
  <2> QED
    BY <1>17, <1>11, <2>1, ListJoin, Zenon
<1>19. RestoreSteps = s5
  BY DEF RestoreSteps, bs, us, end
<1>20. G5 \subseteq {"stop new", "disable new", "restore binary", "remove binary",
                     "drop preinstall", "restore unit", "remove unit",
                     "daemon-reload", "disable", "enable", "enable --runtime",
                     "reset-failed", "restart", "stop"}
  BY <1>12, <1>13
<1>21. IF op.prior.bin # None THEN "restore binary" \in G5 /\ "remove binary" \notin G5
       ELSE "remove binary" \in G5 /\ "restore binary" \notin G5
  BY <1>12, <1>13
<1>22. IF op.prior.unit # None THEN "restore unit" \in G5 /\ "remove unit" \notin G5
       ELSE "remove unit" \in G5
  BY <1>12, <1>13
<1>23. LastEnable \in G5 /\ LastActive \in G5
  BY <1>13
<1>24. /\ op.prior.unit = None =>
             G5 \cap {"disable", "enable", "enable --runtime", "restart", "stop"} = {}
       /\ "enable" \in G5 => op.prior.enabled = "enabled"
       /\ "enable --runtime" \in G5 => op.prior.enabled = "enabled-runtime"
  BY <1>12, <1>13a
<1> HIDE DEF G5, s5
<1> QED
  BY <1>18, <1>19, <1>20, <1>21, <1>22, <1>23, <1>24, Zenon

LEMMA PrepareList ==
    ASSUME NEW v, NEW u
    PROVE  \E E : /\ List("do", PrepareSteps(v, u), E, 1, 4)
                  /\ E \subseteq {"account", "make leaf", "own leaf", "chmod leaf",
                                  "preinstall"}
                  /\ (files.unit # u \/ files.bin # v) /\ files.bin # None =>
                        "preinstall" \in E
<1> DEFINE same == files.unit = u /\ files.bin = v
           c == ~(same /\ files.data = "service")
           d == ~same /\ files.bin # None
           D == IF files.data = None THEN {"make leaf", "own leaf"} ELSE {"chmod leaf"}
<1>1. /\ {"account", "make leaf", "own leaf", "chmod leaf", "preinstall"} \subseteq StepName
      /\ Rank("do", "account") = 1 /\ Rank("do", "make leaf") = 2
      /\ Rank("do", "chmod leaf") = 2 /\ Rank("do", "own leaf") = 3
      /\ Rank("do", "preinstall") = 4
  BY DEF StepName, Rank
<1>2. 1 \in Nat /\ 2 \in Nat /\ 3 \in Nat /\ 4 \in Nat /\ 2 < 3 /\ 2 <= 2 /\ 2 <= 3
  OBVIOUS
<1>3. List("do", <<"account">>, {"account"}, 1, 1)
      /\ List("do", <<"preinstall">>, {"preinstall"}, 4, 4)
  BY <1>1, <1>2, ListOne, Zenon
<1>4. List("do", <<"make leaf", "own leaf">>, {"make leaf", "own leaf"}, 2, 3)
  BY <1>1, <1>2, ListTwo, Zenon
<1>5. List("do", <<"chmod leaf">>, {"chmod leaf"}, 2, 2)
  BY <1>1, <1>2, ListOne, Zenon
<1>6. List("do", <<"chmod leaf">>, {"chmod leaf"}, 2, 3)
  BY <1>2, <1>5, Wider, Zenon
<1>7. List("do", DataDirSteps, D, 2, 3)
  BY <1>4, <1>6 DEF DataDirSteps
<1>8. D \subseteq {"make leaf", "own leaf", "chmod leaf"}
  OBVIOUS
<1> HIDE DEF D
<1> DEFINE A == {"account"} \cup D
           s == <<"account">> \o DataDirSteps
<1>9. List("do", s, A, 1, 3)
  <2>1. 1 <= 2 /\ 1 < 2 /\ 1 <= 3
    OBVIOUS
  <2> QED
    BY <1>3, <1>7, <2>1, ListJoin, Zenon
<1> HIDE DEF s
<1> DEFINE A1 == IF c THEN A ELSE {}
           P1 == IF d THEN {"preinstall"} ELSE {}
<1>10. List("do", When(c, s), A1, 1, 3)
  BY <1>9, ListWhen, c \in BOOLEAN
<1>11. List("do", When(d, <<"preinstall">>), P1, 4, 4)
  BY <1>3, ListWhen, d \in BOOLEAN
<1>12. /\ A1 \subseteq {"account", "make leaf", "own leaf", "chmod leaf"}
       /\ P1 \subseteq {"preinstall"} /\ (d => "preinstall" \in P1)
  BY <1>8
<1> HIDE DEF A1, P1
<1> DEFINE G == A1 \cup P1
           t == When(c, s) \o When(d, <<"preinstall">>)
<1>13. List("do", t, G, 1, 4)
  <2>1. 1 <= 4 /\ 3 < 4 /\ 3 <= 4
    OBVIOUS
  <2> QED
    BY <1>10, <1>11, <2>1, ListJoin, Zenon
<1>14. PrepareSteps(v, u) = t
  BY DEF PrepareSteps, s
<1>15. G \subseteq {"account", "make leaf", "own leaf", "chmod leaf", "preinstall"}
       /\ (d => "preinstall" \in G)
  BY <1>12
<1>16. (files.unit # u \/ files.bin # v) /\ files.bin # None => d
  OBVIOUS
<1> HIDE DEF G, t, d
<1> QED
  BY <1>13, <1>14, <1>15, <1>16, Zenon

LEMMA RestartList ==
    ASSUME NEW b, NEW w
    PROVE  List(b, RestartSteps(w),
                IF w = "active" THEN {"reset-failed", "restart", "verify"} ELSE {}, 9, 13)
<1>1. /\ {"reset-failed", "restart", "verify"} \subseteq StepName
      /\ Rank(b, "reset-failed") = 9 /\ Rank(b, "restart") = 12 /\ Rank(b, "verify") = 13
  BY DEF StepName, Rank
<1>2. 9 \in Nat /\ 12 \in Nat /\ 13 \in Nat /\ 9 < 12 /\ 12 < 13
  OBVIOUS
<1> DEFINE E == {"reset-failed", "restart", "verify"}
           s == <<"reset-failed", "restart", "verify">>
           c == w = "active"
<1>3. List(b, s, E, 9, 13)
  BY <1>1, <1>2, ListThree, Zenon
<1> HIDE DEF s, E
<1>4. List(b, When(c, s), IF c THEN E ELSE {}, 9, 13)
  BY <1>3, ListWhen, c \in BOOLEAN
<1> QED
  BY <1>4 DEF RestartSteps, s, E

\* Update and its recovery.
LEMMA SaveList ==
    \E E : /\ List("do", SaveSteps, E, 1, 3)
           /\ E \subseteq {"save rollback", "save marker", "binary"}
           /\ "binary" \in E
           /\ files.bin # None => {"save rollback", "save marker"} \subseteq E
<1>1. /\ {"save rollback", "save marker", "binary"} \subseteq StepName
      /\ Rank("do", "save rollback") = 1 /\ Rank("do", "save marker") = 2
      /\ Rank("do", "binary") = 3
  BY DEF StepName, Rank
<1>2. 1 \in Nat /\ 2 \in Nat /\ 3 \in Nat /\ 1 < 2
  OBVIOUS
<1> DEFINE c == files.bin # None
           S == {"save rollback", "save marker"}
           s == <<"save rollback", "save marker">>
<1>3. List("do", s, S, 1, 2)
  BY <1>1, <1>2, ListTwo, Zenon
<1> HIDE DEF s
<1> DEFINE S1 == IF c THEN S ELSE {}
<1>4. List("do", When(c, s), S1, 1, 2)
  BY <1>3, ListWhen, c \in BOOLEAN
<1>5. S1 \subseteq {"save rollback", "save marker"} /\ (c => S \subseteq S1)
  OBVIOUS
<1>6. List("do", <<"binary">>, {"binary"}, 3, 3)
  BY <1>1, <1>2, ListOne, Zenon
<1> HIDE DEF S1
<1> DEFINE G == S1 \cup {"binary"}
           t == When(c, s) \o <<"binary">>
<1>7. List("do", t, G, 1, 3)
  <2>1. 1 <= 3 /\ 2 < 3 /\ 2 <= 3
    OBVIOUS
  <2> QED
    BY <1>4, <1>6, <2>1, ListJoin, Zenon
<1>8. SaveSteps = t
  BY DEF SaveSteps, s
<1>9. /\ G \subseteq {"save rollback", "save marker", "binary"} /\ "binary" \in G
      /\ files.bin # None => {"save rollback", "save marker"} \subseteq G
  BY <1>5
<1> HIDE DEF G, t
<1> QED
  BY <1>7, <1>8, <1>9, Zenon

LEMMA RecoveryList ==
    \E E : /\ List("undo", RecoverySteps, E, 1, 14)
           /\ E \subseteq {"stop new", "recover binary", "reset-failed", "restart",
                           "verify", "forget"}
           /\ {"recover binary", "stop new"} \subseteq E
           /\ files.marker = "active" => {"restart", "verify"} \subseteq E
<1>1. /\ {"stop new", "recover binary", "forget"} \subseteq StepName
      /\ Rank("undo", "stop new") = 1 /\ Rank("undo", "recover binary") = 3
      /\ Rank("undo", "forget") = 14
  BY DEF StepName, Rank
<1>2. 1 \in Nat /\ 3 \in Nat /\ 14 \in Nat /\ 1 < 3
  OBVIOUS
<1> DEFINE a == <<"stop new", "recover binary">>
           A == {"stop new", "recover binary"}
           R == IF files.marker = "active" THEN {"reset-failed", "restart", "verify"}
                ELSE {}
<1>3. List("undo", a, A, 1, 3)
  BY <1>1, <1>2, ListTwo, Zenon
<1>4. List("undo", RestartSteps(files.marker), R, 9, 13)
  BY RestartList
<1>5. List("undo", <<"forget">>, {"forget"}, 14, 14)
  BY <1>1, <1>2, ListOne, Zenon
<1>6. /\ R \subseteq {"reset-failed", "restart", "verify"}
      /\ files.marker = "active" => {"restart", "verify"} \subseteq R
  OBVIOUS
<1> HIDE DEF a, R
<1> DEFINE s == a \o RestartSteps(files.marker)
           t == s \o <<"forget">>
           G == A \cup R
           H == G \cup {"forget"}
<1>7. List("undo", s, G, 1, 13)
  <2>1. 1 <= 9 /\ 3 < 9 /\ 3 <= 13
    OBVIOUS
  <2> QED
    BY <1>3, <1>4, <2>1, ListJoin, Zenon
<1>8. List("undo", t, H, 1, 14)
  <2>1. 1 <= 14 /\ 13 < 14 /\ 13 <= 14
    OBVIOUS
  <2> QED
    BY <1>7, <1>5, <2>1, ListJoin, Zenon
<1>9. RecoverySteps = t
  BY DEF RecoverySteps, a
<1>10. /\ H \subseteq {"stop new", "recover binary", "reset-failed", "restart",
                       "verify", "forget"}
       /\ {"recover binary", "stop new"} \subseteq H
       /\ files.marker = "active" => {"restart", "verify"} \subseteq H
  BY <1>6
<1> HIDE DEF H, t
<1> QED
  BY <1>8, <1>9, <1>10, Zenon

LEMMA RollbackList ==
    \E E : /\ List("do", RollbackSteps, E, 9, 14)
           /\ E \subseteq {"reset-failed", "set aside", "take back", "restart",
                           "verify", "forget"}
           /\ "set aside" \in E
<1>1. /\ {"reset-failed", "set aside", "take back", "restart", "verify", "forget"}
            \subseteq StepName
      /\ Rank("do", "reset-failed") = 9 /\ Rank("do", "set aside") = 10
      /\ Rank("do", "take back") = 11 /\ Rank("do", "restart") = 12
      /\ Rank("do", "verify") = 13 /\ Rank("do", "forget") = 14
  BY DEF StepName, Rank
<1>2. /\ 9 \in Nat /\ 10 \in Nat /\ 11 \in Nat /\ 12 \in Nat /\ 13 \in Nat /\ 14 \in Nat
      /\ 10 < 11 /\ 12 < 13
  OBVIOUS
<1> DEFINE c == files.marker = "active"
           q == <<"set aside", "take back">>
           Q == {"set aside", "take back"}
           r == <<"restart", "verify">>
           R == {"restart", "verify"}
           N == {"reset-failed"}
           N1 == IF c THEN N ELSE {}
           R1 == IF c THEN R ELSE {}
<1>3. List("do", q, Q, 10, 11) /\ List("do", r, R, 12, 13)
  BY <1>1, <1>2, ListTwo, Zenon
<1>4. List("do", <<"reset-failed">>, N, 9, 9) /\ List("do", <<"forget">>, {"forget"}, 14, 14)
  BY <1>1, <1>2, ListOne, Zenon
<1> HIDE DEF q, r, N, R
<1>5. List("do", When(c, <<"reset-failed">>), N1, 9, 9)
  BY <1>4, ListWhen, c \in BOOLEAN
<1>6. List("do", When(c, r), R1, 12, 13)
  BY <1>3, ListWhen, c \in BOOLEAN
<1>7. N1 \subseteq {"reset-failed"} /\ R1 \subseteq {"restart", "verify"}
  BY DEF N, R
<1> HIDE DEF N1, R1
<1> DEFINE s1 == When(c, <<"reset-failed">>) \o q
           s2 == s1 \o When(c, r)
           s3 == s2 \o <<"forget">>
           G1 == N1 \cup Q
           G2 == G1 \cup R1
           G3 == G2 \cup {"forget"}
<1>8. List("do", s1, G1, 9, 11)
  <2>1. 9 <= 10 /\ 9 < 10 /\ 9 <= 11
    OBVIOUS
  <2> QED
    BY <1>5, <1>3, <2>1, ListJoin, Zenon
<1>9. List("do", s2, G2, 9, 13)
  <2>1. 9 <= 12 /\ 11 < 12 /\ 11 <= 13
    OBVIOUS
  <2> QED
    BY <1>8, <1>6, <2>1, ListJoin, Zenon
<1>10. List("do", s3, G3, 9, 14)
  <2>1. 9 <= 14 /\ 13 < 14 /\ 13 <= 14
    OBVIOUS
  <2> QED
    BY <1>9, <1>4, <2>1, ListJoin, Zenon
<1>11. RollbackSteps = s3
  BY DEF RollbackSteps, q, r
<1>12. /\ G3 \subseteq {"reset-failed", "set aside", "take back", "restart", "verify",
                        "forget"}
       /\ "set aside" \in G3
  BY <1>7
<1> HIDE DEF G3, s3
<1> QED
  BY <1>10, <1>11, <1>12, Zenon

LEMMA LifecycleList ==
    ASSUME NEW verb \in Command \ {"install", "update", "rollback"}
    PROVE  /\ LifecycleSteps(verb) \in Seq(StepName)
           /\ Els(LifecycleSteps(verb)) \subseteq
                 {"disable --now", "remove unit", "daemon-reload", "reset-failed",
                  "start", "restart", "stop", "enable", "disable"}
<1>1. {"disable --now", "remove unit", "daemon-reload", "reset-failed", "start",
       "restart", "stop", "enable", "disable"} \subseteq StepName
  BY DEF StepName
<1>2. CASE verb = "uninstall"
  <2>1. LifecycleSteps(verb) = <<"disable --now", "remove unit", "daemon-reload">>
    BY <1>2 DEF LifecycleSteps
  <2>2. /\ LifecycleSteps(verb) \in Seq(StepName)
        /\ Els(LifecycleSteps(verb)) = {"disable --now", "remove unit", "daemon-reload"}
    <3>1. "disable --now" \in StepName /\ "remove unit" \in StepName
          /\ "daemon-reload" \in StepName
      BY <1>1
    <3>2. /\ <<"disable --now", "remove unit", "daemon-reload">> \in Seq(StepName)
          /\ Els(<<"disable --now", "remove unit", "daemon-reload">>)
                = {"disable --now", "remove unit", "daemon-reload"}
      BY <3>1, Triples, Zenon
    <3> QED
      BY <2>1, <3>2
  <2> QED
    BY <2>2
<1>3. CASE verb = "start" \/ verb = "restart"
  <2>1. LifecycleSteps(verb) = <<"reset-failed", verb>>
    BY <1>3 DEF LifecycleSteps
  <2>2. Rank("do", "reset-failed") < Rank("do", verb)
    <3>1. Rank("do", "reset-failed") < Rank("do", "start")
          /\ Rank("do", "reset-failed") < Rank("do", "restart")
      BY DEF Rank
    <3> QED
      BY <1>3, <3>1, Zenon
  <2>3. verb \in StepName /\ "reset-failed" \in StepName
    BY <1>1, <1>3
  <2>4. /\ LifecycleSteps(verb) \in Seq(StepName)
        /\ Els(LifecycleSteps(verb)) = {"reset-failed", verb}
    BY <2>1, <2>2, <2>3, Pairs
  <2> QED
    BY <1>3, <2>4
<1>4. CASE verb \in {"stop", "enable", "disable"}
  <2>1. LifecycleSteps(verb) = <<verb>>
    BY <1>4 DEF LifecycleSteps
  <2>2. verb \in StepName
    BY <1>1, <1>4
  <2>3. LifecycleSteps(verb) \in Seq(StepName) /\ Els(LifecycleSteps(verb)) = {verb}
    BY <2>1, <2>2, Singles, Zenon
  <2> QED
    BY <1>4, <2>3
<1> QED
  BY <1>2, <1>3, <1>4 DEF Command

\* Without the order.
LEMMA TailSteps ==
    ASSUME NEW s \in Seq(StepName), s # <<>>
    PROVE  /\ Head(s) \in StepName /\ Head(s) \in Els(s) /\ Tail(s) \in Seq(StepName)
           /\ Els(Tail(s)) \subseteq Els(s)
<1>1. /\ Len(s) \in Nat /\ 1 \in 1..Len(s) /\ Head(s) = s[1] /\ Head(s) \in StepName
      /\ Tail(s) \in Seq(StepName) /\ Len(Tail(s)) = Len(s) - 1
      /\ \A i \in 1..Len(Tail(s)) : i + 1 \in 1..Len(s) /\ Tail(s)[i] = s[i + 1]
  OBVIOUS
<1> QED
  BY <1>1 DEF Els

LEMMA LongTail == ASSUME NEW s \in Seq(StepName), Len(s) > 1 PROVE Tail(s) # <<>>
<1>1. Len(Tail(s)) = Len(s) - 1 /\ Len(s) \in Nat
  OBVIOUS
<1>2. Len(Tail(s)) > 0
  BY <1>1
<1>3. \A t \in Seq(StepName) : Len(t) > 0 => t # <<>>
  OBVIOUS
<1>4. Tail(s) \in Seq(StepName)
  BY <1>1
<1> QED
  BY <1>2, <1>3, <1>4

----------------------------------------------------------------------------
(* What a step changes                                                     *)

LEMMA FileSteps ==
    ASSUME files \in Files
    PROVE  /\ FileEffect("preinstall").preinstall = files.bin
           /\ FileEffect("binary").bin = op.version
           /\ FileEffect("unit").unit = op.unit
           /\ FileEffect("drop preinstall").preinstall = None
           /\ FileEffect("restore binary").bin = files.preinstall
           /\ FileEffect("remove binary").bin = None
           /\ FileEffect("restore unit").unit = op.prior.unit
           /\ FileEffect("remove unit").unit = None
           /\ FileEffect("save rollback").rollback = files.bin
           /\ FileEffect("save marker").marker = op.prior.active
           /\ FileEffect("recover binary").bin = files.rollback
           /\ FileEffect("set aside").failed = files.bin
           /\ FileEffect("set aside").bin = None
           /\ FileEffect("take back").bin = files.rollback
  BY DEF FileEffect, Files

LEMMA FileFrame ==
    ASSUME files \in Files, NEW s
    PROVE  /\ s \notin {"binary", "restore binary", "remove binary", "recover binary",
                        "set aside", "take back"} => FileEffect(s).bin = files.bin
           /\ s \notin {"preinstall", "drop preinstall"} =>
                 FileEffect(s).preinstall = files.preinstall
           /\ s \notin {"unit", "restore unit", "remove unit"} =>
                 FileEffect(s).unit = files.unit
           /\ s \notin {"save rollback", "forget", "take back"} =>
                 FileEffect(s).rollback = files.rollback
           /\ s \notin {"save marker", "forget"} => FileEffect(s).marker = files.marker
           /\ s # "set aside" => FileEffect(s).failed = files.failed
  BY DEF FileEffect, Files

LEMMA FileType ==
    ASSUME TypeOK, op \in Operation, NEW s,
           s = "save marker" => op.prior.active \in {"active", "inactive", "failed"}
    PROVE  FileEffect(s) \in Files
<1>1. /\ op.version \in Version \cup {None} /\ op.unit \in UnitFile \cup {None}
      /\ op.prior.unit \in UnitFile \cup {None}
  BY DEF Operation, Prior
<1>2. files \in Files
  BY DEF TypeOK
<1>3. CASE s = "save marker"
  BY <1>2, <1>3 DEF FileEffect, Files
<1>4. CASE s \in {"make leaf", "own leaf"}
  BY <1>2, <1>4 DEF FileEffect, Files
<1>4a. CASE s = "binary" \/ s = "unit"
  BY <1>1, <1>2, <1>4a DEF FileEffect, Files
<1>4b. CASE s \in {"preinstall", "drop preinstall", "restore binary", "remove binary"}
  BY <1>2, <1>4b DEF FileEffect, Files
<1>5. CASE s \in {"restore unit", "remove unit", "save rollback", "recover binary"}
  BY <1>1, <1>2, <1>5 DEF FileEffect, Files
<1>6. CASE s \in {"forget", "set aside", "take back"}
  BY <1>2, <1>6 DEF FileEffect, Files
<1>7. CASE s \notin {"make leaf", "own leaf", "preinstall", "binary", "unit",
                    "drop preinstall", "restore binary", "remove binary",
                    "restore unit", "remove unit", "save rollback", "save marker",
                    "recover binary", "forget", "set aside", "take back"}
  BY <1>2, <1>7 DEF FileEffect
<1> QED
  BY <1>3, <1>4, <1>4a, <1>4b, <1>5, <1>6, <1>7

LEMMA SystemdSteps ==
    ASSUME systemd \in Unit
    PROVE  /\ SystemdEffect("daemon-reload").loaded = files.unit
           /\ SystemdEffect("enable").enabled = "enabled"
           /\ SystemdEffect("enable").loaded = files.unit
           /\ SystemdEffect("enable --runtime").enabled = "enabled-runtime"
           /\ SystemdEffect("enable --runtime").loaded = files.unit
           /\ SystemdEffect("disable").enabled = "disabled"
           /\ SystemdEffect("disable").loaded = files.unit
           /\ SystemdEffect("disable new").enabled = "disabled"
           /\ SystemdEffect("restart").active = "active"
           /\ SystemdEffect("restart").running = files.bin
           /\ SystemdEffect("stop").active = "inactive"
           /\ SystemdEffect("stop new").active = "inactive"
  BY DEF SystemdEffect, Linked, Started, Stopped, Unit

LEMMA SystemdFrame ==
    ASSUME systemd \in Unit, NEW s
    PROVE  /\ s \notin {"enable", "enable --runtime", "disable", "disable new",
                        "disable --now"} => SystemdEffect(s).enabled = systemd.enabled
           /\ s \notin {"disable --now", "reset-failed", "restart", "start", "stop",
                        "stop new"} =>
                 /\ SystemdEffect(s).active = systemd.active
                 /\ SystemdEffect(s).running = systemd.running
           /\ s = "reset-failed" =>
                 \/ /\ SystemdEffect(s).active = systemd.active
                    /\ SystemdEffect(s).running = systemd.running
                 \/ /\ systemd.active = "failed" /\ SystemdEffect(s).active = "inactive"
                    /\ SystemdEffect(s).running = None
           /\ SystemdEffect(s).loaded \in {systemd.loaded, files.unit}
  BY DEF SystemdEffect, Linked, Started, Stopped, Unit

LEMMA SystemdType ==
    ASSUME systemd \in Unit, files \in Files, NEW s
    PROVE  SystemdEffect(s) \in Unit
<1>1. files.bin \in Version \cup {None} /\ files.unit \in UnitFile \cup {None}
  BY DEF Files
<1> QED
  BY <1>1 DEF SystemdEffect, Linked, Started, Stopped, Unit

----------------------------------------------------------------------------
(* A step that succeeds                                                    *)

LEMMA OpKinds ==
    ASSUME TypeOK
    PROVE  /\ op.cmd # "none" => op \in Operation
           /\ Doing => op \in Operation
           /\ op \in Operation => /\ op.cmd \in Command /\ op.cmd # "none"
                                  /\ op.todo \in Seq(StepName) /\ op.prior \in Prior
           /\ op = Idle => op.cmd = "none" /\ op.mode = "ok"
  BY DEF TypeOK, Doing, Idle, Operation, Command

\* The command goes on with the rest of its list.
Passing == Doing /\ op.todo # <<>> /\ op' = [op EXCEPT !.todo = Tail(op.todo)]

LEMMA Passed ==
    ASSUME TypeOK, Passing
    PROVE  /\ op \in Operation /\ op' \in Operation
           /\ op'.cmd = op.cmd /\ op'.mode = op.mode /\ op'.version = op.version
           /\ op'.unit = op.unit /\ op'.prior = op.prior /\ op'.errs = op.errs
           /\ Step \in Todo /\ Step \in StepName /\ Todo' \subseteq Todo
           /\ \A b : InOrder(b, op.todo) =>
                 /\ InOrder(b, op.todo)' /\ Todo' = Todo \ {Step}
                 /\ \A x \in Todo' : Rank(b, Step) < Rank(b, x)
           /\ Changed' = Changed /\ Healthy' = Healthy
           /\ LastEnable' = LastEnable /\ LastActive' = LastActive
<1>1. op \in Operation
  BY OpKinds DEF Passing
<1>2. op.todo \in Seq(StepName) /\ op.todo # <<>>
  BY <1>1 DEF Operation, Passing
<1>3. op' = [op EXCEPT !.todo = Tail(op.todo)]
  BY DEF Passing
<1>4. /\ Step \in Todo /\ Step \in StepName /\ Tail(op.todo) \in Seq(StepName)
      /\ Els(Tail(op.todo)) \subseteq Todo
  BY <1>2, TailSteps DEF Step, Todo
<1>5. /\ op' \in Operation
      /\ op'.cmd = op.cmd /\ op'.mode = op.mode /\ op'.version = op.version
      /\ op'.unit = op.unit /\ op'.prior = op.prior /\ op'.errs = op.errs
      /\ op'.todo = Tail(op.todo)
  BY <1>1, <1>3, <1>4 DEF Operation
<1>6. Todo' \subseteq Todo
  BY <1>4, <1>5 DEF Todo
<1>7. ASSUME NEW b, InOrder(b, op.todo)
      PROVE  /\ InOrder(b, op.todo)' /\ Todo' = Todo \ {Step}
             /\ \A x \in Todo' : Rank(b, Step) < Rank(b, x)
  <2>1. /\ InOrder(b, Tail(op.todo)) /\ Els(Tail(op.todo)) = Els(op.todo) \ {Head(op.todo)}
        /\ \A x \in Els(Tail(op.todo)) : Rank(b, Head(op.todo)) < Rank(b, x)
    BY <1>2, <1>7, FirstStep
  <2>2. InOrder(b, op.todo)'
    BY <1>5, <2>1 DEF InOrder, Rank
  <2> QED
    BY <1>5, <2>1, <2>2 DEF Todo, Step
<1>8. Changed' = Changed /\ Healthy' = Healthy
  BY <1>5 DEF Changed, Healthy
<1>9. LastEnable' = LastEnable /\ LastActive' = LastActive
  BY <1>5 DEF LastEnable, LastActive
<1> QED
  BY <1>1, <1>4, <1>5, <1>6, <1>7, <1>8, <1>9

LEMMA Done ==
    ASSUME TypeOK, StepDone
    PROVE  /\ op \in Operation /\ op' \in Operation
           /\ op'.cmd = op.cmd /\ op'.mode = op.mode /\ op'.version = op.version
           /\ op'.unit = op.unit /\ op'.prior = op.prior /\ op'.errs = op.errs
           /\ Step \in Todo /\ Step \in StepName /\ Todo' \subseteq Todo
           /\ \A b : InOrder(b, op.todo) =>
                 /\ InOrder(b, op.todo)' /\ Todo' = Todo \ {Step}
                 /\ \A x \in Todo' : Rank(b, Step) < Rank(b, x)
           /\ Changed' = Changed /\ Healthy' = Healthy
           /\ LastEnable' = LastEnable /\ LastActive' = LastActive
           /\ LeftBinary' = LeftBinary /\ LeftUnit' = LeftUnit /\ left' = left
<1>1. Passing /\ left' = left
  BY DEF StepDone, Passing
<1>2. op'.prior = op.prior
  BY <1>1, Passed
<1>3. LeftBinary' = LeftBinary /\ LeftUnit' = LeftUnit
  BY <1>1, <1>2 DEF LeftBinary, LeftUnit
<1> QED
  BY <1>1, <1>3, Passed

\* Only an update saves the activity.
LEMMA MarkerStep ==
    ASSUME IInv, Doing, "save marker" \in Todo
    PROVE  op.prior.active \in {"active", "inactive", "failed"}
<1>1. op.cmd \in Command /\ op.cmd # "none"
  BY OpKinds DEF IInv
<1>2. op.cmd # "install"
  BY DEF IInv, InstallPreparing, InstallApplying, InstallUndoing, Doing
<1>3. op.cmd # "rollback"
  BY DEF IInv, RollingBack, Doing
<1>4. op.cmd = "update"
  BY <1>1, <1>2, <1>3 DEF IInv, Managing
<1> QED
  BY <1>4 DEF IInv, Consistent

LEMMA DoneBasics ==
    ASSUME IInv, StepDone
    PROVE  TypeOK' /\ Consistent'
<1>1. TypeOK /\ files \in Files /\ systemd \in Unit
  BY DEF IInv, TypeOK
<1>2. /\ op \in Operation /\ op' \in Operation /\ op'.cmd = op.cmd
      /\ op'.version = op.version /\ op'.unit = op.unit /\ op'.prior = op.prior
      /\ Step \in Todo /\ left' = left
  BY <1>1, Done
<1>3. Step = "save marker" => op.prior.active \in {"active", "inactive", "failed"}
  BY <1>2, MarkerStep DEF StepDone
<1>4. files' \in Files /\ systemd' \in Unit
  BY <1>1, <1>2, <1>3, FileType, SystemdType DEF StepDone
<1>5. TypeOK'
  BY <1>1, <1>2, <1>4 DEF StepDone, TypeOK
<1>6. systemd.active = "active" => systemd.running # None
  BY DEF IInv, Consistent
<1>7. Step \in {"start", "restart"} => files.bin # None
  BY DEF StepDone, CanDo
<1>8. SystemdEffect(Step).active = "active" => SystemdEffect(Step).running # None
  BY <1>1, <1>6, <1>7 DEF SystemdEffect, Linked, Started, Stopped, Unit
<1>9. systemd'.active = "active" => systemd'.running # None
  BY <1>8 DEF StepDone
<1>10. Consistent'
  BY <1>2, <1>9 DEF IInv, Consistent
<1> QED
  BY <1>5, <1>10

LEMMA DoneInstallPreparing ==
    ASSUME IInv, StepDone, op.cmd = "install", op.mode = "prepare"
    PROVE  InstallPreparing'
<1>1. TypeOK /\ files \in Files /\ systemd \in Unit
  BY DEF IInv, TypeOK
<1>2. /\ Todo \subseteq {"account", "make leaf", "own leaf", "chmod leaf", "preinstall"}
      /\ InOrder("do", op.todo)
      /\ files.bin = op.prior.bin /\ files.unit = op.prior.unit
      /\ systemd.enabled = op.prior.enabled /\ Kept
      /\ Changed /\ op.prior.bin # None =>
            "preinstall" \in Todo \/ files.preinstall = op.prior.bin
  BY DEF IInv, InstallPreparing
<1>3. /\ op'.prior = op.prior /\ Step \in Todo /\ InOrder("do", op.todo)'
      /\ Todo' = Todo \ {Step} /\ Changed' = Changed /\ LeftBinary' = LeftBinary
  BY <1>1, <1>2, Done
<1>4. files' = FileEffect(Step) /\ systemd' = SystemdEffect(Step)
  BY DEF StepDone
<1>5. Step \in {"account", "make leaf", "own leaf", "chmod leaf", "preinstall"}
  BY <1>2, <1>3
<1>6. /\ files'.bin = files.bin /\ files'.unit = files.unit
      /\ Step # "preinstall" => files'.preinstall = files.preinstall
  BY <1>1, <1>4, <1>5, FileFrame
<1>7. /\ systemd'.enabled = systemd.enabled /\ systemd'.active = systemd.active
      /\ systemd'.running = systemd.running
  BY <1>1, <1>4, <1>5, SystemdFrame
<1>8. Step = "preinstall" => files'.preinstall = files.bin
  BY <1>1, <1>4, FileSteps
<1>9. Kept'
  BY <1>2, <1>3, <1>7 DEF Kept
<1>10. Changed' /\ op'.prior.bin # None =>
          "preinstall" \in Todo' \/ files'.preinstall = op'.prior.bin
  BY <1>2, <1>3, <1>6, <1>8
<1>11. Todo' \subseteq {"account", "make leaf", "own leaf", "chmod leaf", "preinstall"}
  BY <1>2, <1>3
<1> QED
  BY <1>2, <1>3, <1>6, <1>7, <1>9, <1>10, <1>11 DEF InstallPreparing

\* Nothing comes after the removal of the copy.
LEMMA DropLast ==
    \A x \in {"binary", "unit", "daemon-reload", "disable", "enable",
             "enable --runtime", "reset-failed", "restart", "stop",
             "drop preinstall"} :
       ~(Rank("do", "drop preinstall") < Rank("do", x))
<1>1. /\ Rank("do", "binary") = 3
      /\ Rank("do", "unit") = 5
      /\ Rank("do", "daemon-reload") = 6
      /\ Rank("do", "disable") = 7
      /\ Rank("do", "enable") = 8
      /\ Rank("do", "enable --runtime") = 8
      /\ Rank("do", "reset-failed") = 9
      /\ Rank("do", "restart") = 12
      /\ Rank("do", "stop") = 12
      /\ Rank("do", "drop preinstall") = 13
  BY DEF Rank
<1>2. /\ ~(13 < 3) /\ ~(13 < 5) /\ ~(13 < 6) /\ ~(13 < 7) /\ ~(13 < 8) /\ ~(13 < 9)
      /\ ~(13 < 12) /\ ~(13 < 13)
  OBVIOUS
<1> QED
  BY <1>1, <1>2, Zenon

LEMMA DoneInstallApplying ==
    ASSUME IInv, StepDone, op.cmd = "install", op.mode = "apply"
    PROVE  InstallApplying'
<1> DEFINE K == {"binary", "unit", "daemon-reload", "disable", "enable",
                 "enable --runtime", "reset-failed", "restart", "stop",
                 "drop preinstall"}
<1>1. TypeOK /\ files \in Files /\ systemd \in Unit
  BY DEF IInv, TypeOK
<1>2. /\ Todo \subseteq K /\ InOrder("do", op.todo)
      /\ Todo # {} => /\ "drop preinstall" \in Todo
                      /\ op.prior.bin # None => files.preinstall = op.prior.bin
      /\ Changed =>
            /\ Todo \cap {"restart", "stop"} = {} =>
                  /\ "binary" \notin Todo
                  /\ systemd.active = "active" => systemd.running = files.bin
            /\ Todo \cap {"disable", "enable", "enable --runtime"} = {} =>
                  /\ Todo \cap {"unit", "daemon-reload"} = {}
                  /\ systemd.loaded = files.unit
  BY DEF IInv, InstallApplying
<1>3. /\ op'.prior = op.prior /\ op'.mode = "apply" /\ Step \in Todo
      /\ InOrder("do", op.todo)' /\ Todo' = Todo \ {Step} /\ Changed' = Changed
      /\ \A x \in Todo' : Rank("do", Step) < Rank("do", x)
  BY <1>1, <1>2, Done
<1>4. files' = FileEffect(Step) /\ systemd' = SystemdEffect(Step)
  BY DEF StepDone
<1>5. Step \in K /\ Todo' \subseteq K
  BY <1>2, <1>3
<1>6. Step = "drop preinstall" => Todo' = {}
  <2> SUFFICES ASSUME Step = "drop preinstall", NEW x \in Todo' PROVE FALSE
    OBVIOUS
  <2>1. x \in K /\ Rank("do", "drop preinstall") < Rank("do", x)
    BY <1>3, <1>5
  <2> QED
    BY <2>1, DropLast
<1>7. Step # "drop preinstall" => files'.preinstall = files.preinstall
  BY <1>1, <1>4, <1>5, FileFrame
<1>8. Todo' # {} => /\ "drop preinstall" \in Todo'
                    /\ op'.prior.bin # None => files'.preinstall = op'.prior.bin
  BY <1>2, <1>3, <1>6, <1>7
<1>9. ASSUME Changed, Todo' \cap {"restart", "stop"} = {}
      PROVE  /\ "binary" \notin Todo'
             /\ systemd'.active = "active" => systemd'.running = files'.bin
  <2>1. CASE Step = "restart" \/ Step = "stop"
    <3>1. "binary" \notin Todo'
      <4>1. ~(Rank("do", "restart") < Rank("do", "binary"))
            /\ ~(Rank("do", "stop") < Rank("do", "binary"))
        BY DEF Rank
      <4> QED
        BY <1>3, <2>1, <4>1
    <3>2. files'.bin = files.bin
      BY <1>1, <1>4, <2>1, FileFrame
    <3>3. systemd'.active = "active" => systemd'.running = files.bin
      BY <1>1, <1>4, <2>1, SystemdSteps
    <3> QED
      BY <3>1, <3>2, <3>3
  <2>2. CASE Step \notin {"restart", "stop"}
    <3>1. /\ "binary" \notin Todo
          /\ systemd.active = "active" => systemd.running = files.bin
      BY <1>2, <1>3, <1>9, <2>2
    <3>2. Step \in {"unit", "daemon-reload", "disable", "enable", "enable --runtime",
                    "reset-failed", "drop preinstall"}
      BY <1>3, <1>5, <2>2, <3>1
    <3>3. files'.bin = files.bin
      BY <1>1, <1>4, <3>2, FileFrame
    <3>4. systemd'.active = "active" => systemd.active = "active"
                                        /\ systemd'.running = systemd.running
      BY <1>1, <1>4, <3>2, SystemdFrame
    <3> QED
      BY <1>3, <3>1, <3>3, <3>4
  <2> QED
    BY <2>1, <2>2
<1>10. ASSUME Changed, Todo' \cap {"disable", "enable", "enable --runtime"} = {}
       PROVE  /\ Todo' \cap {"unit", "daemon-reload"} = {}
              /\ systemd'.loaded = files'.unit
  <2>1. CASE Step \in {"disable", "enable", "enable --runtime"}
    <3>1. /\ ~(Rank("do", "disable") < Rank("do", "unit"))
          /\ ~(Rank("do", "enable") < Rank("do", "unit"))
          /\ ~(Rank("do", "enable --runtime") < Rank("do", "unit"))
          /\ ~(Rank("do", "disable") < Rank("do", "daemon-reload"))
          /\ ~(Rank("do", "enable") < Rank("do", "daemon-reload"))
          /\ ~(Rank("do", "enable --runtime") < Rank("do", "daemon-reload"))
      BY DEF Rank
    <3>2. "unit" \notin Todo' /\ "daemon-reload" \notin Todo'
      BY <1>3, <2>1, <3>1
    <3>3. files'.unit = files.unit
      BY <1>1, <1>4, <2>1, FileFrame
    <3>4. systemd'.loaded = files.unit
      BY <1>1, <1>4, <2>1, SystemdSteps
    <3> QED
      BY <3>2, <3>3, <3>4
  <2>2. CASE Step \notin {"disable", "enable", "enable --runtime"}
    <3>1. Todo \cap {"unit", "daemon-reload"} = {} /\ systemd.loaded = files.unit
      BY <1>2, <1>3, <1>10, <2>2
    <3>2. Step \notin {"unit", "restore unit", "remove unit"}
      BY <1>3, <1>5, <3>1
    <3>3. files'.unit = files.unit
      BY <1>1, <1>4, <3>2, FileFrame
    <3>4. systemd'.loaded \in {systemd.loaded, files.unit}
      BY <1>1, <1>4, SystemdFrame
    <3> QED
      BY <1>3, <3>1, <3>3, <3>4
  <2> QED
    BY <2>1, <2>2
<1> QED
  BY <1>3, <1>5, <1>8, <1>9, <1>10 DEF InstallApplying

\* The order of restore's steps.
LEMMA UndoOrder ==
    /\ ~(Rank("undo", "drop preinstall") < Rank("undo", "restore binary"))
    /\ ~(Rank("undo", "enable") < Rank("undo", "disable new"))
    /\ ~(Rank("undo", "enable") < Rank("undo", "disable"))
    /\ ~(Rank("undo", "enable") < Rank("undo", "enable"))
    /\ ~(Rank("undo", "enable") < Rank("undo", "enable --runtime"))
    /\ ~(Rank("undo", "enable --runtime") < Rank("undo", "disable new"))
    /\ ~(Rank("undo", "enable --runtime") < Rank("undo", "disable"))
    /\ ~(Rank("undo", "enable --runtime") < Rank("undo", "enable"))
    /\ ~(Rank("undo", "enable --runtime") < Rank("undo", "enable --runtime"))
    /\ ~(Rank("undo", "disable") < Rank("undo", "disable new"))
    /\ ~(Rank("undo", "restart") < Rank("undo", "stop new"))
    /\ ~(Rank("undo", "restart") < Rank("undo", "restart"))
    /\ ~(Rank("undo", "restart") < Rank("undo", "stop"))
    /\ ~(Rank("undo", "stop") < Rank("undo", "stop new"))
    /\ ~(Rank("undo", "stop") < Rank("undo", "restart"))
    /\ ~(Rank("undo", "stop") < Rank("undo", "stop"))
    /\ ~(Rank("undo", "restart") < Rank("undo", "restore binary"))
    /\ ~(Rank("undo", "restart") < Rank("undo", "remove binary"))
<1>1. /\ Rank("undo", "drop preinstall") = 4
      /\ Rank("undo", "restore binary") = 3
      /\ Rank("undo", "remove binary") = 3
      /\ Rank("undo", "enable") = 8
      /\ Rank("undo", "enable --runtime") = 8
      /\ Rank("undo", "disable") = 7
      /\ Rank("undo", "disable new") = 2
      /\ Rank("undo", "restart") = 12
      /\ Rank("undo", "stop") = 12
      /\ Rank("undo", "stop new") = 1
  BY DEF Rank
<1>2. /\ ~(4 < 3)
      /\ ~(7 < 2)
      /\ ~(8 < 2)
      /\ ~(8 < 7)
      /\ ~(8 < 8)
      /\ ~(12 < 1)
      /\ ~(12 < 3)
      /\ ~(12 < 12)
  OBVIOUS
<1> QED
  BY <1>1, <1>2, Zenon

LEMMA DoneInstallUndoing ==
    ASSUME IInv, StepDone, op.cmd = "install", op.mode = "undo"
    PROVE  InstallUndoing'
<1> DEFINE K == {"stop new", "disable new", "restore binary", "remove binary",
                 "drop preinstall", "restore unit", "remove unit",
                 "daemon-reload", "disable", "enable", "enable --runtime",
                 "reset-failed", "restart", "stop"}
<1>1. TypeOK /\ files \in Files /\ systemd \in Unit
  BY DEF IInv, TypeOK
<1>2. /\ Todo \subseteq K /\ InOrder("undo", op.todo)
      /\ op.prior.unit = None =>
            Todo \cap {"disable", "enable", "enable --runtime", "restart", "stop"} = {}
      /\ "enable" \in Todo => op.prior.enabled = "enabled"
      /\ "enable --runtime" \in Todo => op.prior.enabled = "enabled-runtime"
  BY DEF IInv, InstallUndoing
<1>3. /\ op'.prior = op.prior /\ op'.errs = op.errs /\ Step \in Todo
      /\ InOrder("undo", op.todo)' /\ Todo' = Todo \ {Step}
      /\ \A x \in Todo' : Rank("undo", Step) < Rank("undo", x)
      /\ LastEnable' = LastEnable /\ LastActive' = LastActive
      /\ op \in Operation /\ LeftBinary' = LeftBinary /\ LeftUnit' = LeftUnit
  BY <1>1, <1>2, Done
<1>4. files' = FileEffect(Step) /\ systemd' = SystemdEffect(Step) /\ CanDo(Step)
  BY DEF StepDone
<1>5. Step \in K /\ Todo' \subseteq K
  BY <1>2, <1>3
<1>6. SUFFICES ASSUME ~op.errs
               PROVE  /\ "restore binary" \in Todo' => files'.preinstall = op.prior.bin
                      /\ "remove binary" \in Todo' => op.prior.bin = None
                      /\ Todo' \cap {"restore binary", "remove binary"} = {} =>
                            files'.bin = op.prior.bin \/ LeftBinary
                      /\ "remove unit" \in Todo' => op.prior.unit = None
                      /\ Todo' \cap {"restore unit", "remove unit"} = {} =>
                            files'.unit = op.prior.unit \/ LeftUnit
                      /\ LastEnable \notin Todo' =>
                            /\ Todo' \cap {"disable new", "disable", "enable",
                                           "enable --runtime"} = {}
                            /\ EnableRestored'
                      /\ LastActive \notin Todo' =>
                            /\ Todo' \cap {"stop new", "restart", "stop"} = {}
                            /\ ActiveRestored'
  <2>1. op'.prior.unit = None =>
            Todo' \cap {"disable", "enable", "enable --runtime", "restart", "stop"} = {}
    BY <1>2, <1>3
  <2>2. /\ "enable" \in Todo' => op'.prior.enabled = "enabled"
        /\ "enable --runtime" \in Todo' => op'.prior.enabled = "enabled-runtime"
    BY <1>2, <1>3
  <2> QED
    BY <1>3, <1>5, <1>6, <2>1, <2>2 DEF InstallUndoing
<1>7. /\ "restore binary" \in Todo => files.preinstall = op.prior.bin
      /\ "remove binary" \in Todo => op.prior.bin = None
      /\ Todo \cap {"restore binary", "remove binary"} = {} =>
            files.bin = op.prior.bin \/ LeftBinary
      /\ "remove unit" \in Todo => op.prior.unit = None
      /\ Todo \cap {"restore unit", "remove unit"} = {} =>
            files.unit = op.prior.unit \/ LeftUnit
      /\ LastEnable \notin Todo =>
            /\ Todo \cap {"disable new", "disable", "enable", "enable --runtime"} = {}
            /\ EnableRestored
      /\ LastActive \notin Todo =>
            /\ Todo \cap {"stop new", "restart", "stop"} = {}
            /\ ActiveRestored
  BY <1>6 DEF IInv, InstallUndoing
<1>8. "restore binary" \in Todo' => files'.preinstall = op.prior.bin
  <2>1. Step = "drop preinstall" => "restore binary" \notin Todo'
    BY <1>3, UndoOrder
  <2>2. Step # "drop preinstall" => files'.preinstall = files.preinstall
    BY <1>1, <1>4, <1>5, FileFrame
  <2> QED
    BY <1>3, <1>7, <2>1, <2>2
<1>9. Todo' \cap {"restore binary", "remove binary"} = {} =>
         files'.bin = op.prior.bin \/ LeftBinary
  <2>1. CASE Step = "restore binary"
    BY <1>1, <1>3, <1>4, <1>7, <2>1, FileSteps
  <2>2. CASE Step = "remove binary"
    BY <1>1, <1>3, <1>4, <1>7, <2>2, FileSteps
  <2>3. CASE Step \notin {"restore binary", "remove binary"}
    <3>1. files'.bin = files.bin
      BY <1>1, <1>4, <1>5, <2>3, FileFrame
    <3> QED
      BY <1>3, <1>7, <2>3, <3>1
  <2> QED
    BY <2>1, <2>2, <2>3
<1>10. Todo' \cap {"restore unit", "remove unit"} = {} =>
          files'.unit = op.prior.unit \/ LeftUnit
  <2>1. CASE Step = "restore unit"
    BY <1>1, <1>4, <2>1, FileSteps
  <2>2. CASE Step = "remove unit"
    BY <1>1, <1>3, <1>4, <1>7, <2>2, FileSteps
  <2>3. CASE Step \notin {"restore unit", "remove unit"}
    <3>1. files'.unit = files.unit
      BY <1>1, <1>4, <1>5, <2>3, FileFrame
    <3> QED
      BY <1>3, <1>7, <2>3, <3>1
  <2> QED
    BY <2>1, <2>2, <2>3
<1>11. ASSUME LastEnable \notin Todo'
       PROVE  /\ Todo' \cap {"disable new", "disable", "enable", "enable --runtime"} = {}
              /\ EnableRestored'
  <2>1. CASE LastEnable \notin Todo
    <3>1. /\ Todo \cap {"disable new", "disable", "enable", "enable --runtime"} = {}
          /\ EnableRestored
      BY <1>7, <2>1
    <3>2. Step \notin {"enable", "enable --runtime", "disable", "disable new",
                       "disable --now"}
      BY <1>3, <1>5, <3>1
    <3>3. systemd'.enabled = systemd.enabled
      BY <1>1, <1>4, <3>2, SystemdFrame
    <3> QED
      BY <1>3, <3>1, <3>3 DEF EnableRestored
  <2>2. CASE LastEnable \in Todo
    <3>1. Step = LastEnable
      BY <1>3, <1>11, <2>2
    <3>2. op.prior.enabled \in {"enabled", "enabled-runtime", "disabled"}
      BY <1>3 DEF Operation, Prior
    <3>3. CASE op.prior.unit = None
      <4>1. Step = "disable new"
        BY <3>1, <3>3 DEF LastEnable
      <4>2. systemd'.enabled = "disabled"
        BY <1>1, <1>4, <4>1, SystemdSteps
      <4>3. Todo' \cap {"disable new", "disable", "enable", "enable --runtime"} = {}
        BY <1>2, <1>3, <3>3, <4>1
      <4> QED
        BY <1>3, <3>3, <4>2, <4>3 DEF EnableRestored
    <3>4. CASE op.prior.unit # None /\ op.prior.enabled = "enabled"
      <4>1. Step = "enable"
        BY <3>1, <3>4 DEF LastEnable
      <4>2. systemd'.enabled = "enabled"
        BY <1>1, <1>4, <4>1, SystemdSteps
      <4>3. Todo' \cap {"disable new", "disable", "enable", "enable --runtime"} = {}
        BY <1>3, <4>1, UndoOrder
      <4> QED
        BY <1>3, <3>4, <4>2, <4>3 DEF EnableRestored
    <3>5. CASE op.prior.unit # None /\ op.prior.enabled = "enabled-runtime"
      <4>1. Step = "enable --runtime"
        BY <3>1, <3>5 DEF LastEnable
      <4>2. systemd'.enabled = "enabled-runtime"
        BY <1>1, <1>4, <4>1, SystemdSteps
      <4>3. Todo' \cap {"disable new", "disable", "enable", "enable --runtime"} = {}
        BY <1>3, <4>1, UndoOrder
      <4> QED
        BY <1>3, <3>5, <4>2, <4>3 DEF EnableRestored
    <3>6. CASE op.prior.unit # None /\ op.prior.enabled = "disabled"
      <4>1. Step = "disable"
        BY <3>1, <3>6 DEF LastEnable
      <4>2. systemd'.enabled = "disabled"
        BY <1>1, <1>4, <4>1, SystemdSteps
      <4>3. "disable new" \notin Todo' /\ "disable" \notin Todo'
        BY <1>3, <4>1, UndoOrder
      <4>4. "enable" \notin Todo /\ "enable --runtime" \notin Todo
        BY <1>2, <3>6
      <4>5. Todo' \cap {"disable new", "disable", "enable", "enable --runtime"} = {}
        BY <1>3, <4>3, <4>4
      <4> QED
        BY <1>3, <3>6, <4>2, <4>5 DEF EnableRestored
    <3> QED
      BY <3>2, <3>3, <3>4, <3>5, <3>6
  <2> QED
    BY <2>1, <2>2
<1>12. ASSUME LastActive \notin Todo'
       PROVE  /\ Todo' \cap {"stop new", "restart", "stop"} = {}
              /\ ActiveRestored'
  <2>1. CASE LastActive \notin Todo
    <3>1. Todo \cap {"stop new", "restart", "stop"} = {} /\ ActiveRestored
      BY <1>7, <2>1
    <3>2. Step \notin {"disable --now", "restart", "start", "stop", "stop new"}
      BY <1>3, <1>5, <3>1
    <3>3. \/ systemd'.active = systemd.active /\ systemd'.running = systemd.running
          \/ systemd.active = "failed" /\ systemd'.active = "inactive"
      BY <1>1, <1>4, <3>2, SystemdFrame
    <3> QED
      BY <1>3, <3>1, <3>3 DEF ActiveRestored, Kept
  <2>2. CASE LastActive \in Todo
    <3>1. Step = LastActive
      BY <1>3, <1>12, <2>2
    <3>2. CASE op.prior.unit = None
      <4>1. Step = "stop new"
        BY <3>1, <3>2 DEF LastActive
      <4>2. systemd'.active = "inactive"
        BY <1>1, <1>4, <4>1, SystemdSteps
      <4>3. Todo' \cap {"stop new", "restart", "stop"} = {}
        BY <1>2, <1>3, <3>2, <4>1
      <4> QED
        BY <1>3, <3>2, <4>2, <4>3 DEF ActiveRestored
    <3>3. CASE op.prior.unit # None /\ op.prior.active = "active"
      <4>1. Step = "restart"
        BY <3>1, <3>3 DEF LastActive
      <4>2. systemd'.active = "active" /\ systemd'.running = files.bin
        BY <1>1, <1>4, <4>1, SystemdSteps
      <4>3. Todo' \cap {"stop new", "restart", "stop"} = {}
        BY <1>3, <4>1, UndoOrder
      <4>4. "restore binary" \notin Todo' /\ "remove binary" \notin Todo'
        BY <1>3, <4>1, UndoOrder
      <4>5. files.bin = op.prior.bin \/ LeftBinary
        BY <1>3, <1>7, <4>1, <4>4
      <4>6. files.bin # None
        BY <1>4, <4>1 DEF CanDo
      <4>7. Kept'
        BY <1>3, <3>3, <4>2, <4>5, <4>6 DEF Kept
      <4> QED
        BY <1>3, <3>3, <4>3, <4>7 DEF ActiveRestored
    <3>4. CASE op.prior.unit # None /\ op.prior.active # "active"
      <4>1. Step = "stop"
        BY <3>1, <3>4 DEF LastActive
      <4>2. systemd'.active = "inactive"
        BY <1>1, <1>4, <4>1, SystemdSteps
      <4>3. Todo' \cap {"stop new", "restart", "stop"} = {}
        BY <1>3, <4>1, UndoOrder
      <4>4. Kept'
        BY <1>3, <3>4, <4>2 DEF Kept
      <4> QED
        BY <1>3, <3>4, <4>3, <4>4 DEF ActiveRestored
    <3> QED
      BY <3>2, <3>3, <3>4
  <2> QED
    BY <2>1, <2>2
<1> QED
  BY <1>3, <1>7, <1>8, <1>9, <1>10, <1>11, <1>12

\* Update replaces the executable last and looks at the service last.
LEMMA SaveOrder ==
    /\ ~(Rank("do", "binary") < Rank("do", "save rollback"))
    /\ ~(Rank("do", "binary") < Rank("do", "save marker"))
    /\ ~(Rank("do", "binary") < Rank("do", "binary"))
    /\ ~(Rank("do", "verify") < Rank("do", "reset-failed"))
    /\ ~(Rank("do", "verify") < Rank("do", "restart"))
    /\ ~(Rank("do", "verify") < Rank("do", "verify"))
<1>1. /\ Rank("do", "save rollback") = 1
      /\ Rank("do", "save marker") = 2
      /\ Rank("do", "binary") = 3
      /\ Rank("do", "reset-failed") = 9
      /\ Rank("do", "restart") = 12
      /\ Rank("do", "verify") = 13
  BY DEF Rank
<1>2. /\ ~(3 < 1)
      /\ ~(3 < 2)
      /\ ~(3 < 3)
      /\ ~(13 < 9)
      /\ ~(13 < 12)
      /\ ~(13 < 13)
  OBVIOUS
<1> QED
  BY <1>1, <1>2, Zenon

\* The recovery puts the executable back before it restarts the service.
LEMMA RecoveryOrder ==
    /\ ~(Rank("undo", "forget") < Rank("undo", "recover binary"))
    /\ ~(Rank("undo", "restart") < Rank("undo", "recover binary"))
    /\ ~(Rank("undo", "restart") < Rank("undo", "stop new"))
    /\ ~(Rank("undo", "verify") < Rank("undo", "stop new"))
    /\ ~(Rank("undo", "verify") < Rank("undo", "recover binary"))
    /\ ~(Rank("undo", "verify") < Rank("undo", "reset-failed"))
    /\ ~(Rank("undo", "verify") < Rank("undo", "restart"))
    /\ ~(Rank("undo", "verify") < Rank("undo", "verify"))
<1>1. /\ Rank("undo", "stop new") = 1
      /\ Rank("undo", "recover binary") = 3
      /\ Rank("undo", "reset-failed") = 9
      /\ Rank("undo", "restart") = 12
      /\ Rank("undo", "verify") = 13
      /\ Rank("undo", "forget") = 14
  BY DEF Rank
<1>2. /\ ~(12 < 1)
      /\ ~(12 < 3)
      /\ ~(13 < 1)
      /\ ~(13 < 3)
      /\ ~(13 < 9)
      /\ ~(13 < 12)
      /\ ~(13 < 13)
      /\ ~(14 < 3)
  OBVIOUS
<1> QED
  BY <1>1, <1>2, Zenon

\* Rollback sets the executable aside first.
LEMMA RollbackOrder ==
    /\ ~(Rank("do", "take back") < Rank("do", "set aside"))
    /\ ~(Rank("do", "restart") < Rank("do", "set aside"))
    /\ ~(Rank("do", "verify") < Rank("do", "set aside"))
    /\ ~(Rank("do", "forget") < Rank("do", "set aside"))
<1>1. /\ Rank("do", "set aside") = 10
      /\ Rank("do", "take back") = 11
      /\ Rank("do", "restart") = 12
      /\ Rank("do", "verify") = 13
      /\ Rank("do", "forget") = 14
  BY DEF Rank
<1>2. /\ ~(11 < 10)
      /\ ~(12 < 10)
      /\ ~(13 < 10)
      /\ ~(14 < 10)
  OBVIOUS
<1> QED
  BY <1>1, <1>2, Zenon

LEMMA DoneUpdatePreparing ==
    ASSUME IInv, StepDone, op.cmd = "update", op.mode = "prepare"
    PROVE  UpdatePreparing'
<1> DEFINE K == {"save rollback", "save marker", "binary"}
<1>1. TypeOK /\ files \in Files /\ systemd \in Unit
  BY DEF IInv, TypeOK
<1>2. /\ Todo \subseteq K /\ InOrder("do", op.todo) /\ (Todo # {} => "binary" \in Todo)
      /\ files.bin = IF "binary" \in Todo THEN op.prior.bin ELSE op.version
      /\ op.prior.bin # None =>
            /\ "save rollback" \notin Todo => files.rollback = op.prior.bin
            /\ "save marker" \notin Todo => files.marker = op.prior.active
      /\ op.prior.active # "active" => systemd.active = op.prior.active
      /\ Healthy => systemd.active = "active" /\ systemd.running = op.prior.bin
  BY DEF IInv, UpdatePreparing
<1>3. /\ op'.prior = op.prior /\ op'.version = op.version /\ Step \in Todo
      /\ InOrder("do", op.todo)' /\ Todo' = Todo \ {Step} /\ Healthy' = Healthy
      /\ \A x \in Todo' : Rank("do", Step) < Rank("do", x)
  BY <1>1, <1>2, Done
<1>4. files' = FileEffect(Step) /\ systemd' = SystemdEffect(Step)
  BY DEF StepDone
<1>5. Step \in K /\ Todo' \subseteq K /\ "binary" \in Todo /\ files.bin = op.prior.bin
  BY <1>2, <1>3
<1>6. Step = "binary" => Todo' = {} /\ files'.bin = op.version
  <2>1. ASSUME Step = "binary"
        PROVE  "save rollback" \notin Todo' /\ "save marker" \notin Todo'
               /\ "binary" \notin Todo'
    BY <1>3, <2>1, SaveOrder
  <2> QED
    BY <1>1, <1>4, <1>5, <2>1, FileSteps
<1>7. Step # "binary" => "binary" \in Todo' /\ files'.bin = files.bin
  BY <1>1, <1>3, <1>4, <1>5, FileFrame
<1>8. op.prior.bin # None =>
         /\ "save rollback" \notin Todo' => files'.rollback = op.prior.bin
         /\ "save marker" \notin Todo' => files'.marker = op.prior.active
  <2>1. CASE Step = "save rollback"
    <3>1. files'.rollback = op.prior.bin /\ files'.marker = files.marker
      BY <1>1, <1>4, <1>5, <2>1, FileSteps, FileFrame
    <3> QED
      BY <1>2, <1>3, <2>1, <3>1
  <2>2. CASE Step = "save marker"
    <3>1. files'.marker = op.prior.active /\ files'.rollback = files.rollback
      BY <1>1, <1>4, <2>2, FileSteps, FileFrame
    <3> QED
      BY <1>2, <1>3, <2>2, <3>1
  <2>3. CASE Step = "binary"
    <3>1. files'.marker = files.marker /\ files'.rollback = files.rollback
      BY <1>1, <1>4, <2>3, FileFrame
    <3> QED
      BY <1>2, <1>3, <2>3, <3>1
  <2> QED
    BY <1>5, <2>1, <2>2, <2>3
<1>9. systemd'.active = systemd.active /\ systemd'.running = systemd.running
  BY <1>1, <1>4, <1>5, SystemdFrame
<1> QED
  BY <1>2, <1>3, <1>5, <1>6, <1>7, <1>8, <1>9 DEF UpdatePreparing

LEMMA DoneUpdateApplying ==
    ASSUME IInv, StepDone, op.cmd = "update", op.mode = "apply"
    PROVE  UpdateApplying'
<1> DEFINE K == {"reset-failed", "restart", "verify"}
<1>1. TypeOK /\ files \in Files /\ systemd \in Unit
  BY DEF IInv, TypeOK
<1>2. /\ Todo \subseteq K /\ InOrder("do", op.todo) /\ files.bin = op.version
      /\ op.prior.bin # None => /\ files.rollback = op.prior.bin
                                /\ files.marker = op.prior.active
      /\ op.prior.active # "active" => Todo = {}
      /\ op.prior.active = "active" =>
            /\ "restart" \notin Todo /\ systemd.active = "active" =>
                  systemd.running = files.bin
            /\ "verify" \notin Todo => Todo = {} /\ Serving
  BY DEF IInv, UpdateApplying
<1>3. /\ op'.prior = op.prior /\ op'.version = op.version /\ op'.mode = "apply"
      /\ Step \in Todo /\ InOrder("do", op.todo)' /\ Todo' = Todo \ {Step}
      /\ \A x \in Todo' : Rank("do", Step) < Rank("do", x)
  BY <1>1, <1>2, Done
<1>4. files' = FileEffect(Step) /\ systemd' = SystemdEffect(Step) /\ CanDo(Step)
  BY DEF StepDone
<1>5. Step \in K /\ Todo' \subseteq K /\ op.prior.active = "active"
  BY <1>2, <1>3
<1>6. /\ files'.bin = files.bin /\ files'.rollback = files.rollback
      /\ files'.marker = files.marker
  BY <1>1, <1>4, <1>5, FileFrame
<1>7. "restart" \notin Todo' /\ systemd'.active = "active" => systemd'.running = files'.bin
  <2>1. CASE Step = "restart"
    BY <1>1, <1>4, <1>6, <2>1, SystemdSteps
  <2>2. CASE Step # "restart"
    <3>1. systemd'.active = "active" =>
             systemd.active = "active" /\ systemd'.running = systemd.running
      BY <1>1, <1>4, <1>5, <2>2, SystemdFrame
    <3> QED
      BY <1>2, <1>3, <1>5, <1>6, <2>2, <3>1
  <2> QED
    BY <2>1, <2>2
<1>8. "verify" \notin Todo' => Todo' = {} /\ Serving'
  <2> SUFFICES ASSUME "verify" \notin Todo' PROVE Todo' = {} /\ Serving'
    OBVIOUS
  <2>1. Step = "verify"
    BY <1>2, <1>3, <1>5
  <2>2. "restart" \notin Todo' /\ "reset-failed" \notin Todo'
    BY <1>3, <2>1, SaveOrder
  <2>3. Todo' = {}
    BY <1>5, <2>2
  <2>4. systemd.active = "active" /\ systemd.running \in Good
    BY <1>4, <2>1 DEF CanDo
  <2>5. systemd'.active = systemd.active /\ systemd'.running = systemd.running
    BY <1>1, <1>4, <2>1, SystemdFrame
  <2> QED
    BY <1>7, <2>2, <2>3, <2>4, <2>5 DEF Serving
<1> QED
  BY <1>2, <1>3, <1>5, <1>6, <1>7, <1>8 DEF UpdateApplying

LEMMA DoneUpdateUndoing ==
    ASSUME IInv, StepDone, op.cmd = "update", op.mode = "undo"
    PROVE  UpdateUndoing'
<1> DEFINE K == {"stop new", "recover binary", "reset-failed", "restart", "verify",
                 "forget"}
<1>1. TypeOK /\ files \in Files /\ systemd \in Unit
  BY DEF IInv, TypeOK
<1>2. Todo \subseteq K /\ InOrder("undo", op.todo)
  BY DEF IInv, UpdateUndoing
<1>3. /\ op'.prior = op.prior /\ op'.errs = op.errs
      /\ Step \in Todo /\ InOrder("undo", op.todo)' /\ Todo' = Todo \ {Step}
      /\ \A x \in Todo' : Rank("undo", Step) < Rank("undo", x)
  BY <1>1, <1>2, Done
<1>4. files' = FileEffect(Step) /\ systemd' = SystemdEffect(Step) /\ CanDo(Step)
  BY DEF StepDone
<1>5. Step \in K /\ Todo' \subseteq K
  BY <1>2, <1>3
<1>6. SUFFICES ASSUME op.prior.bin # None
               PROVE  /\ IF "recover binary" \in Todo' THEN files'.rollback = op.prior.bin
                         ELSE files'.bin = op.prior.bin
                      /\ op.prior.active = "active" =>
                            /\ "restart" \notin Todo' =>
                                  /\ "recover binary" \notin Todo' /\ "stop new" \notin Todo'
                                  /\ systemd'.active = "active" =>
                                        systemd'.running = files'.bin
                            /\ "verify" \notin Todo' => Todo' \subseteq {"forget"} /\ Serving'
  BY <1>2, <1>3, <1>5, <1>6 DEF UpdateUndoing
<1>7. /\ IF "recover binary" \in Todo THEN files.rollback = op.prior.bin
         ELSE files.bin = op.prior.bin
      /\ op.prior.active = "active" =>
            /\ "restart" \notin Todo =>
                  /\ "recover binary" \notin Todo /\ "stop new" \notin Todo
                  /\ systemd.active = "active" => systemd.running = files.bin
            /\ "verify" \notin Todo => Todo \subseteq {"forget"} /\ Serving
  BY <1>6 DEF IInv, UpdateUndoing
<1>8. Step # "recover binary" => files'.bin = files.bin
  BY <1>1, <1>4, <1>5, FileFrame
<1>9. IF "recover binary" \in Todo' THEN files'.rollback = op.prior.bin
      ELSE files'.bin = op.prior.bin
  <2>1. CASE Step = "recover binary"
    BY <1>1, <1>3, <1>4, <1>7, <2>1, FileSteps
  <2>2. CASE Step = "forget"
    <3>1. "recover binary" \notin Todo'
      BY <1>3, <2>2, RecoveryOrder
    <3> QED
      BY <1>3, <1>7, <1>8, <2>2, <3>1
  <2>3. CASE Step \notin {"recover binary", "forget"}
    <3>1. files'.rollback = files.rollback
      BY <1>1, <1>4, <1>5, <2>3, FileFrame
    <3> QED
      BY <1>3, <1>7, <1>8, <2>3, <3>1
  <2> QED
    BY <2>1, <2>2, <2>3
<1>10. ASSUME op.prior.active = "active", "restart" \notin Todo'
       PROVE  /\ "recover binary" \notin Todo' /\ "stop new" \notin Todo'
              /\ systemd'.active = "active" => systemd'.running = files'.bin
  <2>1. CASE Step = "restart"
    <3>1. "recover binary" \notin Todo' /\ "stop new" \notin Todo'
      BY <1>3, <2>1, RecoveryOrder
    <3>2. systemd'.running = files.bin
      BY <1>1, <1>4, <2>1, SystemdSteps
    <3> QED
      BY <1>8, <2>1, <3>1, <3>2
  <2>2. CASE Step # "restart"
    <3>1. /\ "recover binary" \notin Todo /\ "stop new" \notin Todo
          /\ systemd.active = "active" => systemd.running = files.bin
      BY <1>3, <1>7, <1>10, <2>2
    <3>2. Step \in {"reset-failed", "verify", "forget"}
      BY <1>3, <1>5, <2>2, <3>1
    <3>3. systemd'.active = "active" =>
             systemd.active = "active" /\ systemd'.running = systemd.running
      BY <1>1, <1>4, <3>2, SystemdFrame
    <3> QED
      BY <1>3, <1>8, <3>1, <3>2, <3>3
  <2> QED
    BY <2>1, <2>2
<1>11. ASSUME op.prior.active = "active", "verify" \notin Todo'
       PROVE  Todo' \subseteq {"forget"} /\ Serving'
  <2>1. CASE Step = "verify"
    <3>1. /\ "stop new" \notin Todo' /\ "recover binary" \notin Todo'
          /\ "reset-failed" \notin Todo' /\ "restart" \notin Todo'
      BY <1>3, <2>1, RecoveryOrder
    <3>2. systemd.active = "active" /\ systemd.running \in Good
      BY <1>4, <2>1 DEF CanDo
    <3>3. systemd'.active = systemd.active /\ systemd'.running = systemd.running
      BY <1>1, <1>4, <2>1, SystemdFrame
    <3>4. Serving'
      BY <1>10, <1>11, <3>1, <3>2, <3>3 DEF Serving
    <3>5. Todo' \subseteq {"forget"}
      BY <1>5, <1>11, <3>1
    <3> QED
      BY <3>4, <3>5
  <2>2. CASE Step # "verify"
    <3>1. Todo \subseteq {"forget"} /\ Serving
      BY <1>3, <1>7, <1>11, <2>2
    <3>2. Step = "forget"
      BY <1>3, <3>1
    <3>3. systemd'.active = systemd.active /\ systemd'.running = systemd.running
      BY <1>1, <1>4, <3>2, SystemdFrame
    <3>4. Serving'
      BY <1>8, <3>1, <3>2, <3>3 DEF Serving
    <3> QED
      BY <1>3, <3>1, <3>4
  <2> QED
    BY <2>1, <2>2
<1> QED
  BY <1>9, <1>10, <1>11

LEMMA DoneRollingBack ==
    ASSUME IInv, StepDone, op.cmd = "rollback"
    PROVE  RollingBack'
<1> DEFINE K == {"reset-failed", "set aside", "take back", "restart", "verify",
                 "forget"}
<1>1. TypeOK /\ files \in Files /\ systemd \in Unit
  BY DEF IInv, TypeOK
<1>2. op.mode \in {"prepare", "apply"}
  BY DEF IInv, RollingBack, StepDone, Doing
<1>3. /\ Todo \subseteq K /\ InOrder("do", op.todo) /\ (op.mode # "prepare" => Todo = {})
      /\ IF "set aside" \in Todo THEN files.bin = op.prior.bin
         ELSE files.failed = op.prior.bin
  BY <1>2 DEF IInv, RollingBack
<1>4. /\ op'.prior = op.prior /\ op'.mode = op.mode /\ op'.cmd = op.cmd
      /\ Step \in Todo /\ InOrder("do", op.todo)' /\ Todo' = Todo \ {Step}
      /\ \A x \in Todo' : Rank("do", Step) < Rank("do", x)
  BY <1>1, <1>3, Done
<1>5. files' = FileEffect(Step)
  BY DEF StepDone
<1>6. Step \in K /\ Todo' \subseteq K /\ op.mode = "prepare"
  BY <1>3, <1>4
<1>7. "set aside" \in Todo' => files'.bin = op.prior.bin
  <2> SUFFICES ASSUME "set aside" \in Todo' PROVE files'.bin = op.prior.bin
    OBVIOUS
  <2>1. Step = "reset-failed"
    BY <1>4, <1>6, RollbackOrder
  <2> QED
    BY <1>1, <1>3, <1>4, <1>5, <2>1, FileFrame
<1>8. "set aside" \notin Todo' => files'.failed = op.prior.bin
  <2>1. CASE Step = "set aside"
    BY <1>1, <1>3, <1>4, <1>5, <2>1, FileSteps
  <2>2. CASE Step # "set aside"
    BY <1>1, <1>3, <1>4, <1>5, <2>2, FileFrame
  <2> QED
    BY <2>1, <2>2
<1> QED
  BY <1>4, <1>6, <1>7, <1>8 DEF RollingBack

LEMMA DoneManaging ==
    ASSUME IInv, StepDone, op.cmd \notin {"none", "install", "update", "rollback"}
    PROVE  Managing'
<1>1. TypeOK /\ files \in Files
  BY DEF IInv, TypeOK
<1>2. /\ op'.prior = op.prior /\ op'.mode = op.mode /\ op'.cmd = op.cmd
      /\ Step \in Todo /\ Todo' \subseteq Todo
  BY <1>1, Done
<1>3. /\ Todo \subseteq {"disable --now", "remove unit", "daemon-reload", "reset-failed",
                         "start", "restart", "stop", "enable", "disable"}
      /\ op.mode \notin {"apply", "ok", "undo"} /\ files.bin = op.prior.bin
  BY DEF IInv, Managing, StepDone
<1>4. files'.bin = files.bin
  BY <1>1, <1>2, <1>3, FileFrame DEF StepDone
<1> QED
  BY <1>2, <1>3, <1>4 DEF Managing

\* A step that succeeds, in whatever list.
LEMMA StepDonePreserves ==
    ASSUME IInv, StepDone
    PROVE  IInv'
<1>1. TypeOK' /\ Consistent'
  BY DoneBasics
<1>2. /\ op \in Operation /\ op'.cmd = op.cmd /\ op'.mode = op.mode
      /\ op.mode \in {"prepare", "apply", "undo"}
  BY Done DEF IInv, StepDone, Doing
<1>3. InstallPreparing' /\ InstallApplying' /\ InstallUndoing' /\ InstallFailed'
  <2>1. InstallPreparing'
    BY <1>2, DoneInstallPreparing DEF InstallPreparing
  <2>2. InstallApplying'
    BY <1>2, DoneInstallApplying DEF InstallApplying
  <2>3. InstallUndoing'
    BY <1>2, DoneInstallUndoing DEF InstallUndoing
  <2>4. InstallFailed'
    BY <1>2 DEF InstallFailed
  <2> QED
    BY <2>1, <2>2, <2>3, <2>4
<1>4. UpdatePreparing' /\ UpdateApplying' /\ UpdateUndoing' /\ UpdateFailed'
  <2>1. UpdatePreparing'
    BY <1>2, DoneUpdatePreparing DEF UpdatePreparing
  <2>2. UpdateApplying'
    BY <1>2, DoneUpdateApplying DEF UpdateApplying
  <2>3. UpdateUndoing'
    BY <1>2, DoneUpdateUndoing DEF UpdateUndoing
  <2>4. UpdateFailed'
    BY <1>2 DEF UpdateFailed
  <2> QED
    BY <2>1, <2>2, <2>3, <2>4
<1>5. RollingBack'
  BY <1>2, DoneRollingBack DEF RollingBack
<1>6. Managing'
  BY <1>2, DoneManaging DEF Managing
<1> QED
  BY <1>1, <1>3, <1>4, <1>5, <1>6 DEF IInv

----------------------------------------------------------------------------
(* A removal that fails unnoticed                                          *)

\* Nothing but what is to be forgotten changes, and the removal is recorded.
LEMMA Ignored ==
    ASSUME IInv, StepIgnored
    PROVE  /\ Passing /\ Step \in Removals /\ files' \in Files
           /\ files'.bin = files.bin /\ files'.unit = files.unit
           /\ files'.failed = files.failed /\ files'.preinstall = files.preinstall
           /\ Step # "forget" => files' = files
           /\ systemd' = systemd /\ Step \in left' /\ left \subseteq left'
           /\ TypeOK' /\ Consistent'
<1>1. TypeOK /\ Consistent /\ files \in Files
  BY DEF IInv, TypeOK
<1>2. Passing /\ Step \in Removals
  BY DEF StepIgnored, Passing
<1>3. /\ \/ files' = files
         \/ Step = "forget" /\ files' \in {[files EXCEPT !.marker = None],
                                          [files EXCEPT !.rollback = None]}
      /\ systemd' = systemd /\ left' = left \cup {Step} /\ issued' = issued
  BY DEF StepIgnored
<1>4. /\ files' \in Files /\ files'.bin = files.bin /\ files'.unit = files.unit
      /\ files'.failed = files.failed /\ files'.preinstall = files.preinstall
      /\ Step # "forget" => files' = files
  BY <1>1, <1>3 DEF Files
<1>5. /\ op' \in Operation /\ op'.cmd = op.cmd /\ op'.version = op.version
      /\ op'.unit = op.unit /\ op'.prior = op.prior /\ Step \in StepName
  BY <1>1, <1>2, Passed
<1>6. faults' \in 0..MaxFault
  BY <1>1, BoundsAssumption DEF StepIgnored, TypeOK
<1>7. TypeOK'
  BY <1>1, <1>3, <1>4, <1>5, <1>6 DEF TypeOK
<1>8. Consistent'
  BY <1>1, <1>3, <1>5 DEF Consistent
<1> QED
  BY <1>2, <1>3, <1>4, <1>7, <1>8

LEMMA IgnoredInstallApplying ==
    ASSUME IInv, StepIgnored, op.cmd = "install", op.mode = "apply"
    PROVE  InstallApplying'
<1>1. /\ TypeOK /\ Passing /\ Step \in Removals /\ files' = files
      /\ systemd' = systemd
  <2>1. Step # "forget"
    BY Ignored, Passed DEF IInv, InstallApplying
  <2> QED
    BY <2>1, Ignored DEF IInv
<1>2. /\ Todo \subseteq {"binary", "unit", "daemon-reload", "disable", "enable",
                         "enable --runtime", "reset-failed", "restart", "stop",
                         "drop preinstall"}
      /\ InOrder("do", op.todo)
      /\ Changed =>
            /\ Todo \cap {"restart", "stop"} = {} =>
                  /\ "binary" \notin Todo
                  /\ systemd.active = "active" => systemd.running = files.bin
            /\ Todo \cap {"disable", "enable", "enable --runtime"} = {} =>
                  /\ Todo \cap {"unit", "daemon-reload"} = {}
                  /\ systemd.loaded = files.unit
  BY DEF IInv, InstallApplying
<1>3. /\ op'.cmd = op.cmd /\ op'.mode = op.mode /\ op'.prior = op.prior
      /\ Step \in Todo /\ InOrder("do", op.todo)' /\ Todo' = Todo \ {Step}
      /\ \A x \in Todo' : Rank("do", Step) < Rank("do", x)
      /\ Changed' = Changed
  BY <1>1, <1>2, Passed
<1>4. Step = "drop preinstall"
  BY <1>1, <1>2, <1>3 DEF Removals
<1>5. Todo' = {}
  BY <1>2, <1>3, <1>4, DropLast
<1>6. Todo = {"drop preinstall"}
  BY <1>3, <1>4, <1>5
<1>7. Changed => /\ systemd.active = "active" => systemd.running = files.bin
                 /\ systemd.loaded = files.unit
  BY <1>2, <1>6
<1> QED
  BY <1>1, <1>3, <1>5, <1>7 DEF InstallApplying

LEMMA IgnoredInstallUndoing ==
    ASSUME IInv, StepIgnored, op.cmd = "install", op.mode = "undo"
    PROVE  InstallUndoing'
<1>1. /\ TypeOK /\ Passing /\ Step \in Removals
      /\ systemd' = systemd /\ Step \in left' /\ left \subseteq left'
      /\ files'.bin = files.bin /\ files'.unit = files.unit
      /\ files'.preinstall = files.preinstall
  BY Ignored DEF IInv
<1>2. /\ Todo \subseteq {"stop new", "disable new", "restore binary", "remove binary",
                         "drop preinstall", "restore unit", "remove unit",
                         "daemon-reload", "disable", "enable", "enable --runtime",
                         "reset-failed", "restart", "stop"}
      /\ InOrder("undo", op.todo)
      /\ op.prior.unit = None =>
            Todo \cap {"disable", "enable", "enable --runtime", "restart", "stop"} = {}
      /\ "enable" \in Todo => op.prior.enabled = "enabled"
      /\ "enable --runtime" \in Todo => op.prior.enabled = "enabled-runtime"
  BY DEF IInv, InstallUndoing
<1>3. /\ op'.cmd = op.cmd /\ op'.mode = op.mode /\ op'.prior = op.prior
      /\ op'.errs = op.errs /\ Step \in Todo /\ InOrder("undo", op.todo)'
      /\ Todo' = Todo \ {Step}
      /\ LastEnable' = LastEnable /\ LastActive' = LastActive
  BY <1>1, <1>2, Passed
<1>4. Step \in {"drop preinstall", "remove binary", "remove unit"}
  BY <1>1, <1>2, <1>3 DEF Removals
<1>5. /\ LeftBinary => LeftBinary'
      /\ LeftUnit => LeftUnit'
      /\ Step = "remove binary" /\ op.prior.bin = None => LeftBinary'
      /\ Step = "remove unit" /\ op.prior.unit = None => LeftUnit'
  BY <1>1, <1>3 DEF LeftBinary, LeftUnit
<1>6. /\ EnableRestored => EnableRestored'
      /\ ActiveRestored => ActiveRestored'
  BY <1>1, <1>3, <1>5 DEF EnableRestored, ActiveRestored, Kept
<1>7. LastEnable # Step /\ LastActive # Step
  BY <1>4 DEF LastEnable, LastActive
<1>8. SUFFICES ASSUME ~op.errs
               PROVE  /\ "restore binary" \in Todo' => files'.preinstall = op.prior.bin
                      /\ "remove binary" \in Todo' => op.prior.bin = None
                      /\ Todo' \cap {"restore binary", "remove binary"} = {} =>
                            files'.bin = op.prior.bin \/ LeftBinary'
                      /\ "remove unit" \in Todo' => op.prior.unit = None
                      /\ Todo' \cap {"restore unit", "remove unit"} = {} =>
                            files'.unit = op.prior.unit \/ LeftUnit'
                      /\ LastEnable \notin Todo' =>
                            /\ Todo' \cap {"disable new", "disable", "enable",
                                           "enable --runtime"} = {}
                            /\ EnableRestored'
                      /\ LastActive \notin Todo' =>
                            /\ Todo' \cap {"stop new", "restart", "stop"} = {}
                            /\ ActiveRestored'
  BY <1>2, <1>3 DEF InstallUndoing
<1>9. /\ "restore binary" \in Todo => files.preinstall = op.prior.bin
      /\ "remove binary" \in Todo => op.prior.bin = None
      /\ Todo \cap {"restore binary", "remove binary"} = {} =>
            files.bin = op.prior.bin \/ LeftBinary
      /\ "remove unit" \in Todo => op.prior.unit = None
      /\ Todo \cap {"restore unit", "remove unit"} = {} =>
            files.unit = op.prior.unit \/ LeftUnit
      /\ LastEnable \notin Todo =>
            /\ Todo \cap {"disable new", "disable", "enable", "enable --runtime"} = {}
            /\ EnableRestored
      /\ LastActive \notin Todo =>
            /\ Todo \cap {"stop new", "restart", "stop"} = {}
            /\ ActiveRestored
  BY <1>8 DEF IInv, InstallUndoing
<1>10. Todo' \cap {"restore binary", "remove binary"} = {} =>
          files'.bin = op.prior.bin \/ LeftBinary'
  <2>1. CASE Step = "remove binary"
    BY <1>3, <1>5, <1>9, <2>1
  <2>2. CASE Step # "remove binary"
    BY <1>1, <1>3, <1>4, <1>5, <1>9, <2>2
  <2> QED
    BY <2>1, <2>2
<1>11. Todo' \cap {"restore unit", "remove unit"} = {} =>
          files'.unit = op.prior.unit \/ LeftUnit'
  <2>1. CASE Step = "remove unit"
    BY <1>3, <1>5, <1>9, <2>1
  <2>2. CASE Step # "remove unit"
    BY <1>1, <1>3, <1>4, <1>5, <1>9, <2>2
  <2> QED
    BY <2>1, <2>2
<1>12. LastEnable \notin Todo' =>
          /\ Todo' \cap {"disable new", "disable", "enable", "enable --runtime"} = {}
          /\ EnableRestored'
  BY <1>3, <1>6, <1>7, <1>9
<1>13. LastActive \notin Todo' =>
          /\ Todo' \cap {"stop new", "restart", "stop"} = {}
          /\ ActiveRestored'
  BY <1>3, <1>6, <1>7, <1>9
<1> QED
  BY <1>1, <1>3, <1>9, <1>10, <1>11, <1>12, <1>13

\* A recovery forgets last, once the service is back.
LEMMA IgnoredUpdateUndoing ==
    ASSUME IInv, StepIgnored, op.cmd = "update", op.mode = "undo"
    PROVE  UpdateUndoing'
<1>1. /\ TypeOK /\ Passing /\ Step \in Removals
      /\ systemd' = systemd /\ files'.bin = files.bin
  BY Ignored DEF IInv
<1>2. /\ Todo \subseteq {"stop new", "recover binary", "reset-failed", "restart", "verify",
                         "forget"}
      /\ InOrder("undo", op.todo)
      /\ op.prior.bin # None =>
          /\ IF "recover binary" \in Todo THEN files.rollback = op.prior.bin
             ELSE files.bin = op.prior.bin
          /\ op.prior.active = "active" =>
                /\ "restart" \notin Todo =>
                      /\ "recover binary" \notin Todo /\ "stop new" \notin Todo
                      /\ systemd.active = "active" => systemd.running = files.bin
                /\ "verify" \notin Todo => Todo \subseteq {"forget"} /\ Serving
  BY DEF IInv, UpdateUndoing
<1>3. /\ op'.cmd = op.cmd /\ op'.mode = op.mode /\ op'.prior = op.prior
      /\ Step \in Todo /\ InOrder("undo", op.todo)' /\ Todo' = Todo \ {Step}
      /\ \A x \in Todo' : Rank("undo", Step) < Rank("undo", x)
  BY <1>1, <1>2, Passed
<1>4. Step = "forget"
  BY <1>1, <1>2, <1>3 DEF Removals
<1>5. Todo' = {}
  <2>1. Rank("undo", "forget") = 14 /\ \A x : Rank("undo", x) \in 0..14
    BY DEF Rank
  <2>2. \A x \in Todo' : 14 < Rank("undo", x)
    BY <1>3, <1>4, <2>1
  <2> QED
    BY <2>1, <2>2
<1>6. Todo = {"forget"}
  BY <1>3, <1>4, <1>5
<1>7. op.prior.bin # None =>
         /\ files.bin = op.prior.bin
         /\ op.prior.active = "active" => Serving
  BY <1>2, <1>6
<1>8. Serving => Serving' /\ systemd'.running = files'.bin
  BY <1>1 DEF Serving
<1> QED
  BY <1>1, <1>3, <1>5, <1>7, <1>8 DEF UpdateUndoing

LEMMA StepIgnoredPreserves ==
    ASSUME IInv, StepIgnored
    PROVE  IInv'
<1>1. /\ TypeOK /\ Passing /\ Step \in Removals /\ TypeOK' /\ Consistent'
      /\ files'.bin = files.bin /\ files'.failed = files.failed
  BY Ignored DEF IInv
<1>2. /\ op \in Operation /\ op'.cmd = op.cmd /\ op'.mode = op.mode
      /\ op'.prior = op.prior /\ Step \in Todo /\ Todo' \subseteq Todo
      /\ op.mode \in {"prepare", "apply", "undo"}
  BY <1>1, Passed DEF Passing, Doing
<1>3. InstallPreparing' /\ InstallFailed'
  <2>1. ~(op.cmd = "install" /\ op.mode = "prepare")
    BY <1>1, <1>2 DEF IInv, InstallPreparing, Removals
  <2> QED
    BY <1>2, <2>1 DEF InstallPreparing, InstallFailed
<1>4. InstallApplying'
  BY <1>2, IgnoredInstallApplying DEF InstallApplying
<1>5. InstallUndoing'
  BY <1>2, IgnoredInstallUndoing DEF InstallUndoing
<1>6. UpdatePreparing' /\ UpdateApplying' /\ UpdateFailed'
  <2>1. ~(op.cmd = "update" /\ op.mode = "prepare")
    BY <1>1, <1>2 DEF IInv, UpdatePreparing, Removals
  <2>2. ~(op.cmd = "update" /\ op.mode \in {"apply", "ok"})
    BY <1>1, <1>2 DEF IInv, UpdateApplying, Removals
  <2> QED
    BY <1>2, <2>1, <2>2 DEF UpdatePreparing, UpdateApplying, UpdateFailed
<1>7. UpdateUndoing'
  BY <1>2, IgnoredUpdateUndoing DEF UpdateUndoing
<1>8. RollingBack'
  <2> SUFFICES ASSUME op.cmd = "rollback" PROVE RollingBack'
    BY <1>2 DEF RollingBack
  <2>1. /\ op.mode \in {"prepare", "apply", "ok"} =>
          /\ Todo \subseteq {"reset-failed", "set aside", "take back", "restart", "verify",
                             "forget"}
          /\ InOrder("do", op.todo) /\ (op.mode # "prepare" => Todo = {})
          /\ IF "set aside" \in Todo THEN files.bin = op.prior.bin
             ELSE files.failed = op.prior.bin
        /\ op.mode # "undo"
    BY DEF IInv, RollingBack
  <2>2. op.mode = "prepare"
    BY <1>2, <2>1
  <2>3. Step = "forget"
    BY <1>1, <1>2, <2>1, <2>2 DEF Removals
  <2>4. InOrder("do", op.todo)' /\ Todo' = Todo \ {Step}
    BY <1>1, <2>1, <2>2, Passed
  <2> QED
    BY <1>1, <1>2, <2>1, <2>2, <2>3, <2>4 DEF RollingBack
<1>9. Managing'
  <2>1. ~(op.cmd \notin {"none", "install", "update", "rollback"})
    BY <1>1, <1>2 DEF IInv, Managing, Removals
  <2> QED
    BY <1>2, <2>1 DEF Managing
<1> QED
  BY <1>1, <1>3, <1>4, <1>5, <1>6, <1>7, <1>8, <1>9 DEF IInv

----------------------------------------------------------------------------
(* A step that fails                                                       *)

Failing ==
    /\ Doing /\ op.todo # <<>> /\ Step \notin Removals
    /\ files' \in FailedFiles /\ systemd' \in FailedSystemd /\ op' = AfterFailure
    /\ left' = left

LEMMA EitherFails == ASSUME StepFails \/ StepRefused PROVE Failing
<1>1. CASE StepFails
  BY <1>1 DEF StepFails, Failing
<1>2. CASE StepRefused
  <2>1. ~CanDo(Step)
    BY <1>2 DEF StepRefused
  <2>2. Step \notin {"drop preinstall", "remove binary", "forget", "remove unit"}
    BY <2>1 DEF CanDo
  <2>3. Step \notin Removals
    BY <2>2 DEF Removals
  <2> QED
    BY <1>2, <2>3 DEF StepRefused, Failing
<1> QED
  BY <1>1, <1>2

\* The command goes on as it was, but for its list, mode and errors.
LEMMA FailedOp ==
    ASSUME TypeOK, Failing
    PROVE  /\ op \in Operation /\ op' \in Operation
           /\ op'.cmd = op.cmd /\ op'.version = op.version /\ op'.unit = op.unit
           /\ op'.prior = op.prior /\ Step \in Todo /\ Step \in StepName
           /\ op.mode \in {"prepare", "apply", "undo"}
           /\ op.mode = "apply" /\ op.cmd = "install" =>
                 op'.mode = "undo" /\ op'.todo = RestoreSteps /\ op'.errs = op.errs
           /\ op.mode = "apply" /\ op.cmd = "update" /\ files.marker # None =>
                 op'.mode = "undo" /\ op'.todo = RecoverySteps /\ op'.errs = op.errs
           /\ op.mode = "undo" /\ op.cmd = "install" =>
                 op'.mode = "undo" /\ op'.todo = Remaining /\ op'.errs
           /\ \/ op.mode = "prepare" \/ op.cmd \notin {"install", "update"}
              \/ op.cmd = "update" /\ (op.mode = "undo" \/ files.marker = None)
              => /\ op'.mode = "failed" /\ op'.todo = op.todo
                 /\ op'.errs = (op.mode # "prepare")
<1>1. op \in Operation /\ op.mode \in {"prepare", "apply", "undo"}
  BY OpKinds DEF Failing, Doing
<1>2. op.todo \in Seq(StepName) /\ op.todo # <<>>
  BY <1>1 DEF Operation, Failing
<1>3. Step \in Todo /\ Step \in StepName /\ Tail(op.todo) \in Seq(StepName)
  BY <1>2, TailSteps DEF Step, Todo
<1>4. Remaining \in Seq(StepName)
  <2>1. CASE Len(op.todo) > 1
    <3>1. Tail(op.todo) # <<>>
      BY <1>2, <2>1, LongTail
    <3>2. Tail(Tail(op.todo)) \in Seq(StepName)
      BY <1>3, <3>1, TailSteps
    <3> QED
      BY <1>3, <3>2 DEF Remaining
  <2>2. CASE ~(Len(op.todo) > 1)
    BY <1>3, <2>2 DEF Remaining
  <2> QED
    BY <2>1, <2>2
<1>5. RestoreSteps \in Seq(StepName)
  BY RestoreList DEF List
<1>6. RecoverySteps \in Seq(StepName)
  BY RecoveryList DEF List
<1>7. op' = AfterFailure
  BY DEF Failing
<1>8. CASE op.mode = "apply" /\ op.cmd = "install"
  <2>1. op' = [op EXCEPT !.mode = "undo", !.todo = RestoreSteps]
    BY <1>7, <1>8 DEF AfterFailure
  <2> QED
    BY <1>1, <1>3, <1>5, <1>8, <2>1 DEF Operation
<1>9. CASE op.mode = "apply" /\ op.cmd = "update" /\ files.marker # None
  <2>1. op' = [op EXCEPT !.mode = "undo", !.todo = RecoverySteps]
    BY <1>7, <1>9 DEF AfterFailure
  <2> QED
    BY <1>1, <1>3, <1>6, <1>9, <2>1 DEF Operation
<1>10. CASE op.mode = "undo" /\ op.cmd = "install"
  <2>1. op' = [op EXCEPT !.todo = Remaining, !.errs = TRUE]
    BY <1>7, <1>10 DEF AfterFailure
  <2> QED
    BY <1>1, <1>3, <1>4, <1>10, <2>1 DEF Operation
<1>11. CASE \/ op.mode = "prepare" \/ op.cmd \notin {"install", "update"}
            \/ op.cmd = "update" /\ (op.mode = "undo" \/ files.marker = None)
  <2>1. op' = [op EXCEPT !.mode = "failed", !.errs = op.mode # "prepare"]
    BY <1>1, <1>7, <1>11 DEF AfterFailure
  <2> QED
    BY <1>1, <1>3, <1>11, <2>1 DEF Operation
<1> QED
  BY <1>1, <1>8, <1>9, <1>10, <1>11

\* What a failure changes besides the command.
LEMMA FailedFields ==
    ASSUME TypeOK, Failing
    PROVE  /\ files' \in Files /\ systemd' \in Unit
           /\ files'.unit = files.unit /\ files'.preinstall = files.preinstall
           /\ Step # "take back" => files'.bin = files.bin
           /\ Step \notin {"take back", "set aside"} => files'.failed = files.failed
           /\ Step = "take back" => files'.bin = files.failed \/ files' = files
           /\ Step # "save marker" => files'.rollback = files.rollback
           /\ systemd'.enabled = systemd.enabled
           /\ systemd'.active = "active" =>
                 systemd.active = "active" /\ systemd'.running = systemd.running
           /\ Step \notin {"start", "restart"} => systemd' = systemd
<1>1. files \in Files /\ systemd \in Unit
  BY DEF TypeOK
<1>2. files' \in FailedFiles
  BY DEF Failing
<1>3. \A f \in FailedFiles :
         /\ f \in Files /\ f.unit = files.unit /\ f.preinstall = files.preinstall
         /\ Step # "take back" => f.bin = files.bin
         /\ Step \notin {"take back", "set aside"} => f.failed = files.failed
         /\ Step = "take back" => f.bin = files.failed \/ f = files
         /\ Step # "save marker" => f.rollback = files.rollback
  BY <1>1 DEF FailedFiles, Files
<1>4. \/ systemd' = systemd
      \/ /\ Step \in {"start", "restart"}
         /\ systemd' = [Stopped EXCEPT !.active = "failed"]
  BY DEF Failing, FailedSystemd
<1> DEFINE down == [Stopped EXCEPT !.active = "failed"]
<1>5. /\ down \in Unit /\ down.enabled = systemd.enabled /\ down.active = "failed"
  BY <1>1 DEF Stopped, Unit
<1> HIDE DEF down
<1>6. /\ systemd' \in Unit /\ systemd'.enabled = systemd.enabled
      /\ systemd'.active = "active" =>
            systemd.active = "active" /\ systemd'.running = systemd.running
      /\ Step \notin {"start", "restart"} => systemd' = systemd
  BY <1>1, <1>4, <1>5 DEF down
<1> QED
  BY <1>2, <1>3, <1>6

LEMMA FailedBasics ==
    ASSUME IInv, Failing, UNCHANGED issued, faults' \in 0..MaxFault
    PROVE  TypeOK' /\ Consistent'
<1>1. TypeOK /\ Consistent
  BY DEF IInv
<1>2. /\ op' \in Operation /\ op'.cmd = op.cmd /\ op'.version = op.version
      /\ op'.unit = op.unit /\ op'.prior = op.prior
  BY <1>1, FailedOp
<1>3. /\ files' \in Files /\ systemd' \in Unit
      /\ systemd'.active = "active" =>
            systemd.active = "active" /\ systemd'.running = systemd.running
  BY <1>1, FailedFields
<1>4. TypeOK'
  BY <1>1, <1>2, <1>3 DEF TypeOK, Failing
<1>5. Consistent'
  BY <1>1, <1>2, <1>3 DEF Consistent
<1> QED
  BY <1>4, <1>5

\* An install that was not yet changing anything.
LEMMA FailedInstallPreparing ==
    ASSUME IInv, Failing, op.cmd = "install", op.mode = "prepare"
    PROVE  op'.cmd = "install" /\ op'.mode = "failed" /\ InstallFailed'
<1>1. TypeOK
  BY DEF IInv
<1>2. /\ Todo \subseteq {"account", "make leaf", "own leaf", "chmod leaf", "preinstall"}
      /\ files.bin = op.prior.bin /\ files.unit = op.prior.unit
      /\ systemd.enabled = op.prior.enabled /\ Kept
  BY DEF IInv, InstallPreparing
<1>3. /\ op'.cmd = "install" /\ op'.mode = "failed" /\ op'.prior = op.prior
      /\ Step \in Todo
  BY <1>1, FailedOp
<1>4. Step \notin {"take back", "start", "restart"}
  BY <1>2, <1>3
<1>5. files'.bin = files.bin /\ files'.unit = files.unit /\ systemd' = systemd
  BY <1>1, <1>4, FailedFields
<1>6. Kept'
  BY <1>2, <1>3, <1>5 DEF Kept, LeftBinary, Failing
<1> QED
  BY <1>2, <1>3, <1>5, <1>6 DEF InstallFailed

\* An install that has begun to change things begins to restore.
LEMMA FailedInstallApplying ==
    ASSUME IInv, Failing, op.cmd = "install", op.mode = "apply"
    PROVE  op'.cmd = "install" /\ op'.mode = "undo" /\ InstallUndoing'
<1>1. TypeOK
  BY DEF IInv
<1>2. /\ Todo # {} /\ op.prior.bin # None => files.preinstall = op.prior.bin
      /\ Todo \subseteq {"binary", "unit", "daemon-reload", "disable", "enable",
                         "enable --runtime", "reset-failed", "restart", "stop",
                         "drop preinstall"}
  BY DEF IInv, InstallApplying
<1>3. /\ op'.cmd = "install" /\ op'.mode = "undo" /\ op'.prior = op.prior
      /\ op'.todo = RestoreSteps /\ Step \in Todo
  BY <1>1, FailedOp
<1>4. files'.preinstall = files.preinstall
  BY <1>1, FailedFields
<1>5. PICK E :
        /\ List("undo", RestoreSteps, E, 1, 12)
        /\ E \subseteq {"stop new", "disable new", "restore binary", "remove binary",
                        "drop preinstall", "restore unit", "remove unit",
                        "daemon-reload", "disable", "enable", "enable --runtime",
                        "reset-failed", "restart", "stop"}
        /\ IF op.prior.bin # None THEN "restore binary" \in E /\ "remove binary" \notin E
           ELSE "remove binary" \in E /\ "restore binary" \notin E
        /\ IF op.prior.unit # None THEN "restore unit" \in E /\ "remove unit" \notin E
           ELSE "remove unit" \in E
        /\ LastEnable \in E /\ LastActive \in E
        /\ op.prior.unit = None =>
              E \cap {"disable", "enable", "enable --runtime", "restart", "stop"} = {}
        /\ "enable" \in E => op.prior.enabled = "enabled"
        /\ "enable --runtime" \in E => op.prior.enabled = "enabled-runtime"
  BY RestoreList
<1>6. InOrder("undo", op'.todo) /\ Els(op'.todo) = E
  BY <1>3, <1>5 DEF List
<1>7. Todo' = E /\ InOrder("undo", op.todo)'
  <2>1. InOrder("undo", op.todo)'
    BY <1>6 DEF InOrder, Rank
  <2> QED
    BY <1>6, <2>1 DEF Todo
<1>8. LastEnable' = LastEnable /\ LastActive' = LastActive
  BY <1>3 DEF LastEnable, LastActive
<1>9. op.prior.bin # None => files'.preinstall = op.prior.bin
  BY <1>2, <1>3, <1>4
<1>10. /\ "restore binary" \in E => op.prior.bin # None
       /\ "remove binary" \in E => op.prior.bin = None
       /\ E \cap {"restore binary", "remove binary"} # {}
       /\ "remove unit" \in E => op.prior.unit = None
       /\ E \cap {"restore unit", "remove unit"} # {}
  BY <1>5
<1> QED
  BY <1>3, <1>5, <1>7, <1>8, <1>9, <1>10 DEF InstallUndoing

\* restore goes on with what is left.
LEMMA FailedInstallUndoing ==
    ASSUME IInv, Failing, op.cmd = "install", op.mode = "undo"
    PROVE  op'.cmd = "install" /\ op'.mode = "undo" /\ InstallUndoing'
<1>1. TypeOK
  BY DEF IInv
<1>2. /\ Todo \subseteq {"stop new", "disable new", "restore binary", "remove binary",
                         "drop preinstall", "restore unit", "remove unit",
                         "daemon-reload", "disable", "enable", "enable --runtime",
                         "reset-failed", "restart", "stop"}
      /\ InOrder("undo", op.todo)
      /\ op.prior.unit = None =>
            Todo \cap {"disable", "enable", "enable --runtime", "restart", "stop"} = {}
      /\ "enable" \in Todo => op.prior.enabled = "enabled"
      /\ "enable --runtime" \in Todo => op.prior.enabled = "enabled-runtime"
  BY DEF IInv, InstallUndoing
<1>3. /\ op'.cmd = "install" /\ op'.mode = "undo" /\ op'.prior = op.prior
      /\ op'.todo = Remaining /\ op'.errs /\ op \in Operation
  BY <1>1, FailedOp
<1>4. op.todo \in Seq(StepName) /\ op.todo # <<>>
  BY <1>3 DEF Operation, Failing
<1>5. /\ Tail(op.todo) \in Seq(StepName) /\ InOrder("undo", Tail(op.todo))
      /\ Els(Tail(op.todo)) \subseteq Todo
  BY <1>2, <1>4, FirstStep DEF Todo
<1>6. InOrder("undo", Remaining) /\ Els(Remaining) \subseteq Todo
  <2>1. CASE Len(op.todo) > 1
    <3>2. Tail(op.todo) # <<>>
      BY <1>4, <2>1, LongTail
    <3>3. /\ InOrder("undo", Tail(Tail(op.todo)))
          /\ Els(Tail(Tail(op.todo))) \subseteq Els(Tail(op.todo))
      BY <1>5, <3>2, FirstStep
    <3> QED
      BY <1>5, <3>3 DEF Remaining
  <2>2. CASE ~(Len(op.todo) > 1)
    BY <1>5, <2>2 DEF Remaining
  <2> QED
    BY <2>1, <2>2
<1>7. Todo' \subseteq Todo /\ InOrder("undo", op.todo)'
  <2>1. InOrder("undo", op.todo)'
    BY <1>3, <1>6 DEF InOrder, Rank
  <2> QED
    BY <1>3, <1>6, <2>1 DEF Todo
<1> QED
  BY <1>2, <1>3, <1>7 DEF InstallUndoing

\* An update that has not replaced the executable.
LEMMA FailedUpdatePreparing ==
    ASSUME IInv, Failing, op.cmd = "update", op.mode = "prepare"
    PROVE  op'.cmd = "update" /\ op'.mode = "failed" /\ UpdateFailed'
<1>1. TypeOK
  BY DEF IInv
<1>2. /\ Todo \subseteq {"save rollback", "save marker", "binary"}
      /\ Todo # {} => "binary" \in Todo
      /\ files.bin = IF "binary" \in Todo THEN op.prior.bin ELSE op.version
      /\ Healthy => systemd.active = "active" /\ systemd.running = op.prior.bin
  BY DEF IInv, UpdatePreparing
<1>3. /\ op'.cmd = "update" /\ op'.mode = "failed" /\ op'.prior = op.prior
      /\ Step \in Todo
  BY <1>1, FailedOp
<1>4. Step \notin {"take back", "start", "restart"} /\ files.bin = op.prior.bin
  BY <1>2, <1>3
<1>5. files'.bin = files.bin /\ systemd' = systemd
  BY <1>1, <1>4, FailedFields
<1>6. Healthy' => Serving'
  BY <1>2, <1>3, <1>4, <1>5 DEF Healthy, Serving
<1> QED
  BY <1>3, <1>4, <1>5, <1>6 DEF UpdateFailed

\* One that has recovers if it has saved the old one.
LEMMA FailedUpdateApplying ==
    ASSUME IInv, Failing, op.cmd = "update", op.mode = "apply"
    PROVE  /\ op'.cmd = "update" /\ op'.mode \in {"undo", "failed"}
           /\ UpdateUndoing' /\ UpdateFailed'
<1>1. TypeOK
  BY DEF IInv
<1>2. /\ Todo \subseteq {"reset-failed", "restart", "verify"}
      /\ op.prior.bin # None => /\ files.rollback = op.prior.bin
                                /\ files.marker = op.prior.active
  BY DEF IInv, UpdateApplying
<1>3. op'.cmd = "update" /\ op'.prior = op.prior /\ Step \in Todo
  BY <1>1, FailedOp
<1>4. files'.rollback = files.rollback
  BY <1>1, <1>2, <1>3, FailedFields
<1>5. CASE files.marker = None
  <2>1. op'.mode = "failed" /\ op'.errs
    BY <1>1, <1>5, FailedOp
  <2> QED
    BY <1>3, <2>1 DEF UpdateUndoing, UpdateFailed
<1>6. CASE files.marker # None
  <2>1. op'.mode = "undo" /\ op'.todo = RecoverySteps
    BY <1>1, <1>6, FailedOp
  <2>2. PICK E : /\ List("undo", RecoverySteps, E, 1, 14)
                 /\ E \subseteq {"stop new", "recover binary", "reset-failed",
                                 "restart", "verify", "forget"}
                 /\ {"recover binary", "stop new"} \subseteq E
                 /\ files.marker = "active" => {"restart", "verify"} \subseteq E
    BY RecoveryList
  <2>3. InOrder("undo", op'.todo) /\ Els(op'.todo) = E
    BY <2>1, <2>2 DEF List
  <2>4. InOrder("undo", op.todo)'
    BY <2>3 DEF InOrder, Rank
  <2>5. Todo' = E
    BY <2>3 DEF Todo
  <2>6. op.prior.bin # None /\ op.prior.active = "active" =>
           "restart" \in E /\ "verify" \in E
    BY <1>2, <2>2
  <2>7. "recover binary" \in E
    BY <2>2
  <2>8. UpdateUndoing'
    BY <1>2, <1>3, <1>4, <2>1, <2>2, <2>4, <2>5, <2>6, <2>7 DEF UpdateUndoing
  <2> QED
    BY <1>3, <2>1, <2>8 DEF UpdateFailed
<1> QED
  BY <1>5, <1>6

LEMMA FailedRollingBack ==
    ASSUME IInv, Failing, op.cmd = "rollback"
    PROVE  op'.cmd = "rollback" /\ op'.mode = "failed" /\ RollingBack'
<1>1. TypeOK
  BY DEF IInv
<1>2. /\ op'.cmd = "rollback" /\ op'.mode = "failed" /\ op'.prior = op.prior
      /\ Step \in Todo /\ op \in Operation /\ op.mode \in {"prepare", "apply", "undo"}
  BY <1>1, FailedOp
<1>3. op.mode \in {"prepare", "apply"}
  BY <1>2 DEF IInv, RollingBack
<1>4. /\ InOrder("do", op.todo)
      /\ IF "set aside" \in Todo THEN files.bin = op.prior.bin
         ELSE files.failed = op.prior.bin
  BY <1>3 DEF IInv, RollingBack
<1>5. op'.prior.bin \in {files'.bin, files'.failed}
  <2>1. CASE Step = "take back"
    <3>1. op.todo \in Seq(StepName) /\ op.todo # <<>>
      BY <1>2 DEF Operation, Failing
    <3>2. \A x \in Todo : x = Step \/ Rank("do", Step) < Rank("do", x)
      BY <1>4, <3>1, FirstStep DEF Todo, Step
    <3>3. "set aside" \notin Todo
      BY <2>1, <3>2, RollbackOrder
    <3>4. files'.bin = files.failed \/ files' = files
      BY <1>1, <2>1, FailedFields
    <3> QED
      BY <1>2, <1>4, <3>3, <3>4
  <2>2. CASE Step = "set aside"
    <3>1. files'.bin = files.bin
      BY <1>1, <2>2, FailedFields
    <3> QED
      BY <1>2, <1>4, <2>2, <3>1
  <2>3. CASE Step \notin {"take back", "set aside"}
    <3>1. files'.bin = files.bin /\ files'.failed = files.failed
      BY <1>1, <2>3, FailedFields
    <3> QED
      BY <1>2, <1>4, <3>1
  <2> QED
    BY <2>1, <2>2, <2>3
<1> QED
  BY <1>2, <1>5 DEF RollingBack

LEMMA FailedManaging ==
    ASSUME IInv, Failing, op.cmd \notin {"none", "install", "update", "rollback"}
    PROVE  op'.cmd = op.cmd /\ op'.mode = "failed" /\ Managing'
<1>1. TypeOK
  BY DEF IInv
<1>2. /\ Todo \subseteq {"disable --now", "remove unit", "daemon-reload", "reset-failed",
                         "start", "restart", "stop", "enable", "disable"}
      /\ files.bin = op.prior.bin
  BY DEF IInv, Managing
<1>3. /\ op'.cmd = op.cmd /\ op'.mode = "failed" /\ op'.prior = op.prior
      /\ op'.todo = op.todo /\ Step \in Todo
  BY <1>1, FailedOp
<1>4. files'.bin = files.bin
  BY <1>1, <1>2, <1>3, FailedFields
<1>5. Todo' = Todo
  BY <1>3 DEF Todo
<1> QED
  BY <1>2, <1>3, <1>4, <1>5 DEF Managing

\* A step that fails, in whatever list.
LEMMA FailurePreserves ==
    ASSUME IInv, StepFails \/ StepRefused
    PROVE  IInv'
<1>1. Failing /\ UNCHANGED issued
  BY EitherFails DEF StepFails, StepRefused
<1>2. faults' \in 0..MaxFault
  BY BoundsAssumption DEF StepFails, StepRefused, IInv, TypeOK
<1>3. TypeOK' /\ Consistent'
  BY <1>1, <1>2, FailedBasics
<1>4. /\ op \in Operation /\ op'.cmd = op.cmd /\ op.mode \in {"prepare", "apply", "undo"}
  BY <1>1, FailedOp DEF IInv
<1>5. SUFFICES /\ InstallPreparing' /\ InstallApplying' /\ InstallUndoing'
               /\ InstallFailed' /\ UpdatePreparing' /\ UpdateApplying'
               /\ UpdateUndoing' /\ UpdateFailed' /\ RollingBack' /\ Managing'
  BY <1>3 DEF IInv
<1>6. CASE op.cmd = "install"
  <2>1. op'.mode \in {"undo", "failed"} /\ InstallUndoing' /\ InstallFailed'
    <3>1. CASE op.mode = "prepare"
      BY <1>1, <1>6, <3>1, FailedInstallPreparing DEF InstallUndoing
    <3>2. CASE op.mode = "apply"
      BY <1>1, <1>6, <3>2, FailedInstallApplying DEF InstallFailed
    <3>3. CASE op.mode = "undo"
      BY <1>1, <1>6, <3>3, FailedInstallUndoing DEF InstallFailed
    <3> QED
      BY <1>4, <3>1, <3>2, <3>3
  <2>2. InstallPreparing' /\ InstallApplying'
    BY <2>1 DEF InstallPreparing, InstallApplying
  <2>3. UpdatePreparing' /\ UpdateApplying' /\ UpdateUndoing' /\ UpdateFailed'
    BY <1>4, <1>6 DEF UpdatePreparing, UpdateApplying, UpdateUndoing, UpdateFailed
  <2>4. RollingBack' /\ Managing'
    BY <1>4, <1>6 DEF RollingBack, Managing
  <2> QED
    BY <2>1, <2>2, <2>3, <2>4
<1>7. CASE op.cmd = "update"
  <2>1. op'.mode \in {"undo", "failed"} /\ UpdateUndoing' /\ UpdateFailed'
    <3>1. CASE op.mode = "prepare"
      BY <1>1, <1>7, <3>1, FailedUpdatePreparing DEF UpdateUndoing
    <3>2. CASE op.mode = "apply"
      BY <1>1, <1>7, <3>2, FailedUpdateApplying
    <3>3. CASE op.mode = "undo"
      <4>1. op'.mode = "failed" /\ op'.errs
        BY <1>1, <1>7, <3>3, FailedOp DEF IInv
      <4> QED
        BY <4>1 DEF UpdateUndoing, UpdateFailed
    <3> QED
      BY <1>4, <3>1, <3>2, <3>3
  <2>2. UpdatePreparing' /\ UpdateApplying'
    BY <2>1 DEF UpdatePreparing, UpdateApplying
  <2>3. InstallPreparing' /\ InstallApplying' /\ InstallUndoing' /\ InstallFailed'
    BY <1>4, <1>7 DEF InstallPreparing, InstallApplying, InstallUndoing, InstallFailed
  <2>4. RollingBack' /\ Managing'
    BY <1>4, <1>7 DEF RollingBack, Managing
  <2> QED
    BY <2>1, <2>2, <2>3, <2>4
<1>8. CASE op.cmd \notin {"install", "update"}
  <2>1. InstallPreparing' /\ InstallApplying' /\ InstallUndoing' /\ InstallFailed'
    BY <1>4, <1>8 DEF InstallPreparing, InstallApplying, InstallUndoing, InstallFailed
  <2>2. UpdatePreparing' /\ UpdateApplying' /\ UpdateUndoing' /\ UpdateFailed'
    BY <1>4, <1>8 DEF UpdatePreparing, UpdateApplying, UpdateUndoing, UpdateFailed
  <2>3. RollingBack'
    BY <1>1, <1>4, FailedRollingBack DEF RollingBack
  <2>4. Managing'
    BY <1>1, <1>4, FailedManaging DEF Managing
  <2> QED
    BY <2>1, <2>2, <2>3, <2>4
<1> QED
  BY <1>6, <1>7, <1>8

----------------------------------------------------------------------------
(* A command begins                                                        *)

LEMMA Began ==
    ASSUME TypeOK, NEW cmd \in Command, NEW todo \in Seq(StepName),
           NEW v \in Version \cup {None}, NEW u \in UnitFile \cup {None},
           Begin(cmd, todo, v, u)
    PROVE  /\ TypeOK' /\ op'.cmd = cmd /\ op'.mode = "prepare" /\ op'.todo = todo
           /\ op'.version = v /\ op'.unit = u /\ ~op'.errs
           /\ op'.prior.bin = files.bin /\ op'.prior.unit = files.unit
           /\ op'.prior.enabled = systemd.enabled /\ op'.prior.active = systemd.active
           /\ op'.prior.running = systemd.running
           /\ files' = files /\ systemd' = systemd
<1>1. files \in Files /\ systemd \in Unit
  BY DEF TypeOK
<1>2. Found \in Prior
  BY <1>1 DEF Found, Prior, Files, Unit
<1>3. /\ op' = [cmd |-> cmd, mode |-> "prepare", todo |-> todo,
                version |-> v, unit |-> u, prior |-> Found, errs |-> FALSE]
      /\ issued < MaxCommand /\ issued' = issued + 1 /\ left' = {}
      /\ UNCHANGED <<files, systemd, faults>>
  BY DEF Begin
<1>4. op' \in Operation
  BY <1>2, <1>3 DEF Operation
<1>5. issued' \in 0..MaxCommand
  BY <1>3, BoundsAssumption DEF TypeOK
<1>6. TypeOK'
  BY <1>1, <1>3, <1>4, <1>5 DEF TypeOK
<1>7. /\ op'.cmd = cmd /\ op'.mode = "prepare" /\ op'.todo = todo
      /\ op'.version = v /\ op'.unit = u /\ ~op'.errs /\ op'.prior = Found
  BY <1>3
<1> QED
  BY <1>3, <1>6, <1>7 DEF Found

LEMMA InstallPreserves ==
    ASSUME IInv, NEW v \in Version, NEW u \in UnitFile, Install(v, u)
    PROVE  IInv'
<1>1. TypeOK /\ Consistent
  BY DEF IInv
<1>2. PICK E : /\ List("do", PrepareSteps(v, u), E, 1, 4)
               /\ E \subseteq {"account", "make leaf", "own leaf", "chmod leaf",
                               "preinstall"}
               /\ (files.unit # u \/ files.bin # v) /\ files.bin # None =>
                     "preinstall" \in E
  BY PrepareList
<1>3. /\ PrepareSteps(v, u) \in Seq(StepName) /\ InOrder("do", PrepareSteps(v, u))
      /\ Els(PrepareSteps(v, u)) = E
  BY <1>2 DEF List
<1>4. /\ TypeOK' /\ op'.cmd = "install" /\ op'.mode = "prepare"
      /\ op'.todo = PrepareSteps(v, u) /\ op'.version = v /\ op'.unit = u
      /\ op'.prior.bin = files.bin /\ op'.prior.unit = files.unit
      /\ op'.prior.enabled = systemd.enabled /\ op'.prior.active = systemd.active
      /\ op'.prior.running = systemd.running
      /\ files' = files /\ systemd' = systemd
  <2>1. /\ Begin("install", PrepareSteps(v, u), v, u) /\ "install" \in Command
        /\ v \in Version \cup {None} /\ u \in UnitFile \cup {None}
    BY DEF Install, Command
  <2> QED
    BY <1>1, <1>3, <2>1, Began
<1>5. Todo' = E /\ InOrder("do", op.todo)'
  <2>1. InOrder("do", op.todo)'
    BY <1>3, <1>4 DEF InOrder, Rank
  <2> QED
    BY <1>3, <1>4, <2>1 DEF Todo
<1>6. files.unit # None => systemd.active \in {"active", "inactive"}
  BY DEF Install, RestorableActiveWord
<1>7. Consistent'
  BY <1>1, <1>4, <1>6 DEF Consistent
<1>8. Kept'
  BY <1>1, <1>4 DEF Consistent, Kept
<1>9. Changed' /\ files.bin # None => "preinstall" \in E
  BY <1>2, <1>4 DEF Changed
<1>10. InstallPreparing'
  BY <1>2, <1>4, <1>5, <1>8, <1>9 DEF InstallPreparing
<1>11. InstallApplying' /\ InstallUndoing' /\ InstallFailed'
  BY <1>4 DEF InstallApplying, InstallUndoing, InstallFailed
<1>12. UpdatePreparing' /\ UpdateApplying' /\ UpdateUndoing' /\ UpdateFailed'
  BY <1>4 DEF UpdatePreparing, UpdateApplying, UpdateUndoing, UpdateFailed
<1>13. RollingBack' /\ Managing'
  BY <1>4 DEF RollingBack, Managing
<1> QED
  BY <1>4, <1>7, <1>10, <1>11, <1>12, <1>13 DEF IInv

LEMMA UpdatePreserves ==
    ASSUME IInv, NEW v \in Version, Update(v)
    PROVE  IInv'
<1>1. TypeOK /\ Consistent
  BY DEF IInv
<1>2. PICK E : /\ List("do", SaveSteps, E, 1, 3)
               /\ E \subseteq {"save rollback", "save marker", "binary"}
               /\ "binary" \in E
               /\ files.bin # None => {"save rollback", "save marker"} \subseteq E
  BY SaveList
<1>3. SaveSteps \in Seq(StepName) /\ InOrder("do", SaveSteps) /\ Els(SaveSteps) = E
  BY <1>2 DEF List
<1>4. /\ TypeOK' /\ op'.cmd = "update" /\ op'.mode = "prepare"
      /\ op'.todo = SaveSteps /\ op'.version = v
      /\ op'.prior.bin = files.bin /\ op'.prior.active = systemd.active
      /\ op'.prior.running = systemd.running
      /\ files' = files /\ systemd' = systemd
  <2>1. /\ Begin("update", SaveSteps, v, files.unit) /\ "update" \in Command
        /\ v \in Version \cup {None}
    BY DEF Update, Command
  <2>2. files.unit \in UnitFile \cup {None}
    BY <1>1 DEF TypeOK, Files
  <2> QED
    BY <1>1, <1>3, <2>1, <2>2, Began
<1>5. Todo' = E /\ InOrder("do", op.todo)'
  <2>1. InOrder("do", op.todo)'
    BY <1>3, <1>4 DEF InOrder, Rank
  <2> QED
    BY <1>3, <1>4, <2>1 DEF Todo
<1>6. systemd.active \in {"active", "inactive", "failed"}
  BY DEF Update
<1>7. Consistent'
  BY <1>1, <1>4, <1>6 DEF Consistent
<1>8. files.bin # None => "save rollback" \in E /\ "save marker" \in E
  BY <1>2
<1>9. Healthy' => systemd'.active = "active" /\ systemd'.running = op'.prior.bin
  BY <1>4 DEF Healthy
<1>10. UpdatePreparing'
  BY <1>2, <1>4, <1>5, <1>8, <1>9 DEF UpdatePreparing
<1>11. InstallPreparing' /\ InstallApplying' /\ InstallUndoing' /\ InstallFailed'
  BY <1>4 DEF InstallPreparing, InstallApplying, InstallUndoing, InstallFailed
<1>12. UpdateApplying' /\ UpdateUndoing' /\ UpdateFailed'
  BY <1>4 DEF UpdateApplying, UpdateUndoing, UpdateFailed
<1>13. RollingBack' /\ Managing'
  BY <1>4 DEF RollingBack, Managing
<1> QED
  BY <1>4, <1>7, <1>10, <1>11, <1>12, <1>13 DEF IInv

LEMMA RollbackPreserves ==
    ASSUME IInv, Rollback
    PROVE  IInv'
<1>1. TypeOK /\ Consistent
  BY DEF IInv
<1>2. PICK E : /\ List("do", RollbackSteps, E, 9, 14)
               /\ E \subseteq {"reset-failed", "set aside", "take back", "restart",
                               "verify", "forget"}
               /\ "set aside" \in E
  BY RollbackList
<1>3. /\ RollbackSteps \in Seq(StepName) /\ InOrder("do", RollbackSteps)
      /\ Els(RollbackSteps) = E
  BY <1>2 DEF List
<1>4. /\ TypeOK' /\ op'.cmd = "rollback" /\ op'.mode = "prepare"
      /\ op'.todo = RollbackSteps /\ op'.prior.bin = files.bin
      /\ op'.prior.active = systemd.active /\ op'.prior.running = systemd.running
      /\ files' = files /\ systemd' = systemd
  <2>1. Begin("rollback", RollbackSteps, None, None) /\ "rollback" \in Command
    BY DEF Rollback, Command
  <2> QED
    BY <1>1, <1>3, <2>1, Began
<1>5. Todo' = E /\ InOrder("do", op.todo)'
  <2>1. InOrder("do", op.todo)'
    BY <1>3, <1>4 DEF InOrder, Rank
  <2> QED
    BY <1>3, <1>4, <2>1 DEF Todo
<1>6. Consistent'
  BY <1>1, <1>4 DEF Consistent
<1>7. RollingBack'
  BY <1>2, <1>4, <1>5 DEF RollingBack
<1>8. InstallPreparing' /\ InstallApplying' /\ InstallUndoing' /\ InstallFailed'
  BY <1>4 DEF InstallPreparing, InstallApplying, InstallUndoing, InstallFailed
<1>9. UpdatePreparing' /\ UpdateApplying' /\ UpdateUndoing' /\ UpdateFailed'
  BY <1>4 DEF UpdatePreparing, UpdateApplying, UpdateUndoing, UpdateFailed
<1>10. Managing'
  BY <1>4 DEF Managing
<1> QED
  BY <1>4, <1>6, <1>7, <1>8, <1>9, <1>10 DEF IInv

LEMMA LifecyclePreserves ==
    ASSUME IInv, NEW verb \in Command \ {"install", "update", "rollback"}, Lifecycle(verb)
    PROVE  IInv'
<1>1. TypeOK /\ Consistent
  BY DEF IInv
<1>2. /\ LifecycleSteps(verb) \in Seq(StepName)
      /\ Els(LifecycleSteps(verb)) \subseteq
            {"disable --now", "remove unit", "daemon-reload", "reset-failed",
             "start", "restart", "stop", "enable", "disable"}
  BY LifecycleList
<1>3. /\ TypeOK' /\ op'.cmd = verb /\ op'.mode = "prepare"
      /\ op'.todo = LifecycleSteps(verb) /\ op'.prior.bin = files.bin
      /\ op'.prior.active = systemd.active /\ op'.prior.running = systemd.running
      /\ files' = files /\ systemd' = systemd
  <2>1. Begin(verb, LifecycleSteps(verb), None, None)
    BY DEF Lifecycle
  <2> QED
    BY <1>1, <1>2, <2>1, Began
<1>4. Todo' = Els(LifecycleSteps(verb))
  BY <1>3 DEF Todo
<1>5. verb \notin {"none", "install", "update", "rollback"}
  BY DEF Command
<1>6. Consistent'
  BY <1>1, <1>3, <1>5 DEF Consistent
<1>7. Managing'
  BY <1>2, <1>3, <1>4, <1>5 DEF Managing
<1>8. InstallPreparing' /\ InstallApplying' /\ InstallUndoing' /\ InstallFailed'
  BY <1>3, <1>5 DEF InstallPreparing, InstallApplying, InstallUndoing, InstallFailed
<1>9. UpdatePreparing' /\ UpdateApplying' /\ UpdateUndoing' /\ UpdateFailed'
  BY <1>3, <1>5 DEF UpdatePreparing, UpdateApplying, UpdateUndoing, UpdateFailed
<1>10. RollingBack'
  BY <1>3, <1>5 DEF RollingBack
<1> QED
  BY <1>3, <1>6, <1>7, <1>8, <1>9, <1>10 DEF IInv

----------------------------------------------------------------------------
(* A list is done, a command is killed, and what the service does itself   *)

LEMMA Advanced ==
    ASSUME TypeOK, Advance
    PROVE  /\ op \in Operation /\ TypeOK' /\ Todo = {}
           /\ op'.cmd = op.cmd /\ op'.version = op.version /\ op'.unit = op.unit
           /\ op'.prior = op.prior /\ op'.errs = op.errs
           /\ op.mode \in {"prepare", "apply", "undo"}
           /\ op.mode = "prepare" => op'.mode = "apply" /\ op'.todo = Then
           /\ op.mode = "apply" => op'.mode = "ok" /\ op'.todo = op.todo
           /\ op.mode = "undo" => op'.mode = "failed" /\ op'.todo = op.todo
           /\ files' = files /\ systemd' = systemd
           /\ Changed' = Changed /\ Healthy' = Healthy
           /\ LeftBinary' = LeftBinary /\ LeftUnit' = LeftUnit
<1>1. op \in Operation /\ op.mode \in {"prepare", "apply", "undo"}
  BY OpKinds DEF Advance, Doing
<1>2. Then \in Seq(StepName)
  <2>1. ApplySteps \in Seq(StepName)
    BY ApplyList DEF List
  <2>2. RestartSteps(op.prior.active) \in Seq(StepName)
    BY RestartList DEF List
  <2>3. <<>> \in Seq(StepName)
    OBVIOUS
  <2> QED
    BY <2>1, <2>2, <2>3 DEF Then
<1>3. Todo = {}
  BY Empty DEF Advance, Todo
<1>4. /\ op' \in Operation
      /\ op'.cmd = op.cmd /\ op'.version = op.version /\ op'.unit = op.unit
      /\ op'.prior = op.prior /\ op'.errs = op.errs
      /\ op.mode = "prepare" => op'.mode = "apply" /\ op'.todo = Then
      /\ op.mode = "apply" => op'.mode = "ok" /\ op'.todo = op.todo
      /\ op.mode = "undo" => op'.mode = "failed" /\ op'.todo = op.todo
  <2>1. CASE op.mode = "prepare"
    <3>1. op' = [op EXCEPT !.mode = "apply", !.todo = Then]
      BY <2>1 DEF Advance
    <3> QED
      BY <1>1, <1>2, <2>1, <3>1 DEF Operation
  <2>2. CASE op.mode = "apply"
    <3>1. op' = [op EXCEPT !.mode = "ok"]
      BY <1>1, <2>2 DEF Advance, Operation
    <3> QED
      BY <1>1, <2>2, <3>1 DEF Operation
  <2>3. CASE op.mode = "undo"
    <3>1. op' = [op EXCEPT !.mode = "failed"]
      BY <1>1, <2>3 DEF Advance, Operation
    <3> QED
      BY <1>1, <2>3, <3>1 DEF Operation
  <2> QED
    BY <1>1, <2>1, <2>2, <2>3
<1>5. TypeOK'
  BY <1>4 DEF TypeOK, Advance
<1>6. Changed' = Changed /\ Healthy' = Healthy
  BY <1>4 DEF Changed, Healthy
<1>7. LeftBinary' = LeftBinary /\ LeftUnit' = LeftUnit
  BY <1>4 DEF LeftBinary, LeftUnit, Advance
<1> QED
  BY <1>1, <1>3, <1>4, <1>5, <1>6, <1>7 DEF Advance

\* From the preparation of an install to its changes.
LEMMA AdvanceInstallPreparing ==
    ASSUME IInv, Advance, op.cmd = "install", op.mode = "prepare"
    PROVE  op'.cmd = "install" /\ op'.mode = "apply" /\ InstallApplying'
<1>1. /\ Todo = {} /\ op'.cmd = "install" /\ op'.mode = "apply" /\ op'.todo = Then
      /\ op'.prior = op.prior /\ files' = files /\ Changed' = Changed
  BY Advanced DEF IInv
<1>2. Changed /\ op.prior.bin # None => files.preinstall = op.prior.bin
  BY <1>1 DEF IInv, InstallPreparing
<1>3. PICK E : /\ List("do", ApplySteps, E, 3, 13)
               /\ E \subseteq {"binary", "unit", "daemon-reload", "disable", "enable",
                               "enable --runtime", "reset-failed", "restart", "stop",
                               "drop preinstall"}
               /\ ~Changed => E = {}
               /\ Changed => /\ "drop preinstall" \in E
                             /\ "restart" \in E \/ "stop" \in E
                             /\ "disable" \in E \/ "enable" \in E
  BY ApplyList
<1>4. InOrder("do", op'.todo) /\ Els(op'.todo) = E
  BY <1>1, <1>3 DEF List, Then
<1>5. Todo' = E /\ InOrder("do", op.todo)'
  <2>1. InOrder("do", op.todo)'
    BY <1>4 DEF InOrder, Rank
  <2> QED
    BY <1>4, <2>1 DEF Todo
<1>6. Changed => /\ Todo' \cap {"restart", "stop"} # {}
                 /\ Todo' \cap {"disable", "enable", "enable --runtime"} # {}
  BY <1>3, <1>5
<1>7. Todo' # {} => /\ "drop preinstall" \in Todo'
                    /\ op.prior.bin # None => files.preinstall = op.prior.bin
  BY <1>2, <1>3, <1>5
<1> QED
  BY <1>1, <1>3, <1>5, <1>6, <1>7 DEF InstallApplying

LEMMA AdvanceUpdatePreparing ==
    ASSUME IInv, Advance, op.cmd = "update", op.mode = "prepare"
    PROVE  op'.cmd = "update" /\ op'.mode = "apply" /\ UpdateApplying'
<1>1. /\ Todo = {} /\ op'.cmd = "update" /\ op'.mode = "apply" /\ op'.todo = Then
      /\ op'.prior = op.prior /\ op'.version = op.version /\ files' = files
      /\ systemd' = systemd
  BY Advanced DEF IInv
<1>2. /\ files.bin = op.version
      /\ op.prior.bin # None => /\ files.rollback = op.prior.bin
                                /\ files.marker = op.prior.active
      /\ op.prior.active # "active" => systemd.active = op.prior.active
  BY <1>1 DEF IInv, UpdatePreparing
<1> DEFINE E == IF op.prior.active = "active" THEN {"reset-failed", "restart", "verify"}
                ELSE {}
<1>3. List("do", RestartSteps(op.prior.active), E, 9, 13)
  BY RestartList
<1>4. Then = RestartSteps(op.prior.active)
  BY DEF Then
<1>5. /\ E \subseteq {"reset-failed", "restart", "verify"}
      /\ op.prior.active # "active" => E = {}
      /\ op.prior.active = "active" => "restart" \in E /\ "verify" \in E
  OBVIOUS
<1> HIDE DEF E
<1>6. InOrder("do", op'.todo) /\ Els(op'.todo) = E
  BY <1>1, <1>3, <1>4 DEF List
<1>7. Todo' = E /\ InOrder("do", op.todo)'
  <2>1. InOrder("do", op.todo)'
    BY <1>6 DEF InOrder, Rank
  <2> QED
    BY <1>6, <2>1 DEF Todo
<1> QED
  BY <1>1, <1>2, <1>5, <1>7 DEF UpdateApplying

LEMMA AdvancePreserves ==
    ASSUME IInv, Advance
    PROVE  IInv'
<1>1. TypeOK /\ Consistent
  BY DEF IInv
<1>2. /\ op \in Operation /\ TypeOK' /\ Todo = {}
      /\ op'.cmd = op.cmd /\ op'.version = op.version /\ op'.unit = op.unit
      /\ op'.prior = op.prior /\ op'.errs = op.errs
      /\ op.mode \in {"prepare", "apply", "undo"}
      /\ op.mode = "prepare" => op'.mode = "apply" /\ op'.todo = Then
      /\ op.mode = "apply" => op'.mode = "ok" /\ op'.todo = op.todo
      /\ op.mode = "undo" => op'.mode = "failed" /\ op'.todo = op.todo
      /\ files' = files /\ systemd' = systemd
      /\ Changed' = Changed /\ Healthy' = Healthy
      /\ LeftBinary' = LeftBinary /\ LeftUnit' = LeftUnit
  BY <1>1, Advanced
<1>3. Consistent'
  BY <1>1, <1>2 DEF Consistent
<1>4. op.mode # "prepare" => Todo' = {} /\ InOrder("do", op.todo)'
  <2> SUFFICES ASSUME op.mode # "prepare" PROVE Todo' = {} /\ InOrder("do", op.todo)'
    OBVIOUS
  <2>1. op'.todo = <<>>
    BY <1>2 DEF Advance
  <2>2. Todo' = {}
    BY <2>1, Empty DEF Todo
  <2>3. InOrder("do", op'.todo)
    BY <2>1, Empty
  <2>4. InOrder("do", op.todo)'
    BY <2>3 DEF InOrder, Rank
  <2> QED
    BY <2>2, <2>4
<1>5. InstallPreparing' /\ InstallUndoing' /\ UpdatePreparing' /\ UpdateUndoing'
  BY <1>2 DEF InstallPreparing, InstallUndoing, UpdatePreparing, UpdateUndoing
<1>6. InstallApplying'
  <2>1. CASE op.mode = "prepare"
    BY <1>2, <2>1, AdvanceInstallPreparing DEF InstallApplying
  <2>2. CASE op.mode = "apply"
    BY <1>2, <1>4, <2>2 DEF IInv, InstallApplying
  <2>3. CASE op.mode = "undo"
    BY <1>2, <2>3 DEF InstallApplying
  <2> QED
    BY <1>2, <2>1, <2>2, <2>3
<1>7. InstallFailed'
  <2> SUFFICES ASSUME op.cmd = "install", op.mode = "undo", ~op.errs PROVE InstallFailed'
    BY <1>2 DEF InstallFailed
  <2>1. /\ files.bin = op.prior.bin \/ LeftBinary
        /\ files.unit = op.prior.unit \/ LeftUnit
        /\ EnableRestored /\ ActiveRestored
    BY <1>2 DEF IInv, InstallUndoing
  <2>2. EnableRestored' /\ ActiveRestored'
    BY <1>2, <2>1 DEF EnableRestored, ActiveRestored, Kept
  <2> QED
    BY <1>2, <2>1, <2>2 DEF InstallFailed
<1>8. UpdateApplying'
  <2>1. CASE op.mode = "prepare"
    BY <1>2, <2>1, AdvanceUpdatePreparing DEF UpdateApplying
  <2>2. CASE op.mode = "apply"
    BY <1>2, <1>4, <2>2 DEF IInv, UpdateApplying, Serving
  <2>3. CASE op.mode = "undo"
    BY <1>2, <2>3 DEF UpdateApplying
  <2> QED
    BY <1>2, <2>1, <2>2, <2>3
<1>9. UpdateFailed'
  <2> SUFFICES ASSUME op.cmd = "update", op.mode = "undo", ~op.errs PROVE UpdateFailed'
    BY <1>2 DEF UpdateFailed
  <2>1. op.prior.bin # None => /\ files.bin = op.prior.bin
                               /\ op.prior.active = "active" => Serving
    BY <1>2 DEF IInv, UpdateUndoing
  <2>2. Healthy => op.prior.bin # None /\ op.prior.active = "active"
    BY VersionAssumption, NoneAssumption DEF Healthy
  <2>3. Healthy' => Serving'
    BY <1>2, <2>1, <2>2 DEF Serving
  <2> QED
    BY <1>2, <2>1, <2>3 DEF UpdateFailed
<1>10. RollingBack'
  <2> SUFFICES ASSUME op.cmd = "rollback" PROVE RollingBack'
    BY <1>2 DEF RollingBack
  <2>1. op.mode # "undo" /\ files.failed = op.prior.bin
    BY <1>2 DEF IInv, RollingBack
  <2>2. op'.todo = <<>>
    BY <1>2, <2>1 DEF Then, Advance
  <2>3. Todo' = {} /\ InOrder("do", op'.todo)
    BY <2>2, Empty DEF Todo
  <2>4. InOrder("do", op.todo)'
    BY <2>3 DEF InOrder, Rank
  <2> QED
    BY <1>2, <2>1, <2>3, <2>4 DEF RollingBack
<1>11. Managing'
  <2> SUFFICES ASSUME op.cmd \notin {"none", "install", "update", "rollback"}
               PROVE  Managing'
    BY <1>2 DEF Managing
  <2>1. op.mode # "undo" /\ files.bin = op.prior.bin
    BY DEF IInv, Managing
  <2>2. op'.todo = <<>>
    BY <1>2, <2>1 DEF Then, Advance
  <2>3. Todo' = {}
    BY <2>2, Empty DEF Todo
  <2> QED
    BY <1>2, <2>1, <2>2, <2>3 DEF Managing
<1> QED
  BY <1>2, <1>3, <1>5, <1>6, <1>7, <1>8, <1>9, <1>10, <1>11 DEF IInv

LEMMA KilledPreserves ==
    ASSUME IInv, Killed
    PROVE  IInv'
<1>1. op' = Idle /\ op'.cmd = "none"
  BY DEF Killed, Idle
<1>2. files' = files /\ systemd' = systemd /\ issued' = issued /\ left' = left
  BY DEF Killed
<1>3. faults' \in 0..MaxFault
  BY BoundsAssumption DEF Killed, IInv, TypeOK
<1>4. TypeOK'
  BY <1>1, <1>2, <1>3 DEF IInv, TypeOK
<1>5. Consistent'
  BY <1>1, <1>2 DEF IInv, Consistent
<1>6. InstallPreparing' /\ InstallApplying' /\ InstallUndoing' /\ InstallFailed'
  BY <1>1 DEF InstallPreparing, InstallApplying, InstallUndoing, InstallFailed
<1>7. UpdatePreparing' /\ UpdateApplying' /\ UpdateUndoing' /\ UpdateFailed'
  BY <1>1 DEF UpdatePreparing, UpdateApplying, UpdateUndoing, UpdateFailed
<1>8. RollingBack' /\ Managing'
  BY <1>1 DEF RollingBack, Managing
<1> QED
  BY <1>4, <1>5, <1>6, <1>7, <1>8 DEF IInv

\* An executable that exits, and what systemd makes of it: only where the
\* service was not running a good executable.
LEMMA ServiceMoves ==
    ASSUME TypeOK, ServiceExits \/ AutoRestart
    PROVE  /\ files' = files /\ op' = op /\ faults' = faults /\ issued' = issued
           /\ left' = left /\ systemd' \in Unit
           /\ \/ systemd.active = "active" /\ systemd.running \notin Good
              \/ systemd.active = "activating"
           /\ systemd'.enabled = systemd.enabled
           /\ systemd'.loaded \in {systemd.loaded, files.unit}
           /\ systemd'.active = "active" => systemd'.running = files.bin /\ files.bin # None
<1>1. files \in Files /\ systemd \in Unit
  BY DEF TypeOK
<1>2. files.bin \in Version \cup {None} /\ files.unit \in UnitFile \cup {None}
  BY <1>1 DEF Files
<1> DEFINE down == [Stopped EXCEPT !.active = "failed"]
           again == [Stopped EXCEPT !.active = "activating"]
<1>3. /\ down \in Unit /\ down.enabled = systemd.enabled /\ down.active = "failed"
      /\ down.loaded = systemd.loaded
  BY <1>1 DEF Stopped, Unit
<1>4. /\ again \in Unit /\ again.enabled = systemd.enabled /\ again.active = "activating"
      /\ again.loaded = systemd.loaded
  BY <1>1 DEF Stopped, Unit
<1>5. /\ Started \in Unit /\ Started.enabled = systemd.enabled
      /\ Started.running = files.bin /\ Started.loaded \in {systemd.loaded, files.unit}
  BY <1>1, <1>2 DEF Started, Unit
<1>6. systemd' \in {down, again} \/ (systemd' = Started /\ files.bin # None)
  BY DEF ServiceExits, AutoRestart
<1> HIDE DEF down, again
<1>7. /\ systemd' \in Unit /\ systemd'.enabled = systemd.enabled
      /\ systemd'.loaded \in {systemd.loaded, files.unit}
      /\ systemd'.active = "active" => systemd'.running = files.bin /\ files.bin # None
  BY <1>3, <1>4, <1>5, <1>6
<1> QED
  BY <1>7 DEF ServiceExits, AutoRestart

LEMMA ServicePreserves ==
    ASSUME IInv, ServiceExits \/ AutoRestart
    PROVE  IInv'
<1>1. TypeOK /\ Consistent
  BY DEF IInv
<1>2. /\ files' = files /\ op' = op /\ faults' = faults /\ issued' = issued
      /\ left' = left /\ systemd' \in Unit
      /\ \/ systemd.active = "active" /\ systemd.running \notin Good
         \/ systemd.active = "activating"
      /\ systemd'.enabled = systemd.enabled
      /\ systemd'.loaded \in {systemd.loaded, files.unit}
      /\ systemd'.active = "active" => systemd'.running = files.bin /\ files.bin # None
  BY <1>1, ServiceMoves
<1>3. TypeOK'
  BY <1>1, <1>2 DEF TypeOK
<1>4. Consistent'
  BY <1>1, <1>2 DEF Consistent
<1>5. /\ Todo' = Todo /\ Changed' = Changed /\ Healthy' = Healthy
      /\ LastEnable' = LastEnable /\ LastActive' = LastActive
      /\ LeftBinary' = LeftBinary /\ LeftUnit' = LeftUnit
  BY <1>2 DEF Todo, Changed, Healthy, LastEnable, LastActive, LeftBinary, LeftUnit
<1>6. /\ InOrder("do", op.todo) => InOrder("do", op.todo)'
      /\ InOrder("undo", op.todo) => InOrder("undo", op.todo)'
  <2>1. /\ InOrder("do", op.todo) => InOrder("do", op'.todo)
        /\ InOrder("undo", op.todo) => InOrder("undo", op'.todo)
    BY <1>2
  <2>2. InOrder("do", op'.todo) => InOrder("do", op.todo)'
    BY DEF InOrder, Rank
  <2>3. InOrder("undo", op'.todo) => InOrder("undo", op.todo)'
    BY DEF InOrder, Rank
  <2> QED
    BY <2>1, <2>2, <2>3
<1>7. /\ Kept => Kept' /\ op.prior.active # "inactive"
      /\ ActiveRestored => ActiveRestored'
      /\ EnableRestored => EnableRestored'
  <2>1. Kept => Kept' /\ op.prior.active # "inactive"
    BY <1>2, <1>5 DEF Kept
  <2>2. EnableRestored => EnableRestored'
    BY <1>2 DEF EnableRestored
  <2> QED
    BY <1>2, <2>1, <2>2 DEF ActiveRestored
<1>8. ~Serving
  BY <1>2 DEF Serving
<1>9. InstallPreparing'
  BY <1>2, <1>5, <1>6, <1>7 DEF IInv, InstallPreparing
<1>10. InstallApplying'
  BY <1>2, <1>5, <1>6 DEF IInv, InstallApplying
<1>11. InstallUndoing'
  BY <1>2, <1>5, <1>6, <1>7 DEF IInv, InstallUndoing
<1>12. InstallFailed'
  BY <1>2, <1>5, <1>7 DEF IInv, InstallFailed
<1>13. op.cmd = "update" => op.prior.active \in {"active", "inactive", "failed"}
  BY <1>1 DEF Consistent
<1>14. UpdatePreparing'
  <2> SUFFICES ASSUME op.cmd = "update", op.mode = "prepare" PROVE UpdatePreparing'
    BY <1>2 DEF UpdatePreparing
  <2>1. op.prior.active = "active"
    BY <1>2, <1>13 DEF IInv, UpdatePreparing
  <2>2. ~Healthy
    BY <1>2 DEF IInv, UpdatePreparing, Healthy
  <2> QED
    BY <1>2, <1>5, <1>6, <2>1, <2>2 DEF IInv, UpdatePreparing
<1>15. UpdateApplying'
  <2> SUFFICES ASSUME op.cmd = "update", op.mode \in {"apply", "ok"}
               PROVE  UpdateApplying'
    BY <1>2 DEF UpdateApplying
  <2>1. op.prior.active = "active"
    BY <1>2, <1>13 DEF IInv, UpdateApplying
  <2> QED
    BY <1>2, <1>5, <1>6, <1>8, <2>1 DEF IInv, UpdateApplying
<1>16. UpdateUndoing'
  BY <1>2, <1>5, <1>6, <1>8 DEF IInv, UpdateUndoing
<1>17. UpdateFailed'
  BY <1>2, <1>5, <1>8 DEF IInv, UpdateFailed
<1>18. RollingBack'
  BY <1>2, <1>5, <1>6 DEF IInv, RollingBack
<1>19. Managing'
  BY <1>2, <1>5 DEF IInv, Managing
<1> QED
  BY <1>3, <1>4, <1>9, <1>10, <1>11, <1>12, <1>14, <1>15, <1>16, <1>17, <1>18, <1>19
  DEF IInv

----------------------------------------------------------------------------
(* The invariant and what follows                                          *)

LEMMA InitInv == ASSUME Init PROVE IInv
<1>1. op = Idle /\ op.cmd = "none" /\ faults = 0 /\ issued = 0 /\ left = {}
  BY DEF Init, Idle
<1>2. PICK v \in Good, u \in UnitFile :
        \/ /\ files = [bin |-> None, rollback |-> None, failed |-> None,
                       preinstall |-> None, marker |-> None, unit |-> None,
                       data |-> None]
           /\ systemd = [enabled |-> "disabled", active |-> "inactive",
                         running |-> None, loaded |-> None]
        \/ /\ files = [bin |-> v, rollback |-> None, failed |-> None,
                       preinstall |-> None, marker |-> None, unit |-> u,
                       data |-> "service"]
           /\ systemd \in [enabled : {"enabled", "enabled-runtime", "disabled"},
                           active : {"active", "inactive"},
                           running : {v, None}, loaded : {u}]
           /\ systemd.active = "active" <=> systemd.running = v
  BY DEF Init
<1>3. v \in Version /\ v # None
  BY VersionAssumption, NoneAssumption
<1>4. /\ files \in Files /\ systemd \in Unit
      /\ systemd.active = "active" => systemd.running # None
  <2>1. CASE /\ files = [bin |-> None, rollback |-> None, failed |-> None,
                         preinstall |-> None, marker |-> None, unit |-> None,
                         data |-> None]
             /\ systemd = [enabled |-> "disabled", active |-> "inactive",
                           running |-> None, loaded |-> None]
    BY <2>1 DEF Files, Unit
  <2>2. CASE /\ files = [bin |-> v, rollback |-> None, failed |-> None,
                         preinstall |-> None, marker |-> None, unit |-> u,
                         data |-> "service"]
             /\ systemd \in [enabled : {"enabled", "enabled-runtime", "disabled"},
                             active : {"active", "inactive"},
                             running : {v, None}, loaded : {u}]
             /\ systemd.active = "active" <=> systemd.running = v
    <3>1. files \in Files
      BY <1>3, <2>2 DEF Files
    <3>2. systemd \in Unit
      BY <1>3, <2>2 DEF Unit
    <3> QED
      BY <1>3, <2>2, <3>1, <3>2
  <2> QED
    BY <1>2, <2>1, <2>2
<1>5. TypeOK
  BY <1>1, <1>4, BoundsAssumption DEF TypeOK
<1>6. Consistent
  BY <1>1, <1>4 DEF Consistent
<1>7. InstallPreparing /\ InstallApplying /\ InstallUndoing /\ InstallFailed
  BY <1>1 DEF InstallPreparing, InstallApplying, InstallUndoing, InstallFailed
<1>8. UpdatePreparing /\ UpdateApplying /\ UpdateUndoing /\ UpdateFailed
  BY <1>1 DEF UpdatePreparing, UpdateApplying, UpdateUndoing, UpdateFailed
<1>9. RollingBack /\ Managing
  BY <1>1 DEF RollingBack, Managing
<1> QED
  BY <1>5, <1>6, <1>7, <1>8, <1>9 DEF IInv

\* Nothing happens.
LEMMA StutterPreserves == ASSUME IInv, UNCHANGED vars PROVE IInv'
<1>1. /\ files' = files /\ systemd' = systemd /\ op' = op /\ faults' = faults
      /\ issued' = issued /\ left' = left
  BY DEF vars
<1>2. TypeOK' /\ Consistent'
  BY <1>1 DEF IInv, TypeOK, Consistent
<1>3. /\ Todo' = Todo /\ Changed' = Changed /\ Healthy' = Healthy
      /\ LastEnable' = LastEnable /\ LastActive' = LastActive
      /\ Kept' = Kept /\ Serving' = Serving
      /\ LeftBinary' = LeftBinary /\ LeftUnit' = LeftUnit
  BY <1>1 DEF Todo, Changed, Healthy, LastEnable, LastActive, Kept, Serving,
              LeftBinary, LeftUnit
<1>4. EnableRestored' = EnableRestored /\ ActiveRestored' = ActiveRestored
  BY <1>1, <1>3 DEF EnableRestored, ActiveRestored
<1>5. /\ InOrder("do", op.todo) => InOrder("do", op.todo)'
      /\ InOrder("undo", op.todo) => InOrder("undo", op.todo)'
  <2>1. /\ InOrder("do", op.todo) => InOrder("do", op'.todo)
        /\ InOrder("undo", op.todo) => InOrder("undo", op'.todo)
    BY <1>1
  <2>2. InOrder("do", op'.todo) => InOrder("do", op.todo)'
    BY DEF InOrder, Rank
  <2>3. InOrder("undo", op'.todo) => InOrder("undo", op.todo)'
    BY DEF InOrder, Rank
  <2> QED
    BY <2>1, <2>2, <2>3
<1>6. InstallPreparing' /\ InstallApplying'
  BY <1>1, <1>3, <1>5 DEF IInv, InstallPreparing, InstallApplying
<1>7. InstallUndoing' /\ InstallFailed'
  BY <1>1, <1>3, <1>4, <1>5 DEF IInv, InstallUndoing, InstallFailed
<1>8. UpdatePreparing' /\ UpdateApplying'
  BY <1>1, <1>3, <1>5 DEF IInv, UpdatePreparing, UpdateApplying
<1>9. UpdateUndoing' /\ UpdateFailed'
  BY <1>1, <1>3, <1>5 DEF IInv, UpdateUndoing, UpdateFailed
<1>10. RollingBack' /\ Managing'
  BY <1>1, <1>3, <1>5 DEF IInv, RollingBack, Managing
<1> QED
  BY <1>2, <1>6, <1>7, <1>8, <1>9, <1>10 DEF IInv

\* What holds between two steps of a command (InstallOptions, Update, Rollback,
\* lifecycle and Uninstall), whichever step fails and wherever it is killed.
THEOREM Inductive == Spec => []IInv
<1>1. Init => IInv
  BY InitInv
<1>2. IInv /\ [Next]_vars => IInv'
  <2> SUFFICES ASSUME IInv, [Next]_vars PROVE IInv'
    OBVIOUS
  <2>1. CASE ServiceCommand
    <3>1. ASSUME NEW v \in Version, NEW u \in UnitFile, Install(v, u) PROVE IInv'
      BY <3>1, InstallPreserves
    <3>2. ASSUME NEW v \in Version, Update(v) PROVE IInv'
      BY <3>2, UpdatePreserves
    <3>3. CASE Rollback
      BY <3>3, RollbackPreserves
    <3>4. ASSUME NEW verb \in Command \ {"install", "update", "rollback"}, Lifecycle(verb)
          PROVE  IInv'
      BY <3>4, LifecyclePreserves
    <3> QED
      BY <2>1, <3>1, <3>2, <3>3, <3>4 DEF ServiceCommand
  <2>2. CASE StepDone
    BY <2>2, StepDonePreserves
  <2>8. CASE StepIgnored
    BY <2>8, StepIgnoredPreserves
  <2>3. CASE StepFails \/ StepRefused
    BY <2>3, FailurePreserves
  <2>4. CASE Advance
    BY <2>4, AdvancePreserves
  <2>5. CASE Killed
    BY <2>5, KilledPreserves
  <2>6. CASE ServiceExits \/ AutoRestart
    BY <2>6, ServicePreserves
  <2>7. CASE UNCHANGED vars
    BY <2>7, StutterPreserves
  <2> QED
    BY <2>1, <2>2, <2>3, <2>4, <2>5, <2>6, <2>7, <2>8 DEF Next
<1> QED
  BY <1>1, <1>2, PTL DEF Spec

\* A failed install without a reported incomplete rollback leaves what it found
\* (the closure restore of InstallOptions), in whatever step the failure was,
\* but for a file of its own whose removal failed.
THEOREM Restores == Spec => []InstallRestores
<1>1. IInv => InstallRestores
  <2> SUFFICES ASSUME IInv, op.cmd = "install", op.mode = "failed", ~op.errs
               PROVE  /\ files.bin = op.prior.bin \/ LeftBinary
                      /\ files.unit = op.prior.unit \/ LeftUnit
                      /\ \/ systemd.enabled = op.prior.enabled
                         \/ op.prior.unit = None /\ systemd.enabled = "disabled"
                      /\ \/ systemd.active = op.prior.active
                         \/ op.prior.unit = None /\ op.prior.active # "inactive"
                         \/ LeftBinary /\ op.prior.active = "active"
                         \/ ~({op.prior.bin, op.prior.running} \subseteq Good \cup {None})
    BY DEF InstallRestores
  <2>1. /\ files.bin = op.prior.bin \/ LeftBinary
        /\ files.unit = op.prior.unit \/ LeftUnit
        /\ systemd.enabled = op.prior.enabled \/ EnableRestored
        /\ Kept \/ ActiveRestored
    BY DEF IInv, InstallFailed
  <2>2. op.prior.unit # None => op.prior.active \in {"active", "inactive"}
    BY DEF IInv, Consistent
  <2>3. \/ systemd.enabled = op.prior.enabled
        \/ op.prior.unit = None /\ systemd.enabled = "disabled"
    BY <2>1 DEF EnableRestored
  <2>4. \/ systemd.active = op.prior.active
        \/ op.prior.unit = None /\ op.prior.active # "inactive"
        \/ LeftBinary /\ op.prior.active = "active"
        \/ ~({op.prior.bin, op.prior.running} \subseteq Good \cup {None})
    BY <2>1, <2>2 DEF ActiveRestored, Kept
  <2> QED
    BY <2>1, <2>3, <2>4
<1> QED
  BY <1>1, Inductive, PTL

\* An update of a healthy service ends with a healthy service, unless it says
\* that the recovery failed (Update, restoreAfterFailedUpdate).
THEOREM Serves == Spec => []UpdateKeepsServing
<1>1. IInv => UpdateKeepsServing
  <2> SUFFICES ASSUME IInv, op.cmd = "update", op.mode \in {"ok", "failed"}, ~op.errs,
                      op.prior.active = "active", op.prior.running = op.prior.bin,
                      op.prior.bin \in Good
               PROVE  /\ systemd.active = "active" /\ systemd.running = files.bin
                      /\ files.bin \in Good
                      /\ files.bin = IF op.mode = "ok" THEN op.version ELSE op.prior.bin
    BY DEF UpdateKeepsServing
  <2>1. op.prior.bin # None /\ Healthy
    BY VersionAssumption, NoneAssumption DEF Healthy
  <2>2. CASE op.mode = "ok"
    BY <2>2 DEF IInv, UpdateApplying, Serving
  <2>3. CASE op.mode = "failed"
    BY <2>1, <2>3 DEF IInv, UpdateFailed, Serving
  <2> QED
    BY <2>2, <2>3
<1> QED
  BY <1>1, Inductive, PTL

\* After an install that changed something and after any update, a service that
\* runs executes what is on disk (activeRestoreArgs and the restart of Update).
THEOREM RunsInstalled == Spec => []RunsWhatIsInstalled
<1>1. IInv => RunsWhatIsInstalled
  <2> SUFFICES ASSUME IInv, op.cmd \in {"install", "update"}, op.mode = "ok",
                      systemd.active = "active",
                      op.cmd = "install" =>
                         op.prior.bin # op.version \/ op.prior.unit # op.unit
               PROVE  /\ systemd.running = files.bin
                      /\ op.cmd = "install" => systemd.loaded = files.unit
    BY DEF RunsWhatIsInstalled
  <2>1. CASE op.cmd = "install"
    <3>1. Changed
      BY <2>1 DEF Changed
    <3> QED
      BY <2>1, <3>1 DEF IInv, InstallApplying
  <2>2. CASE op.cmd = "update"
    BY <2>2 DEF IInv, UpdateApplying
  <2> QED
    BY <2>1, <2>2
<1> QED
  BY <1>1, Inductive, PTL

\* The executable a command found stays on disk under some name wherever the
\* command fails or is killed (the order of the copies, renames and removals of
\* InstallOptions, Update and Rollback).
THEOREM Keeps == Spec => []VersionKept
<1>1. IInv => VersionKept
  <2> SUFFICES ASSUME IInv, op.cmd # "none", ~op.errs,
                      ~(op.cmd = "install" /\ op.mode \in {"apply", "ok"} /\ op.todo = <<>>)
               PROVE  op.prior.bin \in {None, files.bin, files.rollback, files.failed,
                                        files.preinstall}
    BY DEF VersionKept
  <2>1. op \in Operation /\ op.mode \in {"prepare", "apply", "undo", "ok", "failed"}
    BY OpKinds DEF IInv, Operation
  <2>2. op.todo \in Seq(StepName)
    BY <2>1 DEF Operation
  <2>3. op.todo # <<>> => Todo # {}
    BY <2>2, TailSteps DEF Todo
  <2>4. CASE op.cmd = "install"
    <3>1. CASE op.mode = "prepare"
      BY <2>4, <3>1 DEF IInv, InstallPreparing
    <3>2. CASE op.mode \in {"apply", "ok"}
      BY <2>3, <2>4, <3>2 DEF IInv, InstallApplying
    <3>3. CASE op.mode = "undo"
      BY <2>4, <3>3 DEF IInv, InstallUndoing, LeftBinary
    <3>4. CASE op.mode = "failed"
      BY <2>4, <3>4 DEF IInv, InstallFailed, LeftBinary
    <3> QED
      BY <2>1, <3>1, <3>2, <3>3, <3>4
  <2>5. CASE op.cmd = "update"
    <3>1. CASE op.mode = "prepare"
      BY <2>5, <3>1 DEF IInv, UpdatePreparing
    <3>2. CASE op.mode \in {"apply", "ok"}
      BY <2>5, <3>2 DEF IInv, UpdateApplying
    <3>3. CASE op.mode = "undo"
      BY <2>5, <3>3 DEF IInv, UpdateUndoing
    <3>4. CASE op.mode = "failed"
      BY <2>5, <3>4 DEF IInv, UpdateFailed
    <3> QED
      BY <2>1, <3>1, <3>2, <3>3, <3>4
  <2>6. CASE op.cmd = "rollback"
    BY <2>1, <2>6 DEF IInv, RollingBack
  <2>7. CASE op.cmd \notin {"install", "update", "rollback"}
    BY <2>7 DEF IInv, Managing
  <2> QED
    BY <2>4, <2>5, <2>6, <2>7
<1> QED
  BY <1>1, Inductive, PTL

====================
