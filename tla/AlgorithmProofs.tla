--------------------------- MODULE AlgorithmProofs ---------------------------
(***************************************************************************)
(* Algorithms proved for inputs of every size: the verdict on a command    *)
(* under any rules (Commands), and the operations on posting lists of any  *)
(* length (Postings).                                                      *)
(***************************************************************************)
EXTENDS Commands, Postings, SequenceTheorems, FiniteSetTheorems, WellFoundedInduction, TLAPS

-----------------------------------------------------------------------------
(* Rules about commands *)

\* What rules say of a command, each on its own.
Said(rules, cmd) == {rules[i].verdict : i \in {j \in 1 .. Len(rules) : cmd \in rules[j].matches}}

Rules == [matches : SUBSET AllCommands, verdict : Verdicts]
Files == [parses : BOOLEAN, deny : Seq(SUBSET AllCommands), ask : Seq(SUBSET AllCommands),
          allow : Seq(SUBSET AllCommands)]

LEMMA SaidOfBoth ==
    ASSUME NEW U, NEW a \in Seq(U), NEW b \in Seq(U), NEW cmd
    PROVE  Said(a \o b, cmd) = Said(a, cmd) \cup Said(b, cmd)
<1> DEFINE c == a \o b
<1>1. /\ Len(a) \in Nat /\ Len(b) \in Nat /\ Len(c) = Len(a) + Len(b)
      /\ \A i \in 1 .. Len(a) : c[i] = a[i]
      /\ \A i \in 1 .. Len(b) : c[Len(a) + i] = b[i]
  OBVIOUS
<1> HIDE DEF c
<1>2. ASSUME NEW v \in Said(c, cmd) PROVE v \in Said(a, cmd) \cup Said(b, cmd)
  <2>1. PICK i \in 1 .. Len(c) : cmd \in c[i].matches /\ v = c[i].verdict
    BY <1>2, Zenon DEF Said
  <2>2. CASE i \in 1 .. Len(a)
    <3>1. cmd \in a[i].matches /\ v = a[i].verdict
      BY <1>1, <2>1, <2>2
    <3> QED BY <2>2, <3>1, Zenon DEF Said
  <2>3. CASE i \notin 1 .. Len(a)
    <3> DEFINE k == i - Len(a)
    <3>1. k \in 1 .. Len(b) /\ Len(a) + k = i
      BY <1>1, <2>1, <2>3
    <3> HIDE DEF k
    <3>2. cmd \in b[k].matches /\ v = b[k].verdict
      BY <1>1, <2>1, <3>1
    <3> QED BY <3>1, <3>2, Zenon DEF Said
  <2> QED BY <2>2, <2>3
<1>3. ASSUME NEW v \in Said(a, cmd) PROVE v \in Said(c, cmd)
  <2>1. PICK i \in 1 .. Len(a) : cmd \in a[i].matches /\ v = a[i].verdict
    BY <1>3, Zenon DEF Said
  <2>2. i \in 1 .. Len(c) /\ c[i] = a[i]
    BY <1>1
  <2> QED BY <2>1, <2>2, Zenon DEF Said
<1>4. ASSUME NEW v \in Said(b, cmd) PROVE v \in Said(c, cmd)
  <2>1. PICK k \in 1 .. Len(b) : cmd \in b[k].matches /\ v = b[k].verdict
    BY <1>4, Zenon DEF Said
  <2> DEFINE i == Len(a) + k
  <2>2. i \in 1 .. Len(c) /\ c[i] = b[k]
    BY <1>1
  <2> HIDE DEF i
  <2> QED BY <2>1, <2>2, Zenon DEF Said
<1>5. Said(c, cmd) = Said(a, cmd) \cup Said(b, cmd)
  BY <1>2, <1>3, <1>4
<1> QED BY <1>5 DEF c

\* The rules of one list of a file.
Each(list, verdict) == [i \in 1 .. Len(list) |-> Rule(list[i], verdict)]

LEMMA SaidOfEach ==
    ASSUME NEW list \in Seq(SUBSET AllCommands), NEW verdict \in Verdicts, NEW cmd
    PROVE  /\ Each(list, verdict) \in Seq(Rules)
           /\ Said(Each(list, verdict), cmd) \subseteq {verdict}
           /\ (\E i \in 1 .. Len(list) : cmd \in list[i]) => verdict \in Said(Each(list, verdict), cmd)
<1> DEFINE e == Each(list, verdict)
<1>1. Len(list) \in Nat /\ \A i \in 1 .. Len(list) : list[i] \in SUBSET AllCommands
  OBVIOUS
<1>2. \A i \in 1 .. Len(list) : Rule(list[i], verdict) \in Rules
  BY <1>1 DEF Rule, Rules
<1>3. e \in Seq(Rules) /\ Len(e) = Len(list)
  BY <1>1, <1>2 DEF Each
<1>4. \A i \in 1 .. Len(list) : e[i].matches = list[i] /\ e[i].verdict = verdict
  BY <1>1 DEF Each, Rule
<1> HIDE DEF e
<1>5. Said(e, cmd) \subseteq {verdict}
  BY <1>3, <1>4 DEF Said
<1>6. ASSUME NEW i \in 1 .. Len(list), cmd \in list[i] PROVE verdict \in Said(e, cmd)
  BY <1>3, <1>4, <1>6, Zenon DEF Said
<1> QED BY <1>3, <1>5, <1>6 DEF e

LEMMA SaidOfFile ==
    ASSUME NEW file \in Files, NEW cmd
    PROVE  /\ FileRules(file) \in Seq(Rules)
           /\ Said(FileRules(file), cmd) \subseteq {"deny", "ask"}
           /\ Says(file, "deny", cmd) => "deny" \in Said(FileRules(file), cmd)
<1>1. CASE ~ file.parses
  <2>1. FileRules(file) = <<>> /\ ~ Says(file, "deny", cmd)
    BY <1>1 DEF FileRules, Says
  <2>2. <<>> \in Seq(Rules) /\ Said(<<>>, cmd) = {}
    BY DEF Said
  <2> QED BY <2>1, <2>2
<1>2. CASE file.parses
  <2> DEFINE a == Each(file.deny, "deny")
             b == Each(file.ask, "ask")
             c == Each(file.allow, "ask")
  <2>1. /\ file.deny \in Seq(SUBSET AllCommands) /\ file.ask \in Seq(SUBSET AllCommands)
        /\ file.allow \in Seq(SUBSET AllCommands) /\ "deny" \in Verdicts /\ "ask" \in Verdicts
    BY DEF Files, Verdicts
  <2>2. FileRules(file) = (a \o b) \o c
    BY <1>2, Zenon DEF FileRules, Each
  <2>3. /\ a \in Seq(Rules) /\ b \in Seq(Rules) /\ c \in Seq(Rules)
        /\ Said(a, cmd) \subseteq {"deny"} /\ Said(b, cmd) \subseteq {"ask"} /\ Said(c, cmd) \subseteq {"ask"}
    BY <2>1, SaidOfEach
  <2>4. Says(file, "deny", cmd) => "deny" \in Said(a, cmd)
    <3>1. Says(file, "deny", cmd) => \E i \in 1 .. Len(file.deny) : cmd \in file.deny[i]
      BY DEF Says
    <3> QED BY <2>1, <3>1, SaidOfEach
  <2> HIDE DEF a, b, c
  <2> DEFINE d == a \o b
  <2>5. d \in Seq(Rules) /\ Said(d, cmd) = Said(a, cmd) \cup Said(b, cmd)
    BY <2>3, SaidOfBoth
  <2>6. d \o c \in Seq(Rules)
    BY <2>3, <2>5
  <2> HIDE DEF d
  <2>7. Said(d \o c, cmd) = Said(d, cmd) \cup Said(c, cmd)
    BY <2>3, <2>5, SaidOfBoth
  <2>8. FileRules(file) = d \o c
    BY <2>2 DEF d
  <2> QED BY <2>3, <2>4, <2>5, <2>6, <2>7, <2>8
<1> QED BY <1>1, <1>2

LEMMA SaidOfAll ==
    ASSUME NEW user \in Files, NEW project \in Files, NEW cmd
    PROVE  Said(Load(Builtin, user, project), cmd)
             = (Said(Builtin, cmd) \cup Said(FileRules(user), cmd)) \cup Said(FileRules(project), cmd)
<1> DEFINE b == Builtin \o FileRules(user)
<1>1. Builtin \in Seq(Rules) /\ FileRules(user) \in Seq(Rules) /\ FileRules(project) \in Seq(Rules)
  BY CommandsAssumption, SaidOfFile DEF CommandsAssumption, Rules
<1>2. b \in Seq(Rules) /\ Said(b, cmd) = Said(Builtin, cmd) \cup Said(FileRules(user), cmd)
  BY <1>1, SaidOfBoth
<1> HIDE DEF b
<1>3. Said(b \o FileRules(project), cmd) = Said(b, cmd) \cup Said(FileRules(project), cmd)
  BY <1>1, <1>2, SaidOfBoth
<1>4. Load(Builtin, user, project) = b \o FileRules(project)
  BY DEF Load, b
<1> QED BY <1>2, <1>3, <1>4

LEMMA CheckIs ==
    ASSUME NEW rules, NEW cmd
    PROVE  /\ "deny" \in Said(rules, cmd) => Check(rules, cmd) = "deny"
           /\ "deny" \notin Said(rules, cmd) /\ "ask" \in Said(rules, cmd) => Check(rules, cmd) = "ask"
           /\ Said(rules, cmd) \cap {"deny", "ask"} = {} => Check(rules, cmd) \in {"allow", "default"}
<1> DEFINE said == Said(rules, cmd)
<1>1. Check(rules, cmd) = CASE "deny" \in said -> "deny"
                            [] "deny" \notin said /\ "ask" \in said -> "ask"
                            [] said = {"allow"} -> "allow"
                            [] OTHER -> "default"
  BY Zenon DEF Check, Said
<1> HIDE DEF said
<1>2. "deny" \in said => Check(rules, cmd) = "deny"
  BY <1>1
<1>3. "deny" \notin said /\ "ask" \in said => Check(rules, cmd) = "ask"
  BY <1>1
<1>4. said \cap {"deny", "ask"} = {} => Check(rules, cmd) \in {"allow", "default"}
  BY <1>1
<1> QED BY <1>2, <1>3, <1>4 DEF said

\* What the rules say decides alone when they say anything but "allow".
LEMMA CodeIs ==
    ASSUME NEW rules, NEW cmd, NEW familiar
    PROVE  /\ Check(rules, cmd) = "deny" => RunRewrite(rules, cmd, familiar, FALSE).code = 2
           /\ Check(rules, cmd) = "ask" => RunRewrite(rules, cmd, familiar, FALSE).code = 1
<1>1. ASSUME Check(rules, cmd) = "deny" PROVE RunRewrite(rules, cmd, familiar, FALSE).code = 2
  BY <1>1 DEF RunRewrite
<1>2. ASSUME Check(rules, cmd) = "ask" PROVE RunRewrite(rules, cmd, familiar, FALSE).code = 1
  BY <1>2 DEF RunRewrite
<1> QED BY <1>1, <1>2

\* Rules count by what is said of a command.
LEMMA SameSaid ==
    ASSUME NEW rules, NEW others, NEW cmd, NEW familiar, Said(rules, cmd) = Said(others, cmd)
    PROVE  RunRewrite(rules, cmd, familiar, FALSE) = RunRewrite(others, cmd, familiar, FALSE)
<1>1. Check(rules, cmd) = Check(others, cmd)
  BY Zenon DEF Check, Said
<1> QED BY <1>1, Zenon DEF RunRewrite

LEMMA FilesTighten ==
    ASSUME NEW user \in Files, NEW project \in Files, NEW cmd \in AllCommands
    PROVE  /\ Check(Builtin, cmd) = "deny" => Verdict(user, project, cmd) = 2
           /\ Verdict(NoFile, NoFile, cmd) # 0 => Verdict(user, project, cmd) # 0
           /\ Says(user, "deny", cmd) \/ Says(project, "deny", cmd) => Verdict(user, project, cmd) = 2
<1> DEFINE rules == Load(Builtin, user, project)
           none == Load(Builtin, NoFile, NoFile)
           familiar == cmd[1] \in Familiar
<1>1. Verdict(user, project, cmd) = RunRewrite(rules, cmd, familiar, FALSE).code
  BY Zenon DEF Verdict
<1>2. Verdict(NoFile, NoFile, cmd) = RunRewrite(none, cmd, familiar, FALSE).code
  BY Zenon DEF Verdict
<1>3. Said(rules, cmd)
        = (Said(Builtin, cmd) \cup Said(FileRules(user), cmd)) \cup Said(FileRules(project), cmd)
  BY SaidOfAll
<1>4. Said(none, cmd) = Said(Builtin, cmd)
  <2>1. NoFile \in Files
    BY DEF NoFile, Files
  <2>2. Said(FileRules(NoFile), cmd) = {}
    <3>1. FileRules(NoFile) = <<>>
      BY DEF FileRules, NoFile
    <3> QED BY <3>1 DEF Said
  <2> QED BY <2>1, <2>2, SaidOfAll
<1>5. /\ Said(FileRules(user), cmd) \subseteq {"deny", "ask"}
      /\ Said(FileRules(project), cmd) \subseteq {"deny", "ask"}
      /\ Says(user, "deny", cmd) => "deny" \in Said(FileRules(user), cmd)
      /\ Says(project, "deny", cmd) => "deny" \in Said(FileRules(project), cmd)
  BY SaidOfFile
<1>6. Check(Builtin, cmd) = "deny" => "deny" \in Said(Builtin, cmd)
  BY CheckIs
<1> HIDE DEF rules, none, familiar
<1>7. CASE "deny" \in Said(rules, cmd)
  <2>1. Verdict(user, project, cmd) = 2
    BY <1>1, <1>7, CheckIs, CodeIs
  <2> QED BY <2>1
<1>8. CASE "deny" \notin Said(rules, cmd) /\ "ask" \in Said(rules, cmd)
  <2>1. Verdict(user, project, cmd) = 1
    BY <1>1, <1>8, CheckIs, CodeIs
  <2> QED BY <1>3, <1>5, <1>6, <1>8, <2>1
<1>9. CASE Said(rules, cmd) \cap {"deny", "ask"} = {}
  <2>1. Said(rules, cmd) = Said(none, cmd) /\ "deny" \notin Said(Builtin, cmd)
    BY <1>3, <1>4, <1>5, <1>9
  <2>2. Verdict(user, project, cmd) = Verdict(NoFile, NoFile, cmd)
    BY <1>1, <1>2, <2>1, SameSaid
  <2> QED BY <1>3, <1>5, <1>6, <1>9, <2>2
<1> QED BY <1>7, <1>8, <1>9

RulesTyped == part = "rules" => input \in [user : Files, project : Files]

LEMMA RulesStay == CommandSpec => []RulesTyped
<1>1. CommandInit => RulesTyped
  <2> SUFFICES ASSUME CommandInit, part = "rules" PROVE input \in [user : Files, project : Files]
    BY DEF RulesTyped
  <2>1. NoFile \in Files
    BY DEF NoFile, Files
  <2>2. CommandStart["rules"] = [user |-> NoFile, project |-> NoFile]
    BY CommandsAssumption DEF CommandsAssumption, CommandStart
  <2> QED BY <2>1, <2>2 DEF CommandInit
<1>2. RulesTyped /\ [CommandNext]_vars => RulesTyped'
  <2> SUFFICES ASSUME RulesTyped, [CommandNext]_vars PROVE RulesTyped'
    OBVIOUS
  <2>1. CASE MoreRules
    <3>1. part = "rules" /\ part' = part /\ input \in [user : Files, project : Files]
      BY <2>1 DEF MoreRules, RulesTyped
    <3>2. PICK whose \in {"user", "project"} :
             \/ \E verdict \in Verdicts, cmd \in AllCommands : input' = [input EXCEPT ![whose][verdict] = <<{cmd}>>]
             \/ input' = [input EXCEPT ![whose].parses = FALSE]
      BY <2>1 DEF MoreRules
    <3>3. CASE input' = [input EXCEPT ![whose].parses = FALSE]
      BY <3>1, <3>3 DEF RulesTyped, Files
    <3>4. ASSUME NEW verdict \in Verdicts, NEW cmd \in AllCommands,
                 input' = [input EXCEPT ![whose][verdict] = <<{cmd}>>]
          PROVE  RulesTyped'
      <4>1. <<{cmd}>> \in Seq(SUBSET AllCommands)
        OBVIOUS
      <4>2. [input[whose] EXCEPT ![verdict] = <<{cmd}>>] \in Files
        BY <3>1, <4>1 DEF Files, Verdicts
      <4>3. input' = [input EXCEPT ![whose] = [input[whose] EXCEPT ![verdict] = <<{cmd}>>]]
        BY <3>4
      <4> QED BY <3>1, <4>2, <4>3 DEF RulesTyped
    <3> QED BY <3>2, <3>3, <3>4
  <2>2. CASE part # "rules" /\ part' = part
    BY <2>2 DEF RulesTyped
  <2>3. CASE UNCHANGED vars
    BY <2>3 DEF RulesTyped, vars
  <2>4. ASSUME CommandNext, ~ MoreRules PROVE part # "rules" /\ part' = part
    <3>1. "rules" \notin DOMAIN Alphabets
      BY CommandsAssumption DEF CommandsAssumption
    <3> QED BY <2>4, <3>1
             DEF CommandNext, MoreText, MoreWords, MoreLines, MoreDelta, MoreTests, MoreLints, MoreEvents
  <2> QED BY <2>1, <2>2, <2>3, <2>4
<1> QED BY <1>1, <1>2, PTL DEF CommandSpec

\* Permission files take nothing back that the built-in rules say: what is denied
\* stays denied, what is not let through is still not, and what a file denies is
\* denied, whatever is in the files and the built-in rules.
THEOREM FilesOnlyTightenHolds == CommandSpec => []FilesOnlyTighten
<1>1. RulesTyped => FilesOnlyTighten
  <2> SUFFICES ASSUME RulesTyped, part = "rules", NEW cmd \in AllCommands
               PROVE  LET with == Verdict(input.user, input.project, cmd)
                          without == Verdict(NoFile, NoFile, cmd)
                      IN  /\ Check(Builtin, cmd) = "deny" => with = 2
                          /\ without /= 0 => with /= 0
                          /\ (\E whose \in {"user", "project"} : Says(input[whose], "deny", cmd)) => with = 2
    BY DEF FilesOnlyTighten
  <2>1. input.user \in Files /\ input.project \in Files
    BY DEF RulesTyped
  <2>2. input["user"] = input.user /\ input["project"] = input.project
    OBVIOUS
  <2> QED BY <2>1, <2>2, FilesTighten
<1> QED BY <1>1, RulesStay, PTL


-----------------------------------------------------------------------------
(* Numbers *)

Less == {p \in Nat \X Nat : p[1] < p[2]}

LEMMA LessWF == IsWellFoundedOn(Less, Nat)
  BY NatLessThanWellFounded DEF IsWellFoundedOn, OpToRel, Less

LEMMA LessIs ==
    ASSUME NEW m \in Nat, NEW n \in Nat, <<n, m>> \notin Less
    PROVE  m <= n
  BY DEF Less

LEMMA LeastIs ==
    ASSUME NEW T, T \subseteq Nat, T # {}
    PROVE  /\ Min(T) \in T
           /\ \A n \in T : Min(T) <= n
<1>2. PICK m \in T : \A n \in T : <<n, m>> \notin Less
  BY LessWF, WFMin
<1>3. ASSUME NEW n \in T PROVE m <= n
  BY <1>2, LessIs
<1> QED
  BY <1>3 DEF Min

LEMMA NatInduct ==
    ASSUME NEW T, 0 \in T, \A n \in Nat : n \in T => n + 1 \in T
    PROVE  Nat \subseteq T
<1>1. SUFFICES ASSUME Nat \ T # {} PROVE FALSE
  OBVIOUS
<1>2. PICK m \in Nat \ T : \A n \in Nat \ T : <<n, m>> \notin Less
  BY <1>1, LessWF, WFMin
<1>3. \A n \in Nat \ T : m <= n
  BY <1>2, LessIs
<1>4. m # 0 /\ m - 1 \in Nat /\ m - 1 < m
  BY <1>2
<1>5. m - 1 \in T
  BY <1>3, <1>4
<1>6. (m - 1) + 1 \in T
  BY <1>4, <1>5
<1> QED
  BY <1>2, <1>6

LEMMA Compared ==
    ASSUME NEW x \in Nat, NEW y \in Nat
    PROVE  /\ x < y => x <= y /\ ~ (x >= y)
           /\ y < x => ~ (x <= y) /\ x >= y
           /\ x = y => x <= y /\ x >= y
           /\ x < y => x # y /\ ~ (y < x)
           /\ x < y \/ x = y \/ y < x
           /\ \A z \in Nat : x < y /\ (z = y \/ y < z) => x < z
  OBVIOUS

LEMMA OneOn ==
    ASSUME NEW n \in Nat, NEW i \in Nat, 1 <= i, i <= n
    PROVE  i + 1 \in Nat /\ 1 <= i + 1 /\ i + 1 <= n + 1 /\ i < i + 1 /\ i <= n + 1
  OBVIOUS

-----------------------------------------------------------------------------
(* Lists in order *)

Increasing(s) == \A i, j \in DOMAIN s : i < j => s[i] < s[j]

\* The list of a set: its members, once, in order.
Lists(s, S) == s \in Seq(Nat) /\ Increasing(s) /\ ToSet(s) = S

\* What is left of a list from a position on.
Rest(s, i) == {s[k] : k \in i .. Len(s)}

LEMMA ListsNothing == Lists(<<>>, {})
<1>1. <<>> \in Seq(Nat) /\ DOMAIN <<>> = {}
  OBVIOUS
<1> QED BY <1>1 DEF Lists, Increasing, ToSet

LEMMA ListsOne == ASSUME NEW x \in Nat PROVE Lists(<<x>>, {x})
<1>1. <<x>> \in Seq(Nat) /\ DOMAIN <<x>> = {1} /\ <<x>>[1] = x
  OBVIOUS
<1> QED BY <1>1 DEF Lists, Increasing, ToSet

LEMMA ListsBoth ==
    ASSUME NEW s, NEW t, NEW S, NEW T, Lists(s, S), Lists(t, T), \A x \in S, y \in T : x < y
    PROVE  Lists(s \o t, S \cup T)
<1> DEFINE w == s \o t
<1>1. /\ s \in Seq(Nat) /\ t \in Seq(Nat) /\ DOMAIN s = 1 .. Len(s) /\ DOMAIN t = 1 .. Len(t)
      /\ Len(s) \in Nat /\ Len(t) \in Nat
  BY DEF Lists
<1>2. /\ w \in Seq(Nat) /\ Len(w) = Len(s) + Len(t) /\ DOMAIN w = 1 .. Len(s) + Len(t)
      /\ \A i \in 1 .. Len(s) : w[i] = s[i]
      /\ \A i \in 1 .. Len(t) : w[Len(s) + i] = t[i]
  BY <1>1
<1>3. (\A i \in 1 .. Len(s) : s[i] \in S) /\ \A i \in 1 .. Len(t) : t[i] \in T
  BY <1>1 DEF Lists, ToSet
<1>4. /\ \A x \in S : \E i \in 1 .. Len(s) : x = s[i]
      /\ \A x \in T : \E i \in 1 .. Len(t) : x = t[i]
  BY <1>1 DEF Lists, ToSet
<1>5. /\ \A i, j \in 1 .. Len(s) : i < j => s[i] < s[j]
      /\ \A i, j \in 1 .. Len(t) : i < j => t[i] < t[j]
  BY <1>1 DEF Lists, Increasing
<1> HIDE DEF w
<1>6. \A i \in 1 .. Len(w) : \/ i \in 1 .. Len(s)
                             \/ i - Len(s) \in 1 .. Len(t) /\ Len(s) + (i - Len(s)) = i
  BY <1>1, <1>2
<1>7. ASSUME NEW i \in 1 .. Len(w), NEW j \in 1 .. Len(w), i < j PROVE w[i] < w[j]
  <2>1. CASE i \in 1 .. Len(s) /\ j \in 1 .. Len(s)
    BY <1>2, <1>5, <1>7, <2>1
  <2>2. CASE i \in 1 .. Len(s) /\ j \notin 1 .. Len(s)
    <3>1. j - Len(s) \in 1 .. Len(t) /\ w[j] = t[j - Len(s)] /\ w[i] = s[i]
      BY <1>2, <1>6, <2>2
    <3> QED BY <1>3, <2>2, <3>1
  <2>3. CASE i \notin 1 .. Len(s)
    <3>1. i - Len(s) \in 1 .. Len(t) /\ w[i] = t[i - Len(s)]
      BY <1>2, <1>6, <2>3
    <3>2. j \notin 1 .. Len(s)
      BY <1>1, <1>2, <1>7, <2>3
    <3>3. j - Len(s) \in 1 .. Len(t) /\ w[j] = t[j - Len(s)]
      BY <1>2, <1>6, <3>2
    <3>4. i - Len(s) < j - Len(s)
      BY <1>1, <1>7
    <3> QED BY <1>5, <3>1, <3>3, <3>4
  <2> QED BY <2>1, <2>2, <2>3
<1>8. ToSet(w) = S \cup T
  <2>1. ASSUME NEW x \in S \cup T PROVE \E i \in 1 .. Len(w) : w[i] = x
    <3>1. CASE x \in S
      <4>1. PICK i \in 1 .. Len(s) : x = s[i]
        BY <1>4, <3>1
      <4>2. i \in 1 .. Len(w) /\ w[i] = x
        BY <1>1, <1>2, <4>1
      <4> QED BY <4>2
    <3>2. CASE x \in T
      <4>1. PICK i \in 1 .. Len(t) : x = t[i]
        BY <1>4, <3>2
      <4> DEFINE k == Len(s) + i
      <4>2. k \in 1 .. Len(w) /\ w[k] = x
        BY <1>1, <1>2, <4>1
      <4> QED BY <4>2
    <3> QED BY <3>1, <3>2
  <2>2. ASSUME NEW i \in 1 .. Len(w) PROVE w[i] \in S \cup T
    BY <1>2, <1>3, <1>6
  <2>3. DOMAIN w = 1 .. Len(w)
    BY <1>2
  <2> QED BY <2>1, <2>2, <2>3 DEF ToSet
<1>9. Lists(w, S \cup T)
  <2>1. DOMAIN w = 1 .. Len(w)
    BY <1>2
  <2> QED BY <1>2, <1>7, <1>8, <2>1 DEF Lists, Increasing
<1> QED BY <1>9 DEF w

\* A set has one list.
LEMMA OneList ==
    ASSUME NEW s, NEW t, NEW S, Lists(s, S), Lists(t, S)
    PROVE  s = t
<1>1. /\ s \in Seq(Nat) /\ t \in Seq(Nat) /\ DOMAIN s = 1 .. Len(s) /\ DOMAIN t = 1 .. Len(t)
      /\ Len(s) \in Nat /\ Len(t) \in Nat
  BY DEF Lists
<1>2. /\ \A i \in 1 .. Len(s) : \E k \in 1 .. Len(t) : s[i] = t[k]
      /\ \A i \in 1 .. Len(t) : \E k \in 1 .. Len(s) : t[i] = s[k]
  BY <1>1 DEF Lists, ToSet
<1>3. /\ \A i, j \in 1 .. Len(s) : i < j => s[i] < s[j]
      /\ \A i, j \in 1 .. Len(t) : i < j => t[i] < t[j]
  BY <1>1 DEF Lists, Increasing
<1>4. (\A i \in 1 .. Len(s) : s[i] \in Nat) /\ \A i \in 1 .. Len(t) : t[i] \in Nat
  BY <1>1
<1> DEFINE T == {n \in Nat : \A i \in 1 .. n : (i <= Len(s) <=> i <= Len(t)) /\ (i <= Len(s) => s[i] = t[i])}
<1>5. 0 \in T
  OBVIOUS
<1>6. ASSUME NEW n \in Nat, n \in T PROVE n + 1 \in T
  <2> DEFINE m == n + 1
  <2>1. \A i \in 1 .. n : (i <= Len(s) <=> i <= Len(t)) /\ (i <= Len(s) => s[i] = t[i])
    BY <1>6
  <2>2. m \in Nat /\ m = n + 1 /\ m >= 1
    OBVIOUS
  <2> HIDE DEF m
  <2>3. ASSUME m <= Len(s) PROVE \E k \in 1 .. Len(t) : k >= m /\ s[m] = t[k]
    <3>1. PICK k \in 1 .. Len(t) : s[m] = t[k]
      BY <1>1, <1>2, <2>2, <2>3
    <3>2. CASE k < m
      <4>1. k \in 1 .. n
        BY <2>2, <3>2
      <4>2. k <= Len(s) /\ s[k] = t[k]
        BY <2>1, <4>1
      <4>3. s[k] < s[m]
        BY <1>1, <1>3, <2>2, <2>3, <3>2, <4>2
      <4> QED BY <1>1, <1>4, <2>2, <2>3, <3>1, <4>2, <4>3
    <3> QED BY <2>2, <3>1, <3>2
  <2>4. ASSUME m <= Len(t) PROVE \E k \in 1 .. Len(s) : k >= m /\ t[m] = s[k]
    <3>1. PICK k \in 1 .. Len(s) : t[m] = s[k]
      BY <1>1, <1>2, <2>2, <2>4
    <3>2. CASE k < m
      <4>1. k \in 1 .. n
        BY <2>2, <3>2
      <4>2. k <= Len(t) /\ s[k] = t[k]
        BY <2>1, <4>1
      <4>3. t[k] < t[m]
        BY <1>1, <1>3, <2>2, <2>4, <3>2, <4>2
      <4> QED BY <1>1, <1>4, <2>2, <2>4, <3>1, <4>2, <4>3
    <3> QED BY <2>2, <3>1, <3>2
  <2>5. m <= Len(s) <=> m <= Len(t)
    BY <1>1, <2>2, <2>3, <2>4
  <2>6. ASSUME m <= Len(s) PROVE s[m] = t[m]
    <3>1. PICK k \in 1 .. Len(t) : k >= m /\ s[m] = t[k]
      BY <2>3, <2>6
    <3>2. PICK l \in 1 .. Len(s) : l >= m /\ t[m] = s[l]
      BY <2>4, <2>5, <2>6
    <3>3. m \in 1 .. Len(s) /\ m \in 1 .. Len(t)
      BY <1>1, <2>2, <2>5, <2>6
    <3>4. t[m] <= s[m]
      BY <1>3, <1>4, <3>1, <3>3
    <3>5. s[m] <= t[m]
      BY <1>3, <1>4, <3>2, <3>3
    <3> QED BY <1>4, <3>3, <3>4, <3>5
  <2>7. \A i \in 1 .. m : i \in 1 .. n \/ i = m
    BY <2>2
  <2>8. m \in T
    BY <2>1, <2>2, <2>5, <2>6, <2>7
  <2> QED BY <2>8 DEF m
<1>7. Nat \subseteq T
  <2> HIDE DEF T
  <2> QED BY <1>5, <1>6, NatInduct
<1>8. ASSUME NEW i \in Nat, i >= 1 PROVE (i <= Len(s) <=> i <= Len(t)) /\ (i <= Len(s) => s[i] = t[i])
  <2>1. i \in T /\ i \in 1 .. i
    BY <1>7, <1>8
  <2> QED BY <2>1
<1>9. Len(s) = Len(t)
  <2>1. Len(s) <= Len(t)
    <3>1. CASE Len(s) >= 1
      BY <1>1, <1>8, <3>1
    <3> QED BY <1>1, <3>1
  <2>2. Len(t) <= Len(s)
    <3>1. CASE Len(t) >= 1
      BY <1>1, <1>8, <3>1
    <3> QED BY <1>1, <3>1
  <2>3. Len(s) \in Nat /\ Len(t) \in Nat
    BY <1>1
  <2> HIDE DEF T
  <2> QED BY <2>1, <2>2, <2>3
<1>10. \A i \in 1 .. Len(s) : s[i] = t[i]
  BY <1>1, <1>8
<1> QED BY <1>1, <1>9, <1>10, SeqEqual

-----------------------------------------------------------------------------
(* Functions defined by what they are at a state that comes next *)

\* Outside Stop, a state of D is followed by one of a lower rank.
Descends(D, N, Rank, Stop, Go) ==
    /\ N \in Nat
    /\ Rank \in [D -> 0 .. N]
    /\ Go \in [D -> D]
    /\ \A d \in D : d \notin Stop => Rank[Go[d]] < Rank[d]

LEMMA DescentInduct ==
    ASSUME NEW D, NEW N, NEW Rank, NEW Stop, NEW Go, Descends(D, N, Rank, Stop, Go), NEW T,
           \A d \in D : d \in Stop => d \in T,
           \A d \in D : d \notin Stop /\ Go[d] \in T => d \in T
    PROVE  \A d \in D : d \in T
<1> DEFINE R == {n \in Nat : \A d \in D : Rank[d] < n => d \in T}
<1>1. /\ N \in Nat /\ \A d \in D : Rank[d] \in Nat /\ Rank[d] <= N /\ Go[d] \in D
      /\ \A d \in D : d \notin Stop => Rank[Go[d]] < Rank[d]
  BY DEF Descends
<1>2. 0 \in R
  BY <1>1
<1>3. ASSUME NEW n \in Nat, n \in R PROVE n + 1 \in R
  <2> SUFFICES ASSUME NEW d \in D, Rank[d] < n + 1, d \notin Stop PROVE d \in T
    OBVIOUS
  <2>1. Rank[Go[d]] < n /\ Go[d] \in D
    BY <1>1
  <2>2. Go[d] \in T
    BY <1>3, <2>1
  <2> QED BY <2>2
<1> HIDE DEF R
<1>4. N + 1 \in R
  BY <1>1, <1>2, <1>3, NatInduct
<1>5. \A d \in D : Rank[d] < N + 1
  BY <1>1
<1> QED BY <1>4, <1>5 DEF R

\* Some function takes at each state what it has for the end there, or makes it
\* of what it takes at the next state.
HasRecursion(D, V, Stop, Go, Base, Step) ==
    \E f \in [D -> V] : \A d \in D : f[d] = IF d \in Stop THEN Base[d] ELSE Step[<<d, f[Go[d]]>>]

LEMMA RecursionExists ==
    ASSUME NEW D, NEW N, NEW Rank, NEW Stop, NEW Go, Descends(D, N, Rank, Stop, Go),
           NEW V, NEW Base \in [D -> V], NEW Step \in [D \X V -> V]
    PROVE  HasRecursion(D, V, Stop, Go, Base, Step)
<1> DEFINE At(f, d) == IF d \in Stop THEN Base[d] ELSE Step[<<d, f[Go[d]]>>]
           R == {n \in Nat : \E f \in [D -> V] : \A d \in D : Rank[d] < n => f[d] = At(f, d)}
<1>1. /\ N \in Nat /\ \A d \in D : Rank[d] \in Nat /\ Rank[d] <= N /\ Go[d] \in D
      /\ \A d \in D : d \notin Stop => Rank[Go[d]] < Rank[d]
  BY DEF Descends
<1>2. 0 \in R
  <2>1. \A d \in D : ~ (Rank[d] < 0)
    BY <1>1
  <2> QED BY <2>1
<1>3. ASSUME NEW n \in Nat, n \in R PROVE n + 1 \in R
  <2>1. PICK f \in [D -> V] : \A d \in D : Rank[d] < n => f[d] = At(f, d)
    BY <1>3
  <2> DEFINE g == [d \in D |-> At(f, d)]
  <2>2. \A d \in D : At(f, d) \in V
    BY <1>1
  <2>3. g \in [D -> V]
    BY <2>2
  <2>4. \A d \in D : g[d] = At(f, d)
    OBVIOUS
  <2> HIDE DEF g
  <2>5. ASSUME NEW d \in D, Rank[d] < n + 1 PROVE g[d] = At(g, d)
    <3>1. CASE d \in Stop
      BY <2>4, <3>1
    <3>2. CASE d \notin Stop
      <4>1. Rank[Go[d]] < n /\ Go[d] \in D
        BY <1>1, <2>5, <3>2
      <4>2. g[Go[d]] = f[Go[d]]
        <5>1. f[Go[d]] = At(f, Go[d]) /\ g[Go[d]] = At(f, Go[d])
          BY <2>1, <2>4, <4>1
        <5> QED BY <5>1
      <4> QED BY <2>4, <3>2, <4>2
    <3> QED BY <3>1, <3>2
  <2> HIDE DEF At
  <2> QED BY <2>3, <2>5
<1> HIDE DEF R
<1>4. N + 1 \in R
  BY <1>1, <1>2, <1>3, NatInduct
<1>5. \A d \in D : Rank[d] < N + 1
  BY <1>1
<1>6. \E f \in [D -> V] : \A d \in D : f[d] = At(f, d)
  <2> HIDE DEF At
  <2> QED BY <1>4, <1>5 DEF R
<1> QED BY <1>6 DEF HasRecursion

\* A scan: it ends at a state of Stop with the list Base has for it, or puts the
\* list Emit has for the state before what it finds at the next state.
ScanStep(Stop, Base, Emit, Go, f, d) ==
    IF d \in Stop THEN Base[d]
    ELSE IF Emit[d] = <<>> THEN f[Go[d]] ELSE Emit[d] \o f[Go[d]]

IsScan(D, Stop, Base, Emit, Go, f) == f = [d \in D |-> ScanStep(Stop, Base, Emit, Go, f, d)]

LEMMA ScanExists ==
    ASSUME NEW D, NEW N, NEW Rank, NEW Stop, NEW Go, Descends(D, N, Rank, Stop, Go),
           NEW Base \in [D -> Seq(Nat)], NEW Emit \in [D -> Seq(Nat)]
    PROVE  \E f : IsScan(D, Stop, Base, Emit, Go, f)
<1> DEFINE V == Seq(Nat)
           Joined(d, r) == IF Emit[d] = <<>> THEN r ELSE Emit[d] \o r
           Step == [p \in D \X V |-> Joined(p[1], p[2])]
<1>1. \A d \in D : \A r \in V : Joined(d, r) \in V
  OBVIOUS
<1>2. Step \in [D \X V -> V]
  <2> HIDE DEF Joined
  <2>1. \A p \in D \X V : p[1] \in D /\ p[2] \in V
    OBVIOUS
  <2> QED BY <1>1, <2>1
<1>3. \A d \in D : \A r \in V : Step[<<d, r>>] = Joined(d, r)
  <2> HIDE DEF Joined
  <2> QED OBVIOUS
<1>4. \A d \in D : Go[d] \in D
  BY DEF Descends
<1> HIDE DEF Step, V, Joined
<1>5. Base \in [D -> V]
  BY DEF V
<1>6. PICK f \in [D -> V] : \A d \in D : f[d] = IF d \in Stop THEN Base[d] ELSE Step[<<d, f[Go[d]]>>]
  <2>1. Descends(D, N, Rank, Stop, Go)
    OBVIOUS
  <2>2. HasRecursion(D, V, Stop, Go, Base, Step)
    BY <1>2, <1>5, <2>1, RecursionExists
  <2> QED BY <2>2 DEF HasRecursion
<1>7. \A d \in D : f[d] = ScanStep(Stop, Base, Emit, Go, f, d)
  <2> SUFFICES ASSUME NEW d \in D PROVE f[d] = ScanStep(Stop, Base, Emit, Go, f, d)
    OBVIOUS
  <2>1. f[Go[d]] \in V
    BY <1>4
  <2>2. f[d] = IF d \in Stop THEN Base[d] ELSE Joined(d, f[Go[d]])
    BY <1>3, <1>6, <2>1
  <2> QED BY <2>2, Zenon DEF ScanStep, Joined
<1>8. f = [d \in D |-> ScanStep(Stop, Base, Emit, Go, f, d)]
  <2> DEFINE g == [d \in D |-> ScanStep(Stop, Base, Emit, Go, f, d)]
  <2>1. f = [d \in D |-> f[d]]
    OBVIOUS
  <2>2. [d \in D |-> f[d]] = g
    BY <1>7, Zenon
  <2> QED BY <2>1, <2>2, Zenon
<1> QED BY <1>8 DEF IsScan

\* What a scan wants at a state is what it has there at the end; before, what is
\* put there and, above it, what is wanted at the next state.
Wanted(D, Stop, Base, Emit, Go, Want, Here) ==
    /\ \A d \in D : d \in Stop => Lists(Base[d], Want[d])
    /\ \A d \in D : d \notin Stop =>
           /\ Lists(Emit[d], Here[d])
           /\ Want[d] = Here[d] \cup Want[Go[d]]
           /\ \A x \in Here[d], y \in Want[Go[d]] : x < y

\* Then a scan finds the list of what is wanted.
LEMMA ScanLists ==
    ASSUME NEW D, NEW N, NEW Rank, NEW Stop, NEW Go, Descends(D, N, Rank, Stop, Go),
           NEW Base, NEW Emit, NEW f, IsScan(D, Stop, Base, Emit, Go, f),
           NEW Want, NEW Here, Wanted(D, Stop, Base, Emit, Go, Want, Here)
    PROVE  \A d \in D : Lists(f[d], Want[d])
<1> DEFINE T == {d \in D : Lists(f[d], Want[d])}
<1>1. \A d \in D : f[d] = ScanStep(Stop, Base, Emit, Go, f, d)
  BY DEF IsScan
<1>2. ASSUME NEW d \in D, d \in Stop PROVE d \in T
  <2>1. f[d] = Base[d]
    BY <1>1, <1>2 DEF ScanStep
  <2>2. Lists(Base[d], Want[d])
    BY <1>2 DEF Wanted
  <2> QED BY <2>1, <2>2
<1>3. ASSUME NEW d \in D, d \notin Stop, Go[d] \in T PROVE d \in T
  <2>1. /\ Lists(Emit[d], Here[d]) /\ Want[d] = Here[d] \cup Want[Go[d]]
        /\ \A x \in Here[d], y \in Want[Go[d]] : x < y
    BY <1>3 DEF Wanted
  <2>2. Lists(f[Go[d]], Want[Go[d]])
    BY <1>3
  <2>3. CASE Emit[d] = <<>>
    <3>1. f[d] = f[Go[d]]
      BY <1>1, <1>3, <2>3 DEF ScanStep
    <3>2. Here[d] = {}
      <4>1. ToSet(<<>>) = {}
        BY ListsNothing DEF Lists
      <4> QED BY <2>1, <2>3, <4>1 DEF Lists
    <3>3. Want[d] = Want[Go[d]]
      BY <2>1, <3>2
    <3> QED BY <2>2, <3>1, <3>3
  <2>4. CASE Emit[d] # <<>>
    <3>1. f[d] = Emit[d] \o f[Go[d]]
      BY <1>1, <1>3, <2>4, Zenon DEF ScanStep
    <3>2. Lists(Emit[d] \o f[Go[d]], Here[d] \cup Want[Go[d]])
      BY <2>1, <2>2, ListsBoth
    <3> QED BY <2>1, <3>1, <3>2
  <2> QED BY <2>3, <2>4
<1>4. \A d \in D : d \in T
  <2> HIDE DEF T
  <2> QED BY <1>2, <1>3, DescentInduct
<1> QED BY <1>4

-----------------------------------------------------------------------------
(* What is left of a list *)

LEMMA RestIs ==
    ASSUME NEW s \in Seq(Nat), Increasing(s), NEW i \in Nat, i >= 1
    PROVE  /\ i > Len(s) => Rest(s, i) = {}
           /\ i <= Len(s) => /\ s[i] \in Nat
                             /\ Rest(s, i) = {s[i]} \cup Rest(s, i + 1)
                             /\ \A x \in Rest(s, i + 1) : s[i] < x
           /\ Rest(s, i) \subseteq Nat
           /\ Rest(s, 1) = ToSet(s)
<1>1. Len(s) \in Nat /\ DOMAIN s = 1 .. Len(s) /\ \A k \in 1 .. Len(s) : s[k] \in Nat
  OBVIOUS
<1>2. i > Len(s) => Rest(s, i) = {}
  <2> SUFFICES ASSUME i > Len(s) PROVE Rest(s, i) = {}
    OBVIOUS
  <2>1. i .. Len(s) = {}
    BY <1>1
  <2> QED BY <2>1 DEF Rest
<1>3. ASSUME i <= Len(s)
      PROVE  s[i] \in Nat /\ Rest(s, i) = {s[i]} \cup Rest(s, i + 1) /\ \A x \in Rest(s, i + 1) : s[i] < x
  <2>1. i .. Len(s) = {i} \cup ((i + 1) .. Len(s))
    BY <1>1, <1>3
  <2>2. Rest(s, i) = {s[i]} \cup Rest(s, i + 1)
    BY <2>1, Zenon DEF Rest
  <2>3. ASSUME NEW x \in Rest(s, i + 1) PROVE s[i] < x
    <3>1. PICK k \in (i + 1) .. Len(s) : x = s[k]
      BY <2>3 DEF Rest
    <3>2. i \in DOMAIN s /\ k \in DOMAIN s /\ i < k
      BY <1>1, <1>3
    <3> QED BY <3>1, <3>2 DEF Increasing
  <2> QED BY <1>1, <1>3, <2>2, <2>3
<1>4. Rest(s, i) \subseteq Nat
  <2>1. \A k \in i .. Len(s) : k \in 1 .. Len(s)
    BY <1>1
  <2> QED BY <1>1, <2>1 DEF Rest
<1>5. Rest(s, 1) = ToSet(s)
  BY <1>1, Zenon DEF Rest, ToSet
<1> QED BY <1>2, <1>3, <1>4, <1>5

Below(s, i, k, v) == \A m \in i .. k - 1 : s[m] < v

\* What is below v may be passed when v is looked for.
LEMMA RestPast ==
    ASSUME NEW s \in Seq(Nat), NEW i \in Nat, NEW k \in Nat, 1 <= i, i <= k, NEW v \in Nat, Below(s, i, k, v)
    PROVE  /\ Rest(s, k) \subseteq Rest(s, i)
           /\ \A x \in Rest(s, i) : x >= v => x \in Rest(s, k)
<1>1. Len(s) \in Nat /\ \A m \in 1 .. Len(s) : s[m] \in Nat
  OBVIOUS
<1>2. \A m \in k .. Len(s) : m \in i .. Len(s)
  BY <1>1
<1>3. Rest(s, k) \subseteq Rest(s, i)
  BY <1>2, Zenon DEF Rest
<1>4. ASSUME NEW x \in Rest(s, i), x >= v PROVE x \in Rest(s, k)
  <2>1. PICK m \in i .. Len(s) : x = s[m]
    BY DEF Rest
  <2>2. m \in 1 .. Len(s) /\ s[m] \in Nat
    BY <1>1, <2>1
  <2>3. ~ (m \in i .. k - 1)
    BY <1>4, <2>1, <2>2 DEF Below
  <2>4. m \in k .. Len(s)
    BY <1>1, <2>1, <2>3
  <2> QED BY <2>1, <2>4, Zenon DEF Rest
<1> QED BY <1>3, <1>4

LEMMA HeadsAre ==
    ASSUME NEW a \in Seq(Nat), NEW b \in Seq(Nat)
    PROVE  /\ \A d \in Heads(a, b) : /\ d[1] \in Nat /\ 1 <= d[1] /\ d[1] <= Len(a) + 1
                                     /\ d[2] \in Nat /\ 1 <= d[2] /\ d[2] <= Len(b) + 1
                                     /\ d = <<d[1], d[2]>>
           /\ \A i, j \in Nat : 1 <= i /\ i <= Len(a) + 1 /\ 1 <= j /\ j <= Len(b) + 1
                                    => <<i, j>> \in Heads(a, b)
<1>1. Len(a) \in Nat /\ Len(b) \in Nat
  OBVIOUS
<1> QED BY <1>1 DEF Heads

-----------------------------------------------------------------------------
(* Two lists read together *)

BothEnd(a, b) == {d \in Heads(a, b) : d[1] > Len(a) \/ d[2] > Len(b)}
Left(a, b) == [d \in Heads(a, b) |-> (Len(a) + 1 - d[1]) + (Len(b) + 1 - d[2])]
Nothing(a, b) == [d \in Heads(a, b) |-> <<>>]
Common(a, b) ==
    [d \in Heads(a, b) |-> IF d \notin BothEnd(a, b) /\ a[d[1]] = b[d[2]] THEN <<a[d[1]]>> ELSE <<>>]
CommonHere(a, b) ==
    [d \in Heads(a, b) |-> IF d \notin BothEnd(a, b) /\ a[d[1]] = b[d[2]] THEN {a[d[1]]} ELSE {}]
InBoth(a, b) == [d \in Heads(a, b) |-> Rest(a, d[1]) \cap Rest(b, d[2])]

\* Past equal heads on both sides, else past what is below the larger head.
Advances(a, b, i, j, k, l) ==
    /\ a[i] = b[j] => k = i + 1 /\ l = j + 1
    /\ a[i] < b[j] => l = j /\ k \in Nat /\ i < k /\ k <= Len(a) + 1 /\ Below(a, i, k, b[j])
    /\ b[j] < a[i] => k = i /\ l \in Nat /\ j < l /\ l <= Len(b) + 1 /\ Below(b, j, l, a[i])

Shared(a, b, i, j) == IF a[i] = b[j] THEN {a[i]} ELSE {}

\* Nothing that is shared is passed but what is taken, and that is below the rest.
Keeps(a, b, i, j, k, l) ==
    /\ i + j < k + l
    /\ Rest(a, i) \cap Rest(b, j) = Shared(a, b, i, j) \cup (Rest(a, k) \cap Rest(b, l))
    /\ \A x \in Shared(a, b, i, j), y \in Rest(a, k) \cap Rest(b, l) : x < y

LEMMA AdvanceKeeps ==
    ASSUME NEW a \in Seq(Nat), NEW b \in Seq(Nat), Increasing(a), Increasing(b),
           NEW i \in Nat, NEW j \in Nat, 1 <= i, i <= Len(a), 1 <= j, j <= Len(b),
           NEW k, NEW l, Advances(a, b, i, j, k, l)
    PROVE  /\ k \in Nat /\ l \in Nat /\ 1 <= k /\ k <= Len(a) + 1 /\ 1 <= l /\ l <= Len(b) + 1
           /\ Keeps(a, b, i, j, k, l)
<1>1. Len(a) \in Nat /\ Len(b) \in Nat /\ a[i] \in Nat /\ b[j] \in Nat
  OBVIOUS
<1>2. /\ Rest(a, i) = {a[i]} \cup Rest(a, i + 1) /\ \A x \in Rest(a, i + 1) : a[i] < x
      /\ Rest(b, j) = {b[j]} \cup Rest(b, j + 1) /\ \A x \in Rest(b, j + 1) : b[j] < x
      /\ Rest(a, i) \subseteq Nat /\ Rest(b, j) \subseteq Nat
  BY RestIs
<1>3. CASE a[i] = b[j]
  <2>1. k = i + 1 /\ l = j + 1
    BY <1>3 DEF Advances
  <2>2. Rest(a, i) \cap Rest(b, j) = {a[i]} \cup (Rest(a, i + 1) \cap Rest(b, j + 1))
    <3>1. a[i] \notin Rest(a, i + 1)
      BY <1>1, <1>2
    <3>2. b[j] \notin Rest(b, j + 1)
      BY <1>1, <1>2
    <3> QED BY <1>2, <1>3, <3>1, <3>2, Zenon
  <2> QED BY <1>1, <1>2, <1>3, <2>1, <2>2 DEF Shared, Keeps
<1>4. CASE a[i] < b[j]
  <2>1. l = j /\ k \in Nat /\ i < k /\ k <= Len(a) + 1 /\ Below(a, i, k, b[j])
    BY <1>4 DEF Advances
  <2>2. /\ Rest(a, k) \subseteq Rest(a, i)
        /\ \A x \in Rest(a, i) : x >= b[j] => x \in Rest(a, k)
    <3>1. i <= k
      BY <2>1
    <3> QED BY <1>1, <2>1, <3>1, RestPast, Zenon
  <2>3. \A x \in Rest(b, j) : x >= b[j]
    BY <1>1, <1>2
  <2>4. Rest(a, i) \cap Rest(b, j) = Rest(a, k) \cap Rest(b, j)
    BY <2>2, <2>3
  <2>5. a[i] # b[j]
    BY <1>1, <1>4
  <2>6. 1 <= k /\ i + j < k + l
    BY <2>1
  <2> QED BY <1>1, <2>1, <2>4, <2>5, <2>6 DEF Shared, Keeps
<1>5. CASE b[j] < a[i]
  <2>1. k = i /\ l \in Nat /\ j < l /\ l <= Len(b) + 1 /\ Below(b, j, l, a[i])
    BY <1>5 DEF Advances
  <2>2. /\ Rest(b, l) \subseteq Rest(b, j)
        /\ \A x \in Rest(b, j) : x >= a[i] => x \in Rest(b, l)
    <3>1. j <= l
      BY <2>1
    <3> QED BY <1>1, <2>1, <3>1, RestPast, Zenon
  <2>3. \A x \in Rest(a, i) : x >= a[i]
    BY <1>1, <1>2
  <2>4. Rest(a, i) \cap Rest(b, j) = Rest(a, i) \cap Rest(b, l)
    BY <2>2, <2>3
  <2>5. a[i] # b[j]
    BY <1>1, <1>5
  <2>6. 1 <= l /\ i + j < k + l
    BY <2>1
  <2> QED BY <1>1, <2>1, <2>4, <2>5, <2>6 DEF Shared, Keeps
<1>6. a[i] = b[j] \/ a[i] < b[j] \/ b[j] < a[i]
  BY <1>1, Compared
<1> QED BY <1>3, <1>4, <1>5, <1>6, Zenon

\* What is left of both lists gets less.
LEMMA LeftDescends ==
    ASSUME NEW a \in Seq(Nat), NEW b \in Seq(Nat), NEW Stop, NEW Go \in [Heads(a, b) -> Heads(a, b)],
           \A d \in Heads(a, b) : d \notin Stop => d[1] + d[2] < Go[d][1] + Go[d][2]
    PROVE  Descends(Heads(a, b), (Len(a) + 1) + (Len(b) + 1), Left(a, b), Stop, Go)
<1> DEFINE D == Heads(a, b)
           Rank == Left(a, b)
           N == (Len(a) + 1) + (Len(b) + 1)
<1>1. Len(a) \in Nat /\ Len(b) \in Nat
  OBVIOUS
<1>2. \A d \in D : /\ d[1] \in Nat /\ 1 <= d[1] /\ d[1] <= Len(a) + 1
                   /\ d[2] \in Nat /\ 1 <= d[2] /\ d[2] <= Len(b) + 1
  BY HeadsAre
<1>3. \A d \in D : Rank[d] = (Len(a) + 1 - d[1]) + (Len(b) + 1 - d[2])
  BY DEF Left
<1>4. Rank = [d \in D |-> Rank[d]]
  BY DEF Left
<1>5. \A d \in D : Go[d] \in D
  OBVIOUS
<1>6. N \in Nat /\ N = (Len(a) + 1) + (Len(b) + 1)
  BY <1>1
<1>7. Go \in [D -> D]
  OBVIOUS
<1> HIDE DEF D, Rank, N
<1>8. ASSUME NEW d \in D PROVE Rank[d] \in 0 .. N
  <2>1. PICK i : i = d[1]
    OBVIOUS
  <2>2. PICK j : j = d[2]
    OBVIOUS
  <2>3. /\ i \in Nat /\ 1 <= i /\ i <= Len(a) + 1 /\ j \in Nat /\ 1 <= j /\ j <= Len(b) + 1
        /\ Rank[d] = (Len(a) + 1 - i) + (Len(b) + 1 - j)
    BY <1>2, <1>3, <2>1, <2>2
  <2> QED BY <1>1, <1>6, <2>3
<1>9. Rank \in [D -> 0 .. N]
  BY <1>4, <1>8
<1>10. ASSUME NEW d \in D, d \notin Stop PROVE Rank[Go[d]] < Rank[d]
  <2>1. PICK e : e = Go[d]
    OBVIOUS
  <2>2. PICK i \in Nat, j \in Nat : i = d[1] /\ j = d[2]
    BY <1>2
  <2>3. PICK k \in Nat, l \in Nat : k = e[1] /\ l = e[2]
    BY <1>2, <1>5, <2>1
  <2>4. /\ Rank[d] = (Len(a) + 1 - i) + (Len(b) + 1 - j)
        /\ Rank[e] = (Len(a) + 1 - k) + (Len(b) + 1 - l)
    BY <1>3, <1>5, <2>1, <2>2, <2>3
  <2>5. i + j < k + l
    BY <1>10, <2>1, <2>2, <2>3 DEF D
  <2>6. Rank[e] < Rank[d]
    BY <1>1, <2>4, <2>5
  <2> QED BY <2>1, <2>6
<1>11. Descends(D, N, Rank, Stop, Go)
  BY <1>6, <1>7, <1>9, <1>10 DEF Descends
<1> QED BY <1>11 DEF D, Rank, N

\* Any way of advancing comes to what the two lists share.
LEMMA BothLists ==
    ASSUME NEW a, NEW b, NEW A, NEW B, Lists(a, A), Lists(b, B), NEW Go \in [Heads(a, b) -> Heads(a, b)],
           \A d \in Heads(a, b) : d \notin BothEnd(a, b) => Advances(a, b, d[1], d[2], Go[d][1], Go[d][2])
    PROVE  /\ \E f : IsScan(Heads(a, b), BothEnd(a, b), Nothing(a, b), Common(a, b), Go, f)
           /\ \A f : IsScan(Heads(a, b), BothEnd(a, b), Nothing(a, b), Common(a, b), Go, f)
                        => Lists(f[<<1, 1>>], A \cap B)
<1> DEFINE D == Heads(a, b)
           Stop == BothEnd(a, b)
           Base == Nothing(a, b)
           Emit == Common(a, b)
           Here == CommonHere(a, b)
           Want == InBoth(a, b)
           Rank == Left(a, b)
           N == (Len(a) + 1) + (Len(b) + 1)
<1>1. a \in Seq(Nat) /\ b \in Seq(Nat) /\ Increasing(a) /\ Increasing(b) /\ ToSet(a) = A /\ ToSet(b) = B
  BY DEF Lists
<1>2. Len(a) \in Nat /\ Len(b) \in Nat
  BY <1>1
<1>3. \A d \in D : /\ d[1] \in Nat /\ 1 <= d[1] /\ d[1] <= Len(a) + 1
                   /\ d[2] \in Nat /\ 1 <= d[2] /\ d[2] <= Len(b) + 1
  BY <1>1, HeadsAre
<1>4. \A d \in D : /\ d \notin Stop => d[1] <= Len(a) /\ d[2] <= Len(b)
                   /\ d \in Stop => d[1] > Len(a) \/ d[2] > Len(b)
  BY <1>2, <1>3 DEF BothEnd
<1>6. \A d \in D : /\ Base[d] = <<>> /\ Want[d] = Rest(a, d[1]) \cap Rest(b, d[2])
                   /\ Emit[d] = IF d \notin Stop /\ a[d[1]] = b[d[2]] THEN <<a[d[1]]>> ELSE <<>>
                   /\ Here[d] = IF d \notin Stop /\ a[d[1]] = b[d[2]] THEN {a[d[1]]} ELSE {}
  BY DEF Nothing, InBoth, Common, CommonHere
<1>7. \A d \in D : Go[d] \in D
  OBVIOUS
<1>8. \A d \in D : d \notin Stop => a[d[1]] \in Nat
  BY <1>1, <1>3, <1>4
<1>9. ASSUME NEW d \in D, d \notin Stop
      PROVE  /\ d[1] + d[2] < Go[d][1] + Go[d][2]
             /\ Want[d] = Here[d] \cup Want[Go[d]]
             /\ \A x \in Here[d], y \in Want[Go[d]] : x < y
  <2>1. PICK i : i = d[1]
    OBVIOUS
  <2>2. PICK j : j = d[2]
    OBVIOUS
  <2>3. PICK k : k = Go[d][1]
    OBVIOUS
  <2>4. PICK l : l = Go[d][2]
    OBVIOUS
  <2>5. /\ i \in Nat /\ j \in Nat /\ 1 <= i /\ i <= Len(a) /\ 1 <= j /\ j <= Len(b)
        /\ Advances(a, b, i, j, k, l)
    BY <1>3, <1>4, <1>9, <2>1, <2>2, <2>3, <2>4
  <2>6. /\ i + j < k + l
        /\ Rest(a, i) \cap Rest(b, j) = Shared(a, b, i, j) \cup (Rest(a, k) \cap Rest(b, l))
        /\ \A x \in Shared(a, b, i, j), y \in Rest(a, k) \cap Rest(b, l) : x < y
    <3>1. Keeps(a, b, i, j, k, l)
      BY <1>1, <2>5, AdvanceKeeps
    <3> QED BY <3>1 DEF Keeps
  <2>7. /\ Want[d] = Rest(a, i) \cap Rest(b, j) /\ Want[Go[d]] = Rest(a, k) \cap Rest(b, l)
        /\ Here[d] = Shared(a, b, i, j)
    BY <1>6, <1>7, <1>9, <2>1, <2>2, <2>3, <2>4 DEF Shared
  <2> HIDE DEF D, Stop, Want, Here
  <2> QED BY <2>1, <2>2, <2>3, <2>4, <2>6, <2>7
<1>10. Emit \in [D -> Seq(Nat)] /\ Base \in [D -> Seq(Nat)]
  <2> HIDE DEF D, Stop
  <2>1. ASSUME NEW d \in D PROVE Emit[d] \in Seq(Nat) /\ Base[d] \in Seq(Nat)
    <3>1. <<>> \in Seq(Nat) /\ \A x \in Nat : <<x>> \in Seq(Nat)
      OBVIOUS
    <3> HIDE DEF Emit, Base
    <3>2. Emit[d] = <<>> \/ (a[d[1]] \in Nat /\ Emit[d] = <<a[d[1]]>>)
      BY <1>6, <1>8
    <3> QED BY <1>6, <3>1, <3>2
  <2>2. Emit = [d \in D |-> Emit[d]] /\ Base = [d \in D |-> Base[d]]
    BY DEF Common, Nothing, D
  <2> HIDE DEF Emit, Base
  <2> QED BY <2>1, <2>2
<1> HIDE DEF D, Stop, Base, Emit, Here, Want, Rank, N
<1>12. Descends(D, N, Rank, Stop, Go)
  <2>1. \A d \in D : d \notin Stop => d[1] + d[2] < Go[d][1] + Go[d][2]
    BY <1>9
  <2> QED BY <1>1, <2>1, LeftDescends DEF D, N, Rank
<1>13. \E f : IsScan(D, Stop, Base, Emit, Go, f)
  BY <1>10, <1>12, ScanExists
<1>14. ASSUME NEW f, IsScan(D, Stop, Base, Emit, Go, f) PROVE Lists(f[<<1, 1>>], A \cap B)
  <2>1. ASSUME NEW d \in D, d \in Stop PROVE Lists(Base[d], Want[d])
    <3>1. Rest(a, d[1]) = {} \/ Rest(b, d[2]) = {}
      BY <1>1, <1>3, <1>4, <2>1, RestIs
    <3>2. Base[d] = <<>> /\ Want[d] = {}
      BY <1>6, <3>1
    <3> QED BY <3>2, ListsNothing
  <2>2. ASSUME NEW d \in D, d \notin Stop PROVE Lists(Emit[d], Here[d])
    <3>1. CASE a[d[1]] = b[d[2]]
      <4>1. Emit[d] = <<a[d[1]]>> /\ Here[d] = {a[d[1]]} /\ a[d[1]] \in Nat
        BY <1>6, <1>8, <2>2, <3>1
      <4> QED BY <4>1, ListsOne
    <3>2. CASE a[d[1]] # b[d[2]]
      <4>1. Emit[d] = <<>> /\ Here[d] = {}
        BY <1>6, <3>2
      <4> QED BY <4>1, ListsNothing
    <3> QED BY <3>1, <3>2
  <2>3. \A d \in D : Lists(f[d], Want[d])
    <3>1. Wanted(D, Stop, Base, Emit, Go, Want, Here)
      BY <1>9, <2>1, <2>2 DEF Wanted
    <3> QED BY <1>12, <1>14, <3>1, ScanLists
  <2>4. <<1, 1>> \in D
    <3>1. 1 \in Nat /\ 1 <= 1 /\ 1 <= Len(a) + 1 /\ 1 <= Len(b) + 1
      BY <1>2
    <3> QED BY <1>1, <3>1, HeadsAre DEF D
  <2>5. Want[<<1, 1>>] = A \cap B
    <3>1. Rest(a, 1) = A /\ Rest(b, 1) = B
      BY <1>1, RestIs
    <3> QED BY <1>6, <2>4, <3>1
  <2> QED BY <2>3, <2>4, <2>5
<1> QED BY <1>13, <1>14 DEF D, Stop, Base, Emit

-----------------------------------------------------------------------------
(* intersect_merge *)

\* The next heads: past the smaller one, or past both.
MergeNext(a, b, at) ==
    <<IF a[at[1]] <= b[at[2]] THEN at[1] + 1 ELSE at[1], IF a[at[1]] >= b[at[2]] THEN at[2] + 1 ELSE at[2]>>

MergeGo(a, b) == [d \in Heads(a, b) |-> IF d \in BothEnd(a, b) THEN d ELSE MergeNext(a, b, d)]

MergeStep(a, b, from, at) ==
    LET i == at[1]
        j == at[2] IN
    IF i > Len(a) \/ j > Len(b) THEN <<>>
    ELSE LET rest == from[<<IF a[i] <= b[j] THEN i + 1 ELSE i,
                            IF a[i] >= b[j] THEN j + 1 ELSE j>>] IN
         IF a[i] = b[j] THEN <<a[i]>> \o rest ELSE rest

IsMerge(a, b, from) == from = [at \in Heads(a, b) |-> MergeStep(a, b, from, at)]
MergeTable(a, b) == CHOOSE from : IsMerge(a, b, from)

LEMMA MergeNextIs ==
    ASSUME NEW a \in Seq(Nat), NEW b \in Seq(Nat), NEW d \in Heads(a, b), d \notin BothEnd(a, b)
    PROVE  /\ MergeNext(a, b, d) \in Heads(a, b)
           /\ MergeGo(a, b)[d] = MergeNext(a, b, d)
           /\ MergeNext(a, b, d)[1] = IF a[d[1]] <= b[d[2]] THEN d[1] + 1 ELSE d[1]
           /\ MergeNext(a, b, d)[2] = IF a[d[1]] >= b[d[2]] THEN d[2] + 1 ELSE d[2]
           /\ d[1] \in Nat /\ 1 <= d[1] /\ d[1] <= Len(a)
           /\ d[2] \in Nat /\ 1 <= d[2] /\ d[2] <= Len(b)
           /\ a[d[1]] \in Nat /\ b[d[2]] \in Nat
<1>1. PICK i \in Nat, j \in Nat : /\ i = d[1] /\ j = d[2] /\ 1 <= i /\ i <= Len(a) + 1
                                  /\ 1 <= j /\ j <= Len(b) + 1
  BY HeadsAre
<1>2. Len(a) \in Nat /\ Len(b) \in Nat
  OBVIOUS
<1>3. i <= Len(a) /\ j <= Len(b)
  BY <1>1, <1>2 DEF BothEnd
<1>4. a[i] \in Nat /\ b[j] \in Nat
  <2>1. (\A m \in 1 .. Len(a) : a[m] \in Nat) /\ \A m \in 1 .. Len(b) : b[m] \in Nat
    OBVIOUS
  <2>2. i \in 1 .. Len(a) /\ j \in 1 .. Len(b)
    BY <1>1, <1>2, <1>3
  <2> QED BY <2>1, <2>2
<1> DEFINE k == IF a[i] <= b[j] THEN i + 1 ELSE i
           l == IF a[i] >= b[j] THEN j + 1 ELSE j
<1>5. k \in Nat /\ l \in Nat /\ 1 <= k /\ k <= Len(a) + 1 /\ 1 <= l /\ l <= Len(b) + 1
  <2>1. (k = i \/ k = i + 1) /\ (l = j \/ l = j + 1)
    OBVIOUS
  <2> HIDE DEF k, l
  <2>2. /\ i + 1 \in Nat /\ 1 <= i + 1 /\ i + 1 <= Len(a) + 1 /\ i <= Len(a) + 1
        /\ j + 1 \in Nat /\ 1 <= j + 1 /\ j + 1 <= Len(b) + 1 /\ j <= Len(b) + 1
    BY <1>1, <1>2, <1>3, OneOn
  <2> QED BY <1>1, <2>1, <2>2
<1>6. MergeNext(a, b, d) = <<k, l>>
  BY <1>1, Zenon DEF MergeNext
<1>7. MergeGo(a, b)[d] = MergeNext(a, b, d)
  BY Zenon DEF MergeGo
<1> HIDE DEF k, l
<1>8. <<k, l>> \in Heads(a, b)
  BY <1>5, HeadsAre
<1>9. <<k, l>>[1] = k /\ <<k, l>>[2] = l
  OBVIOUS
<1> QED BY <1>1, <1>3, <1>4, <1>6, <1>7, <1>8, <1>9 DEF k, l

LEMMA MergeGoIs ==
    ASSUME NEW a \in Seq(Nat), NEW b \in Seq(Nat)
    PROVE  MergeGo(a, b) \in [Heads(a, b) -> Heads(a, b)]
<1>1. \A d \in Heads(a, b) : d \notin BothEnd(a, b) => MergeNext(a, b, d) \in Heads(a, b)
  BY MergeNextIs
<1> QED BY <1>1 DEF MergeGo

LEMMA MergeAdvances ==
    ASSUME NEW a \in Seq(Nat), NEW b \in Seq(Nat), NEW d \in Heads(a, b), d \notin BothEnd(a, b)
    PROVE  Advances(a, b, d[1], d[2], MergeGo(a, b)[d][1], MergeGo(a, b)[d][2])
<1>1. PICK i \in Nat, j \in Nat :
          /\ i = d[1] /\ j = d[2] /\ 1 <= i /\ i <= Len(a) /\ 1 <= j /\ j <= Len(b)
          /\ a[i] \in Nat /\ b[j] \in Nat
  <2>1. /\ d[1] \in Nat /\ 1 <= d[1] /\ d[1] <= Len(a) /\ a[d[1]] \in Nat
        /\ d[2] \in Nat /\ 1 <= d[2] /\ d[2] <= Len(b) /\ b[d[2]] \in Nat
    BY MergeNextIs
  <2> QED BY <2>1
<1>2. PICK k, l : k = MergeGo(a, b)[d][1] /\ l = MergeGo(a, b)[d][2]
  OBVIOUS
<1>3. \A m \in i .. (i + 1) - 1 : m = i
  OBVIOUS
<1>4. \A m \in j .. (j + 1) - 1 : m = j
  OBVIOUS
<1>5. Len(a) \in Nat /\ Len(b) \in Nat
  OBVIOUS
<1>6. /\ a[i] <= b[j] => k = i + 1
      /\ ~ (a[i] <= b[j]) => k = i
      /\ a[i] >= b[j] => l = j + 1
      /\ ~ (a[i] >= b[j]) => l = j
  <2>1. /\ MergeGo(a, b)[d] = MergeNext(a, b, d)
        /\ MergeNext(a, b, d)[1] = IF a[d[1]] <= b[d[2]] THEN d[1] + 1 ELSE d[1]
        /\ MergeNext(a, b, d)[2] = IF a[d[1]] >= b[d[2]] THEN d[2] + 1 ELSE d[2]
    BY MergeNextIs
  <2>2. k = (IF a[i] <= b[j] THEN i + 1 ELSE i) /\ l = IF a[i] >= b[j] THEN j + 1 ELSE j
    BY <1>1, <1>2, <2>1, Zenon
  <2> QED BY <2>2
<1>7. Advances(a, b, i, j, k, l)
  <2>1. ASSUME a[i] = b[j] PROVE k = i + 1 /\ l = j + 1
    <3>1. a[i] <= b[j] /\ a[i] >= b[j]
      BY <1>1, <2>1, Compared
    <3> QED BY <1>6, <3>1, Zenon
  <2>4. i + 1 \in Nat /\ i < i + 1 /\ i + 1 <= Len(a) + 1 /\ j + 1 \in Nat /\ j < j + 1 /\ j + 1 <= Len(b) + 1
    BY <1>1, <1>5, OneOn
  <2>2. ASSUME a[i] < b[j] PROVE k = i + 1 /\ l = j /\ Below(a, i, k, b[j])
    <3>1. a[i] <= b[j] /\ ~ (a[i] >= b[j])
      BY <1>1, <2>2, Compared
    <3>2. k = i + 1 /\ l = j
      BY <1>6, <3>1, Zenon
    <3> QED BY <1>3, <2>2, <3>2 DEF Below
  <2>3. ASSUME b[j] < a[i] PROVE k = i /\ l = j + 1 /\ Below(b, j, l, a[i])
    <3>1. ~ (a[i] <= b[j]) /\ a[i] >= b[j]
      BY <1>1, <2>3, Compared
    <3>2. k = i /\ l = j + 1
      BY <1>6, <3>1, Zenon
    <3> QED BY <1>4, <2>3, <3>2 DEF Below
  <2> QED BY <2>1, <2>2, <2>3, <2>4 DEF Advances
<1> QED BY <1>1, <1>2, <1>7

LEMMA MergeIsScan ==
    ASSUME NEW a \in Seq(Nat), NEW b \in Seq(Nat), NEW f
    PROVE  IsMerge(a, b, f)
             <=> IsScan(Heads(a, b), BothEnd(a, b), Nothing(a, b), Common(a, b), MergeGo(a, b), f)
<1> DEFINE D == Heads(a, b)
           Scan(d) == ScanStep(BothEnd(a, b), Nothing(a, b), Common(a, b), MergeGo(a, b), f, d)
<1>1. ASSUME NEW d \in D PROVE MergeStep(a, b, f, d) = Scan(d)
  <2>1. CASE d \in BothEnd(a, b)
    <3>1. d[1] > Len(a) \/ d[2] > Len(b)
      BY <2>1 DEF BothEnd
    <3>2. Scan(d) = <<>>
      BY <2>1, Zenon DEF ScanStep, Nothing
    <3> QED BY <3>1, <3>2, Zenon DEF MergeStep
  <2>2. CASE d \notin BothEnd(a, b)
    <3>1. ~ (d[1] > Len(a) \/ d[2] > Len(b))
      BY <2>2 DEF BothEnd
    <3>2. MergeGo(a, b)[d] = MergeNext(a, b, d)
      BY <2>2, MergeNextIs
    <3>3. MergeStep(a, b, f, d) =
             IF a[d[1]] = b[d[2]] THEN <<a[d[1]]>> \o f[MergeNext(a, b, d)] ELSE f[MergeNext(a, b, d)]
      BY <3>1, Zenon DEF MergeStep, MergeNext
    <3>4. Scan(d) = IF Common(a, b)[d] = <<>> THEN f[MergeNext(a, b, d)]
                    ELSE Common(a, b)[d] \o f[MergeNext(a, b, d)]
      BY <2>2, <3>2, Zenon DEF ScanStep
    <3>5. Common(a, b)[d] = IF a[d[1]] = b[d[2]] THEN <<a[d[1]]>> ELSE <<>>
      BY <2>2, Zenon DEF Common
    <3>6. <<a[d[1]]>> # <<>>
      OBVIOUS
    <3>7. CASE a[d[1]] = b[d[2]]
      <4>1. Common(a, b)[d] = <<a[d[1]]>> /\ Common(a, b)[d] # <<>>
        BY <3>5, <3>6, <3>7
      <4> QED BY <3>3, <3>4, <3>7, <4>1, Zenon
    <3>8. CASE a[d[1]] # b[d[2]]
      <4>1. Common(a, b)[d] = <<>>
        BY <3>5, <3>8
      <4> QED BY <3>3, <3>4, <3>8, <4>1, Zenon
    <3> QED BY <3>7, <3>8
  <2> QED BY <2>1, <2>2
<1>2. [d \in D |-> MergeStep(a, b, f, d)] = [d \in D |-> Scan(d)]
  BY <1>1, Zenon
<1> QED BY <1>2, Zenon DEF IsMerge, IsScan

LEMMA MergeLists ==
    ASSUME NEW a, NEW b, NEW A, NEW B, Lists(a, A), Lists(b, B)
    PROVE  Lists(IntersectMerge(a, b), A \cap B)
<1>1. a \in Seq(Nat) /\ b \in Seq(Nat)
  BY DEF Lists
<1>2. \A d \in Heads(a, b) : d \notin BothEnd(a, b)
          => Advances(a, b, d[1], d[2], MergeGo(a, b)[d][1], MergeGo(a, b)[d][2])
  BY <1>1, MergeAdvances
<1>3. MergeGo(a, b) \in [Heads(a, b) -> Heads(a, b)]
  BY <1>1, MergeGoIs
<1>4. /\ \E f : IsMerge(a, b, f)
      /\ \A f : IsMerge(a, b, f) => Lists(f[<<1, 1>>], A \cap B)
  BY <1>1, <1>2, <1>3, BothLists, MergeIsScan
<1>5. IsMerge(a, b, MergeTable(a, b))
  BY <1>4, Zenon DEF MergeTable
<1>6. IntersectMerge(a, b) = MergeTable(a, b)[<<1, 1>>]
  BY DEF IntersectMerge, MergeTable, IsMerge, MergeStep
<1> QED BY <1>4, <1>5, <1>6

-----------------------------------------------------------------------------
(* intersect_two_iters *)

ItersNext(a, b, at) ==
    IF a[at[1]] = b[at[2]] THEN <<at[1] + 1, at[2] + 1>>
    ELSE IF a[at[1]] < b[at[2]] THEN <<AdvanceTo(a, at[1], b[at[2]]), at[2]>>
         ELSE <<at[1], AdvanceTo(b, at[2], a[at[1]])>>

ItersGo(a, b) == [d \in Heads(a, b) |-> IF d \in BothEnd(a, b) THEN d ELSE ItersNext(a, b, d)]

ItersStep(a, b, from, at) ==
    LET i == at[1]
        j == at[2] IN
    IF i > Len(a) \/ j > Len(b) THEN <<>>
    ELSE IF a[i] = b[j] THEN <<a[i]>> \o from[<<i + 1, j + 1>>]
         ELSE IF a[i] < b[j] THEN from[<<AdvanceTo(a, i, b[j]), j>>]
              ELSE from[<<i, AdvanceTo(b, j, a[i])>>]

IsIters(a, b, from) == from = [at \in Heads(a, b) |-> ItersStep(a, b, from, at)]
ItersTable(a, b) == CHOOSE from : IsIters(a, b, from)

LEMMA AdvanceToIs ==
    ASSUME NEW s \in Seq(Nat), NEW i \in Nat, 1 <= i, i <= Len(s), NEW v \in Nat, s[i] < v
    PROVE  LET k == AdvanceTo(s, i, v) IN
           k \in Nat /\ i < k /\ k <= Len(s) + 1 /\ Below(s, i, k, v)
<1> DEFINE T == {k \in i .. Len(s) : s[k] >= v} \cup {Len(s) + 1}
           k == AdvanceTo(s, i, v)
<1>1. Len(s) \in Nat /\ \A m \in 1 .. Len(s) : s[m] \in Nat
  OBVIOUS
<1>2. T \subseteq Nat /\ T # {}
  BY <1>1
<1>3. k = Min(T)
  BY DEF AdvanceTo
<1> HIDE DEF k
<1>4. k \in T /\ \A n \in T : k <= n
  <2> HIDE DEF T
  <2> QED BY <1>2, <1>3, LeastIs
<1>5. k \in Nat /\ k <= Len(s) + 1 /\ k >= i
  BY <1>1, <1>4
<1>6. k # i
  BY <1>1, <1>4
<1>7. ASSUME NEW m \in i .. k - 1 PROVE s[m] < v
  <2>1. m \in i .. Len(s) /\ m \in 1 .. Len(s) /\ m < k
    BY <1>1, <1>5
  <2>2. m \notin T
    BY <1>4, <1>5, <2>1
  <2> QED BY <1>1, <2>1, <2>2
<1>8. k \in Nat /\ i < k /\ k <= Len(s) + 1 /\ Below(s, i, k, v)
  BY <1>5, <1>6, <1>7 DEF Below
<1> QED BY <1>8 DEF k

\* The heads that intersect_two_iters reads next.
LEMMA ItersNextIs ==
    ASSUME NEW a \in Seq(Nat), NEW b \in Seq(Nat), NEW d \in Heads(a, b), d \notin BothEnd(a, b)
    PROVE  /\ ItersNext(a, b, d) \in Heads(a, b)
           /\ ItersGo(a, b)[d] = ItersNext(a, b, d)
           /\ Advances(a, b, d[1], d[2], ItersNext(a, b, d)[1], ItersNext(a, b, d)[2])
<1>1. PICK i \in Nat, j \in Nat :
          /\ i = d[1] /\ j = d[2] /\ 1 <= i /\ i <= Len(a) /\ 1 <= j /\ j <= Len(b)
          /\ a[i] \in Nat /\ b[j] \in Nat
  <2>1. /\ d[1] \in Nat /\ 1 <= d[1] /\ d[1] <= Len(a) /\ a[d[1]] \in Nat
        /\ d[2] \in Nat /\ 1 <= d[2] /\ d[2] <= Len(b) /\ b[d[2]] \in Nat
    BY MergeNextIs
  <2> QED BY <2>1
<1>2. Len(a) \in Nat /\ Len(b) \in Nat
  OBVIOUS
<1>3. ItersGo(a, b)[d] = ItersNext(a, b, d)
  BY Zenon DEF ItersGo
<1>4. \A k, l \in Nat : 1 <= k /\ k <= Len(a) + 1 /\ 1 <= l /\ l <= Len(b) + 1
         => <<k, l>> \in Heads(a, b) /\ <<k, l>>[1] = k /\ <<k, l>>[2] = l
  BY HeadsAre
<1> DEFINE e == ItersNext(a, b, d)
<1>5. e = IF a[i] = b[j] THEN <<i + 1, j + 1>>
          ELSE IF a[i] < b[j] THEN <<AdvanceTo(a, i, b[j]), j>>
               ELSE <<i, AdvanceTo(b, j, a[i])>>
  BY <1>1, Zenon DEF ItersNext
<1> HIDE DEF e
<1>6. CASE a[i] = b[j]
  <2>1. e = <<i + 1, j + 1>>
    BY <1>1, <1>5, <1>6
  <2>4. /\ i + 1 \in Nat /\ 1 <= i + 1 /\ i + 1 <= Len(a) + 1
        /\ j + 1 \in Nat /\ 1 <= j + 1 /\ j + 1 <= Len(b) + 1
    BY <1>1, <1>2, OneOn
  <2>2. e \in Heads(a, b) /\ e[1] = i + 1 /\ e[2] = j + 1
    BY <1>4, <2>1, <2>4
  <2>3. Advances(a, b, i, j, e[1], e[2])
    BY <1>1, <1>6, <2>2 DEF Advances
  <2> QED BY <1>1, <1>3, <2>2, <2>3 DEF e
<1>7. CASE a[i] < b[j]
  <2>1. PICK k : k = AdvanceTo(a, i, b[j])
    OBVIOUS
  <2>2. k \in Nat /\ i < k /\ k <= Len(a) + 1 /\ Below(a, i, k, b[j])
    BY <1>1, <1>7, <2>1, AdvanceToIs
  <2>3. a[i] # b[j]
    BY <1>1, <1>7
  <2>4. e = <<k, j>>
    BY <1>5, <1>7, <2>1, <2>3
  <2>5. e \in Heads(a, b) /\ e[1] = k /\ e[2] = j
    BY <1>1, <1>2, <1>4, <2>2, <2>4
  <2>6. Advances(a, b, i, j, e[1], e[2])
    <3>1. a[i] # b[j] /\ ~ (b[j] < a[i])
      BY <1>1, <1>7, Compared
    <3> QED BY <2>2, <2>5, <3>1 DEF Advances
  <2> QED BY <1>1, <1>3, <2>5, <2>6 DEF e
<1>8. CASE b[j] < a[i]
  <2>1. PICK l : l = AdvanceTo(b, j, a[i])
    OBVIOUS
  <2>2. l \in Nat /\ j < l /\ l <= Len(b) + 1 /\ Below(b, j, l, a[i])
    BY <1>1, <1>8, <2>1, AdvanceToIs
  <2>3. a[i] # b[j] /\ ~ (a[i] < b[j])
    <3>1. PICK x \in Nat, y \in Nat : x = a[i] /\ y = b[j]
      BY <1>1
    <3>2. y < x
      BY <1>8, <3>1
    <3> QED BY <3>1, <3>2
  <2>4. e = <<i, l>>
    BY <1>5, <2>1, <2>3
  <2>5. e \in Heads(a, b) /\ e[1] = i /\ e[2] = l
    BY <1>1, <1>2, <1>4, <2>2, <2>4
  <2>6. Advances(a, b, i, j, e[1], e[2])
    BY <2>2, <2>3, <2>5 DEF Advances
  <2> QED BY <1>1, <1>3, <2>5, <2>6 DEF e
<1>9. a[i] = b[j] \/ a[i] < b[j] \/ b[j] < a[i]
  BY <1>1, Compared
<1> QED BY <1>6, <1>7, <1>8, <1>9, Zenon

LEMMA ItersIsScan ==
    ASSUME NEW a \in Seq(Nat), NEW b \in Seq(Nat), NEW f
    PROVE  IsIters(a, b, f)
             <=> IsScan(Heads(a, b), BothEnd(a, b), Nothing(a, b), Common(a, b), ItersGo(a, b), f)
<1> DEFINE D == Heads(a, b)
           Scan(d) == ScanStep(BothEnd(a, b), Nothing(a, b), Common(a, b), ItersGo(a, b), f, d)
<1>1. ASSUME NEW d \in D PROVE ItersStep(a, b, f, d) = Scan(d)
  <2>1. CASE d \in BothEnd(a, b)
    <3>1. d[1] > Len(a) \/ d[2] > Len(b)
      BY <2>1 DEF BothEnd
    <3>2. Scan(d) = <<>>
      BY <2>1, Zenon DEF ScanStep, Nothing
    <3> QED BY <3>1, <3>2, Zenon DEF ItersStep
  <2>2. CASE d \notin BothEnd(a, b)
    <3>1. ~ (d[1] > Len(a) \/ d[2] > Len(b))
      BY <2>2 DEF BothEnd
    <3>2. ItersGo(a, b)[d] = ItersNext(a, b, d)
      BY <2>2, ItersNextIs
    <3>3. Scan(d) = IF Common(a, b)[d] = <<>> THEN f[ItersNext(a, b, d)]
                    ELSE Common(a, b)[d] \o f[ItersNext(a, b, d)]
      BY <2>2, <3>2, Zenon DEF ScanStep
    <3>4. Common(a, b)[d] = IF a[d[1]] = b[d[2]] THEN <<a[d[1]]>> ELSE <<>>
      BY <2>2, Zenon DEF Common
    <3>5. <<a[d[1]]>> # <<>>
      OBVIOUS
    <3>6. CASE a[d[1]] = b[d[2]]
      <4>1. ItersNext(a, b, d) = <<d[1] + 1, d[2] + 1>>
        BY <3>6, Zenon DEF ItersNext
      <4>2. ItersStep(a, b, f, d) = <<a[d[1]]>> \o f[ItersNext(a, b, d)]
        BY <3>1, <3>6, <4>1, Zenon DEF ItersStep
      <4> QED BY <3>3, <3>4, <3>5, <3>6, <4>2, Zenon
    <3>7. CASE a[d[1]] # b[d[2]] /\ a[d[1]] < b[d[2]]
      <4>1. ItersNext(a, b, d) = <<AdvanceTo(a, d[1], b[d[2]]), d[2]>>
        BY <3>7, Zenon DEF ItersNext
      <4>2. ItersStep(a, b, f, d) = f[ItersNext(a, b, d)]
        BY <3>1, <3>7, <4>1, Zenon DEF ItersStep
      <4> QED BY <3>3, <3>4, <3>7, <4>2, Zenon
    <3>8. CASE a[d[1]] # b[d[2]] /\ ~ (a[d[1]] < b[d[2]])
      <4>1. ItersNext(a, b, d) = <<d[1], AdvanceTo(b, d[2], a[d[1]])>>
        BY <3>8, Zenon DEF ItersNext
      <4>2. ItersStep(a, b, f, d) = f[ItersNext(a, b, d)]
        BY <3>1, <3>8, <4>1, Zenon DEF ItersStep
      <4> QED BY <3>3, <3>4, <3>8, <4>2, Zenon
    <3> QED BY <3>6, <3>7, <3>8
  <2> QED BY <2>1, <2>2
<1>2. [d \in D |-> ItersStep(a, b, f, d)] = [d \in D |-> Scan(d)]
  BY <1>1, Zenon
<1> QED BY <1>2, Zenon DEF IsIters, IsScan

LEMMA ItersLists ==
    ASSUME NEW a, NEW b, NEW A, NEW B, Lists(a, A), Lists(b, B)
    PROVE  Lists(IntersectIters(a, b), A \cap B)
<1>1. a \in Seq(Nat) /\ b \in Seq(Nat)
  BY DEF Lists
<1>2. \A d \in Heads(a, b) : d \notin BothEnd(a, b)
          => Advances(a, b, d[1], d[2], ItersGo(a, b)[d][1], ItersGo(a, b)[d][2])
  BY <1>1, ItersNextIs
<1>3. ItersGo(a, b) \in [Heads(a, b) -> Heads(a, b)]
  <2>1. \A d \in Heads(a, b) : d \notin BothEnd(a, b) => ItersNext(a, b, d) \in Heads(a, b)
    BY <1>1, ItersNextIs
  <2> QED BY <2>1 DEF ItersGo
<1>4. /\ \E f : IsIters(a, b, f)
      /\ \A f : IsIters(a, b, f) => Lists(f[<<1, 1>>], A \cap B)
  BY <1>1, <1>2, <1>3, BothLists, ItersIsScan
<1>5. IsIters(a, b, ItersTable(a, b))
  BY <1>4, Zenon DEF ItersTable
<1>6. IntersectIters(a, b) = ItersTable(a, b)[<<1, 1>>]
  BY DEF IntersectIters, ItersTable, IsIters, ItersStep
<1> QED BY <1>4, <1>5, <1>6

-----------------------------------------------------------------------------
(* gallop *)

BoundStep(data, target, start, bound, b) ==
    IF start + b <= Len(data) /\ data[start + b] < target THEN bound[2 * b] ELSE b

IsBound(data, target, start, bound) ==
    bound = [b \in Nat \ {0} |-> BoundStep(data, target, start, bound, b)]
BoundTable(data, target, start) == CHOOSE bound : IsBound(data, target, start, bound)

\* The probes that overshoot, and a step of which half is still below target.
Overshoots(data, target, start) == {b \in Nat \ {0} : ~ (start + b <= Len(data) /\ data[start + b] < target)}
HalfBelow(data, target, start, b) == start + b \div 2 <= Len(data) /\ data[start + b \div 2] < target
Doubled == [b \in Nat \ {0} |-> 2 * b]
LeftOf(n) == [b \in Nat \ {0} |-> IF b <= n THEN n - b ELSE 0]

\* The first position from start on that is not below target.
First(data, target, start, p) ==
    /\ p \in Nat /\ start <= p /\ p <= Len(data) + 1
    /\ Below(data, start, p, target)
    /\ p <= Len(data) => data[p] >= target

LEMMA Halves ==
    ASSUME NEW b \in Nat \ {0}
    PROVE  b \div 2 \in Nat /\ b \div 2 < b /\ (2 * b) \div 2 = b /\ 2 * b \in Nat \ {0} /\ b < 2 * b
  OBVIOUS

LEMMA BoundDescends ==
    ASSUME NEW data \in Seq(Nat), NEW target \in Nat, NEW start \in Nat, 1 <= start
    PROVE  Descends(Nat \ {0}, Len(data), LeftOf(Len(data)), Overshoots(data, target, start), Doubled)
<1> DEFINE D == Nat \ {0}
           R == LeftOf(Len(data))
<1>1. Len(data) \in Nat
  OBVIOUS
<1>2. \A b \in D : R[b] = (IF b <= Len(data) THEN Len(data) - b ELSE 0) /\ Doubled[b] = 2 * b
  BY DEF LeftOf, Doubled
<1>3. R \in [D -> 0 .. Len(data)]
  <2>1. \A b \in D : (IF b <= Len(data) THEN Len(data) - b ELSE 0) \in 0 .. Len(data)
    BY <1>1
  <2> QED BY <2>1 DEF LeftOf
<1>4. Doubled \in [D -> D]
  <2>1. \A b \in D : 2 * b \in D
    BY Halves
  <2> QED BY <2>1 DEF Doubled
<1> HIDE DEF R
<1>5. ASSUME NEW b \in D, b \notin Overshoots(data, target, start) PROVE R[Doubled[b]] < R[b]
  <2>1. start + b <= Len(data)
    BY <1>5 DEF Overshoots
  <2>2. b \in Nat /\ 2 * b \in D /\ b < 2 * b
    BY Halves
  <2>3. b < Len(data)
    BY <1>1, <2>1, <2>2
  <2>4. R[b] = Len(data) - b
    BY <1>1, <1>2, <2>2, <2>3
  <2>5. R[Doubled[b]] = IF 2 * b <= Len(data) THEN Len(data) - 2 * b ELSE 0
    BY <1>2, <2>2
  <2> QED BY <1>1, <2>2, <2>3, <2>4, <2>5
<1> QED BY <1>1, <1>3, <1>4, <1>5 DEF Descends, R

LEMMA BoundExists ==
    ASSUME NEW data \in Seq(Nat), NEW target \in Nat, NEW start \in Nat, 1 <= start
    PROVE  \E f : IsBound(data, target, start, f)
<1> DEFINE D == Nat \ {0}
           Stop == Overshoots(data, target, start)
           Base == [b \in D |-> b]
           Step == [p \in D \X D |-> p[2]]
<1>1. Base \in [D -> D] /\ Step \in [D \X D -> D]
  OBVIOUS
<1>2. /\ \A b \in D : Base[b] = b /\ Doubled[b] = 2 * b /\ 2 * b \in D
      /\ \A b, r \in D : Step[<<b, r>>] = r
  BY Halves DEF Doubled
<1>3. \A b \in D : b \in Stop <=> ~ (start + b <= Len(data) /\ data[start + b] < target)
  BY DEF Overshoots
<1> HIDE DEF D, Base, Step, Stop
<1>4. HasRecursion(D, D, Stop, Doubled, Base, Step)
  <2>1. Descends(D, Len(data), LeftOf(Len(data)), Stop, Doubled)
    BY BoundDescends DEF D, Stop
  <2> QED BY <1>1, <2>1, RecursionExists
<1>5. PICK f \in [D -> D] :
          \A b \in D : f[b] = IF b \in Stop THEN Base[b] ELSE Step[<<b, f[Doubled[b]]>>]
  BY <1>4 DEF HasRecursion
<1>6. ASSUME NEW b \in D PROVE f[b] = BoundStep(data, target, start, f, b)
  <2>1. f[b] = IF b \in Stop THEN b ELSE f[2 * b]
    <3>1. f[2 * b] \in D
      BY <1>2
    <3>2. Step[<<b, f[2 * b]>>] = f[2 * b] /\ Doubled[b] = 2 * b /\ Base[b] = b
      BY <1>2, <3>1
    <3>3. f[b] = IF b \in Stop THEN Base[b] ELSE Step[<<b, f[Doubled[b]]>>]
      BY <1>5
    <3> QED BY <3>2, <3>3
  <2> QED BY <1>3, <2>1, Zenon DEF BoundStep
<1>7. [b \in D |-> f[b]] = [b \in D |-> BoundStep(data, target, start, f, b)]
  BY <1>6, Zenon
<1>8. f = [b \in D |-> f[b]]
  OBVIOUS
<1> QED BY <1>7, <1>8, Zenon DEF IsBound, D

\* The probes end at one that overshoots, and half of it did not.
LEMMA BoundIs ==
    ASSUME NEW data \in Seq(Nat), NEW target \in Nat, NEW start \in Nat, 1 <= start, start <= Len(data),
           data[start] < target, NEW r, r = BoundTable(data, target, start)[1]
    PROVE  r \in Overshoots(data, target, start) /\ HalfBelow(data, target, start, r)
<1> DEFINE D == Nat \ {0}
           Stop == Overshoots(data, target, start)
           Half(b) == HalfBelow(data, target, start, b)
           f == BoundTable(data, target, start)
           T == {b \in D : Half(b) => f[b] \in Stop /\ Half(f[b])}
<1>1. IsBound(data, target, start, f)
  BY BoundExists, Zenon DEF BoundTable
<1> HIDE DEF f
<1>2. \A b \in D : f[b] = BoundStep(data, target, start, f, b)
  BY <1>1 DEF IsBound
<1>3. ASSUME NEW b \in D, b \in Stop PROVE b \in T
  <2>1. f[b] = b
    BY <1>2, <1>3 DEF BoundStep, Overshoots
  <2> QED BY <1>3, <2>1
<1>4. ASSUME NEW b \in D, b \notin Stop, Doubled[b] \in T PROVE b \in T
  <2>1. Doubled[b] = 2 * b /\ 2 * b \in D /\ (2 * b) \div 2 = b
    BY Halves DEF Doubled
  <2>2. start + b <= Len(data) /\ data[start + b] < target
    BY <1>4 DEF Overshoots
  <2>3. f[b] = f[2 * b]
    BY <1>2, <2>2 DEF BoundStep
  <2>4. Half(2 * b)
    BY <2>1, <2>2 DEF HalfBelow
  <2> QED BY <1>4, <2>1, <2>3, <2>4
<1>5. \A b \in D : b \in T
  <2>1. Descends(D, Len(data), LeftOf(Len(data)), Stop, Doubled)
    BY BoundDescends
  <2> HIDE DEF T, D, Stop
  <2> QED BY <1>3, <1>4, <2>1, DescentInduct
<1>6. 1 \in D /\ Half(1)
  <2>1. 1 \div 2 = 0 /\ start + 0 = start
    OBVIOUS
  <2> QED BY <2>1 DEF HalfBelow
<1>7. f[1] \in Stop /\ Half(f[1])
  BY <1>5, <1>6
<1> QED BY <1>7 DEF f

LEMMA GallopIs ==
    ASSUME NEW data \in Seq(Nat), Increasing(data), NEW target \in Nat,
           NEW start \in Nat, 1 <= start, start <= Len(data) + 1
    PROVE  First(data, target, start, Gallop(data, target, start))
<1> DEFINE n == Len(data)
<1>1. n \in Nat /\ (\A k \in 1 .. n : data[k] \in Nat) /\ DOMAIN data = 1 .. n
  OBVIOUS
<1>2. \A k, m \in 1 .. n : k < m => data[k] < data[m]
  BY <1>1 DEF Increasing
<1> HIDE DEF n
<1>3. CASE start > n
  <2>1. Gallop(data, target, start) = n + 1
    BY <1>3 DEF Gallop, n
  <2>2. start = n + 1
    BY <1>1, <1>3 DEF n
  <2>3. Below(data, start, n + 1, target)
    BY <1>1, <2>2 DEF Below
  <2>4. ~ (n + 1 <= n) /\ n + 1 \in Nat
    BY <1>1
  <2> QED BY <2>1, <2>2, <2>3, <2>4 DEF First, n
<1>4. CASE start <= n /\ data[start] >= target
  <2>1. ~ (start > n)
    BY <1>1, <1>4
  <2>2. Gallop(data, target, start) = start
    BY <1>4, <2>1, Zenon DEF Gallop, n
  <2>3. Below(data, start, start, target)
    BY DEF Below
  <2>4. start <= n + 1 /\ start <= start
    BY <1>1, <1>4
  <2> QED BY <1>4, <2>2, <2>3, <2>4 DEF First, n
<1>5. CASE start <= n /\ ~ (data[start] >= target)
  <2>1. ~ (start > n) /\ start \in 1 .. n
    BY <1>1, <1>5
  <2>2. data[start] < target
    BY <1>1, <1>5, <2>1
  <2>3. PICK r : r = BoundTable(data, target, start)[1]
    OBVIOUS
  <2>4. r \in Overshoots(data, target, start) /\ HalfBelow(data, target, start, r)
    BY <1>5, <2>2, <2>3, BoundIs DEF n
  <2>5. PICK low : low = start + r \div 2
    OBVIOUS
  <2>6. PICK high : high = Min({start + r, n + 1})
    OBVIOUS
  <2>7. r \in Nat /\ low \in Nat /\ start <= low /\ low < start + r /\ low <= n /\ data[low] < target
    <3>1. r \in Nat \ {0}
      BY <2>4 DEF Overshoots
    <3>2. PICK h : h = r \div 2
      OBVIOUS
    <3>3. h \in Nat /\ h < r /\ r \in Nat
      BY <3>1, <3>2, Halves
    <3>4. start + h <= n /\ data[start + h] < target
      BY <2>4, <3>2 DEF HalfBelow, n
    <3>5. low = start + h
      BY <2>5, <3>2
    <3> QED BY <3>3, <3>4, <3>5
  <2>8. high \in Nat /\ low < high /\ high <= n + 1 /\ (high = start + r \/ high = n + 1)
    <3>1. {start + r, n + 1} \subseteq Nat /\ {start + r, n + 1} # {}
      BY <1>1, <2>7
    <3>2. high \in {start + r, n + 1} /\ \A k \in {start + r, n + 1} : high <= k
      BY <2>6, <3>1, LeastIs
    <3> QED BY <1>1, <2>7, <3>2
  <2>9. high <= n => data[high] >= target
    <3> SUFFICES ASSUME high <= n PROVE data[high] >= target
      OBVIOUS
    <3>1. high = start + r
      BY <1>1, <2>8
    <3>2. ~ (start + r <= n /\ data[start + r] < target)
      BY <2>4 DEF Overshoots, n
    <3>3. high \in 1 .. n
      BY <1>1, <2>7, <2>8
    <3>4. data[high] \in Nat /\ ~ (data[high] < target)
      BY <1>1, <3>1, <3>2, <3>3
    <3> QED BY <3>4
  <2> DEFINE S == {k \in low .. high : k = high \/ data[k] >= target}
             C == {k \in low .. high - 1 : data[k] < target}
  <2>10. PICK p : p = Min(S)
    OBVIOUS
  <2>11. p \in S /\ \A k \in S : p <= k
    <3>1. S \subseteq Nat /\ high \in S
      BY <2>7, <2>8
    <3> HIDE DEF S
    <3> QED BY <2>10, <3>1, LeastIs
  <2>12. p \in Nat /\ low <= p /\ p <= high /\ (p = high \/ data[p] >= target)
    BY <2>7, <2>8, <2>11
  <2>13. p # low
    <3>1. low \in 1 .. n /\ low # high
      BY <1>1, <2>7, <2>8
    <3>2. data[low] \in Nat
      BY <1>1, <3>1
    <3> QED BY <2>7, <2>12, <3>1, <3>2
  <2>14. ASSUME NEW k \in low .. p - 1 PROVE data[k] < target /\ k \in 1 .. n
    <3>1. k \in low .. high /\ k # high /\ k < p /\ k \in 1 .. n
      BY <1>1, <2>7, <2>8, <2>12
    <3>2. k \notin S
      BY <2>11, <2>12, <3>1
    <3>3. ~ (data[k] >= target)
      BY <3>1, <3>2
    <3>4. data[k] \in Nat
      BY <1>1, <3>1
    <3> QED BY <3>1, <3>3, <3>4
  <2>15. C = low .. p - 1
    <3>1. ASSUME NEW k \in low .. high - 1, data[k] < target PROVE k \in low .. p - 1
      <4>1. k \in 1 .. n /\ k \in Nat /\ low <= k
        BY <1>1, <2>7, <2>8
      <4>2. CASE p < k
        <5>1. p \in 1 .. n /\ p # high
          BY <1>1, <2>7, <2>8, <2>12, <4>1, <4>2
        <5>2. data[p] < data[k] /\ data[p] >= target /\ data[p] \in Nat /\ data[k] \in Nat
          BY <1>1, <1>2, <2>12, <4>1, <4>2, <5>1
        <5> QED BY <3>1, <5>2
      <4>3. CASE p = k
        <5>1. data[k] >= target /\ data[k] \in Nat
          BY <1>1, <2>8, <2>12, <4>1, <4>3
        <5> QED BY <3>1, <5>1
      <4> QED BY <2>12, <4>1, <4>2, <4>3
    <3>2. ASSUME NEW k \in low .. p - 1 PROVE k \in low .. high - 1 /\ data[k] < target
      BY <2>7, <2>8, <2>12, <2>14
    <3> QED BY <3>1, <3>2
  <2>16. low + Cardinality(C) = p
    <3>1. Cardinality(low .. p - 1) = p - low
      <4>1. low \in Int /\ p - 1 \in Int /\ ~ (low > p - 1) /\ (p - 1) - low + 1 = p - low
        BY <2>7, <2>12, <2>13
      <4> QED BY <4>1, FS_Interval
    <3> HIDE DEF C
    <3>2. Cardinality(C) = p - low
      BY <2>15, <3>1
    <3> QED BY <2>7, <2>12, <3>2
  <2>17. Gallop(data, target, start) = low + Cardinality(C)
    <3>1. Gallop(data, target, start) =
             LET bound == BoundTable(data, target, start)
                 lo == start + bound[1] \div 2
                 hi == Min({start + bound[1], Len(data) + 1})
             IN  lo + Cardinality({k \in lo .. hi - 1 : data[k] < target})
      BY <1>5, <2>1, Zenon DEF Gallop, BoundTable, IsBound, BoundStep, n
    <3> QED BY <2>3, <2>5, <2>6, <3>1, Zenon DEF n
  <2>18. Below(data, start, p, target)
    <3> SUFFICES ASSUME NEW m \in start .. p - 1 PROVE data[m] < target
      BY DEF Below
    <3>1. p - 1 \in low .. p - 1 /\ m \in Nat /\ m <= p - 1 /\ 1 <= m
      BY <2>7, <2>12, <2>13
    <3>2. data[p - 1] < target /\ p - 1 \in 1 .. n
      BY <2>14, <3>1
    <3>3. m \in 1 .. n /\ (m = p - 1 \/ m < p - 1)
      BY <1>1, <2>12, <3>1, <3>2
    <3>4. m < p - 1 => data[m] < data[p - 1]
      BY <1>2, <3>2, <3>3
    <3>5. data[m] \in Nat /\ data[p - 1] \in Nat
      BY <1>1, <3>2, <3>3
    <3> QED BY <3>2, <3>3, <3>4, <3>5
  <2>19. p <= n => data[p] >= target
    BY <2>9, <2>12
  <2>20. start <= p /\ p <= n + 1
    BY <1>1, <2>7, <2>8, <2>12
  <2> QED BY <2>12, <2>16, <2>17, <2>18, <2>19, <2>20 DEF First, n
<1>6. start > n \/ start <= n
  BY <1>1
<1> QED BY <1>3, <1>4, <1>5, <1>6

-----------------------------------------------------------------------------
(* intersect_galloping *)

GallopEnd(short, long) == {d \in Heads(short, long) : d[1] > Len(short)}
Hit(short, long, d, found) == found <= Len(long) /\ long[found] = short[d[1]]

Found(short, long, d) == Gallop(long, short[d[1]], d[2])

GallopNext(short, long, d) ==
    IF Hit(short, long, d, Found(short, long, d)) THEN <<d[1] + 1, Found(short, long, d) + 1>>
    ELSE <<d[1] + 1, Found(short, long, d)>>

GallopGo(short, long) ==
    [d \in Heads(short, long) |-> IF d \in GallopEnd(short, long) THEN d ELSE GallopNext(short, long, d)]

GallopEmit(short, long) ==
    [d \in Heads(short, long) |->
        IF d \notin GallopEnd(short, long) /\ Hit(short, long, d, Found(short, long, d))
        THEN <<short[d[1]]>> ELSE <<>>]
GallopHere(short, long) ==
    [d \in Heads(short, long) |->
        IF d \notin GallopEnd(short, long) /\ Hit(short, long, d, Found(short, long, d))
        THEN {short[d[1]]} ELSE {}]
LeftOfShort(short, long) == [d \in Heads(short, long) |-> Len(short) + 1 - d[1]]

GallopStep(short, long, from, at) ==
    LET i == at[1]
        found == Gallop(long, short[i], at[2]) IN
    IF i > Len(short) THEN <<>>
    ELSE IF found <= Len(long) /\ long[found] = short[i]
         THEN <<short[i]>> \o from[<<i + 1, found + 1>>]
         ELSE from[<<i + 1, found>>]

IsGallop(short, long, from) == from = [at \in Heads(short, long) |-> GallopStep(short, long, from, at)]
GallopTable(short, long) == CHOOSE from : IsGallop(short, long, from)

\* An id of the short list is in the long one where the search ends, or nowhere.
LEMMA GallopNextIs ==
    ASSUME NEW short \in Seq(Nat), NEW long \in Seq(Nat), Increasing(short), Increasing(long),
           NEW d \in Heads(short, long), d \notin GallopEnd(short, long)
    PROVE  /\ GallopNext(short, long, d) \in Heads(short, long)
           /\ GallopGo(short, long)[d] = GallopNext(short, long, d)
           /\ GallopNext(short, long, d)[1] = d[1] + 1
           /\ d[1] \in Nat /\ 1 <= d[1] /\ d[1] <= Len(short)
           /\ short[d[1]] \in Nat
           /\ InBoth(short, long)[d]
                = GallopHere(short, long)[d] \cup InBoth(short, long)[GallopNext(short, long, d)]
           /\ \A x \in GallopHere(short, long)[d], y \in InBoth(short, long)[GallopNext(short, long, d)] : x < y
<1>1. PICK i \in Nat, j \in Nat : /\ i = d[1] /\ j = d[2] /\ 1 <= i /\ i <= Len(short) + 1
                                  /\ 1 <= j /\ j <= Len(long) + 1
  BY HeadsAre
<1>2. Len(short) \in Nat /\ Len(long) \in Nat
  OBVIOUS
<1>3. i <= Len(short)
  BY <1>1, <1>2 DEF GallopEnd
<1>4. PICK v \in Nat : v = short[i]
  <2>1. \A m \in 1 .. Len(short) : short[m] \in Nat
    OBVIOUS
  <2>2. i \in 1 .. Len(short)
    BY <1>1, <1>2, <1>3
  <2> QED BY <2>1, <2>2
<1>5. PICK p : p = Gallop(long, v, j)
  OBVIOUS
<1>6. /\ p \in Nat /\ j <= p /\ p <= Len(long) + 1 /\ Below(long, j, p, v)
      /\ p <= Len(long) => long[p] >= v
  BY <1>1, <1>4, <1>5, GallopIs DEF First
<1>7. Found(short, long, d) = p
  BY <1>1, <1>4, <1>5 DEF Found
<1>8. /\ Rest(short, i) = {v} \cup Rest(short, i + 1) /\ \A x \in Rest(short, i + 1) : v < x
      /\ Rest(short, i + 1) \subseteq Nat
  <2>1. i + 1 \in Nat /\ i + 1 >= 1
    OBVIOUS
  <2>2. Rest(short, i + 1) \subseteq Nat
    BY <2>1, RestIs
  <2> QED BY <1>1, <1>3, <1>4, <2>2, RestIs
<1>9. /\ Rest(long, p) \subseteq Rest(long, j)
      /\ \A x \in Rest(long, j) : x >= v => x \in Rest(long, p)
  BY <1>1, <1>6, RestPast
<1>10. 1 <= p
  BY <1>1, <1>6
<1>11. i + 1 \in Nat /\ 1 <= i + 1 /\ i + 1 <= Len(short) + 1
  BY <1>1, <1>2, <1>3, OneOn
<1>12. /\ GallopGo(short, long)[d] = GallopNext(short, long, d)
       /\ InBoth(short, long)[d] = Rest(short, i) \cap Rest(long, j)
       /\ \A e \in Heads(short, long) : InBoth(short, long)[e] = Rest(short, e[1]) \cap Rest(long, e[2])
  BY <1>1 DEF GallopGo, InBoth
<1>13. CASE p <= Len(long) /\ long[p] = v
  <2>1. p + 1 \in Nat /\ 1 <= p + 1 /\ p + 1 <= Len(long) + 1
    BY <1>2, <1>6, <1>10, <1>13, OneOn
  <2>2. Hit(short, long, d, p)
    BY <1>1, <1>4, <1>13 DEF Hit
  <2>3. PICK e : e = <<i + 1, p + 1>>
    OBVIOUS
  <2>4. e \in Heads(short, long) /\ e[1] = i + 1 /\ e[2] = p + 1
    BY <1>11, <2>1, <2>3, HeadsAre
  <2>5. GallopNext(short, long, d) = e
    BY <1>1, <1>7, <2>2, <2>3, Zenon DEF GallopNext
  <2>6. GallopHere(short, long)[d] = {v}
    BY <1>1, <1>4, <1>7, <2>2, Zenon DEF GallopHere
  <2>7. /\ Rest(long, p) = {v} \cup Rest(long, p + 1)
        /\ \A x \in Rest(long, p + 1) : v < x
    BY <1>6, <1>10, <1>13, RestIs
  <2>8. InBoth(short, long)[e] = Rest(short, i + 1) \cap Rest(long, p + 1)
    BY <1>12, <2>4
  <2>9. Rest(short, i) \cap Rest(long, j) = {v} \cup (Rest(short, i + 1) \cap Rest(long, p + 1))
    <3>1. \A x \in Rest(short, i + 1) : x >= v /\ x # v
      BY <1>8
    <3>2. v \in Rest(long, j) /\ Rest(long, p + 1) \subseteq Rest(long, j)
      BY <1>9, <2>7
    <3> QED BY <1>8, <1>9, <2>7, <3>1, <3>2
  <2>10. \A x \in {v}, y \in Rest(short, i + 1) \cap Rest(long, p + 1) : x < y
    BY <2>7
  <2> QED BY <1>1, <1>3, <1>4, <1>12, <2>4, <2>5, <2>6, <2>8, <2>9, <2>10
<1>14. CASE ~ (p <= Len(long) /\ long[p] = v)
  <2>1. ~ Hit(short, long, d, p)
    BY <1>1, <1>4, <1>14 DEF Hit
  <2>2. PICK e : e = <<i + 1, p>>
    OBVIOUS
  <2>3. e \in Heads(short, long) /\ e[1] = i + 1 /\ e[2] = p
    BY <1>6, <1>10, <1>11, <2>2, HeadsAre
  <2>4. GallopNext(short, long, d) = e
    BY <1>1, <1>7, <2>1, <2>2, Zenon DEF GallopNext
  <2>5. GallopHere(short, long)[d] = {}
    BY <1>7, <2>1, Zenon DEF GallopHere
  <2>6. v \notin Rest(long, p)
    <3>1. CASE p <= Len(long)
      <4>1. /\ Rest(long, p) = {long[p]} \cup Rest(long, p + 1) /\ long[p] \in Nat
            /\ \A x \in Rest(long, p + 1) : long[p] < x
        BY <1>6, <1>10, <3>1, RestIs
      <4>2. long[p] > v
        BY <1>6, <1>14, <3>1, <4>1
      <4>3. \A x \in Rest(long, p) : v < x
        <5>1. \A x \in Rest(long, p) : x \in Nat
          BY <1>10, <1>6, RestIs
        <5> QED BY <4>1, <4>2, <5>1
      <4> QED BY <4>3
    <3>2. CASE p > Len(long)
      BY <1>6, <1>10, <3>2, RestIs
    <3> QED BY <1>2, <1>6, <3>1, <3>2
  <2>7. InBoth(short, long)[e] = Rest(short, i + 1) \cap Rest(long, p)
    BY <1>12, <2>3
  <2>8. Rest(short, i) \cap Rest(long, j) = Rest(short, i + 1) \cap Rest(long, p)
    <3>1. \A x \in Rest(short, i + 1) : x >= v
      BY <1>8
    <3>2. v \notin Rest(long, j)
      BY <1>9, <2>6
    <3> QED BY <1>8, <1>9, <3>1, <3>2
  <2> QED BY <1>1, <1>3, <1>4, <1>12, <2>3, <2>4, <2>5, <2>7, <2>8
<1> QED BY <1>13, <1>14

LEMMA GallopIsScan ==
    ASSUME NEW short \in Seq(Nat), NEW long \in Seq(Nat), NEW f
    PROVE  IsGallop(short, long, f)
             <=> IsScan(Heads(short, long), GallopEnd(short, long), Nothing(short, long),
                        GallopEmit(short, long), GallopGo(short, long), f)
<1> DEFINE D == Heads(short, long)
           Scan(d) == ScanStep(GallopEnd(short, long), Nothing(short, long), GallopEmit(short, long),
                               GallopGo(short, long), f, d)
           Next(d) == GallopNext(short, long, d)
           Emit(d) == GallopEmit(short, long)[d]
<1>1. ASSUME NEW d \in D PROVE GallopStep(short, long, f, d) = Scan(d)
  <2>1. CASE d \in GallopEnd(short, long)
    <3>1. d[1] > Len(short)
      BY <2>1 DEF GallopEnd
    <3>2. Scan(d) = <<>>
      BY <2>1, Zenon DEF ScanStep, Nothing
    <3> QED BY <3>1, <3>2, Zenon DEF GallopStep
  <2>2. CASE d \notin GallopEnd(short, long)
    <3>1. ~ (d[1] > Len(short))
      BY <2>2 DEF GallopEnd
    <3>2. Scan(d) = IF Emit(d) = <<>> THEN f[Next(d)] ELSE Emit(d) \o f[Next(d)]
      BY <2>2, Zenon DEF ScanStep, GallopGo
    <3>3. CASE Hit(short, long, d, Found(short, long, d))
      <4>1. Emit(d) = <<short[d[1]]>>
        BY <2>2, <3>3, Zenon DEF GallopEmit
      <4>2. GallopStep(short, long, f, d) = <<short[d[1]]>> \o f[Next(d)]
        BY <3>1, <3>3, Zenon DEF GallopStep, GallopNext, Found, Hit
      <4>3. <<short[d[1]]>> # <<>>
        OBVIOUS
      <4>4. Emit(d) # <<>>
        BY <4>1, <4>3
      <4> HIDE DEF Emit, Next, Scan
      <4> QED BY <3>2, <4>1, <4>2, <4>4, Zenon
    <3>4. CASE ~ Hit(short, long, d, Found(short, long, d))
      <4>1. Emit(d) = <<>>
        BY <2>2, <3>4, Zenon DEF GallopEmit
      <4>2. GallopStep(short, long, f, d) = f[Next(d)]
        BY <3>1, <3>4, Zenon DEF GallopStep, GallopNext, Found, Hit
      <4> HIDE DEF Emit, Next, Scan
      <4> QED BY <3>2, <4>1, <4>2, Zenon
    <3> QED BY <3>3, <3>4
  <2> QED BY <2>1, <2>2
<1>2. [d \in D |-> GallopStep(short, long, f, d)] = [d \in D |-> Scan(d)]
  BY <1>1, Zenon
<1> QED BY <1>2, Zenon DEF IsGallop, IsScan

LEMMA GallopLists ==
    ASSUME NEW short, NEW long, NEW A, NEW B, Lists(short, A), Lists(long, B)
    PROVE  Lists(IntersectGalloping(short, long), A \cap B)
<1> DEFINE D == Heads(short, long)
           Stop == GallopEnd(short, long)
           Base == Nothing(short, long)
           Emit == GallopEmit(short, long)
           Here == GallopHere(short, long)
           Want == InBoth(short, long)
           Rank == LeftOfShort(short, long)
           Go == GallopGo(short, long)
           N == Len(short) + 1
<1>1. /\ short \in Seq(Nat) /\ long \in Seq(Nat) /\ Increasing(short) /\ Increasing(long)
      /\ ToSet(short) = A /\ ToSet(long) = B
  BY DEF Lists
<1>2. Len(short) \in Nat /\ Len(long) \in Nat
  BY <1>1
<1>3. \A d \in D : /\ d[1] \in Nat /\ 1 <= d[1] /\ d[1] <= Len(short) + 1
                   /\ d[2] \in Nat /\ 1 <= d[2] /\ d[2] <= Len(long) + 1
  BY <1>1, HeadsAre
<1>4. ASSUME NEW d \in D
      PROVE  /\ Rank[d] = Len(short) + 1 - d[1] /\ Base[d] = <<>>
             /\ Want[d] = Rest(short, d[1]) \cap Rest(long, d[2])
             /\ \/ Here[d] = {short[d[1]]} /\ Emit[d] = <<short[d[1]]>> /\ d \notin Stop
                \/ Here[d] = {} /\ Emit[d] = <<>>
  <2>1. /\ Rank[d] = Len(short) + 1 - d[1] /\ Base[d] = <<>>
        /\ Want[d] = Rest(short, d[1]) \cap Rest(long, d[2])
    BY Zenon DEF LeftOfShort, Nothing, InBoth
  <2>2. PICK hit : hit = (d \notin Stop /\ Hit(short, long, d, Found(short, long, d)))
    OBVIOUS
  <2>3. /\ Here[d] = IF hit THEN {short[d[1]]} ELSE {}
        /\ Emit[d] = IF hit THEN <<short[d[1]]>> ELSE <<>>
    BY <2>2, Zenon DEF GallopHere, GallopEmit
  <2>4. hit => d \notin Stop
    BY <2>2, Zenon
  <2> HIDE DEF D, Rank, Base, Want, Here, Emit, Stop
  <2>5. \/ Here[d] = {short[d[1]]} /\ Emit[d] = <<short[d[1]]>> /\ d \notin Stop
        \/ Here[d] = {} /\ Emit[d] = <<>>
    BY <2>3, <2>4, Zenon
  <2> QED BY <2>1, <2>5, Zenon
<1>5. ASSUME NEW d \in D, d \notin Stop
      PROVE  /\ Go[d] \in D /\ Go[d][1] = d[1] + 1 /\ d[1] <= Len(short) /\ short[d[1]] \in Nat
             /\ Want[d] = Here[d] \cup Want[Go[d]]
             /\ \A x \in Here[d], y \in Want[Go[d]] : x < y
  <2>1. PICK e : e = GallopNext(short, long, d)
    OBVIOUS
  <2>2. /\ e \in D /\ Go[d] = e /\ e[1] = d[1] + 1 /\ d[1] <= Len(short) /\ short[d[1]] \in Nat
        /\ Want[d] = Here[d] \cup Want[e] /\ \A x \in Here[d], y \in Want[e] : x < y
    BY <1>1, <1>5, <2>1, GallopNextIs
  <2> HIDE DEF D, Go, Want, Here
  <2> QED BY <2>2
<1>6. Go \in [D -> D]
  <2>1. \A d \in D : d \notin Stop => GallopNext(short, long, d) \in D
    BY <1>1, GallopNextIs
  <2> QED BY <2>1 DEF GallopGo
<1>7. /\ Rank = [d \in D |-> Rank[d]] /\ Emit = [d \in D |-> Emit[d]] /\ Base = [d \in D |-> Base[d]]
  BY DEF LeftOfShort, GallopEmit, Nothing
<1>8. \A d \in D : d \in Stop => d[1] > Len(short)
  BY DEF GallopEnd
<1>9. <<1, 1>> \in D
  <2>1. 1 \in Nat /\ 1 <= 1 /\ 1 <= Len(short) + 1 /\ 1 <= Len(long) + 1
    BY <1>2
  <2> QED BY <1>1, <2>1, HeadsAre
<1> HIDE DEF D, Stop, Base, Emit, Here, Want, Rank, Go, N
<1>10. Descends(D, N, Rank, Stop, Go)
  <2>1. N \in Nat /\ N = Len(short) + 1
    BY <1>2 DEF N
  <2>2. ASSUME NEW d \in D PROVE Rank[d] \in 0 .. N
    <3>1. PICK i \in Nat : i = d[1]
      BY <1>3
    <3>2. i <= Len(short) + 1 /\ Rank[d] = Len(short) + 1 - i
      BY <1>3, <1>4, <3>1
    <3> QED BY <1>2, <2>1, <3>2
  <2>3. Rank \in [D -> 0 .. N]
    BY <1>7, <2>2
  <2>4. ASSUME NEW d \in D, d \notin Stop PROVE Rank[Go[d]] < Rank[d]
    <3>1. PICK i \in Nat : i = d[1]
      BY <1>3
    <3>2. PICK e : e = Go[d]
      OBVIOUS
    <3>3. e \in D /\ e[1] = i + 1
      BY <1>5, <2>4, <3>1, <3>2
    <3>4. Rank[d] = Len(short) + 1 - i /\ Rank[e] = Len(short) + 1 - (i + 1)
      BY <1>4, <3>1, <3>3
    <3>5. Rank[e] < Rank[d]
      BY <1>2, <3>4
    <3> QED BY <3>2, <3>5
  <2> QED BY <1>6, <2>1, <2>3, <2>4 DEF Descends
<1>11. Emit \in [D -> Seq(Nat)] /\ Base \in [D -> Seq(Nat)]
  <2>1. ASSUME NEW d \in D PROVE Emit[d] \in Seq(Nat) /\ Base[d] \in Seq(Nat)
    <3>1. <<>> \in Seq(Nat) /\ \A x \in Nat : <<x>> \in Seq(Nat)
      OBVIOUS
    <3>2. Base[d] = <<>> /\ (Emit[d] = <<>> \/ (short[d[1]] \in Nat /\ Emit[d] = <<short[d[1]]>>))
      BY <1>4, <1>5
    <3> QED BY <3>1, <3>2
  <2> QED BY <1>7, <2>1
<1>12. Wanted(D, Stop, Base, Emit, Go, Want, Here)
  <2>1. ASSUME NEW d \in D, d \in Stop PROVE Lists(Base[d], Want[d])
    <3>1. Rest(short, d[1]) = {}
      BY <1>1, <1>3, <1>8, <2>1, RestIs
    <3>2. Base[d] = <<>> /\ Want[d] = {}
      BY <1>4, <3>1
    <3> QED BY <3>2, ListsNothing
  <2>2. ASSUME NEW d \in D, d \notin Stop PROVE Lists(Emit[d], Here[d])
    <3>1. CASE Here[d] = {short[d[1]]} /\ Emit[d] = <<short[d[1]]>>
      <4>1. short[d[1]] \in Nat
        BY <1>5, <2>2
      <4> QED BY <3>1, <4>1, ListsOne
    <3>2. CASE Here[d] = {} /\ Emit[d] = <<>>
      BY <3>2, ListsNothing
    <3> QED BY <1>4, <3>1, <3>2
  <2> QED BY <1>5, <2>1, <2>2 DEF Wanted
<1>13. \E f : IsScan(D, Stop, Base, Emit, Go, f)
  BY <1>10, <1>11, ScanExists
<1>14. \A f : IsGallop(short, long, f) <=> IsScan(D, Stop, Base, Emit, Go, f)
  BY <1>1, GallopIsScan DEF D, Stop, Base, Emit, Go
<1>15. PICK f : f = GallopTable(short, long)
  OBVIOUS
<1>16. IsGallop(short, long, f)
  <2>1. \E g : IsGallop(short, long, g)
    BY <1>13, <1>14
  <2> QED BY <1>15, <2>1, Zenon DEF GallopTable
<1>17. \A d \in D : Lists(f[d], Want[d])
  BY <1>10, <1>12, <1>14, <1>16, ScanLists
<1>18. Want[<<1, 1>>] = A \cap B
  <2>1. Rest(short, 1) = A /\ Rest(long, 1) = B
    BY <1>1, RestIs
  <2> QED BY <1>4, <1>9, <2>1
<1>19. IntersectGalloping(short, long) = GallopTable(short, long)[<<1, 1>>]
  BY DEF IntersectGalloping, GallopTable, IsGallop, GallopStep
<1> QED BY <1>9, <1>15, <1>17, <1>18, <1>19

-----------------------------------------------------------------------------
(* union *)

UnionStep(a, b, from, at) ==
    LET i == at[1]
        j == at[2] IN
    IF i > Len(a) \/ j > Len(b)
    THEN SubSeq(a, i, Len(a)) \o SubSeq(b, j, Len(b))
    ELSE <<IF a[i] <= b[j] THEN a[i] ELSE b[j]>>
         \o from[<<IF a[i] <= b[j] THEN i + 1 ELSE i, IF a[i] >= b[j] THEN j + 1 ELSE j>>]

IsUnion(a, b, from) == from = [at \in Heads(a, b) |-> UnionStep(a, b, from, at)]
UnionTable(a, b) == CHOOSE from : IsUnion(a, b, from)

Lower(a, b, d) == IF a[d[1]] <= b[d[2]] THEN a[d[1]] ELSE b[d[2]]
UnionBase(a, b) ==
    [d \in Heads(a, b) |-> SubSeq(a, d[1], Len(a)) \o SubSeq(b, d[2], Len(b))]
UnionEmit(a, b) == [d \in Heads(a, b) |-> IF d \in BothEnd(a, b) THEN <<>> ELSE <<Lower(a, b, d)>>]
UnionHere(a, b) == [d \in Heads(a, b) |-> {Lower(a, b, d)}]
InEither(a, b) == [d \in Heads(a, b) |-> Rest(a, d[1]) \cup Rest(b, d[2])]

\* What is left of a list is the list of it.
LEMMA RestLists ==
    ASSUME NEW s \in Seq(Nat), Increasing(s), NEW i \in Nat, 1 <= i, i <= Len(s) + 1
    PROVE  SubSeq(s, i, Len(s)) \in Seq(Nat) /\ Lists(SubSeq(s, i, Len(s)), Rest(s, i))
<1> DEFINE n == Len(s)
           t == SubSeq(s, i, n)
           m == n - i + 1
<1>1. n \in Nat /\ (\A k \in 1 .. n : s[k] \in Nat) /\ DOMAIN s = 1 .. n
  OBVIOUS
<1>2. \A k, l \in 1 .. n : k < l => s[k] < s[l]
  BY <1>1 DEF Increasing
<1> HIDE DEF n
<1>3. m \in Nat
  BY <1>1 DEF n
<1>4. t = [k \in 1 .. m |-> s[i + k - 1]]
  BY DEF t, n
<1> HIDE DEF t
<1>5. \A k \in 1 .. m : i + k - 1 \in i .. n /\ i + k - 1 \in 1 .. n
  BY <1>1
<1>6. t \in Seq(Nat) /\ DOMAIN t = 1 .. m /\ \A k \in 1 .. m : t[k] = s[i + k - 1]
  <2>1. \A k \in 1 .. m : s[i + k - 1] \in Nat
    BY <1>1, <1>5
  <2> HIDE DEF m
  <2> QED BY <1>3, <1>4, <2>1
<1>7. Increasing(t)
  <2> SUFFICES ASSUME NEW k \in 1 .. m, NEW l \in 1 .. m, k < l PROVE t[k] < t[l]
    BY <1>6 DEF Increasing
  <2>1. i + k - 1 < i + l - 1
    OBVIOUS
  <2>2. s[i + k - 1] < s[i + l - 1]
    BY <1>2, <1>5, <2>1
  <2> QED BY <1>6, <2>2
<1>8. ToSet(t) = Rest(s, i)
  <2>1. ASSUME NEW k \in 1 .. m PROVE t[k] \in Rest(s, i)
    BY <1>5, <1>6 DEF Rest, n
  <2>2. ASSUME NEW k \in i .. n PROVE \E l \in 1 .. m : t[l] = s[k]
    <3> DEFINE l == k - i + 1
    <3>1. l \in 1 .. m /\ i + l - 1 = k
      BY <1>1
    <3> HIDE DEF l
    <3> QED BY <1>6, <3>1
  <2>3. ToSet(t) = {t[l] : l \in 1 .. m}
    BY <1>6, Zenon DEF ToSet
  <2>4. Rest(s, i) = {s[k] : k \in i .. n}
    BY DEF Rest, n
  <2> HIDE DEF m
  <2> QED BY <2>1, <2>2, <2>3, <2>4
<1> QED BY <1>6, <1>7, <1>8 DEF Lists, t, n

LEMMA UnionNextIs ==
    ASSUME NEW a \in Seq(Nat), NEW b \in Seq(Nat), Increasing(a), Increasing(b),
           NEW d \in Heads(a, b), d \notin BothEnd(a, b)
    PROVE  /\ Lower(a, b, d) \in Nat
           /\ d[1] + d[2] < MergeGo(a, b)[d][1] + MergeGo(a, b)[d][2]
           /\ InEither(a, b)[d] = {Lower(a, b, d)} \cup InEither(a, b)[MergeGo(a, b)[d]]
           /\ \A y \in InEither(a, b)[MergeGo(a, b)[d]] : Lower(a, b, d) < y
<1>1. PICK i \in Nat, j \in Nat :
          /\ i = d[1] /\ j = d[2] /\ 1 <= i /\ i <= Len(a) /\ 1 <= j /\ j <= Len(b)
          /\ a[i] \in Nat /\ b[j] \in Nat
  <2>1. /\ d[1] \in Nat /\ 1 <= d[1] /\ d[1] <= Len(a) /\ a[d[1]] \in Nat
        /\ d[2] \in Nat /\ 1 <= d[2] /\ d[2] <= Len(b) /\ b[d[2]] \in Nat
    BY MergeNextIs
  <2> QED BY <2>1
<1>2. PICK e : e = MergeGo(a, b)[d]
  OBVIOUS
<1>3. PICK k, l : k = e[1] /\ l = e[2]
  OBVIOUS
<1>4. e \in Heads(a, b)
  BY <1>2, MergeNextIs
<1>5. Advances(a, b, i, j, k, l)
  BY <1>1, <1>2, <1>3, MergeAdvances
<1>6. i + j < k + l
  BY <1>1, <1>5, AdvanceKeeps DEF Keeps
<1>7. /\ InEither(a, b)[d] = Rest(a, i) \cup Rest(b, j)
      /\ InEither(a, b)[e] = Rest(a, k) \cup Rest(b, l)
  BY <1>1, <1>3, <1>4 DEF InEither
<1>8. /\ Rest(a, i) = {a[i]} \cup Rest(a, i + 1) /\ \A x \in Rest(a, i + 1) : a[i] < x
      /\ Rest(b, j) = {b[j]} \cup Rest(b, j + 1) /\ \A x \in Rest(b, j + 1) : b[j] < x
      /\ Rest(a, i) \subseteq Nat /\ Rest(b, j) \subseteq Nat
  BY <1>1, RestIs
<1>9. Lower(a, b, d) = IF a[i] <= b[j] THEN a[i] ELSE b[j]
  BY <1>1 DEF Lower
<1>10. /\ a[i] = b[j] => k = i + 1 /\ l = j + 1
       /\ a[i] < b[j] => k = i + 1 /\ l = j
       /\ b[j] < a[i] => k = i /\ l = j + 1
  <2>1. /\ MergeGo(a, b)[d] = MergeNext(a, b, d)
        /\ MergeNext(a, b, d)[1] = IF a[d[1]] <= b[d[2]] THEN d[1] + 1 ELSE d[1]
        /\ MergeNext(a, b, d)[2] = IF a[d[1]] >= b[d[2]] THEN d[2] + 1 ELSE d[2]
    BY MergeNextIs
  <2>2. k = (IF a[i] <= b[j] THEN i + 1 ELSE i) /\ l = IF a[i] >= b[j] THEN j + 1 ELSE j
    BY <1>1, <1>2, <1>3, <2>1, Zenon
  <2>3. PICK x \in Nat, y \in Nat : x = a[i] /\ y = b[j]
    BY <1>1
  <2>4. k = (IF x <= y THEN i + 1 ELSE i) /\ l = IF x >= y THEN j + 1 ELSE j
    BY <2>2, <2>3
  <2>5. /\ x = y => k = i + 1 /\ l = j + 1
        /\ x < y => k = i + 1 /\ l = j
        /\ y < x => k = i /\ l = j + 1
    BY <2>4
  <2> QED BY <2>3, <2>5
<1>11. PICK low : low = Lower(a, b, d)
  OBVIOUS
<1>12. /\ low \in Nat
       /\ Rest(a, i) \cup Rest(b, j) = {low} \cup (Rest(a, k) \cup Rest(b, l))
       /\ \A y \in Rest(a, k) \cup Rest(b, l) : low < y
  <2>1. CASE a[i] = b[j]
    <3>1. k = i + 1 /\ l = j + 1 /\ low = a[i]
      BY <1>1, <1>9, <1>10, <1>11, <2>1
    <3> QED BY <1>1, <1>8, <2>1, <3>1
  <2>2. CASE a[i] < b[j]
    <3>1. a[i] <= b[j]
      BY <1>1, <2>2, Compared
    <3>2. k = i + 1 /\ l = j /\ low = a[i]
      BY <1>9, <1>10, <1>11, <2>2, <3>1
    <3>3. \A x \in Rest(b, j) : a[i] < x
      <4>1. \A x \in Rest(b, j) : x \in Nat /\ (x = b[j] \/ b[j] < x)
        BY <1>8
      <4> QED BY <1>1, <2>2, <4>1, Compared
    <3> QED BY <1>1, <1>8, <3>2, <3>3
  <2>3. CASE b[j] < a[i]
    <3>1. ~ (a[i] <= b[j])
      BY <1>1, <2>3, Compared
    <3>2. k = i /\ l = j + 1 /\ low = b[j]
      BY <1>9, <1>10, <1>11, <2>3, <3>1
    <3>3. \A x \in Rest(a, i) : b[j] < x
      <4>1. \A x \in Rest(a, i) : x \in Nat /\ (x = a[i] \/ a[i] < x)
        BY <1>8
      <4> QED BY <1>1, <2>3, <4>1, Compared
    <3> QED BY <1>1, <1>8, <3>2, <3>3
  <2>4. a[i] = b[j] \/ a[i] < b[j] \/ b[j] < a[i]
    BY <1>1, Compared
  <2> QED BY <2>1, <2>2, <2>3, <2>4, Zenon
<1> QED BY <1>1, <1>2, <1>3, <1>6, <1>7, <1>11, <1>12

LEMMA UnionIsScan ==
    ASSUME NEW a \in Seq(Nat), NEW b \in Seq(Nat), NEW f
    PROVE  IsUnion(a, b, f)
             <=> IsScan(Heads(a, b), BothEnd(a, b), UnionBase(a, b), UnionEmit(a, b), MergeGo(a, b), f)
<1> DEFINE D == Heads(a, b)
           Scan(d) == ScanStep(BothEnd(a, b), UnionBase(a, b), UnionEmit(a, b), MergeGo(a, b), f, d)
<1>1. ASSUME NEW d \in D PROVE UnionStep(a, b, f, d) = Scan(d)
  <2>1. CASE d \in BothEnd(a, b)
    <3>1. d[1] > Len(a) \/ d[2] > Len(b)
      BY <2>1 DEF BothEnd
    <3>2. Scan(d) = SubSeq(a, d[1], Len(a)) \o SubSeq(b, d[2], Len(b))
      BY <2>1, Zenon DEF ScanStep, UnionBase
    <3> QED BY <3>1, <3>2, Zenon DEF UnionStep
  <2>2. CASE d \notin BothEnd(a, b)
    <3>1. ~ (d[1] > Len(a) \/ d[2] > Len(b))
      BY <2>2 DEF BothEnd
    <3>2. MergeGo(a, b)[d] = MergeNext(a, b, d)
      BY <2>2, MergeNextIs
    <3>3. UnionStep(a, b, f, d) = <<Lower(a, b, d)>> \o f[MergeNext(a, b, d)]
      BY <3>1, Zenon DEF UnionStep, MergeNext, Lower
    <3>4. UnionEmit(a, b)[d] = <<Lower(a, b, d)>>
      BY <2>2, Zenon DEF UnionEmit
    <3>5. <<Lower(a, b, d)>> # <<>>
      OBVIOUS
    <3>6. Scan(d) = <<Lower(a, b, d)>> \o f[MergeNext(a, b, d)]
      BY <2>2, <3>2, <3>4, <3>5, Zenon DEF ScanStep
    <3> QED BY <3>3, <3>6, Zenon
  <2> QED BY <2>1, <2>2
<1>2. [d \in D |-> UnionStep(a, b, f, d)] = [d \in D |-> Scan(d)]
  BY <1>1, Zenon
<1> QED BY <1>2, Zenon DEF IsUnion, IsScan

LEMMA UnionLists ==
    ASSUME NEW a, NEW b, NEW A, NEW B, Lists(a, A), Lists(b, B)
    PROVE  Lists(Union(a, b), A \cup B)
<1> DEFINE D == Heads(a, b)
           Stop == BothEnd(a, b)
           Base == UnionBase(a, b)
           Emit == UnionEmit(a, b)
           Here == UnionHere(a, b)
           Want == InEither(a, b)
           Rank == Left(a, b)
           Go == MergeGo(a, b)
           N == (Len(a) + 1) + (Len(b) + 1)
<1>1. a \in Seq(Nat) /\ b \in Seq(Nat) /\ Increasing(a) /\ Increasing(b) /\ ToSet(a) = A /\ ToSet(b) = B
  BY DEF Lists
<1>2. Len(a) \in Nat /\ Len(b) \in Nat
  BY <1>1
<1>3. \A d \in D : /\ d[1] \in Nat /\ 1 <= d[1] /\ d[1] <= Len(a) + 1
                   /\ d[2] \in Nat /\ 1 <= d[2] /\ d[2] <= Len(b) + 1
  BY <1>1, HeadsAre
<1>4. \A d \in D : d \in Stop => d[1] > Len(a) \/ d[2] > Len(b)
  BY DEF BothEnd
<1>5. \A d \in D : /\ Base[d] = SubSeq(a, d[1], Len(a)) \o SubSeq(b, d[2], Len(b))
                   /\ Want[d] = Rest(a, d[1]) \cup Rest(b, d[2])
                   /\ Here[d] = {Lower(a, b, d)}
                   /\ Emit[d] = IF d \in Stop THEN <<>> ELSE <<Lower(a, b, d)>>
  BY Zenon DEF UnionBase, InEither, UnionHere, UnionEmit
<1>6. Go \in [D -> D]
  BY <1>1, MergeGoIs
<1>7. ASSUME NEW d \in D, d \notin Stop
      PROVE  /\ Lower(a, b, d) \in Nat
             /\ d[1] + d[2] < Go[d][1] + Go[d][2]
             /\ Want[d] = {Lower(a, b, d)} \cup Want[Go[d]]
             /\ \A y \in Want[Go[d]] : Lower(a, b, d) < y
  BY <1>1, <1>7, UnionNextIs
<1>8. /\ Emit = [d \in D |-> Emit[d]] /\ Base = [d \in D |-> Base[d]]
  BY DEF UnionEmit, UnionBase
<1>9. <<1, 1>> \in D
  <2>1. 1 \in Nat /\ 1 <= 1 /\ 1 <= Len(a) + 1 /\ 1 <= Len(b) + 1
    BY <1>2
  <2> QED BY <1>1, <2>1, HeadsAre
<1>10. \A d \in D : d \notin Stop => d[1] + d[2] < Go[d][1] + Go[d][2]
  BY <1>7
<1>11. Descends(D, N, Rank, Stop, Go)
  BY <1>1, <1>6, <1>10, LeftDescends
<1> HIDE DEF D, Stop, Base, Emit, Here, Want, Rank, Go, N
<1>12. \A d \in D : /\ SubSeq(a, d[1], Len(a)) \in Seq(Nat) /\ SubSeq(b, d[2], Len(b)) \in Seq(Nat)
                    /\ Lists(SubSeq(a, d[1], Len(a)), Rest(a, d[1]))
                    /\ Lists(SubSeq(b, d[2], Len(b)), Rest(b, d[2]))
  BY <1>1, <1>3, RestLists
<1>13. Emit \in [D -> Seq(Nat)] /\ Base \in [D -> Seq(Nat)]
  <2>1. ASSUME NEW d \in D PROVE Emit[d] \in Seq(Nat)
    <3>1. <<>> \in Seq(Nat) /\ \A x \in Nat : <<x>> \in Seq(Nat)
      OBVIOUS
    <3>2. Emit[d] = <<>> \/ (Lower(a, b, d) \in Nat /\ Emit[d] = <<Lower(a, b, d)>>)
      BY <1>5, <1>7
    <3> QED BY <3>1, <3>2
  <2>2. ASSUME NEW d \in D PROVE Base[d] \in Seq(Nat)
    <3>1. PICK s \in Seq(Nat), t \in Seq(Nat) : s = SubSeq(a, d[1], Len(a)) /\ t = SubSeq(b, d[2], Len(b))
      BY <1>12
    <3>2. s \o t \in Seq(Nat)
      OBVIOUS
    <3>3. Base[d] = s \o t
      BY <1>5, <3>1, Zenon
    <3> QED BY <3>2, <3>3
  <2> QED BY <1>8, <2>1, <2>2
<1>14. Wanted(D, Stop, Base, Emit, Go, Want, Here)
  <2>1. ASSUME NEW d \in D, d \in Stop PROVE Lists(Base[d], Want[d])
    <3>1. Rest(a, d[1]) = {} \/ Rest(b, d[2]) = {}
      BY <1>1, <1>3, <1>4, <2>1, RestIs
    <3>2. \A x \in Rest(a, d[1]), y \in Rest(b, d[2]) : x < y
      BY <3>1
    <3>3. Lists(SubSeq(a, d[1], Len(a)) \o SubSeq(b, d[2], Len(b)), Rest(a, d[1]) \cup Rest(b, d[2]))
      BY <1>12, <3>2, ListsBoth
    <3> QED BY <1>5, <3>3
  <2>2. ASSUME NEW d \in D, d \notin Stop
        PROVE  /\ Lists(Emit[d], Here[d]) /\ Want[d] = Here[d] \cup Want[Go[d]]
               /\ \A x \in Here[d], y \in Want[Go[d]] : x < y
    <3>1. PICK low : low = Lower(a, b, d)
      OBVIOUS
    <3>2. low \in Nat /\ Emit[d] = <<low>> /\ Here[d] = {low}
      BY <1>5, <1>7, <2>2, <3>1
    <3>3. Lists(<<low>>, {low})
      BY <3>2, ListsOne
    <3>4. Want[d] = {low} \cup Want[Go[d]] /\ \A y \in Want[Go[d]] : low < y
      BY <1>7, <2>2, <3>1
    <3> QED BY <3>2, <3>3, <3>4
  <2> QED BY <2>1, <2>2 DEF Wanted
<1>15. \E f : IsScan(D, Stop, Base, Emit, Go, f)
  BY <1>11, <1>13, ScanExists
<1>16. \A f : IsUnion(a, b, f) <=> IsScan(D, Stop, Base, Emit, Go, f)
  BY <1>1, UnionIsScan DEF D, Stop, Base, Emit, Go
<1>17. PICK f : f = UnionTable(a, b)
  OBVIOUS
<1>18. IsUnion(a, b, f)
  <2>1. \E g : IsUnion(a, b, g)
    BY <1>15, <1>16
  <2> QED BY <1>17, <2>1, Zenon DEF UnionTable
<1>19. \A d \in D : Lists(f[d], Want[d])
  BY <1>11, <1>14, <1>16, <1>18, ScanLists
<1>20. Want[<<1, 1>>] = A \cup B
  <2>1. Rest(a, 1) = A /\ Rest(b, 1) = B
    BY <1>1, RestIs
  <2> QED BY <1>5, <1>9, <2>1
<1>21. Union(a, b) = UnionTable(a, b)[<<1, 1>>]
  BY DEF Union, UnionTable, IsUnion, UnionStep
<1> QED BY <1>9, <1>17, <1>19, <1>20, <1>21

-----------------------------------------------------------------------------
(* The operations *)

\* intersect chooses between the searches by the lengths of the lists, and any of them
\* returns the ids that both lists have, once and in order: for lists of every
\* length and whatever the ratio of their lengths.
THEOREM IntersectIsExact ==
    ASSUME NEW a, NEW b, NEW A, NEW B, Lists(a, A), Lists(b, B)
    PROVE  Lists(Intersect(a, b), A \cap B)
<1>1. CASE a = <<>> \/ b = <<>>
  <2>1. Intersect(a, b) = <<>>
    BY <1>1, Zenon DEF Intersect
  <2>2. A \cap B = {}
    <3>1. ToSet(<<>>) = {}
      BY ListsNothing DEF Lists
    <3> QED BY <1>1, <3>1 DEF Lists
  <2> QED BY <2>1, <2>2, ListsNothing
<1>2. CASE ~ (a = <<>> \/ b = <<>>)
  <2>1. \/ Intersect(a, b) = IntersectGalloping(a, b)
        \/ Intersect(a, b) = IntersectGalloping(b, a)
        \/ Intersect(a, b) = IntersectMerge(a, b)
    BY <1>2, Zenon DEF Intersect
  <2>2. /\ Lists(IntersectGalloping(a, b), A \cap B) /\ Lists(IntersectGalloping(b, a), B \cap A)
        /\ Lists(IntersectMerge(a, b), A \cap B)
    BY GallopLists, MergeLists
  <2>3. B \cap A = A \cap B
    OBVIOUS
  <2> QED BY <2>1, <2>2, <2>3
<1> QED BY <1>1, <1>2

\* The streaming intersection returns the very list that the one over slices does.
THEOREM StreamsAgree ==
    ASSUME NEW a, NEW b, NEW A, NEW B, Lists(a, A), Lists(b, B)
    PROVE  IntersectIters(a, b) = Intersect(a, b)
<1>1. Lists(IntersectIters(a, b), A \cap B) /\ Lists(Intersect(a, b), A \cap B)
  BY ItersLists, IntersectIsExact
<1> QED BY <1>1, OneList

\* union returns the ids that either list has, once and in order.
THEOREM UnionIsExact ==
    ASSUME NEW a, NEW b, NEW A, NEW B, Lists(a, A), Lists(b, B)
    PROVE  Lists(Union(a, b), A \cup B)
  BY UnionLists
=============================================================================
