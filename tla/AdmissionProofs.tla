-------------------------- MODULE AdmissionProofs --------------------------
(***************************************************************************)
(* Proofs about Admission, for any set of commands, of programs, of        *)
(* worlds and of datasets, and any number of changes to the world.         *)
(*                                                                         *)
(* IInv says that the request is what the command line makes of its flags  *)
(* and files, what the steps it has passed have found out of it and, as    *)
(* long as the world has not changed, of the world, and that the rows are  *)
(* the lines read so far.                                                  *)
(***************************************************************************)
EXTENDS Admission, WellFoundedInduction, TLAPS

\* The steps that come after each of the checks.
AfterGraderBuilt == {"ready"}
AfterJudgeBuilt == AfterGraderBuilt \cup {"build_grader"}
AfterDataset == AfterJudgeBuilt \cup {"redact", "build_judge"}
AfterJudge == AfterDataset \cup {"dataset"}
AfterGrader == AfterJudge \cup {"judge"}
AfterOutputDir == AfterGrader \cup {"grader"}
AfterArguments == AfterOutputDir \cup {"output_dir"}

\* What the command line has made of the flags and the files ...
CommandInv ==
    (step # "command" /\ verdict.during # "command") => ParseOk(cmd) /\ request = Parse(cmd)

\* ... what is known of the request ...
RequestInv ==
    /\ step \in AfterArguments => RequestValid(request)
    /\ step \in AfterGrader =>
          /\ requires = ToSet(request.grader.requires)
          /\ request.grader.protocol = "builtin" => DeclarationAgrees(request.grader)
    /\ step \in AfterJudgeBuilt => (request.judge.there => judge)

\* ... of the rows ...
RowsInv ==
    /\ rows \in Seq(Lines)
    /\ step \notin AfterJudge \cup {"rejected"} => rows = << >>
    /\ step \in AfterJudge => \A i \in DOMAIN rows : requires \subseteq DOMAIN rows[i].fields

\* ... of the lines that they were read from, in a dataset that has not changed ...
LinesInv ==
    /\ \A i, j \in DOMAIN rows : rows[i].id = rows[j].id => i = j
    /\ step \notin AfterJudge \cup {"rejected"} => line = 1
    /\ (changes = 0 /\ step \in AfterJudge) =>
          /\ line > 1 => world.dataset.there
          /\ \A n \in 1..(line - 1) : n \in DOMAIN world.dataset.lines /\ GoodLine(n)
          /\ RowsBefore(line)
    /\ (changes = 0 /\ step \in AfterDataset) =>
          world.dataset.there /\ line > Len(world.dataset.lines)

\* ... and of a world that has not changed.
WorldInv ==
    changes = 0 =>
        /\ step \in AfterOutputDir => DirFree
        /\ step \in AfterJudge => (request.grader.judge => JudgeUsable(request.judge))

VerdictInv == step # "rejected" => verdict = NoVerdict

IInv ==
    /\ TypeOK /\ CommandInv /\ RequestInv /\ RowsInv /\ LinesInv /\ WorldInv /\ VerdictInv
    /\ FirstObjectionIsReported /\ FirstBadLineIsReported /\ LateFailureMeansChange

-----------------------------------------------------------------------------
(* Declarations *)

\* A Grader reads no field that its declaration, with the parameters given, leaves out.
LEMMA ReadsAreRequired ==
  ASSUME NEW entry \in Entries, NEW params
  PROVE  Reads(entry, params) \subseteq EffectiveRequires(entry, params)
<1>1. CASE entry = "llm_judge"
  <2>1. Requires(entry) = {"input", "output"} BY <1>1 DEF Requires
  <2>2. Optional(entry) = {"use_reference", "use_trajectory"} BY <1>1 DEF Optional
  <2>3. IsTrue(params, "use_reference") => "reference" \in EffectiveRequires(entry, params)
    BY <2>2 DEF EffectiveRequires, Adds
  <2>4. IsTrue(params, "use_trajectory") => "trajectory" \in EffectiveRequires(entry, params)
    <3>1. Adds("use_trajectory") = "trajectory" BY DEF Adds
    <3>2. QED BY <2>2, <3>1 DEF EffectiveRequires
  <2>5. QED BY <1>1, <2>1, <2>3, <2>4 DEF Reads, EffectiveRequires
<1>2. CASE entry # "llm_judge"
  <2>1. Reads(entry, params) \subseteq Requires(entry)
    BY <1>2 DEF Reads, Requires, Entries, Builtin, Custom
  <2>2. QED BY <2>1 DEF EffectiveRequires
<1>3. QED BY <1>1, <1>2

\* A rule Grader that has no verdict for want of a reference is one that reads it.
LEMMA ObjectorsRead ==
  ASSUME NEW entry \in RuleGraders, NEW params, NEW row,
         "insufficient_evidence" \in RuleVerdicts(entry, params, row)
  PROVE  "reference" \in Reads(entry, params)
<1>1. entry \notin {"regex", "json_schema"}
  BY DEF RuleVerdicts, Conclusive, RuleGraders
<1>2. QED BY <1>1 DEF RuleGraders, Reads

-----------------------------------------------------------------------------
(* Overrides *)

\* Each set of natural numbers has a least one.
LEMMA LeastNat ==
  ASSUME NEW T, T \subseteq Nat, T # {}
  PROVE  \E x \in T : \A y \in T : x <= y
<1> DEFINE R == {p \in Nat \X Nat : p[1] < p[2]}
<1>1. IsWellFoundedOn(R, Nat)
  BY NatLessThanWellFounded DEF OpToRel
<1>2. PICK x \in T : \A y \in T : ~ (<<y, x>> \in R)
  <2> HIDE DEF R
  <2> QED BY <1>1, WFMin
<1>3. \A y \in T : <<y, x>> \in Nat \X Nat /\ (<<y, x>> \in R <=> y < x)
  OBVIOUS
<1>4. ASSUME NEW y \in T PROVE x <= y
  <2>1. ~(y < x) BY ONLY <1>2, <1>3, y \in T, Zenon
  <2>2. x \in Int /\ y \in Int OBVIOUS
  <2> HIDE DEF R
  <2>3. QED BY ONLY <2>1, <2>2
<1>5. QED BY <1>4

\* Induction over the natural numbers, as membership in a set.
LEMMA NatSetInduction ==
  ASSUME NEW T, 0 \in T, \A n \in Nat : n \in T => n+1 \in T
  PROVE  Nat \subseteq T
<1> SUFFICES ASSUME Nat \ T # {} PROVE FALSE OBVIOUS
<1>1. PICK x \in Nat \ T : \A y \in Nat \ T : x <= y
  <2> DEFINE U == Nat \ T
  <2>1. U \subseteq Nat /\ U # {} OBVIOUS
  <2> HIDE DEF U
  <2>2. \E z \in U : \A y \in U : z <= y BY <2>1, LeastNat
  <2> QED BY <2>2 DEF U
<1>2. x # 0 /\ x - 1 \in Nat /\ x - 1 \notin Nat \ T BY <1>1
<1>3. QED BY <1>2, x = (x-1)+1

\* The greatest of a set whose greatest element is known.
LEMMA MaxIs ==
  ASSUME NEW s, NEW x \in s, s \subseteq Nat, \A y \in s : x >= y
  PROVE  Max(s) = x
<1>1. \A z \in s : (\A y \in s : z >= y) => z = x OBVIOUS
<1>2. QED BY <1>1 DEF Max

\* g folds the overrides whose place is in a set, the last one last.
Folding(g, params, pairs, n) ==
    g = [s \in SUBSET (1..n) |->
            IF s = {} THEN params ELSE Set(g[s \ {Max(s)}], pairs[Max(s)])]

\* There is such a function for any number of overrides: one more in the last place makes it
\* out of the one before.
LEMMA FoldingExists ==
  ASSUME NEW params, NEW pairs
  PROVE  \A n \in Nat : \E g : Folding(g, params, pairs, n)
<1> DEFINE T == {n \in Nat : \E g : Folding(g, params, pairs, n)}
<1>1. 0 \in T
  <2> DEFINE g == [s \in SUBSET (1..0) |-> params]
  <2>1. \A s \in SUBSET (1..0) : s = {} OBVIOUS
  <2>2. Folding(g, params, pairs, 0) BY <2>1 DEF Folding
  <2> QED BY <2>2
<1>2. ASSUME NEW n \in Nat, n \in T PROVE n + 1 \in T
  <2>1. PICK g : Folding(g, params, pairs, n) BY <1>2
  <2> DEFINE h == [s \in SUBSET (1..(n + 1)) |->
                      IF n + 1 \in s THEN Set(g[s \ {n + 1}], pairs[n + 1]) ELSE g[s]]
             body(f, s) == IF s = {} THEN params ELSE Set(f[s \ {Max(s)}], pairs[Max(s)])
  <2>2. ASSUME NEW s \in SUBSET (1..(n + 1)) PROVE h[s] = body(h, s)
    <3>1. CASE n + 1 \in s
      <4>1. Max(s) = n + 1 
        <5>1. s \subseteq Nat /\ \A y \in s : n + 1 >= y OBVIOUS
        <5> HIDE DEF h
        <5> QED BY <3>1, <5>1, MaxIs
      <4>2. s \ {n + 1} \in SUBSET (1..(n + 1)) /\ n + 1 \notin s \ {n + 1} OBVIOUS
      <4>3. h[s \ {n + 1}] = g[s \ {n + 1}] BY <4>2
      <4>4. h[s] = Set(g[s \ {n + 1}], pairs[n + 1]) BY <3>1
      <4>5. s # {} BY <3>1
      <4> HIDE DEF h
      <4> QED BY <4>1, <4>3, <4>4, <4>5
    <3>2. CASE n + 1 \notin s
      <4>1. s \in SUBSET (1..n) BY <3>2
      <4>2. h[s] = g[s] BY <3>2
      <4>3. g[s] = body(g, s) 
        <5> HIDE DEF h
        <5> QED BY <2>1, <4>1 DEF Folding
      <4>4. \A x : s \ {x} \in SUBSET (1..(n + 1)) /\ n + 1 \notin s \ {x}
        <5>1. s \in SUBSET (1..(n + 1)) OBVIOUS
        <5> HIDE DEF h
        <5> QED BY <3>2, <5>1, Zenon
      <4>5. \A x : h[s \ {x}] = g[s \ {x}] BY <4>4
      <4> HIDE DEF h
      <4> QED BY <4>2, <4>3, <4>5
    <3> QED BY <3>1, <3>2
  <2>3. h = [s \in SUBSET (1..(n + 1)) |-> h[s]] OBVIOUS
  <2>4. h = [s \in SUBSET (1..(n + 1)) |-> body(h, s)]
    <3> HIDE DEF h, body
    <3> QED BY <2>2, <2>3
  <2>5. Folding(h, params, pairs, n + 1) BY <2>4 DEF Folding
  <2> HIDE DEF h
  <2> QED BY <2>5
<1>3. Nat \subseteq T
  <2> HIDE DEF T
  <2> QED BY <1>1, <1>2, NatSetInduction
<1> QED BY <1>3

LEMMA FoldIs ==
  ASSUME NEW params, NEW S, NEW pairs \in Seq(S)
  PROVE  \E g : Folding(g, params, pairs, Len(pairs)) /\ Fold(params, pairs) = g[1..Len(pairs)]
<1> DEFINE g == CHOOSE g : Folding(g, params, pairs, Len(pairs))
<1>1. Folding(g, params, pairs, Len(pairs))
  <2>1. Len(pairs) \in Nat OBVIOUS
  <2>2. \E f : Folding(f, params, pairs, Len(pairs)) BY <2>1, FoldingExists
  <2>3. QED BY <2>2, Zenon
<1>2. Fold(params, pairs) = g[1..Len(pairs)]
  BY DOMAIN pairs = 1..Len(pairs) DEF Fold, FoldLeft, MapThenFoldSet, Folding
<1> HIDE DEF g
<1> QED BY <1>1, <1>2

\* What the first k of the overrides leave.
Overridden(f, params, pairs, k) ==
    /\ DOMAIN f = DOMAIN params \cup {pairs[i].key : i \in 1..k}
    /\ \A i \in 1..k : (\A j \in 1..k : pairs[j].key = pairs[i].key => j <= i) =>
           f[pairs[i].key] = Scalar(pairs[i].raw)
    /\ \A m \in DOMAIN params : (\A i \in 1..k : pairs[i].key # m) => f[m] = params[m]

LEMMA SetOverrides ==
  ASSUME NEW f, NEW params, NEW pairs, NEW k \in Nat, Overridden(f, params, pairs, k)
  PROVE  Overridden(Set(f, pairs[k + 1]), params, pairs, k + 1)
<1> DEFINE key == pairs[k + 1].key
           h == Set(f, pairs[k + 1])
<1>1. DOMAIN h = DOMAIN f \cup {key} /\ h[key] = Scalar(pairs[k + 1].raw) BY DEF Set
<1>2. \A m \in DOMAIN f : m # key => h[m] = f[m] BY DEF Set
<1> HIDE DEF h
<1>3. DOMAIN h = DOMAIN params \cup {pairs[i].key : i \in 1..(k + 1)}
  <2>1. 1..(k + 1) = 1..k \cup {k + 1} OBVIOUS
  <2>2. {pairs[i].key : i \in 1..(k + 1)} = {pairs[i].key : i \in 1..k} \cup {key} BY <2>1
  <2>3. DOMAIN f = DOMAIN params \cup {pairs[i].key : i \in 1..k} BY DEF Overridden
  <2>4. QED BY <1>1, <2>2, <2>3
<1>4. ASSUME NEW i \in 1..(k + 1), \A j \in 1..(k + 1) : pairs[j].key = pairs[i].key => j <= i
      PROVE  h[pairs[i].key] = Scalar(pairs[i].raw)
  <2>1. CASE i = k + 1 BY <1>1, <2>1
  <2>2. CASE i # k + 1
    <3>1. i \in 1..k /\ pairs[i].key # key
      <4>1. k + 1 \in 1..(k + 1) /\ ~(k + 1 <= i) BY <2>2
      <4>2. QED BY <1>4, <2>2, <4>1
    <3>2. \A j \in 1..k : pairs[j].key = pairs[i].key => j <= i BY <1>4
    <3>3. pairs[i].key \in DOMAIN f BY <3>1 DEF Overridden
    <3>4. QED BY <1>2, <3>1, <3>2, <3>3 DEF Overridden
  <2>3. QED BY <2>1, <2>2
<1>5. ASSUME NEW m \in DOMAIN params, \A i \in 1..(k + 1) : pairs[i].key # m
      PROVE  h[m] = params[m]
  <2>1. m # key /\ \A i \in 1..k : pairs[i].key # m BY <1>5
  <2>2. m \in DOMAIN f BY DEF Overridden
  <2>3. QED BY <1>2, <2>1, <2>2 DEF Overridden
<1>6. QED BY <1>3, <1>4, <1>5 DEF Overridden, h

LEMMA LastOverrideWins ==
  ASSUME NEW params, NEW S, NEW pairs \in Seq(S)
  PROVE  LastOneWins(pairs, params, Fold(params, pairs))
<1>1. PICK g : Folding(g, params, pairs, Len(pairs)) /\ Fold(params, pairs) = g[1..Len(pairs)]
  BY FoldIs
<1> DEFINE T == {k \in Nat : k <= Len(pairs) => Overridden(g[1..k], params, pairs, k)}
<1>2. 0 \in T
  <2>1. 1..0 = {} /\ {} \in SUBSET (1..Len(pairs)) OBVIOUS
  <2>2. g[{}] = params BY <1>1, <2>1 DEF Folding
  <2>3. Overridden(params, params, pairs, 0) BY <2>1 DEF Overridden
  <2>4. QED BY <2>1, <2>2, <2>3
<1>3. ASSUME NEW k \in Nat, k \in T PROVE k + 1 \in T
  <2> SUFFICES ASSUME k + 1 <= Len(pairs)
               PROVE  Overridden(g[1..(k + 1)], params, pairs, k + 1)
    OBVIOUS
  <2> DEFINE s == 1..(k + 1)
  <2>1. s \in SUBSET (1..Len(pairs)) /\ s # {} /\ s \ {k + 1} = 1..k OBVIOUS
  <2>2. Max(s) = k + 1
    <3>1. k + 1 \in s /\ s \subseteq Nat /\ \A y \in s : k + 1 >= y OBVIOUS
    <3> HIDE DEF s
    <3>2. QED BY <3>1, MaxIs
  <2>3. g[s] = Set(g[1..k], pairs[k + 1])
    <3> HIDE DEF s
    <3> QED BY <1>1, <2>1, <2>2 DEF Folding
  <2>4. Overridden(g[1..k], params, pairs, k) BY <1>3
  <2>5. QED BY <2>3, <2>4, SetOverrides
<1>4. Nat \subseteq T
  <2> HIDE DEF T
  <2> QED BY <1>2, <1>3, NatSetInduction
<1>5. Overridden(Fold(params, pairs), params, pairs, Len(pairs))
  <2>1. Len(pairs) \in T BY <1>4
  <2>2. QED BY <1>1, <2>1
<1>6. DOMAIN pairs = 1..Len(pairs) OBVIOUS
<1>7. QED BY <1>5, <1>6 DEF Overridden, LastOneWins

\* The Judge before the overrides is that of its file.
LEMMA MergedJudge ==
  ASSUME NEW c, DOMAIN FromFile(c) = DOMAIN EmptyRequest
  PROVE  Merged(c).judge = JudgeFile(c)
<1> DEFINE r0 == FromFile(c)
           r1 == ApplyPaths(r0, c)
           r2 == ApplyGraderFile(r1, c)
           r3 == ApplyJudgeFile(r2, c)
           fields == {"specVersion", "task", "dataset", "output", "grader", "judge", "concurrency", "failFast"}
<1>1. DOMAIN r0 = fields BY DEF EmptyRequest
<1>2. DOMAIN r1 = fields /\ r1.judge = r0.judge
  <2> HIDE DEF r0
  <2> QED BY <1>1 DEF ApplyPaths
<1>3. DOMAIN r2 = fields /\ r2.judge = r0.judge
  <2> HIDE DEF r0, r1
  <2> QED BY <1>2 DEF ApplyGraderFile
<1>4. DOMAIN r3 = fields /\ r3.judge = JudgeFile(c)
  <2> HIDE DEF r2
  <2> QED BY <1>3 DEF ApplyJudgeFile, JudgeFile
<1>5. ApplyExecution(r3, c).judge = r3.judge
  <2> HIDE DEF r3
  <2> QED BY <1>4 DEF ApplyExecution
<1>6. QED BY <1>4, <1>5 DEF Merged

\* What Parse makes of a command, whatever its files are and whatever it overrides.
LEMMA FlagsOverride ==
  ASSUME NEW c, DOMAIN FromFile(c) = DOMAIN EmptyRequest, "params" \in DOMAIN GraderFile(c),
         c.judgeParams = << >> \/ "params" \in DOMAIN JudgeFile(c)
  PROVE  /\ \A p \in {"task", "dataset", "output"} :
                Parse(c)[p] = IF p \in c.paths THEN "flag" ELSE FromFile(c)[p]
         /\ c.concurrency # 0 => Parse(c).concurrency = c.concurrency
         /\ LET run == Fold(GraderFile(c).params, c.graderParams)
            IN Parse(c).grader = [GraderFile(c) EXCEPT !.params = run] /\ Parse(c).grader.params = run
         /\ c.judgeParams = << >> => Parse(c).judge = JudgeFile(c)
         /\ LET run == Fold(JudgeFile(c).params, c.judgeParams)
            IN c.judgeParams # << >> =>
                   Parse(c).judge = [JudgeFile(c) EXCEPT !.params = run] /\ Parse(c).judge.params = run
<1> DEFINE r0 == FromFile(c)
           r1 == ApplyPaths(r0, c)
           r2 == ApplyGraderFile(r1, c)
           r3 == ApplyJudgeFile(r2, c)
           r4 == ApplyExecution(r3, c)
           r5 == ApplyParamOverrides(r4, c)
           gradedBy == [GraderFile(c) EXCEPT !.params = Fold(GraderFile(c).params, c.graderParams)]
           judgedBy == [JudgeFile(c) EXCEPT !.params = Fold(JudgeFile(c).params, c.judgeParams)]
           fields == {"specVersion", "task", "dataset", "output", "grader", "judge", "concurrency", "failFast"}
           paths == {"task", "dataset", "output"}
<1>0. DOMAIN r0 = fields BY DEF EmptyRequest
<1>1. /\ DOMAIN r1 = fields /\ r1.grader = r0.grader /\ r1.judge = r0.judge
      /\ \A p \in paths : r1[p] = IF p \in c.paths THEN "flag" ELSE r0[p]
  <2> HIDE DEF r0
  <2> QED BY <1>0 DEF ApplyPaths, OverrideString
<1>2. DOMAIN r2 = fields /\ r2.grader = GraderFile(c) /\ r2.judge = r0.judge /\ \A p \in paths : r2[p] = r1[p]
  <2> HIDE DEF r1
  <2> QED BY <1>1 DEF ApplyGraderFile, GraderFile
<1>3. DOMAIN r3 = fields /\ r3.grader = GraderFile(c) /\ r3.judge = JudgeFile(c) /\ \A p \in paths : r3[p] = r1[p]
  <2> HIDE DEF r1, r2
  <2> QED BY <1>2 DEF ApplyJudgeFile, JudgeFile
<1>4. /\ DOMAIN r4 = fields /\ r4.grader = GraderFile(c) /\ r4.judge = JudgeFile(c)
      /\ \A p \in paths : r4[p] = r1[p]
      /\ c.concurrency # 0 => r4.concurrency = c.concurrency
  <2> HIDE DEF r1, r3
  <2> QED BY <1>3 DEF ApplyExecution
<1>5. /\ DOMAIN r5 = fields /\ r5.concurrency = r4.concurrency /\ \A p \in paths : r5[p] = r1[p]
      /\ r5.grader = gradedBy
      /\ r5.judge = IF c.judgeParams = << >> THEN JudgeFile(c) ELSE judgedBy
  <2> HIDE DEF r1, r4
  <2> QED BY <1>4 DEF ApplyParamOverrides
<1>6. Parse(c) = Normalize(r5) BY DEF Parse, Merged
<1>7. /\ \A p \in paths : Parse(c)[p] = r1[p]
      /\ c.concurrency # 0 => Parse(c).concurrency = c.concurrency
      /\ Parse(c).grader = gradedBy
      /\ Parse(c).judge = IF c.judgeParams = << >> THEN JudgeFile(c) ELSE judgedBy
  <2> HIDE DEF r1, r4, r5, gradedBy, judgedBy
  <2> QED BY <1>4, <1>5, <1>6 DEF Normalize
<1>8. gradedBy.params = Fold(GraderFile(c).params, c.graderParams) OBVIOUS
<1>9. c.judgeParams # << >> => judgedBy.params = Fold(JudgeFile(c).params, c.judgeParams) OBVIOUS
<1> HIDE DEF r1, r5
<1> QED BY <1>1, <1>7, <1>8, <1>9

-----------------------------------------------------------------------------
(* The invariant *)

LEMMA InitInv == Init => IInv
<1> SUFFICES ASSUME Init PROVE IInv OBVIOUS
<1> USE DEF Init
<1>1. TypeOK
  <2>1. world \in [dir : {"absent", "empty", "full", "file"}, key : BOOLEAN, program : BOOLEAN,
                   dataset : Datasets]
    BY WorldsAssumption
  <2>2. changes \in 0..MaxChanges BY MaxChangesAssumption
  <2>3. Len(rows) < line BY Len(<< >>) = 0
  <2>4. verdict \in [kind : {"none", "argument", "precheck", "output"},
                     at : {"none", "arguments", "output_dir_conflict", "grader_declaration",
                           "judge_model", "dataset_parse", "session_requires"},
                     during : Steps \cup {"none"}]
    BY DEF NoVerdict
  <2>5. step \in Steps BY DEF Steps
  <2>6. line \in Nat \ {0} OBVIOUS
  <2>7. QED BY <2>1, <2>2, <2>3, <2>4, <2>5, <2>6, Zenon DEF TypeOK
<1>2. RequestInv /\ VerdictInv
  BY DEF RequestInv, VerdictInv, AfterArguments, AfterOutputDir, AfterGrader, AfterJudge,
         AfterDataset, AfterJudgeBuilt, AfterGraderBuilt
<1>3. RowsInv
  BY DEF RowsInv, AfterJudge, AfterDataset, AfterJudgeBuilt, AfterGraderBuilt
<1>4. WorldInv
  BY DEF WorldInv, AfterOutputDir, AfterGrader, AfterJudge, AfterDataset, AfterJudgeBuilt,
         AfterGraderBuilt
<1>5. FirstObjectionIsReported /\ LateFailureMeansChange /\ FirstBadLineIsReported
  BY DEF FirstObjectionIsReported, LateFailureMeansChange, FirstBadLineIsReported, NoVerdict
<1>6. CommandInv /\ LinesInv
  BY DEF CommandInv, LinesInv, AfterJudge, AfterDataset, AfterJudgeBuilt, AfterGraderBuilt
<1>7. QED BY <1>1, <1>2, <1>3, <1>4, <1>5, <1>6 DEF IInv

-----------------------------------------------------------------------------
(* What a step leaves alone *)

LEMMA Frame ==
  ASSUME [Next]_vars, changes \in Nat
  PROVE  /\ cmd' = cmd /\ registry' = registry
         /\ step # "command" => request' = request
         /\ step # "grader" => requires' = requires
         /\ step # "dataset" => rows' = rows /\ line' = line
         /\ step # "build_judge" => judge' = judge
         /\ changes' = changes => world' = world
         /\ step \in {"rejected", "ready"} => UNCHANGED vars
<1> USE DEF Next, vars, ParseCommand, CheckArguments, CheckOutputDir, CheckGrader, CheckJudge,
         ReadLine, OpenFails, DatasetEnds, Redact, BuildJudge, BuildGrader, Change, Terminating,
         Decided
<1>1. cmd' = cmd /\ registry' = registry OBVIOUS
<1>2. step # "command" => request' = request OBVIOUS
<1>3. step # "grader" => requires' = requires OBVIOUS
<1>4. step # "dataset" => rows' = rows /\ line' = line OBVIOUS
<1>5. step # "build_judge" => judge' = judge OBVIOUS
<1>6. changes' = changes => world' = world OBVIOUS
<1>7. step \in {"rejected", "ready"} => UNCHANGED vars OBVIOUS
<1>8. QED BY <1>1, <1>2, <1>3, <1>4, <1>5, <1>6, <1>7

\* The order of the steps.
LEMMA Path ==
  ASSUME [Next]_vars, step' # step
  PROVE  \/ step' = "rejected"
         \/ step = "command" /\ step' = "arguments"
         \/ step = "arguments" /\ step' = "output_dir"
         \/ step = "output_dir" /\ step' = "grader"
         \/ step = "grader" /\ step' = "judge"
         \/ step = "judge" /\ step' = "dataset"
         \/ step = "dataset" /\ step' = "redact"
         \/ step = "redact" /\ step' = "build_judge"
         \/ step = "build_judge" /\ step' = "build_grader"
         \/ step = "build_grader" /\ step' = "ready"
  BY DEF Next, vars, ParseCommand, CheckArguments, CheckOutputDir, CheckGrader, CheckJudge,
         ReadLine, OpenFails, DatasetEnds, Redact, BuildJudge, BuildGrader, Change, Terminating,
         Decided, Go, Reject

ErrorKinds == {"argument", "precheck", "output"}
Objections == {"arguments", "output_dir_conflict", "grader_declaration", "judge_model",
               "dataset_parse", "session_requires"}

\* An error comes with the step that rejects.
LEMMA Rejection ==
  ASSUME [Next]_vars, step' = "rejected", step # "rejected"
  PROVE  \E kind \in ErrorKinds, at \in Objections :
            verdict' = [kind |-> kind, at |-> at, during |-> step]
  BY DEF Next, vars, ParseCommand, CheckArguments, CheckOutputDir, CheckGrader, CheckJudge,
         ReadLine, OpenFails, DatasetEnds, Redact, BuildJudge, BuildGrader, Change, Terminating,
         Decided, Go, Reject, ErrorKinds, Objections

LEMMA NoRejection ==
  ASSUME [Next]_vars, step' # "rejected"
  PROVE  verdict' = verdict
  BY DEF Next, vars, ParseCommand, CheckArguments, CheckOutputDir, CheckGrader, CheckJudge,
         ReadLine, OpenFails, DatasetEnds, Redact, BuildJudge, BuildGrader, Change, Terminating,
         Decided, Go, Reject

-----------------------------------------------------------------------------
(* The invariant is preserved, part by part *)

\* What ReadLine reads is a line.
LEMMA CurrentIsLine ==
  ASSUME TypeOK, step = "dataset", ~Unopened, ~AtEnd
  PROVE  Current \in Lines
<1>1. world.dataset \in Datasets BY DEF TypeOK
<1>2. world.dataset.lines \in Seq(Lines) BY <1>1, DatasetsAssumption
<1>3. line \in 1..Len(world.dataset.lines) BY <1>2 DEF TypeOK, AtEnd
<1>4. QED BY <1>2, <1>3 DEF Current

LEMMA RowsPreserved ==
  ASSUME IInv, [Next]_vars
  PROVE  RowsInv' /\ line' \in Nat \ {0} /\ Len(rows') < line'
<1>1. CASE step = "dataset" /\ ReadLine
  <2>1. step \in AfterJudge /\ requires' = requires
    BY <1>1 DEF ReadLine, AfterJudge, AfterDataset, AfterJudgeBuilt, AfterGraderBuilt
  <2>2. rows \in Seq(Lines) /\ \A i \in DOMAIN rows : requires \subseteq DOMAIN rows[i].fields
    BY <2>1 DEF IInv, RowsInv
  <2>3. line \in Nat \ {0} /\ line' = line + 1 /\ Len(rows) < line
    BY <1>1 DEF ReadLine, IInv, TypeOK
  <2>4. CASE rows' = rows
    <3>1. step' \in AfterJudge \cup {"rejected"}
      BY <1>1 DEF ReadLine, Go, Reject, AfterJudge, AfterDataset, AfterJudgeBuilt, AfterGraderBuilt
    <3>2. QED BY <2>1, <2>2, <2>3, <2>4, <3>1 DEF RowsInv
  <2>5. CASE rows' # rows
    <3>1. Current \in Lines BY <1>1, CurrentIsLine DEF ReadLine, IInv
    <3>2. rows' = Append(rows, Current) /\ Accepted(Current) /\ step' = "dataset"
      BY <1>1, <2>5 DEF ReadLine, Go
    <3>3. requires \subseteq DOMAIN Current.fields
      BY <3>2 DEF Accepted, MissingFields
    <3>4. rows' \in Seq(Lines) /\ Len(rows') = Len(rows) + 1 BY <2>2, <3>1, <3>2
    <3>5. \A i \in DOMAIN rows' : requires' \subseteq DOMAIN rows'[i].fields
      BY <2>1, <2>2, <3>1, <3>2, <3>3
    <3>6. step' \in AfterJudge
      BY <3>2 DEF AfterJudge
    <3>7. Len(rows') < line' BY <2>2, <2>3, <3>4
    <3>8. QED BY <2>3, <3>4, <3>5, <3>6, <3>7 DEF RowsInv
  <2>6. QED BY <2>4, <2>5
<1>2. CASE ~(step = "dataset" /\ ReadLine)
  <2>1. rows' = rows /\ line' = line
    BY <1>2 DEF Next, vars, ParseCommand, CheckArguments, CheckOutputDir, CheckGrader, CheckJudge,
         ReadLine, OpenFails, DatasetEnds, Redact, BuildJudge, BuildGrader, Change, Terminating
  <2>2. CASE step \in AfterJudge
    <3>1. requires' = requires
      BY <2>2, Frame DEF IInv, TypeOK, AfterJudge, AfterDataset, AfterJudgeBuilt, AfterGraderBuilt
    <3>2. step' \in AfterJudge \cup {"rejected"}
      BY <2>2, Path DEF AfterJudge, AfterDataset, AfterJudgeBuilt, AfterGraderBuilt
    <3>3. QED BY <2>1, <2>2, <3>1, <3>2 DEF IInv, TypeOK, RowsInv
  <2>3. CASE step \notin AfterJudge \cup {"rejected"}
    <3>1. rows = << >> BY <2>3 DEF IInv, RowsInv
    <3>2. QED BY <2>1, <3>1 DEF IInv, TypeOK, RowsInv
  <2>4. CASE step = "rejected"
    <3>1. step' = "rejected" /\ requires' = requires BY <2>4, Frame DEF IInv, TypeOK, vars
    <3>2. QED BY <2>1, <3>1, <2>4 DEF IInv, TypeOK, RowsInv, AfterJudge, AfterDataset,
                                AfterJudgeBuilt, AfterGraderBuilt
  <2>5. QED BY <2>2, <2>3, <2>4
<1>3. QED BY <1>1, <1>2

LEMMA TypePreserved ==
  ASSUME IInv, [Next]_vars
  PROVE  TypeOK'
<1> USE DEF IInv
<1>1. cmd' \in Commands /\ registry' \in Registries BY Frame DEF TypeOK
<1>2. /\ world' \in [dir : {"absent", "empty", "full", "file"}, key : BOOLEAN, program : BOOLEAN,
                     dataset : Datasets]
      /\ changes' \in 0..MaxChanges
  <2>1. CASE Change
    <3>1. changes' \in 0..MaxChanges BY <2>1, MaxChangesAssumption DEF Change, TypeOK
    <3>2. QED BY <2>1, <3>1 DEF Change, TypeOK
  <2>2. CASE ~Change
    <3>1. changes' = changes
      BY <2>2 DEF Next, vars, ParseCommand, CheckArguments, CheckOutputDir, CheckGrader, CheckJudge,
         ReadLine, OpenFails, DatasetEnds, Redact, BuildJudge, BuildGrader, Terminating
    <3>2. QED BY <3>1, Frame DEF TypeOK
  <2>3. QED BY <2>1, <2>2
<1>3. step' \in Steps
  BY Path DEF TypeOK, Steps
<1>4. requires' \subseteq Fields
  <2>1. CASE step = "grader"
    <3>1. ToSet(request.grader.requires) \subseteq Fields
      BY <2>1 DEF RequestInv, AfterArguments, AfterOutputDir, RequestValid, GraderValid
    <3>2. requires' = requires \/ requires' = ToSet(request.grader.requires)
      BY <2>1 DEF Next, vars, ParseCommand, CheckArguments, CheckOutputDir, CheckGrader, CheckJudge,
         ReadLine, OpenFails, DatasetEnds, Redact, BuildJudge, BuildGrader, Change, Terminating
    <3>3. QED BY <3>1, <3>2 DEF TypeOK
  <2>2. QED BY <2>1, Frame DEF TypeOK
<1>5. line' \in Nat \ {0} /\ Len(rows') < line' BY RowsPreserved
<1>6. judge' \in BOOLEAN
  <2>1. judge' = judge \/ judge' = TRUE
    BY Zenon DEF Next, vars, ParseCommand, CheckArguments, CheckOutputDir, CheckGrader, CheckJudge,
         ReadLine, OpenFails, DatasetEnds, Redact, BuildJudge, BuildGrader, Change, Terminating
  <2>2. QED BY <2>1, Zenon DEF TypeOK
<1>7. verdict' \in [kind : {"none", "argument", "precheck", "output"},
                   at : {"none", "arguments", "output_dir_conflict", "grader_declaration",
                         "judge_model", "dataset_parse", "session_requires"},
                   during : Steps \cup {"none"}]
  <2>1. CASE step' = "rejected" /\ step # "rejected"
    BY <2>1, Rejection DEF ErrorKinds, Objections, TypeOK
  <2>2. CASE ~(step' = "rejected" /\ step # "rejected")
    BY <2>2, NoRejection, Frame DEF TypeOK, vars
  <2>3. QED BY <2>1, <2>2
<1>8. QED BY <1>1, <1>2, <1>3, <1>4, <1>5, <1>6, <1>7, Zenon DEF TypeOK

\* The checks look at nothing else.
LEMMA SameFindings ==
  ASSUME request' = request, registry' = registry
  PROVE  /\ RequestValid(request)' <=> RequestValid(request)
         /\ DeclarationAgrees(request.grader)' <=> DeclarationAgrees(request.grader)
<1>1. RequestValid(request)' <=> RequestValid(request)
  BY DEF RequestValid, GraderValid
<1>2. DeclarationAgrees(request.grader)' <=> DeclarationAgrees(request.grader)
  BY DEF DeclarationAgrees, Resolves
<1>3. QED BY <1>1, <1>2

LEMMA RequestPreserved ==
  ASSUME IInv, [Next]_vars
  PROVE  RequestInv'
<1> USE DEF AfterArguments, AfterOutputDir, AfterGrader, AfterJudge, AfterDataset, AfterJudgeBuilt,
            AfterGraderBuilt
<1>1. CASE step = "command"
  <2>1. step' \in {"command", "arguments", "rejected"} BY <1>1, Path
  <2>2. QED BY <2>1 DEF RequestInv
<1>2. CASE step # "command"
  <2>1. request' = request /\ registry' = registry BY <1>2, Frame DEF IInv, TypeOK
  <2>2. step' \in AfterArguments => RequestValid(request)'
    <3>1. CASE step \in AfterArguments BY <2>1, <3>1, SameFindings DEF IInv, RequestInv
    <3>2. CASE step \notin AfterArguments /\ step' \in AfterArguments
      <4>1. step = "arguments" /\ step' = "output_dir" BY <1>2, <3>2, Path DEF IInv, TypeOK, Steps
      <4>2. RequestValid(request)
        BY <4>1 DEF Next, vars, ParseCommand, CheckArguments, CheckOutputDir, CheckGrader, CheckJudge,
         ReadLine, OpenFails, DatasetEnds, Redact, BuildJudge, BuildGrader, Change, Terminating,
         Go, Reject
      <4>3. QED BY <2>1, <4>2, SameFindings
    <3>3. QED BY <3>1, <3>2
  <2>3. step' \in AfterGrader =>
           /\ requires' = ToSet(request'.grader.requires)
           /\ request'.grader.protocol = "builtin" => DeclarationAgrees(request.grader)'
    <3>1. CASE step \in AfterGrader
      <4>1. requires' = requires BY <3>1, Frame DEF IInv, TypeOK
      <4>2. QED BY <2>1, <3>1, <4>1, SameFindings DEF IInv, RequestInv
    <3>2. CASE step \notin AfterGrader /\ step' \in AfterGrader
      <4>1. step = "grader" /\ step' = "judge" BY <1>2, <3>2, Path DEF IInv, TypeOK, Steps
      <4>2. /\ requires' = ToSet(request.grader.requires)
            /\ request.grader.protocol # "builtin" \/ DeclarationAgrees(request.grader)
        BY <4>1 DEF Next, vars, ParseCommand, CheckArguments, CheckOutputDir, CheckGrader, CheckJudge,
         ReadLine, OpenFails, DatasetEnds, Redact, BuildJudge, BuildGrader, Change, Terminating,
         Go, Reject
      <4>3. QED BY <2>1, <4>2, SameFindings
    <3>3. QED BY <3>1, <3>2
  <2>4. step' \in AfterJudgeBuilt => (request'.judge.there => judge')
    <3>1. CASE step \in AfterJudgeBuilt
      <4>1. judge' = judge BY <3>1, Frame DEF IInv, TypeOK
      <4>2. QED BY <2>1, <3>1, <4>1, Zenon DEF IInv, RequestInv
    <3>2. CASE step \notin AfterJudgeBuilt /\ step' \in AfterJudgeBuilt
      <4>1. step = "build_judge" /\ step' = "build_grader"
        BY <1>2, <3>2, Path DEF IInv, TypeOK, Steps
      <4>2. ~request.judge.there \/ judge' = TRUE
        BY <4>1 DEF Next, vars, ParseCommand, CheckArguments, CheckOutputDir, CheckGrader, CheckJudge,
         ReadLine, OpenFails, DatasetEnds, Redact, BuildJudge, BuildGrader, Change, Terminating,
         Go, Reject
      <4>3. QED BY <2>1, <4>2, Zenon
    <3>3. QED BY <3>1, <3>2
  <2>5. QED BY <2>2, <2>3, <2>4, Zenon DEF RequestInv
<1>3. QED BY <1>1, <1>2

\* A world that has not changed after a step had not before.
LEMMA StillUnchanged ==
  ASSUME IInv, [Next]_vars, changes' = 0
  PROVE  changes = 0 /\ world' = world
<1>1. changes' \in {changes, changes + 1}
  BY DEF Next, vars, ParseCommand, CheckArguments, CheckOutputDir, CheckGrader, CheckJudge,
         ReadLine, OpenFails, DatasetEnds, Redact, BuildJudge, BuildGrader, Change, Terminating
<1>2. changes \in Nat BY MaxChangesAssumption DEF IInv, TypeOK
<1>3. QED BY <1>1, <1>2, Frame

LEMMA WorldPreserved ==
  ASSUME IInv, [Next]_vars
  PROVE  WorldInv'
<1> USE DEF AfterArguments, AfterOutputDir, AfterGrader, AfterJudge, AfterDataset, AfterJudgeBuilt,
            AfterGraderBuilt
<1> SUFFICES ASSUME changes' = 0
             PROVE  /\ step' \in AfterOutputDir => DirFree'
                    /\ step' \in AfterJudge =>
                          (request'.grader.judge => JudgeUsable(request.judge)')
  BY DEF WorldInv
<1>1. changes = 0 /\ world' = world /\ registry' = registry
  BY StillUnchanged, Frame DEF IInv, TypeOK
<1>2. CASE step = "command"
  <2>1. step' \in {"command", "arguments", "rejected"} BY <1>2, Path
  <2>2. QED BY <2>1
<1>3. CASE step # "command"
  <2>1. request' = request BY <1>3, Frame DEF IInv, TypeOK
  <2>2. step' \in AfterOutputDir => DirFree
    <3>1. CASE step \in AfterOutputDir BY <1>1, <3>1 DEF IInv, WorldInv
    <3>2. CASE step \notin AfterOutputDir /\ step' \in AfterOutputDir
      <4>1. step = "output_dir" /\ step' = "grader" BY <1>3, <3>2, Path DEF IInv, TypeOK, Steps
      <4>2. QED
        BY <4>1 DEF Next, vars, ParseCommand, CheckArguments, CheckOutputDir, CheckGrader, CheckJudge,
         ReadLine, OpenFails, DatasetEnds, Redact, BuildJudge, BuildGrader, Change, Terminating,
         Go, Reject
    <3>3. QED BY <3>1, <3>2
  <2>3. step' \in AfterJudge => (request.grader.judge => JudgeUsable(request.judge))
    <3>1. CASE step \in AfterJudge BY <1>1, <3>1 DEF IInv, WorldInv
    <3>2. CASE step \notin AfterJudge /\ step' \in AfterJudge
      <4>1. step = "judge" /\ step' = "dataset" BY <1>3, <3>2, Path DEF IInv, TypeOK, Steps
      <4>2. QED
        BY <4>1 DEF Next, vars, ParseCommand, CheckArguments, CheckOutputDir, CheckGrader, CheckJudge,
         ReadLine, OpenFails, DatasetEnds, Redact, BuildJudge, BuildGrader, Change, Terminating,
         Go, Reject
    <3>3. QED BY <3>1, <3>2
  <2>4. (DirFree' <=> DirFree) /\ (JudgeUsable(request.judge)' <=> JudgeUsable(request.judge))
    BY <1>1, <2>1 DEF DirFree, JudgeUsable
  <2>5. QED BY <2>1, <2>2, <2>3, <2>4, Zenon
<1>4. QED BY <1>2, <1>3

LEMMA VerdictPreserved ==
  ASSUME IInv, [Next]_vars
  PROVE  VerdictInv'
<1>1. CASE step' = "rejected" BY <1>1 DEF VerdictInv
<1>2. CASE step' # "rejected"
  <2>1. step # "rejected" BY <1>2, Frame DEF IInv, TypeOK, vars
  <2>2. QED BY <1>2, <2>1, NoRejection DEF IInv, VerdictInv, NoVerdict
<1>3. QED BY <1>1, <1>2

\* What an error says of the request, and of a world that has not changed.
LEMMA ObjectionsPreserved ==
  ASSUME IInv, [Next]_vars
  PROVE  FirstObjectionIsReported' /\ LateFailureMeansChange'
<1> DEFINE agrees == request.grader.protocol = "builtin" => DeclarationAgrees(request.grader)
           judged == request.grader.judge => JudgeUsable(request.judge)
<1>1. CASE step = "rejected"
  <2>1. UNCHANGED vars BY <1>1, Frame DEF IInv, TypeOK
  <2>2. QED
    BY <2>1 DEF vars, IInv, FirstObjectionIsReported, LateFailureMeansChange, RequestValid, GraderValid,
                DirFree, DeclarationAgrees, Resolves, JudgeUsable
<1>2. CASE step' # "rejected"
  <2>1. verdict' = NoVerdict BY <1>2, VerdictPreserved DEF VerdictInv
  <2>2. QED BY <1>2, <2>1 DEF FirstObjectionIsReported, LateFailureMeansChange, NoVerdict
<1>3. CASE step # "rejected" /\ step' = "rejected"
  <2>1. CASE step = "command"
    <3>1. verdict'.during = "command" BY <1>3, <2>1, Rejection
    <3>2. QED BY <3>1 DEF FirstObjectionIsReported, LateFailureMeansChange
  <2>2. CASE step # "command"
    <3>1. request' = request /\ registry' = registry BY <2>2, Frame DEF IInv, TypeOK
    <3>2. world' = world /\ changes' = changes
      BY <1>3 DEF Next, vars, ParseCommand, CheckArguments, CheckOutputDir, CheckGrader, CheckJudge,
         ReadLine, OpenFails, DatasetEnds, Redact, BuildJudge, BuildGrader, Change, Terminating,
         Decided, Go, Reject
    <3>3. verdict'.during = step BY <1>3, Rejection
    <3>4. /\ RequestValid(request)' <=> RequestValid(request)
          /\ DeclarationAgrees(request.grader)' <=> DeclarationAgrees(request.grader)
      BY <3>1, SameFindings
    <3>5. DirFree' <=> DirFree BY <3>2 DEF DirFree
    <3>6. JudgeUsable(request.judge)' <=> JudgeUsable(request.judge) BY <3>1, <3>2 DEF JudgeUsable
    <3>7. changes = 0 =>
            IF ~RequestValid(request) THEN verdict'.kind = "argument"
            ELSE IF ~DirFree THEN verdict'.kind = "output"
            ELSE IF ~agrees THEN verdict'.at = "grader_declaration"
            ELSE IF ~judged THEN verdict'.at = "judge_model"
            ELSE verdict'.during \in {"dataset", "redact", "build_judge", "build_grader"}
      <4> SUFFICES ASSUME changes = 0
                   PROVE  IF ~RequestValid(request) THEN verdict'.kind = "argument"
                          ELSE IF ~DirFree THEN verdict'.kind = "output"
                          ELSE IF ~agrees THEN verdict'.at = "grader_declaration"
                          ELSE IF ~judged THEN verdict'.at = "judge_model"
                          ELSE verdict'.during \in {"dataset", "redact", "build_judge", "build_grader"}
        OBVIOUS
      <4>1. /\ step \in AfterArguments => RequestValid(request)
            /\ step \in AfterOutputDir => DirFree
            /\ step \in AfterGrader => agrees
            /\ step \in AfterJudge => judged
        BY DEF IInv, RequestInv, WorldInv
      <4>2. CASE step = "arguments"
        <5>1. ~RequestValid(request) /\ verdict'.kind = "argument"
          BY <1>3, <4>2 DEF Next, vars, ParseCommand, CheckArguments, CheckOutputDir, CheckGrader, CheckJudge,
         ReadLine, OpenFails, DatasetEnds, Redact, BuildJudge, BuildGrader, Change, Terminating,
         Decided, Go, Reject
        <5>2. QED BY <5>1
      <4>3. CASE step = "output_dir"
        <5>1. ~DirFree /\ verdict'.kind = "output" BY <1>3, <4>3 DEF Next, vars, ParseCommand, CheckArguments, CheckOutputDir, CheckGrader, CheckJudge,
         ReadLine, OpenFails, DatasetEnds, Redact, BuildJudge, BuildGrader, Change, Terminating,
         Decided, Go, Reject
        <5>2. RequestValid(request) BY <4>1, <4>3 DEF AfterArguments
        <5>3. QED BY <5>1, <5>2
      <4>4. CASE step = "grader"
        <5>1. ~agrees /\ verdict'.at = "grader_declaration" BY <1>3, <4>4 DEF Next, vars, ParseCommand, CheckArguments, CheckOutputDir, CheckGrader, CheckJudge,
         ReadLine, OpenFails, DatasetEnds, Redact, BuildJudge, BuildGrader, Change, Terminating,
         Decided, Go, Reject
        <5>2. RequestValid(request) /\ DirFree BY <4>1, <4>4 DEF AfterArguments, AfterOutputDir
        <5>3. QED BY <5>1, <5>2
      <4>5. CASE step = "judge"
        <5>1. ~judged /\ verdict'.at = "judge_model" BY <1>3, <4>5 DEF Next, vars, ParseCommand, CheckArguments, CheckOutputDir, CheckGrader, CheckJudge,
         ReadLine, OpenFails, DatasetEnds, Redact, BuildJudge, BuildGrader, Change, Terminating,
         Decided, Go, Reject
        <5>2. RequestValid(request) /\ DirFree /\ agrees
          BY <4>1, <4>5 DEF AfterArguments, AfterOutputDir, AfterGrader
        <5>3. QED BY <5>1, <5>2
      <4>6. CASE step \in AfterJudge
        <5>1. step # "ready" BY <1>3, <4>6, Frame DEF IInv, TypeOK, vars
        <5>2. step \in {"dataset", "redact", "build_judge", "build_grader"}
          BY <4>6, <5>1 DEF AfterJudge, AfterDataset, AfterJudgeBuilt, AfterGraderBuilt
        <5>3. RequestValid(request) /\ DirFree /\ agrees /\ judged
          BY <4>1, <4>6 DEF AfterArguments, AfterOutputDir, AfterGrader
        <5>4. QED BY <3>3, <5>2, <5>3
      <4>7. step \in AfterJudge \cup {"arguments", "output_dir", "grader", "judge"}
        BY <1>3, <2>2 DEF IInv, TypeOK, Steps, AfterJudge, AfterDataset, AfterJudgeBuilt, AfterGraderBuilt
      <4>8. QED BY <4>2, <4>3, <4>4, <4>5, <4>6, <4>7
    <3>8. FirstObjectionIsReported'
      BY <3>1, <3>2, <3>4, <3>5, <3>6, <3>7 DEF FirstObjectionIsReported
    <3>9. ASSUME step \in {"build_judge", "build_grader"}, changes = 0
          PROVE  \/ step = "build_judge" /\ ~request.grader.judge
                 \/ step = "build_grader" /\ (request.grader.protocol = "stdio-jsonl"
                                               \/ request.grader.entry \notin registry)
      <4>1. /\ RequestValid(request) /\ agrees /\ judged
        BY <3>9 DEF IInv, RequestInv, WorldInv, AfterArguments, AfterOutputDir, AfterGrader, AfterJudge,
                    AfterDataset, AfterJudgeBuilt
      <4>2. CASE step = "build_judge"
        <5>1. request.judge.there /\ ~NewJudge(request.judge, world) BY <1>3, <4>2 DEF Next, vars, ParseCommand, CheckArguments, CheckOutputDir, CheckGrader, CheckJudge,
         ReadLine, OpenFails, DatasetEnds, Redact, BuildJudge, BuildGrader, Change, Terminating,
         Decided, Go, Reject
        <5>2. QED BY <4>1, <4>2, <5>1 DEF JudgeUsable
      <4>3. CASE step = "build_grader"
        <5>1. ~CanBuild(request.grader) BY <1>3, <4>3 DEF Next, vars, ParseCommand, CheckArguments, CheckOutputDir, CheckGrader, CheckJudge,
         ReadLine, OpenFails, DatasetEnds, Redact, BuildJudge, BuildGrader, Change, Terminating,
         Decided, Go, Reject
        <5>2. request.grader.protocol \in {"builtin", "http-json", "stdio-jsonl"}
          BY <4>1 DEF RequestValid, GraderValid, GraderProtocols
        <5>3. QED BY <4>1, <4>3, <5>1, <5>2 DEF CanBuild, DeclarationAgrees, Resolves
      <4>4. QED BY <3>9, <4>2, <4>3
    <3>10. LateFailureMeansChange'
      <4>1. changes \in Nat BY MaxChangesAssumption DEF IInv, TypeOK
      <4>2. QED BY <3>1, <3>2, <3>3, <3>9, <4>1 DEF LateFailureMeansChange
    <3>11. QED BY <3>8, <3>10
  <2>3. QED BY <2>1, <2>2
<1>4. QED BY <1>1, <1>2, <1>3

\* Once it is made, the request stays as it is.
LEMMA CommandPreserved ==
  ASSUME IInv, [Next]_vars
  PROVE  CommandInv'
<1> SUFFICES ASSUME step' # "command", verdict'.during # "command"
             PROVE  ParseOk(cmd') /\ request' = Parse(cmd')
  BY DEF CommandInv
<1>1. cmd' = cmd BY Frame DEF IInv, TypeOK
<1>2. CASE step = "command"
  <2>1. ParseCommand
    BY <1>2 DEF Next, vars, ParseCommand, CheckArguments, CheckOutputDir, CheckGrader, CheckJudge,
         ReadLine, OpenFails, DatasetEnds, Redact, BuildJudge, BuildGrader, Change, Terminating,
         Decided
  <2>2. QED BY <1>1, <1>2, <2>1 DEF ParseCommand, Reject
<1>3. CASE step # "command"
  <2>1. request' = request BY <1>3, Frame DEF IInv, TypeOK
  <2>2. verdict.during # "command"
    <3>1. CASE step = "rejected" BY <3>1, Frame DEF IInv, TypeOK, vars
    <3>2. CASE step # "rejected" BY <3>2 DEF IInv, VerdictInv, NoVerdict
    <3>3. QED BY <3>1, <3>2
  <2>3. QED BY <1>1, <1>3, <2>1, <2>2 DEF IInv, CommandInv
<1>4. QED BY <1>2, <1>3

-----------------------------------------------------------------------------
(* The rows and the lines *)

\* In a dataset that has not changed, a case_id is in the index exactly if an earlier line
\* has it.
LEMMA DuplicateRepeats ==
  ASSUME IInv, step = "dataset", changes = 0
  PROVE  Duplicate(Line(line)) <=> Repeats(line)
<1> DEFINE lines == world.dataset.lines
           kept == {m \in DOMAIN lines : m < line /\ ~IsBlank(lines[m])}
<1>1. /\ \A n \in 1..(line - 1) : n \in DOMAIN lines /\ GoodLine(n)
      /\ RowsBefore(line)
  BY DEF IInv, LinesInv, AfterJudge, AfterDataset
<1>2. line \in Nat \ {0} /\ lines \in Seq(Lines)
  BY DatasetsAssumption DEF IInv, TypeOK
<1>3. PICK at \in [DOMAIN rows -> kept] :
         /\ \A m \in kept : \E i \in DOMAIN rows : at[i] = m
         /\ \A i \in DOMAIN rows : rows[i] = lines[at[i]]
  BY <1>1 DEF RowsBefore
<1>4. \A m \in 1..(line - 1) : IsRow(lines[m]) <=> m \in kept
  <2>1. \A m \in 1..(line - 1) : m \in DOMAIN lines /\ m < line /\ (IsBlank(lines[m]) \/ IsRow(lines[m]))
    BY <1>1, <1>2 DEF GoodLine, Line
  <2>2. \A m : ~(IsBlank(lines[m]) /\ IsRow(lines[m])) BY DEF IsBlank, IsRow
  <2> HIDE DEF lines
  <2>3. QED BY <2>1, <2>2
<1>5. kept \subseteq 1..(line - 1) BY <1>2
<1> HIDE DEF lines, kept
<1>6. Repeats(line) <=> \E m \in kept : lines[m].id = Line(line).id
  <2>1. \A m : Line(m) = lines[m] BY DEF Line, lines
  <2>2. QED BY <1>4, <1>5, <2>1 DEF Repeats
<1>7. (\E m \in kept : lines[m].id = Line(line).id) <=> \E i \in DOMAIN rows : rows[i].id = Line(line).id
  BY <1>3
<1>8. QED BY <1>6, <1>7 DEF Duplicate

\* One line more, which is blank or becomes a row.
LEMMA RowsExtended ==
  ASSUME IInv, step = "dataset", changes = 0, ReadLine, step' = "dataset"
  PROVE  /\ \A n \in 1..line : n \in DOMAIN world.dataset.lines /\ GoodLine(n)
         /\ RowsBefore(line)'
<1> DEFINE lines == world.dataset.lines
           keptBy(k) == {m \in DOMAIN lines : m < k /\ ~IsBlank(lines[m])}
<1>1. /\ \A n \in 1..(line - 1) : n \in DOMAIN lines /\ GoodLine(n)
      /\ RowsBefore(line)
  BY DEF IInv, LinesInv, AfterJudge, AfterDataset
<1>2. line \in Nat \ {0} /\ lines \in Seq(Lines) /\ rows \in Seq(Lines)
  BY DatasetsAssumption DEF IInv, TypeOK, RowsInv
<1>3. line \in DOMAIN lines BY <1>2 DEF ReadLine, AtEnd
<1>4. world' = world /\ line' = line + 1 BY DEF ReadLine
<1>5. \/ IsBlank(Line(line)) /\ rows' = rows
      \/ IsRow(Line(line)) /\ Accepted(Line(line)) /\ rows' = Append(rows, Line(line))
  BY DEF ReadLine, Current, Line, Reject
<1>6. GoodLine(line)
  BY <1>5, DuplicateRepeats DEF GoodLine, Accepted, MissingFields
<1>7. \A n \in 1..line : n \in DOMAIN lines /\ GoodLine(n)
  <2>1. \A n \in 1..line : n = line \/ n \in 1..(line - 1) BY <1>2
  <2> HIDE DEF lines
  <2>2. QED BY <1>1, <1>3, <1>6, <2>1
<1>8. PICK at \in [DOMAIN rows -> keptBy(line)] :
         /\ \A i, j \in DOMAIN rows : i < j => at[i] < at[j]
         /\ \A m \in keptBy(line) : \E i \in DOMAIN rows : at[i] = m
         /\ \A i \in DOMAIN rows : rows[i] = lines[at[i]]
  BY <1>1 DEF RowsBefore
<1>9. \E new \in [DOMAIN rows' -> keptBy(line + 1)] :
         /\ \A i, j \in DOMAIN rows' : i < j => new[i] < new[j]
         /\ \A m \in keptBy(line + 1) : \E i \in DOMAIN rows' : new[i] = m
         /\ \A i \in DOMAIN rows' : rows'[i] = lines[new[i]]
  <2>1. CASE IsBlank(Line(line)) /\ rows' = rows
    <3>1. \A m \in DOMAIN lines : m < line + 1 <=> m < line \/ m = line BY <1>2
    <3>2. IsBlank(lines[line]) BY <2>1 DEF Line
    <3>3. keptBy(line + 1) = keptBy(line)
      <4> HIDE DEF lines
      <4> QED BY <3>1, <3>2
    <3> HIDE DEF keptBy, lines
    <3>4. QED BY <1>8, <2>1, <3>3
  <2>2. CASE IsRow(Line(line)) /\ rows' = Append(rows, Line(line))
    <3> DEFINE last == Len(rows) + 1
               new == [i \in 1..last |-> IF i = last THEN line ELSE at[i]]
    <3>1. \A m \in DOMAIN lines : m < line + 1 <=> m < line \/ m = line BY <1>2
    <3>2. ~IsBlank(lines[line]) BY <2>2 DEF Line, IsRow, IsBlank
    <3>3. keptBy(line + 1) = keptBy(line) \cup {line} /\ \A m \in keptBy(line) : m < line
      <4> HIDE DEF lines
      <4> QED BY <1>3, <3>1, <3>2
    <3>4. /\ DOMAIN rows = 1..Len(rows) /\ DOMAIN rows' = 1..last /\ Len(rows) \in Nat
          /\ rows'[last] = lines[line]
          /\ \A i \in 1..Len(rows) : rows'[i] = rows[i]
      BY <1>2, <1>3, <2>2 DEF Line
    <3>5. \A i \in 1..last : i = last \/ i \in 1..Len(rows) BY <3>4
    <3>6. \A i \in 1..Len(rows) : i \in 1..last /\ i # last BY <3>4
    <3>7. last \in 1..last BY <3>4
    <3>8. new[last] = line /\ \A i \in 1..Len(rows) : new[i] = at[i] BY <3>6, <3>7
    <3>9. \A i, j \in 1..last : i < j => i \in 1..Len(rows) BY <3>4
    <3>10. DOMAIN new = 1..last /\ new = [i \in 1..last |-> new[i]] OBVIOUS
    <3> HIDE DEF keptBy, lines, last, new
    <3>11. new \in [1..last -> keptBy(line + 1)]
      <4>1. \A i \in 1..last : new[i] \in keptBy(line + 1) BY <1>8, <3>3, <3>4, <3>5, <3>8
      <4>2. QED BY <3>10, <4>1
    <3>12. \A i, j \in 1..last : i < j => new[i] < new[j]
      BY <1>8, <3>3, <3>4, <3>5, <3>8, <3>9
    <3>13. \A m \in keptBy(line + 1) : \E i \in 1..last : new[i] = m
      BY <1>8, <3>3, <3>4, <3>6, <3>7, <3>8
    <3>14. \A i \in 1..last : rows'[i] = lines[new[i]]
      BY <1>8, <3>4, <3>5, <3>8
    <3>15. /\ new \in [DOMAIN rows' -> keptBy(line + 1)]
           /\ \A i, j \in DOMAIN rows' : i < j => new[i] < new[j]
           /\ \A m \in keptBy(line + 1) : \E i \in DOMAIN rows' : new[i] = m
           /\ \A i \in DOMAIN rows' : rows'[i] = lines[new[i]]
      BY <3>4, <3>11, <3>12, <3>13, <3>14
    <3>16. QED BY ONLY <3>15, Zenon
  <2>3. QED BY <1>5, <2>1, <2>2
<1>10. RowsBefore(line)'
  BY <1>4, <1>9 DEF RowsBefore
<1>11. QED BY <1>7, <1>10

LEMMA LinesPreserved ==
  ASSUME IInv, [Next]_vars
  PROVE  LinesInv'
<1> USE DEF AfterJudge, AfterDataset, AfterJudgeBuilt, AfterGraderBuilt
<1>1. CASE step = "dataset" /\ ReadLine
  <2>1. /\ world' = world /\ changes' = changes /\ requires' = requires /\ line' = line + 1
        /\ step' \in {"dataset", "rejected"}
    BY <1>1 DEF ReadLine, Go, Reject
  <2>2. line \in Nat \ {0} /\ rows \in Seq(Lines) BY DEF IInv, TypeOK, RowsInv
  <2>3. \A i, j \in DOMAIN rows' : rows'[i].id = rows'[j].id => i = j
    <3>1. CASE rows' = rows BY <3>1 DEF IInv, LinesInv
    <3>2. CASE rows' # rows
      <4>1. rows' = Append(rows, Current) /\ ~Duplicate(Current)
        BY <1>1, <3>2 DEF ReadLine, Accepted
      <4>2. /\ DOMAIN rows' = 1..(Len(rows) + 1) /\ DOMAIN rows = 1..Len(rows) /\ Len(rows) \in Nat
            /\ rows'[Len(rows) + 1] = Current
            /\ \A i \in 1..Len(rows) : rows'[i] = rows[i]
        BY <2>2, <4>1
      <4>3. \A i \in 1..Len(rows) : rows[i].id # Current.id BY <4>1, <4>2 DEF Duplicate
      <4>4. \A i, j \in 1..Len(rows) : rows[i].id = rows[j].id => i = j
        BY <4>2 DEF IInv, LinesInv
      <4>5. \A i \in 1..(Len(rows) + 1) : i = Len(rows) + 1 \/ i \in 1..Len(rows) BY <4>2
      <4>6. QED BY <4>2, <4>3, <4>4, <4>5
    <3>3. QED BY <3>1, <3>2
  <2>4. ASSUME changes = 0, step' = "dataset"
        PROVE  /\ line' > 1 => world'.dataset.there
               /\ \A n \in 1..(line' - 1) : n \in DOMAIN world'.dataset.lines /\ GoodLine(n)'
               /\ RowsBefore(line)'
    <3>1. world.dataset.there
      <4>1. CASE line = 1 BY <1>1, <4>1 DEF ReadLine, Unopened
      <4>2. CASE line # 1 BY <1>1, <2>2, <2>4, <4>2 DEF IInv, LinesInv
      <4>3. QED BY <4>1, <4>2
    <3>2. \A n : GoodLine(n)' <=> GoodLine(n)
      BY <2>1 DEF GoodLine, Line, Repeats
    <3>3. line' - 1 = line BY <2>1, <2>2
    <3>4. QED BY <1>1, <2>1, <2>4, <3>1, <3>2, <3>3, RowsExtended
  <2>5. QED BY <2>1, <2>3, <2>4 DEF LinesInv
<1>2. CASE ~(step = "dataset" /\ ReadLine)
  <2>1. rows' = rows /\ line' = line
    BY <1>2 DEF Next, vars, ParseCommand, CheckArguments, CheckOutputDir, CheckGrader, CheckJudge,
         ReadLine, OpenFails, DatasetEnds, Redact, BuildJudge, BuildGrader, Change, Terminating
  <2>2. step' \notin AfterJudge \cup {"rejected"} => line' = 1
    <3>1. CASE step \in AfterJudge \cup {"rejected"}
      <4>1. step' \in AfterJudge \cup {"rejected"}
        BY <3>1, Path, Frame DEF IInv, TypeOK, vars
      <4>2. QED BY <4>1
    <3>2. CASE step \notin AfterJudge \cup {"rejected"}
      BY <2>1, <3>2 DEF IInv, LinesInv
    <3>3. QED BY <3>1, <3>2
  <2>3. ASSUME changes' = 0, step' \in AfterJudge
        PROVE  /\ line > 1 => world'.dataset.there
               /\ \A n \in 1..(line - 1) : n \in DOMAIN world'.dataset.lines /\ GoodLine(n)'
               /\ RowsBefore(line)'
    <3>1. changes = 0 /\ world' = world BY <2>3, StillUnchanged
    <3>2. CASE step \in AfterJudge
      <4>1. requires' = requires BY <3>2, Frame DEF IInv, TypeOK
      <4>2. \A n : GoodLine(n)' <=> GoodLine(n) BY <3>1, <4>1 DEF GoodLine, Line, Repeats
      <4>3. RowsBefore(line)' <=> RowsBefore(line) BY <2>1, <3>1 DEF RowsBefore
      <4>4. QED BY <3>1, <3>2, <4>2, <4>3 DEF IInv, LinesInv
    <3>3. CASE step \notin AfterJudge
      <4>1. step # "rejected" BY <2>3, Frame DEF IInv, TypeOK, vars
      <4>2. line = 1 /\ rows = << >> BY <3>3, <4>1 DEF IInv, LinesInv, RowsInv
      <4>3. RowsBefore(line)'
        <5> DEFINE kept == {m \in DOMAIN world.dataset.lines : m < 1 /\ ~IsBlank(world.dataset.lines[m])}
        <5>1. world.dataset.lines \in Seq(Lines) BY DatasetsAssumption DEF IInv, TypeOK
        <5>2. kept = {} BY <5>1
        <5>3. DOMAIN rows = {} /\ rows \in [DOMAIN rows -> kept] BY <4>2, <5>2
        <5> HIDE DEF kept
        <5>4. \E at \in [DOMAIN rows -> kept] :
                 /\ \A i, j \in DOMAIN rows : i < j => at[i] < at[j]
                 /\ \A m \in kept : \E i \in DOMAIN rows : at[i] = m
                 /\ \A i \in DOMAIN rows : rows[i] = world.dataset.lines[at[i]]
          BY <5>2, <5>3
        <5>5. RowsBefore(1) BY <5>4 DEF RowsBefore, kept
        <5>6. RowsBefore(line)' <=> RowsBefore(line) BY <2>1, <3>1 DEF RowsBefore
        <5>7. QED BY <4>2, <5>5, <5>6
      <4>4. QED BY <4>2, <4>3
    <3>4. QED BY <3>2, <3>3
  <2>4. ASSUME changes' = 0, step' \in AfterDataset
        PROVE  world'.dataset.there /\ line > Len(world'.dataset.lines)
    <3>1. changes = 0 /\ world' = world BY <2>4, StillUnchanged
    <3>2. CASE step \in AfterDataset BY <3>1, <3>2 DEF IInv, LinesInv
    <3>3. CASE step \notin AfterDataset
      <4>1. step = "dataset" /\ step' = "redact"
        BY <2>4, <3>3, Path DEF IInv, TypeOK, Steps
      <4>2. ~Unopened /\ AtEnd
        BY <1>2, <4>1 DEF Next, vars, ParseCommand, CheckArguments, CheckOutputDir, CheckGrader, CheckJudge,
         OpenFails, DatasetEnds, Redact, BuildJudge, BuildGrader, Change, Terminating, Go, Reject
      <4>3. line > 1 => world.dataset.there BY <3>1, <4>1 DEF IInv, LinesInv
      <4>4. line \in Nat \ {0} BY DEF IInv, TypeOK
      <4>5. QED BY <3>1, <4>2, <4>3, <4>4 DEF Unopened, AtEnd
    <3>4. QED BY <3>2, <3>3
  <2>5. QED BY <2>1, <2>2, <2>3, <2>4 DEF IInv, LinesInv
<1>3. QED BY <1>1, <1>2

LEMMA BadLinePreserved ==
  ASSUME IInv, [Next]_vars
  PROVE  FirstBadLineIsReported'
<1> SUFFICES ASSUME changes' = 0 PROVE FirstBadLineIsReported'
  BY DEF FirstBadLineIsReported
<1>1. changes = 0 /\ world' = world BY StillUnchanged
<1>2. ASSUME step' = "ready"
      PROVE  world'.dataset.there /\ \A n \in DOMAIN world'.dataset.lines : GoodLine(n)'
  <2>1. /\ world'.dataset.there /\ line' > Len(world'.dataset.lines)
        /\ \A n \in 1..(line' - 1) : GoodLine(n)'
    BY <1>2, LinesPreserved DEF LinesInv, AfterJudge, AfterDataset, AfterJudgeBuilt, AfterGraderBuilt
  <2>2. line' \in Nat \ {0} BY RowsPreserved
  <2>3. world'.dataset.lines \in Seq(Lines) BY <1>1, DatasetsAssumption DEF IInv, TypeOK
  <2>4. \A n \in DOMAIN world'.dataset.lines : n \in 1..(line' - 1) BY <2>1, <2>2, <2>3
  <2>5. QED BY <2>1, <2>4
<1>3. ASSUME verdict'.during = "dataset", world'.dataset.there
      PROVE  \E n \in DOMAIN world'.dataset.lines :
                 /\ ~GoodLine(n)' /\ \A m \in 1..(n - 1) : GoodLine(m)'
                 /\ verdict'.at = IF IsRow(Line(n)') /\ ~Repeats(n)' THEN "session_requires"
                                  ELSE "dataset_parse"
  <2>1. CASE step = "rejected"
    <3>1. UNCHANGED vars BY <2>1, Frame DEF IInv, TypeOK
    <3>2. /\ verdict.during = "dataset" /\ world.dataset.there
      BY <1>3, <3>1 DEF vars
    <3>3. \E n \in DOMAIN world.dataset.lines :
                 /\ ~GoodLine(n) /\ \A m \in 1..(n - 1) : GoodLine(m)
                 /\ verdict.at = IF IsRow(Line(n)) /\ ~Repeats(n) THEN "session_requires"
                                 ELSE "dataset_parse"
      BY <1>1, <3>2 DEF IInv, FirstBadLineIsReported
    <3>4. \A n : (GoodLine(n)' <=> GoodLine(n)) /\ Line(n)' = Line(n) /\ (Repeats(n)' <=> Repeats(n))
      BY <3>1 DEF vars, GoodLine, Line, Repeats
    <3>5. verdict' = verdict /\ world' = world BY <3>1 DEF vars
    <3>6. QED BY <3>3, <3>4, <3>5
  <2>2. CASE step # "rejected"
    <3>1. step' = "rejected"
      <4>1. verdict.during # "dataset" BY <2>2 DEF IInv, VerdictInv, NoVerdict
      <4>2. QED BY <1>3, <4>1, NoRejection
    <3>2. step = "dataset" BY <1>3, <2>2, <3>1, Rejection
    <3>3. ReadLine
      <4>1. ReadLine \/ OpenFails
        BY <3>1, <3>2 DEF Next, vars, ParseCommand, CheckArguments, CheckOutputDir, CheckGrader, CheckJudge,
         DatasetEnds, Redact, BuildJudge, BuildGrader, Change, Terminating, Decided, Go
      <4>2. QED BY <1>1, <1>3, <4>1 DEF OpenFails, Unopened
    <3>4. /\ \A n \in 1..(line - 1) : GoodLine(n)
      BY <1>1, <3>2 DEF IInv, LinesInv, AfterJudge, AfterDataset
    <3>5. line \in DOMAIN world.dataset.lines
      <4>1. line \in Nat \ {0} /\ world.dataset.lines \in Seq(Lines)
        BY DatasetsAssumption DEF IInv, TypeOK
      <4>2. QED BY <3>3, <4>1 DEF ReadLine, AtEnd
    <3>6. /\ ~IsBlank(Line(line)) /\ requires' = requires
          /\ \/ /\ IsRow(Line(line)) /\ ~Accepted(Line(line))
                /\ verdict'.at = IF Duplicate(Line(line)) THEN "dataset_parse" ELSE "session_requires"
             \/ ~IsRow(Line(line)) /\ verdict'.at = "dataset_parse"
      <4>1. \A l : IsRow(l) => ~IsBlank(l) BY DEF IsRow, IsBlank
      <4>2. QED BY <3>1, <3>2, <3>3, <4>1 DEF ReadLine, Current, Line, Go, Reject
    <3>7. Duplicate(Line(line)) <=> Repeats(line) BY <1>1, <3>2, DuplicateRepeats
    <3>8. ~GoodLine(line) BY <3>6, <3>7 DEF GoodLine, Accepted, MissingFields
    <3>9. verdict'.at = IF IsRow(Line(line)) /\ ~Repeats(line) THEN "session_requires" ELSE "dataset_parse"
      BY <3>6, <3>7
    <3>10. \A n : (GoodLine(n)' <=> GoodLine(n)) /\ Line(n)' = Line(n) /\ (Repeats(n)' <=> Repeats(n))
      BY <1>1, <3>6 DEF GoodLine, Line, Repeats
    <3>11. QED BY <1>1, <3>4, <3>5, <3>8, <3>9, <3>10
  <2>3. QED BY <2>1, <2>2
<1>4. QED BY <1>2, <1>3 DEF FirstBadLineIsReported

-----------------------------------------------------------------------------

LEMMA InductiveInv == IInv /\ [Next]_vars => IInv'
<1> SUFFICES ASSUME IInv, [Next]_vars PROVE IInv' OBVIOUS
<1>1. QED
  BY TypePreserved, CommandPreserved, RequestPreserved, RowsPreserved, LinesPreserved,
     WorldPreserved, VerdictPreserved, ObjectionsPreserved, BadLinePreserved DEF IInv

LEMMA InvHolds == Spec => []IInv
<1>1. QED BY InitInv, InductiveInv, PTL DEF Spec

-----------------------------------------------------------------------------

\* The state of the checks stays in its type.
THEOREM TypeCorrect == Spec => []TypeOK
<1>1. IInv => TypeOK BY DEF IInv
<1>2. QED BY InvHolds, <1>1, PTL

\* The error is that of the first check that has anything to object to: the order that
\* validate.All documents is the order in which anybody sees the objections.
THEOREM FirstObjectionWins == Spec => []FirstObjectionIsReported
<1>1. IInv => FirstObjectionIsReported BY DEF IInv
<1>2. QED BY InvHolds, <1>1, PTL

\* The construction of what the checks let pass fails only if the world has changed: that the
\* two build Judge and Grader in different ways makes no difference.
THEOREM LateFailuresMeanChange == Spec => []LateFailureMeansChange
<1>1. IInv => LateFailureMeansChange BY DEF IInv
<1>2. QED BY InvHolds, <1>1, PTL

\* Whatever is admitted can be graded: each row has every field its Grader reads.
THEOREM AdmittedCanBeGraded == Spec => []AdmittedIsGraded
<1>1. ASSUME IInv, step = "ready"
      PROVE  /\ request.grader.judge => judge
             /\ request.grader.protocol = "builtin" => \A i \in DOMAIN rows :
                  /\ Reads(request.grader.entry, request.grader.params) \subseteq DOMAIN rows[i].fields
                  /\ (/\ request.grader.entry \in RuleGraders
                      /\ "insufficient_evidence" \in RuleVerdicts(request.grader.entry, request.grader.params, rows[i].fields)) =>
                         "reference" \in DOMAIN rows[i].fields
  <2> DEFINE g == request.grader
  <2>1. step \in AfterJudgeBuilt /\ step \in AfterJudge /\ step \in AfterGrader /\ step \in AfterArguments
    BY <1>1 DEF AfterArguments, AfterOutputDir, AfterGrader, AfterJudge, AfterDataset, AfterJudgeBuilt,
                AfterGraderBuilt
  <2>2. RequestInv /\ RowsInv BY <1>1 DEF IInv
  <2>3. g.judge => judge
    <3>1. g.judge => request.judge.there BY <2>1, <2>2 DEF RequestInv, RequestValid
    <3>2. request.judge.there => judge BY <2>1, <2>2 DEF RequestInv
    <3>3. QED BY <3>1, <3>2
  <2>4. ASSUME g.protocol = "builtin", NEW i \in DOMAIN rows
        PROVE  /\ Reads(g.entry, g.params) \subseteq DOMAIN rows[i].fields
               /\ (g.entry \in RuleGraders /\ "insufficient_evidence" \in RuleVerdicts(g.entry, g.params, rows[i].fields)) =>
                      "reference" \in DOMAIN rows[i].fields
    <3>1. requires = ToSet(g.requires) /\ DeclarationAgrees(g)
      BY <2>1, <2>2, <2>4 DEF RequestInv
    <3>2. g.entry \in Entries
      <4>1. registry \subseteq Entries BY <1>1, RegistriesAssumption DEF IInv, TypeOK
      <4>2. QED BY <3>1, <4>1 DEF DeclarationAgrees, Resolves, Entries
    <3>3. requires = EffectiveRequires(g.entry, g.params) BY <3>1 DEF DeclarationAgrees, SameFields
    <3>4. requires \subseteq DOMAIN rows[i].fields BY <2>1, <2>2 DEF RowsInv
    <3>5. Reads(g.entry, g.params) \subseteq DOMAIN rows[i].fields
      BY <3>2, <3>3, <3>4, ReadsAreRequired
    <3>6. QED BY <3>5, ObjectorsRead
  <2>5. QED BY <2>3, <2>4
<1>2. IInv => AdmittedIsGraded BY <1>1, Zenon DEF AdmittedIsGraded
<1>3. QED BY InvHolds, <1>2, PTL

\* The last word is the user's: of any number of overrides of a name the last one is run, and
\* whatever neither flag nor override says is run as the file says it.
THEOREM FlagsHaveTheLastWord == Spec => []FlagsWin
<1>1. ASSUME IInv, step # "command", verdict.during # "command"
      PROVE  /\ \A p \in {"task", "dataset", "output"} :
                    request[p] = IF p \in cmd.paths THEN "flag" ELSE FromFile(cmd)[p]
             /\ cmd.concurrency # 0 => request.concurrency = cmd.concurrency
             /\ request.grader = [GraderFile(cmd) EXCEPT !.params = request.grader.params]
             /\ LastOneWins(cmd.graderParams, GraderFile(cmd).params, request.grader.params)
             /\ IF cmd.judgeParams = << >> THEN request.judge = JudgeFile(cmd)
                ELSE /\ request.judge = [JudgeFile(cmd) EXCEPT !.params = request.judge.params]
                     /\ LastOneWins(cmd.judgeParams, JudgeFile(cmd).params, request.judge.params)
  <2>1. ParseOk(cmd) /\ request = Parse(cmd) BY <1>1 DEF IInv, CommandInv
  <2>2. cmd \in Commands BY <1>1 DEF IInv, TypeOK
  <2>3. /\ cmd.graderParams \in Overrides /\ cmd.judgeParams \in Overrides
        /\ RequestFields(cmd.file) /\ SpecFields(cmd.grader) /\ SpecFields(cmd.judge)
    BY <2>2, CommandsAssumption
  <2>4. ~Bad(cmd.file) /\ ~Bad(cmd.grader) /\ ~Bad(cmd.judge) BY <2>1 DEF ParseOk, MergeOk
  <2>5. DOMAIN FromFile(cmd) = DOMAIN EmptyRequest
    BY <2>3, <2>4 DEF RequestFields, FromFile
  <2>6. "params" \in DOMAIN GraderFile(cmd)
    BY <2>3, <2>4 DEF RequestFields, SpecFields, FromFile, GraderFile, EmptyRequest, NoGrader
  <2>7. cmd.judgeParams = << >> \/ "params" \in DOMAIN JudgeFile(cmd)
    <3> SUFFICES ASSUME cmd.judgeParams # << >> PROVE "params" \in DOMAIN JudgeFile(cmd)
      OBVIOUS
    <3>1. Merged(cmd).judge.there BY <2>1 DEF ParseOk, MergeOk
    <3>2. Merged(cmd).judge = JudgeFile(cmd) BY <2>5, MergedJudge
    <3>3. CASE cmd.judge.there BY <2>3, <2>4, <3>3 DEF SpecFields, JudgeFile
    <3>4. CASE ~cmd.judge.there
      <4>1. FromFile(cmd).judge.there BY <3>1, <3>2, <3>4 DEF JudgeFile
      <4>2. cmd.file.there BY <4>1 DEF FromFile, EmptyRequest, NoJudge
      <4>3. QED BY <2>3, <2>4, <3>4, <4>1, <4>2 DEF RequestFields, FromFile, JudgeFile
    <3>5. QED BY <3>3, <3>4
  <2>8. /\ LastOneWins(cmd.graderParams, GraderFile(cmd).params, Fold(GraderFile(cmd).params, cmd.graderParams))
        /\ LastOneWins(cmd.judgeParams, JudgeFile(cmd).params, Fold(JudgeFile(cmd).params, cmd.judgeParams))
    BY <2>3, LastOverrideWins DEF Overrides
  <2>9. QED BY <2>1, <2>5, <2>6, <2>7, <2>8, FlagsOverride
<1>2. IInv => FlagsWin BY <1>1 DEF FlagsWin
<1>3. QED BY InvHolds, <1>2, PTL

\* What a run counts and grades is what is in the file: the rows are its lines, in order,
\* without the blank ones, and no case_id comes twice.
THEOREM RowsAreAllLines == Spec => []RowsAreTheLines
<1>1. ASSUME IInv, step = "ready", changes = 0 PROVE RowsBefore(Len(world.dataset.lines) + 1)
  <2> DEFINE lines == world.dataset.lines
  <2>1. line > Len(lines) /\ RowsBefore(line)
    BY <1>1 DEF IInv, LinesInv, AfterJudge, AfterDataset, AfterJudgeBuilt, AfterGraderBuilt
  <2>2. line \in Nat /\ lines \in Seq(Lines) BY <1>1, DatasetsAssumption DEF IInv, TypeOK
  <2>3. \A m \in DOMAIN lines : m < line /\ m < Len(lines) + 1 BY <2>1, <2>2
  <2>4. {m \in DOMAIN lines : m < line /\ ~IsBlank(lines[m])}
          = {m \in DOMAIN lines : m < Len(lines) + 1 /\ ~IsBlank(lines[m])}
    <3> HIDE DEF lines
    <3> QED BY <2>3
  <2>5. QED BY <2>1, <2>4 DEF RowsBefore
<1>2. IInv => RowsAreTheLines BY <1>1 DEF IInv, LinesInv, RowsAreTheLines
<1>3. QED BY InvHolds, <1>2, PTL

\* A dataset is refused for its first bad line and for what is wrong with it, judged by the
\* whole file and not by the index that the reader has built so far.
THEOREM BadLinesAreReported == Spec => []FirstBadLineIsReported
<1>1. IInv => FirstBadLineIsReported BY DEF IInv
<1>2. QED BY InvHolds, <1>1, PTL
=============================================================================
