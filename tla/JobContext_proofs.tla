--------------------------- MODULE JobContext_proofs ---------------------------
(***************************************************************************)
(* Proofs about Imports, for any program that is well formed, however many *)
(* modules it has and whatever they import; about JobContext, for any      *)
(* options and blocks, any references and any depth of calls; and about    *)
(* AppContext, for any programs: whatever is loaded and however it is      *)
(* called, what happens is a behaviour of JobContext, so that its theorems *)
(* hold of every application.                                              *)
(*                                                                         *)
(* Loading is a fold in a fold: of the modules, of the jobs of each, of    *)
(* the sources of each job, and of the globals that are left.  Each fold   *)
(* is a recursive function, whose existence and whose invariant follow by  *)
(* induction (UpTo).  Sound is the invariant of newApp, Has what it is     *)
(* for, and Made what comes out of it.                                     *)
(*                                                                         *)
(* The inductive invariant of JobContext has a part for each property: who *)
(* was asked so far (Asking), what is settled after each stage (Settled,   *)
(* Agreed), and what a wave sees (Waves).  That of AppContext (Running)    *)
(* says that the context is one of the application that Load returns.      *)
(***************************************************************************)
EXTENDS AppContext, SequenceTheorems, WellFoundedInduction, TLAPS

-------------------------------------------------------------------------------
(* Induction *)

\* A set of numbers that is not empty has a least element.
LEMMA LeastNumber ==
    ASSUME NEW T \in SUBSET Nat, T # {}
    PROVE  \E m \in T : \A n \in T : m <= n
<1> DEFINE Less == {ss \in Nat \X Nat : ss[1] < ss[2]}
<1>1. IsWellFoundedOn(Less, Nat)
  BY NatLessThanWellFounded DEF OpToRel
<1>2. PICK m \in T : \A y \in T : ~ (<<y, m>> \in Less)
  BY <1>1, WFMin, Zenon
<1>3. \A n \in T : m <= n
  <2> SUFFICES ASSUME NEW n \in T, ~(m <= n) PROVE FALSE
    OBVIOUS
  <2>1. m \in Nat /\ n \in Nat /\ n < m
    OBVIOUS
  <2>2. <<n, m>> \in Less
    BY <2>1
  <2> QED
    BY <1>2, <2>2
<1> QED
  BY <1>2, <1>3

\* A set with 0 that is closed under successor up to n.
LEMMA UpTo ==
    ASSUME NEW n \in Nat, NEW S, 0 \in S, \A i \in 1..n : i - 1 \in S => i \in S
    PROVE  0..n \subseteq S
<1> SUFFICES ASSUME 0..n \ S # {} PROVE FALSE
  OBVIOUS
<1>1. PICK m \in 0..n \ S : \A k \in 0..n \ S : m <= k
  <2> DEFINE T == 0..n \ S
  <2>1. T \in SUBSET Nat /\ T # {}
    OBVIOUS
  <2> HIDE DEF T
  <2>2. \E m \in T : \A k \in T : m <= k
    BY <2>1, LeastNumber
  <2> QED
    BY <2>2 DEF T
<1>2. m \in 1..n /\ m - 1 \in 0..n
  BY <1>1
<1>3. m - 1 \in S
  BY <1>1, <1>2
<1> QED
  BY <1>1, <1>2, <1>3

-------------------------------------------------------------------------------
(* The folds of the loader, as sequences of steps *)

\* What Declare does before it imports the sources of the job.
DeclareFirst(acc, j, m) ==
    LET declared == [n \in {j.name} |-> [options |-> j.options, by |-> m]]
    IN  [acc EXCEPT !.jobs = Prefer(declared, @)]

\* The sources of a job are imported one after the other.
LEMMA DeclareRecursion ==
    ASSUME NEW acc, NEW j, NEW m, NEW libs, Len(j.imports) \in Nat
    PROVE  \E f : /\ Declare(acc, j, m, libs) = f[Len(j.imports)]
                  /\ f[0] = DeclareFirst(acc, j, m)
                  /\ \A i \in 1..Len(j.imports) :
                        f[i] = Import(f[i - 1], j, m, libs[j.imports[i]])
<1> DEFINE first == DeclareFirst(acc, j, m)
           Is(f, k) == f = [i \in 0..k |->
                               IF i = 0 THEN first
                               ELSE Import(f[i - 1], j, m, libs[j.imports[i]])]
           T == {k \in Nat : \E f : Is(f, k)}
<1>1. 0 \in T
  <2>1. Is([i \in 0..0 |-> first], 0)
    <3> HIDE DEF first
    <3> QED
      OBVIOUS
  <2> QED
    BY <2>1
<1>2. ASSUME NEW k \in 1..Len(j.imports), k - 1 \in T PROVE k \in T
  <2>1. PICK f : Is(f, k - 1)
    BY <1>2
  <2> DEFINE g == [i \in 0..k |->
                       IF i = k THEN Import(f[k - 1], j, m, libs[j.imports[k]])
                       ELSE f[i]]
  <2>2. Is(g, k)
    <3> HIDE DEF first
    <3>1. ASSUME NEW i \in 0..k
          PROVE  g[i] = IF i = 0 THEN first ELSE Import(g[i - 1], j, m, libs[j.imports[i]])
      <4>1. CASE i = k
        BY <4>1
      <4>2. CASE i # k
        <5>1. i \in 0..(k - 1) /\ g[i] = f[i] /\ (i # 0 => g[i - 1] = f[i - 1])
          BY <4>2
        <5>2. f[i] = IF i = 0 THEN first ELSE Import(f[i - 1], j, m, libs[j.imports[i]])
          <6> HIDE DEF g
          <6> QED
            BY <2>1, <5>1
        <5> QED
          BY <5>1, <5>2
      <4> QED
        BY <4>1, <4>2
    <3> QED
      BY <3>1, Zenon
  <2> HIDE DEF Is, g
  <2> QED
    BY <2>2
<1>3. \E f : Is(f, Len(j.imports))
  <2>1. 0..Len(j.imports) \subseteq T
    <3> HIDE DEF T
    <3> QED
      BY <1>1, <1>2, UpTo
  <2>2. Len(j.imports) \in 0..Len(j.imports)
    OBVIOUS
  <2> HIDE DEF Is
  <2> QED
    BY <2>1, <2>2
<1> DEFINE h == CHOOSE f : Is(f, Len(j.imports))
<1>4. Is(h, Len(j.imports))
  BY <1>3, Zenon
<1>5. Declare(acc, j, m, libs) = h[Len(j.imports)]
  BY Zenon DEF Declare, DeclareFirst
<1> HIDE DEF h, first
<1>6. \A i \in 0..Len(j.imports) :
         h[i] = IF i = 0 THEN first ELSE Import(h[i - 1], j, m, libs[j.imports[i]])
  BY <1>4, Zenon
<1>7. /\ h[0] = first
      /\ \A i \in 1..Len(j.imports) : h[i] = Import(h[i - 1], j, m, libs[j.imports[i]])
  BY <1>6
<1> QED
  BY <1>5, <1>7 DEF first

\* The globals of the libraries are merged one after the other.
LEMMA MergeGlobalsRecursion ==
    ASSUME NEW made, Len(made.globals) \in Nat
    PROVE  \E f : /\ MergeGlobals(made) = f[Len(made.globals)]
                  /\ f[0] = made
                  /\ \A i \in 1..Len(made.globals) :
                        f[i] = MergeGlobal(f[i - 1], made.globals[i])
<1> DEFINE first == made
           Is(f, k) == f = [i \in 0..k |->
                               IF i = 0 THEN first
                               ELSE MergeGlobal(f[i - 1], made.globals[i])]
           T == {k \in Nat : \E f : Is(f, k)}
<1>1. 0 \in T
  <2>1. Is([i \in 0..0 |-> first], 0)
    <3> HIDE DEF first
    <3> QED
      OBVIOUS
  <2> QED
    BY <2>1
<1>2. ASSUME NEW k \in 1..Len(made.globals), k - 1 \in T PROVE k \in T
  <2>1. PICK f : Is(f, k - 1)
    BY <1>2
  <2> DEFINE g == [i \in 0..k |->
                       IF i = k THEN MergeGlobal(f[k - 1], made.globals[k])
                       ELSE f[i]]
  <2>2. Is(g, k)
    <3> HIDE DEF first
    <3>1. ASSUME NEW i \in 0..k
          PROVE  g[i] = IF i = 0 THEN first ELSE MergeGlobal(g[i - 1], made.globals[i])
      <4>1. CASE i = k
        BY <4>1
      <4>2. CASE i # k
        <5>1. i \in 0..(k - 1) /\ g[i] = f[i] /\ (i # 0 => g[i - 1] = f[i - 1])
          BY <4>2
        <5>2. f[i] = IF i = 0 THEN first ELSE MergeGlobal(f[i - 1], made.globals[i])
          <6> HIDE DEF g
          <6> QED
            BY <2>1, <5>1
        <5> QED
          BY <5>1, <5>2
      <4> QED
        BY <4>1, <4>2
    <3> QED
      BY <3>1, Zenon
  <2> HIDE DEF Is, g
  <2> QED
    BY <2>2
<1>3. \E f : Is(f, Len(made.globals))
  <2>1. 0..Len(made.globals) \subseteq T
    <3> HIDE DEF T
    <3> QED
      BY <1>1, <1>2, UpTo
  <2>2. Len(made.globals) \in 0..Len(made.globals)
    OBVIOUS
  <2> HIDE DEF Is
  <2> QED
    BY <2>1, <2>2
<1> DEFINE h == CHOOSE f : Is(f, Len(made.globals))
<1>4. Is(h, Len(made.globals))
  BY <1>3, Zenon
<1>5. MergeGlobals(made) = h[Len(made.globals)]
  BY Zenon DEF MergeGlobals
<1> HIDE DEF h, first
<1>6. \A i \in 0..Len(made.globals) :
         h[i] = IF i = 0 THEN first ELSE MergeGlobal(h[i - 1], made.globals[i])
  BY <1>4, Zenon
<1>7. /\ h[0] = first
      /\ \A i \in 1..Len(made.globals) : h[i] = MergeGlobal(h[i - 1], made.globals[i])
  BY <1>6
<1> QED
  BY <1>5, <1>7 DEF first

\* The jobs of a module are declared one after the other.
LEMMA NewAppRecursion ==
    ASSUME NEW m, NEW module, NEW libs, Len(module) \in Nat
    PROVE  \E f : /\ NewApp(m, module, libs) = MergeGlobals(f[Len(module)])
                  /\ f[0] = NoJobs(m)
                  /\ \A i \in 1..Len(module) : f[i] = Declare(f[i - 1], module[i], m, libs)
<1> DEFINE first == NoJobs(m)
           Is(f, k) == f = [i \in 0..k |->
                               IF i = 0 THEN first
                               ELSE Declare(f[i - 1], module[i], m, libs)]
           T == {k \in Nat : \E f : Is(f, k)}
<1>1. 0 \in T
  <2>1. Is([i \in 0..0 |-> first], 0)
    <3> HIDE DEF first
    <3> QED
      OBVIOUS
  <2> QED
    BY <2>1
<1>2. ASSUME NEW k \in 1..Len(module), k - 1 \in T PROVE k \in T
  <2>1. PICK f : Is(f, k - 1)
    BY <1>2
  <2> DEFINE g == [i \in 0..k |->
                       IF i = k THEN Declare(f[k - 1], module[k], m, libs)
                       ELSE f[i]]
  <2>2. Is(g, k)
    <3> HIDE DEF first
    <3>1. ASSUME NEW i \in 0..k
          PROVE  g[i] = IF i = 0 THEN first ELSE Declare(g[i - 1], module[i], m, libs)
      <4>1. CASE i = k
        BY <4>1
      <4>2. CASE i # k
        <5>1. i \in 0..(k - 1) /\ g[i] = f[i] /\ (i # 0 => g[i - 1] = f[i - 1])
          BY <4>2
        <5>2. f[i] = IF i = 0 THEN first ELSE Declare(f[i - 1], module[i], m, libs)
          <6> HIDE DEF g
          <6> QED
            BY <2>1, <5>1
        <5> QED
          BY <5>1, <5>2
      <4> QED
        BY <4>1, <4>2
    <3> QED
      BY <3>1, Zenon
  <2> HIDE DEF Is, g
  <2> QED
    BY <2>2
<1>3. \E f : Is(f, Len(module))
  <2>1. 0..Len(module) \subseteq T
    <3> HIDE DEF T
    <3> QED
      BY <1>1, <1>2, UpTo
  <2>2. Len(module) \in 0..Len(module)
    OBVIOUS
  <2> HIDE DEF Is
  <2> QED
    BY <2>1, <2>2
<1> DEFINE h == CHOOSE f : Is(f, Len(module))
<1>4. Is(h, Len(module))
  BY <1>3, Zenon
<1>5. NewApp(m, module, libs) = MergeGlobals(h[Len(module)])
  BY Zenon DEF NewApp
<1> HIDE DEF h, first
<1>6. \A i \in 0..Len(module) :
         h[i] = IF i = 0 THEN first ELSE Declare(h[i - 1], module[i], m, libs)
  BY <1>4, Zenon
<1>7. /\ h[0] = first
      /\ \A i \in 1..Len(module) : h[i] = Declare(h[i - 1], module[i], m, libs)
  BY <1>6
<1> QED
  BY <1>5, <1>7 DEF first

\* The modules are loaded one after the other.
LEMMA AppsRecursion ==
    ASSUME NEW p, Len(p) \in Nat
    PROVE  \E f : /\ Apps(p) = f[Len(p)]
                  /\ f[0] = <<>>
                  /\ \A i \in 1..Len(p) : f[i] = Append(f[i - 1], NewApp(i, p[i], f[i - 1]))
<1> DEFINE first == <<>>
           Is(f, k) == f = [i \in 0..k |->
                               IF i = 0 THEN first
                               ELSE Append(f[i - 1], NewApp(i, p[i], f[i - 1]))]
           T == {k \in Nat : \E f : Is(f, k)}
<1>1. 0 \in T
  <2>1. Is([i \in 0..0 |-> first], 0)
    <3> HIDE DEF first
    <3> QED
      OBVIOUS
  <2> QED
    BY <2>1
<1>2. ASSUME NEW k \in 1..Len(p), k - 1 \in T PROVE k \in T
  <2>1. PICK f : Is(f, k - 1)
    BY <1>2
  <2> DEFINE g == [i \in 0..k |->
                       IF i = k THEN Append(f[k - 1], NewApp(k, p[k], f[k - 1]))
                       ELSE f[i]]
  <2>2. Is(g, k)
    <3> HIDE DEF first
    <3>1. ASSUME NEW i \in 0..k
          PROVE  g[i] = IF i = 0 THEN first ELSE Append(g[i - 1], NewApp(i, p[i], g[i - 1]))
      <4>1. CASE i = k
        BY <4>1
      <4>2. CASE i # k
        <5>1. i \in 0..(k - 1) /\ g[i] = f[i] /\ (i # 0 => g[i - 1] = f[i - 1])
          BY <4>2
        <5>2. f[i] = IF i = 0 THEN first ELSE Append(f[i - 1], NewApp(i, p[i], f[i - 1]))
          <6> HIDE DEF g
          <6> QED
            BY <2>1, <5>1
        <5> QED
          BY <5>1, <5>2
      <4> QED
        BY <4>1, <4>2
    <3> QED
      BY <3>1, Zenon
  <2> HIDE DEF Is, g
  <2> QED
    BY <2>2
<1>3. \E f : Is(f, Len(p))
  <2>1. 0..Len(p) \subseteq T
    <3> HIDE DEF T
    <3> QED
      BY <1>1, <1>2, UpTo
  <2>2. Len(p) \in 0..Len(p)
    OBVIOUS
  <2> HIDE DEF Is
  <2> QED
    BY <2>1, <2>2
<1> DEFINE h == CHOOSE f : Is(f, Len(p))
<1>4. Is(h, Len(p))
  BY <1>3, Zenon
<1>5. Apps(p) = h[Len(p)]
  BY Zenon DEF Apps
<1> HIDE DEF h, first
<1>6. \A i \in 0..Len(p) :
         h[i] = IF i = 0 THEN first ELSE Append(h[i - 1], NewApp(i, p[i], h[i - 1]))
  BY <1>4, Zenon
<1>7. /\ h[0] = first
      /\ \A i \in 1..Len(p) : h[i] = Append(h[i - 1], NewApp(i, p[i], h[i - 1]))
  <2>1. 0 \in 0..Len(p) /\ \A i \in 1..Len(p) : i \in 0..Len(p) /\ i # 0
    OBVIOUS
  <2> QED
    BY <1>6, <2>1, Zenon
<1> QED
  BY <1>5, <1>7 DEF first

\* What can be called is found in the order of the modules.
LEMMA DeclaredRecursion ==
    ASSUME NEW p, Len(p) \in Nat
    PROVE  \E f : /\ Declared(p) = f[Len(p)][Len(p)]
                  /\ f[0] = <<>>
                  /\ \A i \in 1..Len(p) :
                        f[i] = Append(f[i - 1], DeclaredBy(p, i, f[i - 1]))
<1> DEFINE first == <<>>
           Is(f, k) == f = [i \in 0..k |->
                               IF i = 0 THEN first
                               ELSE Append(f[i - 1], DeclaredBy(p, i, f[i - 1]))]
           T == {k \in Nat : \E f : Is(f, k)}
<1>1. 0 \in T
  <2>1. Is([i \in 0..0 |-> first], 0)
    <3> HIDE DEF first
    <3> QED
      OBVIOUS
  <2> QED
    BY <2>1
<1>2. ASSUME NEW k \in 1..Len(p), k - 1 \in T PROVE k \in T
  <2>1. PICK f : Is(f, k - 1)
    BY <1>2
  <2> DEFINE g == [i \in 0..k |->
                       IF i = k THEN Append(f[k - 1], DeclaredBy(p, k, f[k - 1]))
                       ELSE f[i]]
  <2>2. Is(g, k)
    <3> HIDE DEF first
    <3>1. ASSUME NEW i \in 0..k
          PROVE  g[i] = IF i = 0 THEN first
                        ELSE Append(g[i - 1], DeclaredBy(p, i, g[i - 1]))
      <4>1. CASE i = k
        BY <4>1
      <4>2. CASE i # k
        <5>1. i \in 0..(k - 1) /\ g[i] = f[i] /\ (i # 0 => g[i - 1] = f[i - 1])
          BY <4>2
        <5>2. f[i] = IF i = 0 THEN first ELSE Append(f[i - 1], DeclaredBy(p, i, f[i - 1]))
          <6> HIDE DEF g
          <6> QED
            BY <2>1, <5>1
        <5> QED
          BY <5>1, <5>2
      <4> QED
        BY <4>1, <4>2
    <3> QED
      BY <3>1, Zenon
  <2> HIDE DEF Is, g
  <2> QED
    BY <2>2
<1>3. \E f : Is(f, Len(p))
  <2>1. 0..Len(p) \subseteq T
    <3> HIDE DEF T
    <3> QED
      BY <1>1, <1>2, UpTo
  <2>2. Len(p) \in 0..Len(p)
    OBVIOUS
  <2> HIDE DEF Is
  <2> QED
    BY <2>1, <2>2
<1> DEFINE h == CHOOSE f : Is(f, Len(p))
<1>4. Is(h, Len(p))
  BY <1>3, Zenon
<1>5. Declared(p) = h[Len(p)][Len(p)]
  BY Zenon DEF Declared
<1> HIDE DEF h, first
<1>6. \A i \in 0..Len(p) :
         h[i] = IF i = 0 THEN first ELSE Append(h[i - 1], DeclaredBy(p, i, h[i - 1]))
  BY <1>4, Zenon
<1>7. /\ h[0] = first
      /\ \A i \in 1..Len(p) : h[i] = Append(h[i - 1], DeclaredBy(p, i, h[i - 1]))
  <2>1. 0 \in 0..Len(p) /\ \A i \in 1..Len(p) : i \in 0..Len(p) /\ i # 0
    OBVIOUS
  <2> QED
    BY <1>6, <2>1, Zenon
<1> QED
  BY <1>5, <1>7 DEF first

-------------------------------------------------------------------------------
(* Merging and importing *)

\* A job of an application has these two fields.
IsJob(v) == v = [options |-> v.options, by |-> v.by]

\* The options of f are among those of g, with the same types.
Within(f, g) == \A o \in DOMAIN f : o \in DOMAIN g /\ f[o].type = g[o].type

\* ... and with the same defaults.
Kept(f, g) == \A o \in DOMAIN f : o \in DOMAIN g /\ g[o] = f[o]

\* mergeParamsAndOpts keeps what dst has and adds what src has.
LEMMA MergeFacts ==
    ASSUME NEW src, NEW dst, IsJob(dst), NEW v, v = Merge(src, dst)
    PROVE  /\ IsJob(v) /\ v.by = dst.by
           /\ DOMAIN v.options = DOMAIN dst.options \cup DOMAIN src.options
           /\ Kept(dst.options, v.options)
           /\ \A o \in DOMAIN v.options :
                 \/ o \in DOMAIN dst.options /\ v.options[o] = dst.options[o]
                 \/ o \in DOMAIN src.options /\ v.options[o] = src.options[o]
           /\ Mergeable(src, dst) => Within(src.options, v.options)
<1>1. v = [options |-> Prefer(dst.options, src.options), by |-> dst.by]
  BY DEF IsJob, Merge
<1> DEFINE f == Prefer(dst.options, src.options)
<1>2. /\ DOMAIN f = DOMAIN dst.options \cup DOMAIN src.options
      /\ \A o \in DOMAIN dst.options : f[o] = dst.options[o]
      /\ \A o \in DOMAIN src.options \ DOMAIN dst.options : f[o] = src.options[o]
  BY DEF Prefer
<1> HIDE DEF f
<1>3. v.options = f /\ v.by = dst.by /\ IsJob(v)
  BY <1>1 DEF IsJob, f
<1> QED
  BY <1>2, <1>3 DEF Kept, Within, Mergeable

\* The jobs of a library under the name of the job that imports them.
LEMMA RenamedFacts ==
    ASSUME NEW j, j.name \in Seq(STRING), NEW m, NEW jobs,
           DOMAIN jobs \subseteq Seq(STRING), Root \in DOMAIN jobs
    PROVE  LET r == Renamed(j, m, jobs) IN
           /\ DOMAIN r = {j.name \o x : x \in DOMAIN jobs}
           /\ DOMAIN r \subseteq Seq(STRING)
           /\ j.name \in DOMAIN r
           /\ r[j.name] = Merge(jobs[Root], [options |-> j.options, by |-> m])
           /\ \A x \in DOMAIN jobs \ {Root} :
                 j.name \o x # j.name /\ r[j.name \o x] = jobs[x]
           /\ Root \in DOMAIN r => j.name = Root
<1> DEFINE r == Renamed(j, m, jobs)
<1>1. DOMAIN r = {j.name \o x : x \in DOMAIN jobs}
  BY DEF Renamed
<1>2. DOMAIN r \subseteq Seq(STRING)
  BY <1>1, ConcatProperties
<1> HIDE DEF r
<1>3. j.name \o Root = j.name
  BY ConcatEmptySeq DEF Root
<1>4. j.name \in DOMAIN r
  BY <1>1, <1>3
<1>5. r[j.name] = Merge(jobs[Root], [options |-> j.options, by |-> m])
  BY <1>1, <1>4 DEF Renamed, r
<1>6. ASSUME NEW x \in DOMAIN jobs \ {Root}
      PROVE  j.name \o x # j.name /\ r[j.name \o x] = jobs[x]
  <2> DEFINE n == j.name \o x
  <2>1. x \in Seq(STRING)
    OBVIOUS
  <2>2. n \in DOMAIN r
    BY <1>1
  <2>3. n # j.name
    BY <2>1, ConcatEqualIffEmpty DEF Root
  <2>4. /\ Len(x) \in Nat \ {0} /\ Len(j.name) \in Nat
        /\ Len(n) = Len(j.name) + Len(x) /\ n \in Seq(STRING)
    BY <2>1, EmptySeq, LenProperties, ConcatProperties DEF Root
  <2>5. SubSeq(n, Len(j.name) + 1, Len(n)) = SubSeq(x, 1, Len(x))
    <3>1. /\ Len(j.name) + 1 \in Len(j.name)+1..Len(j.name)+Len(x)
          /\ Len(n) \in Len(j.name)+1..Len(j.name)+Len(x)
      BY <2>4
    <3>2. SubSeq(n, Len(j.name) + 1, Len(n)) =
              SubSeq(x, (Len(j.name) + 1) - Len(j.name), Len(n) - Len(j.name))
      BY <3>1, <2>1, SubSeqOfConcat2
    <3>3. (Len(j.name) + 1) - Len(j.name) = 1 /\ Len(n) - Len(j.name) = Len(x)
      BY <2>4
    <3> QED
      BY <3>2, <3>3
  <2>6. SubSeq(x, 1, Len(x)) = x
    BY <2>1, SubSeqFull
  <2> HIDE DEF n
  <2>7. r[n] = jobs[x]
    BY <2>2, <2>3, <2>5, <2>6, <1>1 DEF Renamed, r
  <2> QED
    BY <2>3, <2>7 DEF n
<1>7. Root \in DOMAIN r => j.name = Root
  <2> SUFFICES ASSUME Root \in DOMAIN r PROVE j.name = Root
    OBVIOUS
  <2>1. PICK x \in DOMAIN jobs : Root = j.name \o x
    BY <1>1
  <2>2. x \in Seq(STRING) /\ j.name \o x = <<>>
    BY <2>1 DEF Root
  <2> QED
    BY <2>2, ConcatEqualIffEmpty DEF Root
<1> QED
  BY <1>1, <1>2, <1>4, <1>5, <1>6, <1>7 DEF r

-------------------------------------------------------------------------------
(* What newApp makes of a module *)

\* What WellFormed says of one module.
IsModule(m, module) ==
    /\ IsSeq(module) /\ module # <<>>
    /\ \A i \in 1..Len(module) :
          /\ module[i].name \in Seq(STRING)
          /\ module[i].name = Root <=> i = 1
          /\ module[i].imports \in Seq(1..m - 1)

\* The shape of the application of module m.
IsApp(a, m) ==
    /\ a = [module |-> m, jobs |-> a.jobs, funcs |-> a.funcs, globals |-> a.globals,
            failed |-> a.failed]
    /\ a.failed \in BOOLEAN
    /\ Root \in DOMAIN a.jobs
    /\ DOMAIN a.jobs \subseteq Seq(STRING)
    /\ \A x \in DOMAIN a.jobs : IsJob(a.jobs[x])

\* The applications module m can import.
AreApps(m, libs) == \A s \in 1..m - 1 : IsApp(libs[s], s)

\* The jobs of a module with the libraries they import.
Links(m, module) == {p \in Range(module) \X (1..m - 1) : p[2] \in Range(p[1].imports)}

\* What an import adds to the globals.
Global(p, m, libs) == Merge(libs[p[2]].jobs[Root], [options |-> p[1].options, by |-> m])

\* Where the value v of a global option o comes from: a file of the module, or
\* the globals of a library it imports.
Known(o, v, m, module, libs) ==
    \/ \E j \in Range(module) :
          /\ j.name = Root \/ j.imports # <<>>
          /\ o \in DOMAIN j.options /\ v = j.options[o]
    \/ \E p \in Links(m, module) :
          LET options == libs[p[2]].jobs[Root].options
          IN  o \in DOMAIN options /\ v = options[o]

\* A job is one of the module with the options it declares, or one of a library.
JobOrigin(a, m, module, libs) ==
    \A x \in DOMAIN a.jobs :
        \/ \E j \in Range(module) :
              x = j.name /\ a.jobs[x].by = m /\ Kept(j.options, a.jobs[x].options)
        \/ \E p \in Links(m, module) : \E y \in DOMAIN libs[p[2]].jobs \ {Root} :
              x = p[1].name \o y /\ a.jobs[x] = libs[p[2]].jobs[y]

\* A job has the functions of the library it is imported from.
FuncOrigin(a, m, module, libs) ==
    \A x \in DOMAIN a.funcs :
        \E p \in Links(m, module) : \E y \in DOMAIN libs[p[2]].jobs :
            x = p[1].name \o y /\ a.funcs[x] = p[2]

\* No option of a list is made up.
AllKnown(options, m, module, libs) ==
    \A o \in DOMAIN options : Known(o, options[o], m, module, libs)

\* It fails for a library that fails, or for two types of one option.
Reason(a, m, module, libs) ==
    a.failed =>
        \/ \E p \in Links(m, module) : libs[p[2]].failed
        \/ \E o, v, w : /\ Known(o, v, m, module, libs) /\ Known(o, w, m, module, libs)
                        /\ v.type # w.type

\* What all steps of newApp keep: there is nothing but what the files declare.
Sound(a, m, module, libs) ==
    /\ IsApp(a, m)
    /\ a.globals \in Seq({Global(p, m, libs) : p \in Links(m, module)})
    /\ JobOrigin(a, m, module, libs)
    /\ FuncOrigin(a, m, module, libs)
    /\ AllKnown(a.jobs[Root].options, m, module, libs)
    /\ Reason(a, m, module, libs)

\* What is there of a library once it is imported.
Has(a, p, m, libs) ==
    LET lib == libs[p[2]]
    IN  /\ \A y \in DOMAIN lib.jobs :
              p[1].name \o y \in DOMAIN a.jobs /\ p[1].name \o y \in DOMAIN a.funcs
        /\ ~a.failed => ~lib.failed /\ Mergeable(lib.jobs[Root], p[1])
        /\ p[1].name # Root => Global(p, m, libs) \in Range(a.globals)
        /\ p[1].name = Root /\ Len(p[1].imports) <= 1 =>
              /\ DOMAIN lib.jobs[Root].options \subseteq DOMAIN a.jobs[Root].options
              /\ ~a.failed => Within(lib.jobs[Root].options, a.jobs[Root].options)

\* Nothing that was there is lost, but the root job may be replaced.
Grows(a, b) ==
    /\ DOMAIN a.jobs \subseteq DOMAIN b.jobs
    /\ DOMAIN a.funcs \subseteq DOMAIN b.funcs
    /\ Range(a.globals) \subseteq Range(b.globals)
    /\ a.failed => b.failed

\* Append adds an element and loses none.
LEMMA RangeAppend ==
    ASSUME NEW S, NEW s \in Seq(S), NEW e \in S
    PROVE  /\ Range(s) \subseteq Range(Append(s, e))
           /\ e \in Range(Append(s, e))
<1>1. /\ Append(s, e) \in Seq(S) /\ Len(Append(s, e)) = Len(s) + 1 /\ Len(s) \in Nat
      /\ \A i \in 1..Len(s) : Append(s, e)[i] = s[i]
      /\ Append(s, e)[Len(s) + 1] = e
  BY AppendProperties, LenProperties
<1>2. /\ Range(s) = {s[i] : i \in 1..Len(s)}
      /\ Range(Append(s, e)) = {Append(s, e)[i] : i \in 1..Len(Append(s, e))}
  BY <1>1, RangeEquality
<1>3. \A i \in 1..Len(s) : i \in 1..Len(Append(s, e))
  BY <1>1
<1>4. Len(s) + 1 \in 1..Len(Append(s, e))
  BY <1>1
<1> HIDE <1>1
<1>5. Range(s) \subseteq Range(Append(s, e))
  <2> SUFFICES ASSUME NEW i \in 1..Len(s) PROVE s[i] \in Range(Append(s, e))
    BY <1>2
  <2>1. Append(s, e)[i] = s[i]
    BY <1>1
  <2> QED
    BY <2>1, <1>2, <1>3
<1>6. e \in Range(Append(s, e))
  BY <1>1, <1>2, <1>4
<1> QED
  BY <1>5, <1>6

\* What an import adds to the globals has the options of the job and those of
\* the library, none of them made up.
LEMMA GlobalFacts ==
    ASSUME NEW m \in Nat, NEW module, NEW libs, IsModule(m, module), AreApps(m, libs),
           NEW p \in Links(m, module)
    PROVE  LET v == Global(p, m, libs) IN
           /\ p[1] \in Range(module) /\ p[2] \in 1..m - 1 /\ p[2] \in Range(p[1].imports)
           /\ p[1].name \in Seq(STRING) /\ IsApp(libs[p[2]], p[2])
           /\ p[1].imports # <<>>
           /\ IsJob(v) /\ v.by = m
           /\ DOMAIN v.options = DOMAIN p[1].options \cup DOMAIN libs[p[2]].jobs[Root].options
           /\ Kept(p[1].options, v.options)
           /\ AllKnown(v.options, m, module, libs)
           /\ Mergeable(libs[p[2]].jobs[Root], p[1]) =>
                 Within(libs[p[2]].jobs[Root].options, v.options)
<1> DEFINE j == p[1]
           s == p[2]
           dst == [options |-> j.options, by |-> m]
           src == libs[s].jobs[Root]
           v == Global(p, m, libs)
<1>1. j \in Range(module) /\ s \in 1..m - 1 /\ s \in Range(j.imports)
  BY DEF Links
<1>2. PICK i \in 1..Len(module) : j = module[i]
  BY <1>1, RangeEquality DEF IsModule, IsSeq
<1>3. j.name \in Seq(STRING) /\ j.imports \in Seq(1..m - 1) /\ IsApp(libs[s], s)
  BY <1>1, <1>2 DEF IsModule, AreApps
<1>4. j.imports # <<>>
  <2>1. PICK k \in 1..Len(j.imports) : s = j.imports[k]
    BY <1>1, <1>3, RangeEquality
  <2> QED
    BY <2>1, EmptySeq
<1>5. IsJob(dst) /\ dst.options = j.options /\ dst.by = m
  BY DEF IsJob
<1>6. v = Merge(src, dst)
  BY DEF Global
<1> HIDE DEF dst, src, j, s, v
<1>7. /\ IsJob(v) /\ v.by = dst.by
      /\ DOMAIN v.options = DOMAIN dst.options \cup DOMAIN src.options
      /\ Kept(dst.options, v.options)
      /\ \A o \in DOMAIN v.options :
            \/ o \in DOMAIN dst.options /\ v.options[o] = dst.options[o]
            \/ o \in DOMAIN src.options /\ v.options[o] = src.options[o]
      /\ Mergeable(src, dst) => Within(src.options, v.options)
  BY <1>5, <1>6, MergeFacts
<1>8. AllKnown(v.options, m, module, libs)
  BY <1>1, <1>4, <1>5, <1>7 DEF AllKnown, Known, src, j, s
<1>9. Mergeable(src, j) => Mergeable(src, dst)
  BY <1>5 DEF Mergeable
<1> QED
  BY <1>1, <1>3, <1>4, <1>5, <1>7, <1>8, <1>9 DEF j, s, src, v

\* Importing one source keeps what there is and brings in the library.
LEMMA ImportKeeps ==
    ASSUME NEW m \in Nat, NEW module, NEW libs, IsModule(m, module), AreApps(m, libs),
           NEW p \in Links(m, module), NEW a, Sound(a, m, module, libs),
           NEW b, b = Import(a, p[1], m, libs[p[2]])
    PROVE  /\ Sound(b, m, module, libs)
           /\ Has(b, p, m, libs)
           /\ Grows(a, b)
           /\ p[1].name # Root => b.jobs[Root] = a.jobs[Root]
<1> DEFINE j == p[1]
           s == p[2]
           lib == libs[s]
           r == Renamed(j, m, lib.jobs)
           v == Global(p, m, libs)
           All == {Global(q, m, libs) : q \in Links(m, module)}
<1>1. /\ j \in Range(module) /\ s \in 1..m - 1 /\ s \in Range(j.imports)
      /\ j.name \in Seq(STRING) /\ IsApp(lib, s)
      /\ j.imports # <<>>
      /\ IsJob(v) /\ v.by = m
      /\ DOMAIN v.options = DOMAIN j.options \cup DOMAIN lib.jobs[Root].options
      /\ Kept(j.options, v.options)
      /\ AllKnown(v.options, m, module, libs)
      /\ Mergeable(lib.jobs[Root], j) => Within(lib.jobs[Root].options, v.options)
  BY GlobalFacts
<1>2. v \in All
  OBVIOUS
<1>3. /\ DOMAIN r = {j.name \o x : x \in DOMAIN lib.jobs}
      /\ DOMAIN r \subseteq Seq(STRING)
      /\ j.name \in DOMAIN r
      /\ r[j.name] = v
      /\ \A x \in DOMAIN lib.jobs \ {Root} :
            j.name \o x # j.name /\ r[j.name \o x] = lib.jobs[x]
      /\ Root \in DOMAIN r => j.name = Root
  <2>1. DOMAIN lib.jobs \subseteq Seq(STRING) /\ Root \in DOMAIN lib.jobs
    BY <1>1 DEF IsApp
  <2>2. v = Merge(lib.jobs[Root], [options |-> j.options, by |-> m])
    BY DEF Global
  <2>3. j.name \in Seq(STRING)
    BY <1>1
  <2> HIDE DEF v, lib, j
  <2>4. /\ DOMAIN r = {j.name \o x : x \in DOMAIN lib.jobs}
        /\ DOMAIN r \subseteq Seq(STRING)
        /\ j.name \in DOMAIN r
        /\ r[j.name] = Merge(lib.jobs[Root], [options |-> j.options, by |-> m])
        /\ \A x \in DOMAIN lib.jobs \ {Root} :
              j.name \o x # j.name /\ r[j.name \o x] = lib.jobs[x]
        /\ Root \in DOMAIN r => j.name = Root
    BY <2>1, <2>3, RenamedFacts
  <2> HIDE DEF r
  <2> QED
    BY <2>2, <2>4
<1>4. /\ a = [module |-> m, jobs |-> a.jobs, funcs |-> a.funcs, globals |-> a.globals,
              failed |-> a.failed]
      /\ a.failed \in BOOLEAN /\ lib.failed \in BOOLEAN /\ lib.module = s
      /\ a.globals \in Seq(All)
      /\ Root \in DOMAIN a.jobs
  <2>1. IsApp(a, m) /\ IsApp(lib, s)
    BY <1>1 DEF Sound
  <2> QED
    BY <2>1 DEF Sound, IsApp
<1> DEFINE newJobs == Prefer(r, a.jobs)
           newFuncs == Prefer([n \in DOMAIN r |-> lib.module], a.funcs)
           newGlobals == IF j.name = Root THEN a.globals ELSE Append(a.globals, v)
           newFailed == a.failed \/ lib.failed \/ ~Mergeable(lib.jobs[Root], j)
<1>5. b = [module |-> m, jobs |-> newJobs, funcs |-> newFuncs, globals |-> newGlobals,
           failed |-> newFailed]
  <2>1. r[j.name] = v
    BY <1>3
  <2>2. b = [a EXCEPT !.jobs = newJobs, !.funcs = newFuncs,
                      !.globals = IF j.name = Root THEN a.globals ELSE Append(a.globals, r[j.name]),
                      !.failed = newFailed]
    BY DEF Import
  <2>3. b = [a EXCEPT !.jobs = newJobs, !.funcs = newFuncs,
                      !.globals = newGlobals, !.failed = newFailed]
    <3> HIDE DEF newJobs, newFuncs, newFailed, v, r, lib, j
    <3> QED
      BY <2>1, <2>2
  <2> HIDE DEF newJobs, newFuncs, newGlobals, newFailed
  <2>4. a = [module |-> m, jobs |-> a.jobs, funcs |-> a.funcs, globals |-> a.globals,
              failed |-> a.failed]
    BY <1>4
  <2>5. DOMAIN a = {"module", "jobs", "funcs", "globals", "failed"}
    BY <2>4
  <2>6. a.module = m
    BY <2>4
  <2> HIDE DEF r, v, lib, j, s, All
  <2>7. DOMAIN b = {"module", "jobs", "funcs", "globals", "failed"}
    BY <2>3, <2>5
  <2>8. /\ b.module = m /\ b.jobs = newJobs /\ b.funcs = newFuncs
        /\ b.globals = newGlobals /\ b.failed = newFailed
    BY <2>3, <2>5, <2>6
  <2>9. b = [x \in DOMAIN b |-> b[x]]
    BY <2>3
  <2> QED
    BY <2>7, <2>8, <2>9
<1>6. /\ DOMAIN newJobs = DOMAIN r \cup DOMAIN a.jobs
      /\ \A x \in DOMAIN r : newJobs[x] = r[x]
      /\ \A x \in DOMAIN a.jobs \ DOMAIN r : newJobs[x] = a.jobs[x]
      /\ DOMAIN newFuncs = DOMAIN r \cup DOMAIN a.funcs
      /\ \A x \in DOMAIN r : newFuncs[x] = s
      /\ \A x \in DOMAIN a.funcs \ DOMAIN r : newFuncs[x] = a.funcs[x]
  <2> HIDE DEF r, lib, s
  <2> QED
    BY <1>4 DEF Prefer
<1>7. /\ newGlobals \in Seq(All) /\ Range(a.globals) \subseteq Range(newGlobals)
      /\ j.name # Root => v \in Range(newGlobals)
  <2> HIDE DEF v, All
  <2> QED
    BY <1>2, <1>4, AppendProperties, RangeAppend
<1> HIDE DEF newJobs, newFuncs, newGlobals, newFailed
<1>8. /\ b.module = m /\ b.jobs = newJobs /\ b.funcs = newFuncs /\ b.globals = newGlobals
      /\ b.failed = newFailed
  BY <1>5
<1>9. /\ newFailed \in BOOLEAN
      /\ newFailed = (a.failed \/ lib.failed \/ ~Mergeable(lib.jobs[Root], j))
  BY <1>4 DEF newFailed
<1> HIDE DEF v, r, lib, j, s, All
<1>10. \A x \in DOMAIN r : x = j.name \/ \E y \in DOMAIN lib.jobs \ {Root} :
                                            x = j.name \o y /\ r[x] = lib.jobs[y]
  <2> SUFFICES ASSUME NEW x \in DOMAIN r, x # j.name
               PROVE  \E y \in DOMAIN lib.jobs \ {Root} : x = j.name \o y /\ r[x] = lib.jobs[y]
    OBVIOUS
  <2>1. PICK y \in DOMAIN lib.jobs : x = j.name \o y
    BY <1>3
  <2>2. j.name \o Root = j.name
    BY <1>1, ConcatEmptySeq DEF Root
  <2> QED
    BY <1>3, <2>1, <2>2
<1>11. IsApp(b, m)
  <2>1. \A x \in DOMAIN newJobs : IsJob(newJobs[x])
    <3>1. \A x \in DOMAIN a.jobs : IsJob(a.jobs[x])
      BY DEF Sound, IsApp
    <3>2. \A x \in DOMAIN lib.jobs : IsJob(lib.jobs[x])
      BY <1>1 DEF IsApp
    <3>3. \A x \in DOMAIN r : IsJob(r[x])
      BY <1>1, <1>3, <1>10, <3>2
    <3> QED
      BY <1>6, <3>1, <3>3
  <2>2. DOMAIN newJobs \subseteq Seq(STRING) /\ Root \in DOMAIN newJobs
    BY <1>3, <1>4, <1>6 DEF Sound, IsApp
  <2> QED
    BY <1>5, <1>8, <1>9, <2>1, <2>2 DEF IsApp
<1>19. \A x \in DOMAIN a.jobs :
          \/ \E k \in Range(module) :
                x = k.name /\ a.jobs[x].by = m /\ Kept(k.options, a.jobs[x].options)
          \/ \E q \in Links(m, module) : \E y \in DOMAIN libs[q[2]].jobs \ {Root} :
                x = q[1].name \o y /\ a.jobs[x] = libs[q[2]].jobs[y]
  BY DEF Sound, JobOrigin
<1>12. JobOrigin(b, m, module, libs)
  <2> SUFFICES ASSUME NEW x \in DOMAIN newJobs
      PROVE \/ \E k \in Range(module) :
                  x = k.name /\ newJobs[x].by = m /\ Kept(k.options, newJobs[x].options)
            \/ \E q \in Links(m, module) : \E y \in DOMAIN libs[q[2]].jobs \ {Root} :
                  x = q[1].name \o y /\ newJobs[x] = libs[q[2]].jobs[y]
    BY <1>8 DEF JobOrigin
  <2>1. CASE x = j.name
    <3>1. newJobs[x] = v
      BY <1>3, <1>6, <2>1
    <3> QED
      BY <3>1, <2>1, <1>1
  <2>2. CASE x \in DOMAIN r /\ x # j.name
    <3>1. PICK y \in DOMAIN lib.jobs \ {Root} : x = j.name \o y /\ r[x] = lib.jobs[y]
      BY <1>10, <2>2
    <3>2. newJobs[x] = lib.jobs[y]
      BY <1>6, <2>2, <3>1
    <3> QED
      BY <3>1, <3>2 DEF lib, j, s
  <2>3. CASE x \notin DOMAIN r
    <3>1. x \in DOMAIN a.jobs /\ newJobs[x] = a.jobs[x]
      BY <1>6, <2>3
    <3> QED
      <4>1. CASE \E k \in Range(module) :
                    x = k.name /\ a.jobs[x].by = m /\ Kept(k.options, a.jobs[x].options)
        BY <4>1, <3>1
      <4>2. CASE \E q \in Links(m, module) : \E y \in DOMAIN libs[q[2]].jobs \ {Root} :
                    x = q[1].name \o y /\ a.jobs[x] = libs[q[2]].jobs[y]
        BY <4>2, <3>1
      <4> QED
        BY <4>1, <4>2, <3>1, <1>19
  <2> QED
    BY <2>1, <2>2, <2>3, <1>3
<1>13. FuncOrigin(b, m, module, libs)
  <2> SUFFICES ASSUME NEW x \in DOMAIN newFuncs
      PROVE \E q \in Links(m, module) : \E y \in DOMAIN libs[q[2]].jobs :
                  x = q[1].name \o y /\ newFuncs[x] = q[2]
    BY <1>8 DEF FuncOrigin
  <2>1. CASE x \in DOMAIN r
    <3>1. PICK y \in DOMAIN lib.jobs : x = j.name \o y
      BY <1>3, <2>1
    <3> QED
      BY <1>6, <2>1, <3>1 DEF lib, j, s
  <2>2. CASE x \notin DOMAIN r
    <3>1. x \in DOMAIN a.funcs /\ newFuncs[x] = a.funcs[x]
      BY <1>6, <2>2
    <3> QED
      BY <3>1 DEF Sound, FuncOrigin
  <2> QED
    BY <2>1, <2>2
<1>14. AllKnown(b.jobs[Root].options, m, module, libs)
  <2>1. CASE Root \in DOMAIN r
    <3>1. b.jobs[Root] = v
      BY <2>1, <1>3, <1>6, <1>8
    <3>2. AllKnown(v.options, m, module, libs)
      BY <1>1
    <3> QED
      BY <3>1, <3>2
  <2>2. CASE Root \notin DOMAIN r
    <3>1. b.jobs[Root] = a.jobs[Root]
      BY <1>4, <1>6, <1>8, <2>2
    <3> QED
      BY <3>1 DEF Sound
  <2> QED
    BY <2>1, <2>2
<1>15. Reason(b, m, module, libs)
  <2> SUFFICES ASSUME newFailed
               PROVE  \/ \E q \in Links(m, module) : libs[q[2]].failed
                      \/ \E o, x, w : /\ Known(o, x, m, module, libs)
                                      /\ Known(o, w, m, module, libs)
                                      /\ x.type # w.type
    BY <1>8 DEF Reason
  <2>1. CASE a.failed
    BY <2>1 DEF Sound, Reason
  <2>2. CASE lib.failed
    BY <2>2 DEF lib, s
  <2>3. CASE ~Mergeable(lib.jobs[Root], j)
    <3>1. PICK o \in DOMAIN lib.jobs[Root].options \cap DOMAIN j.options :
                lib.jobs[Root].options[o].type # j.options[o].type
      BY <2>3 DEF Mergeable
    <3>2. Known(o, lib.jobs[Root].options[o], m, module, libs)
      BY <3>1 DEF Known, lib, s
    <3>3. Known(o, j.options[o], m, module, libs)
      BY <3>1, <1>1 DEF Known
    <3> QED
      BY <3>1, <3>2, <3>3
  <2> QED
    BY <1>9, <2>1, <2>2, <2>3
<1>16. Sound(b, m, module, libs)
  BY <1>7, <1>8, <1>11, <1>12, <1>13, <1>14, <1>15 DEF Sound, All
<1>17. Grows(a, b)
  BY <1>6, <1>7, <1>8, <1>9 DEF Grows
<1>18. j.name # Root => b.jobs[Root] = a.jobs[Root]
  BY <1>3, <1>4, <1>6, <1>8
<1>20. Has(b, p, m, libs)
  <2>1. \A y \in DOMAIN lib.jobs :
           j.name \o y \in DOMAIN b.jobs /\ j.name \o y \in DOMAIN b.funcs
    BY <1>3, <1>6, <1>8
  <2>2. ~b.failed => ~lib.failed /\ Mergeable(lib.jobs[Root], j)
    BY <1>8, <1>9
  <2>3. j.name # Root => v \in Range(b.globals)
    BY <1>7, <1>8
  <2>4. j.name = Root => /\ DOMAIN lib.jobs[Root].options \subseteq DOMAIN b.jobs[Root].options
                         /\ ~b.failed => Within(lib.jobs[Root].options, b.jobs[Root].options)
    <3> SUFFICES ASSUME j.name = Root
                 PROVE  /\ DOMAIN lib.jobs[Root].options \subseteq DOMAIN b.jobs[Root].options
                        /\ ~b.failed => Within(lib.jobs[Root].options, b.jobs[Root].options)
      OBVIOUS
    <3>1. b.jobs[Root] = v
      BY <1>3, <1>6, <1>8
    <3> QED
      BY <3>1, <1>1, <2>2
  <2> QED
    BY <2>1, <2>2, <2>3, <2>4 DEF Has, lib, j, s, v
<1> QED
  BY <1>16, <1>17, <1>18, <1>20 DEF j

\* What is imported stays.
LEMMA HasStays ==
    ASSUME NEW a, NEW b, NEW p, NEW m, NEW libs, Has(a, p, m, libs), Grows(a, b),
           a.failed \in BOOLEAN, b.failed \in BOOLEAN,
           p[1].name = Root /\ Len(p[1].imports) <= 1 => b.jobs[Root] = a.jobs[Root]
    PROVE  Has(b, p, m, libs)
BY DEF Has, Grows

\* ... however many steps follow.
LEMMA GrowsOn ==
    ASSUME NEW a, NEW b, NEW c, Grows(a, b), Grows(b, c)
    PROVE  Grows(a, c)
BY DEF Grows

\* The jobs of a module are well formed, and the root job is the first.
LEMMA ModuleFacts ==
    ASSUME NEW m \in Nat, NEW module, IsModule(m, module)
    PROVE  /\ Len(module) \in Nat \ {0}
           /\ Range(module) = {module[i] : i \in 1..Len(module)}
           /\ \A j \in Range(module) :
                 /\ j.name \in Seq(STRING)
                 /\ j.imports \in Seq(1..m - 1)
                 /\ Len(j.imports) \in Nat
                 /\ Range(j.imports) = {j.imports[k] : k \in 1..Len(j.imports)}
                 /\ j.name = Root => j = module[1]
           /\ module[1] \in Range(module) /\ module[1].name = Root
<1>1. /\ Len(module) \in Nat \ {0}
      /\ Range(module) = {module[i] : i \in 1..Len(module)}
  BY EmptySeq, RangeEquality DEF IsModule, IsSeq
<1>2. ASSUME NEW j \in Range(module)
      PROVE  /\ j.name \in Seq(STRING)
             /\ j.imports \in Seq(1..m - 1)
             /\ Len(j.imports) \in Nat
             /\ Range(j.imports) = {j.imports[k] : k \in 1..Len(j.imports)}
             /\ j.name = Root => j = module[1]
  <2>1. PICK i \in 1..Len(module) : j = module[i]
    BY <1>1
  <2>2. j.imports \in Seq(1..m - 1)
    BY <2>1 DEF IsModule
  <2> QED
    BY <2>1, <2>2, LenProperties, RangeEquality DEF IsModule
<1>3. 1 \in 1..Len(module)
  BY <1>1
<1> QED
  BY <1>1, <1>2, <1>3 DEF IsModule

\* A job is declared before its sources are imported.
LEMMA DeclareFirstKeeps ==
    ASSUME NEW m \in Nat, NEW module, NEW libs, IsModule(m, module), AreApps(m, libs),
           NEW j \in Range(module), NEW a, NEW b, b = DeclareFirst(a, j, m),
           \/ j.name = Root /\ a = NoJobs(m)
           \/ j.name # Root /\ Sound(a, m, module, libs)
    PROVE  /\ Sound(b, m, module, libs)
           /\ j.name \in DOMAIN b.jobs
           /\ Grows(a, b)
           /\ j.name # Root => b.jobs[Root] = a.jobs[Root]
<1> DEFINE own == [options |-> j.options, by |-> m]
           declared == [n \in {j.name} |-> own]
           newJobs == Prefer(declared, a.jobs)
           All == {Global(q, m, libs) : q \in Links(m, module)}
<1>1. /\ a = [module |-> m, jobs |-> a.jobs, funcs |-> a.funcs, globals |-> a.globals,
              failed |-> a.failed]
      /\ a.failed \in BOOLEAN
      /\ a.globals \in Seq(All)
  <2>1. CASE a = NoJobs(m)
    <3>1. <<>> \in Seq(All)
      OBVIOUS
    <3> HIDE DEF All
    <3> QED
      BY <2>1, <3>1 DEF NoJobs
  <2>2. CASE Sound(a, m, module, libs)
    <3>1. a.globals \in Seq(All) /\ IsApp(a, m)
      BY <2>2 DEF Sound
    <3> HIDE DEF All
    <3> QED
      BY <3>1 DEF IsApp
  <2> QED
    BY <2>1, <2>2
<1>2. j.name \in Seq(STRING)
  BY ModuleFacts
<1>3. /\ DOMAIN newJobs = {j.name} \cup DOMAIN a.jobs
      /\ newJobs[j.name] = own
      /\ \A x \in DOMAIN a.jobs \ {j.name} : newJobs[x] = a.jobs[x]
  BY DEF Prefer
<1>4. b = [a EXCEPT !.jobs = newJobs]
  BY DEF DeclareFirst
<1> HIDE DEF newJobs
<1>5. b = [module |-> m, jobs |-> newJobs, funcs |-> a.funcs, globals |-> a.globals,
           failed |-> a.failed]
  <2>1. DOMAIN a = {"module", "jobs", "funcs", "globals", "failed"} /\ a.module = m
    BY <1>1
  <2> HIDE DEF All
  <2>2. DOMAIN b = {"module", "jobs", "funcs", "globals", "failed"}
    BY <1>4, <2>1
  <2>3. /\ b.module = m /\ b.jobs = newJobs /\ b.funcs = a.funcs /\ b.globals = a.globals
        /\ b.failed = a.failed
    BY <1>4, <2>1
  <2>4. b = [x \in DOMAIN b |-> b[x]]
    BY <1>4
  <2> QED
    BY <2>2, <2>3, <2>4
<1>6. /\ b.module = m /\ b.jobs = newJobs /\ b.funcs = a.funcs /\ b.globals = a.globals
      /\ b.failed = a.failed
  BY <1>5
<1>7. /\ DOMAIN a.jobs \subseteq Seq(STRING)
      /\ \A x \in DOMAIN a.jobs : IsJob(a.jobs[x])
      /\ \A x \in DOMAIN a.jobs :
          \/ \E k \in Range(module) :
                x = k.name /\ a.jobs[x].by = m /\ Kept(k.options, a.jobs[x].options)
          \/ \E q \in Links(m, module) : \E y \in DOMAIN libs[q[2]].jobs \ {Root} :
                x = q[1].name \o y /\ a.jobs[x] = libs[q[2]].jobs[y]
      /\ FuncOrigin(b, m, module, libs)
      /\ Reason(b, m, module, libs)
  <2>1. CASE a = NoJobs(m)
    <3>1. DOMAIN a.jobs = {} /\ DOMAIN a.funcs = {} /\ a.failed = FALSE
      BY <2>1 DEF NoJobs
    <3> QED
      BY <3>1, <1>6 DEF FuncOrigin, Reason
  <2>2. CASE Sound(a, m, module, libs)
    <3>1. FuncOrigin(b, m, module, libs) /\ Reason(b, m, module, libs)
      BY <2>2, <1>6 DEF Sound, FuncOrigin, Reason
    <3>2. JobOrigin(a, m, module, libs) /\ IsApp(a, m)
      BY <2>2 DEF Sound
    <3> QED
      BY <3>1, <3>2 DEF IsApp, JobOrigin
  <2> QED
    BY <2>1, <2>2
<1>8. IsJob(own) /\ own.options = j.options /\ own.by = m
  BY DEF IsJob
<1> HIDE DEF own, All
<1>9. Root \in DOMAIN newJobs /\ (j.name # Root => newJobs[Root] = a.jobs[Root])
  BY <1>3 DEF Sound, IsApp
<1>10. IsApp(b, m)
  <2>1. DOMAIN newJobs \subseteq Seq(STRING)
    BY <1>2, <1>3, <1>7
  <2>2. \A x \in DOMAIN newJobs : IsJob(newJobs[x])
    BY <1>3, <1>7, <1>8
  <2> QED
    BY <1>1, <1>5, <1>6, <1>9, <2>1, <2>2 DEF IsApp
<1>11. JobOrigin(b, m, module, libs)
  <2> SUFFICES ASSUME NEW x \in DOMAIN newJobs
      PROVE \/ \E k \in Range(module) :
                  x = k.name /\ newJobs[x].by = m /\ Kept(k.options, newJobs[x].options)
            \/ \E q \in Links(m, module) : \E y \in DOMAIN libs[q[2]].jobs \ {Root} :
                  x = q[1].name \o y /\ newJobs[x] = libs[q[2]].jobs[y]
    BY <1>6 DEF JobOrigin
  <2>1. CASE x = j.name
    <3>1. newJobs[x].by = m /\ Kept(j.options, newJobs[x].options)
      BY <1>3, <1>8, <2>1 DEF Kept
    <3> QED
      BY <3>1, <2>1
  <2>2. CASE x # j.name
    <3>1. x \in DOMAIN a.jobs /\ newJobs[x] = a.jobs[x]
      BY <1>3, <2>2
    <3>2. CASE \E k \in Range(module) :
                  x = k.name /\ a.jobs[x].by = m /\ Kept(k.options, a.jobs[x].options)
      BY <3>2, <3>1
    <3>3. CASE \E q \in Links(m, module) : \E y \in DOMAIN libs[q[2]].jobs \ {Root} :
                  x = q[1].name \o y /\ a.jobs[x] = libs[q[2]].jobs[y]
      BY <3>3, <3>1
    <3> QED
      BY <3>1, <3>2, <3>3, <1>7
  <2> QED
    BY <2>1, <2>2
<1>12. AllKnown(b.jobs[Root].options, m, module, libs)
  <2>1. CASE j.name = Root
    <3>1. b.jobs[Root].options = j.options
      BY <1>3, <1>6, <1>8, <2>1
    <3> QED
      BY <3>1, <2>1 DEF AllKnown, Known
  <2>2. CASE j.name # Root
    BY <1>6, <1>9, <2>2 DEF Sound
  <2> QED
    BY <2>1, <2>2
<1>13. Sound(b, m, module, libs)
  BY <1>1, <1>6, <1>7, <1>10, <1>11, <1>12 DEF Sound, All
<1>14. Grows(a, b)
  BY <1>3, <1>6 DEF Grows
<1> QED
  BY <1>3, <1>6, <1>9, <1>13, <1>14

\* Declaring a job keeps what there is, and brings in all of its libraries.
LEMMA DeclareKeeps ==
    ASSUME NEW m \in Nat, NEW module, NEW libs, IsModule(m, module), AreApps(m, libs),
           NEW j \in Range(module), NEW a, NEW b, b = Declare(a, j, m, libs),
           \/ j.name = Root /\ a = NoJobs(m)
           \/ j.name # Root /\ Sound(a, m, module, libs)
    PROVE  /\ Sound(b, m, module, libs)
           /\ j.name \in DOMAIN b.jobs
           /\ \A s \in Range(j.imports) : Has(b, <<j, s>>, m, libs)
           /\ Grows(a, b)
           /\ j.name # Root => b.jobs[Root] = a.jobs[Root]
<1> DEFINE n == Len(j.imports)
           first == DeclareFirst(a, j, m)
<1>1. n \in Nat /\ Range(j.imports) = {j.imports[k] : k \in 1..n} /\ j.imports \in Seq(1..m - 1)
  BY ModuleFacts
<1>2. PICK f : /\ b = f[n]
               /\ f[0] = first
               /\ \A i \in 1..n : f[i] = Import(f[i - 1], j, m, libs[j.imports[i]])
  BY <1>1, DeclareRecursion
<1>3. /\ Sound(first, m, module, libs)
      /\ j.name \in DOMAIN first.jobs
      /\ Grows(a, first)
      /\ j.name # Root => first.jobs[Root] = a.jobs[Root]
  BY DeclareFirstKeeps
<1> HIDE DEF first
<1> DEFINE Inv(k) ==
              /\ Sound(f[k], m, module, libs)
              /\ Grows(first, f[k])
              /\ j.name # Root => f[k].jobs[Root] = first.jobs[Root]
              /\ \A q \in 1..k : Has(f[k], <<j, j.imports[q]>>, m, libs)
           S == {k \in 0..n : Inv(k)}
<1>4. 0 \in S
  <2>1. Inv(0)
    BY <1>2, <1>3 DEF Grows
  <2> QED
    BY <1>1, <2>1
<1>5. ASSUME NEW k \in 1..n, k - 1 \in S PROVE k \in S
  <2> DEFINE p == <<j, j.imports[k]>>
             old == f[k - 1]
             new == f[k]
  <2>1. p \in Links(m, module) /\ p[1] = j /\ p[2] = j.imports[k]
    <3>1. j.imports[k] \in 1..m - 1
      BY <1>1, ElementOfSeq
    <3> QED
      BY <1>1, <3>1 DEF Links
  <2>2. Sound(old, m, module, libs) /\ Grows(first, old)
        /\ (j.name # Root => old.jobs[Root] = first.jobs[Root])
        /\ \A q \in 1..k - 1 : Has(old, <<j, j.imports[q]>>, m, libs)
    BY <1>5
  <2>3. new = Import(old, p[1], m, libs[p[2]])
    BY <1>2, <2>1
  <2> HIDE DEF p, old, new
  <2>4. /\ Sound(new, m, module, libs)
        /\ Has(new, p, m, libs)
        /\ Grows(old, new)
        /\ p[1].name # Root => new.jobs[Root] = old.jobs[Root]
    BY <2>1, <2>2, <2>3, ImportKeeps
  <2>5. Grows(first, new)
    BY <2>2, <2>4, GrowsOn
  <2>6. ASSUME NEW q \in 1..k PROVE Has(new, <<j, j.imports[q]>>, m, libs)
    <3>1. CASE q = k
      BY <3>1, <2>4 DEF p
    <3>2. CASE q # k
      <4> DEFINE r == <<j, j.imports[q]>>
      <4>1. q \in 1..k - 1 /\ ~(n <= 1)
        BY <3>2, <1>1
      <4>2. Has(old, r, m, libs)
        BY <2>2, <4>1
      <4>3. r[1] = j /\ old.failed \in BOOLEAN /\ new.failed \in BOOLEAN
        BY <2>2, <2>4 DEF Sound, IsApp
      <4>4. r[1].name = Root /\ Len(r[1].imports) <= 1 => new.jobs[Root] = old.jobs[Root]
        BY <4>1, <4>3
      <4> HIDE DEF r
      <4>5. Has(new, r, m, libs)
        BY <2>4, <4>2, <4>3, <4>4, HasStays
      <4> QED
        BY <4>5 DEF r
    <3> QED
      BY <3>1, <3>2
  <2>7. Inv(k)
    BY <2>1, <2>2, <2>4, <2>5, <2>6 DEF new
  <2> QED
    BY <2>7
<1>6. n \in S
  <2> HIDE DEF S, n
  <2>1. 0..n \subseteq S
    BY <1>1, <1>4, <1>5, UpTo
  <2> QED
    BY <1>1, <2>1
<1>7. /\ Sound(b, m, module, libs) /\ Grows(first, b)
      /\ j.name # Root => b.jobs[Root] = first.jobs[Root]
      /\ \A q \in 1..n : Has(b, <<j, j.imports[q]>>, m, libs)
  BY <1>2, <1>6
<1>8. \A s \in Range(j.imports) : Has(b, <<j, s>>, m, libs)
  BY <1>1, <1>7
<1>9. j.name \in DOMAIN b.jobs
  BY <1>3, <1>7 DEF Grows
<1> QED
  BY <1>3, <1>7, <1>8, <1>9, GrowsOn

\* All jobs of a module are declared, and all of their libraries imported.
LEMMA AllDeclared ==
    ASSUME NEW m \in Nat, NEW module, NEW libs, IsModule(m, module), AreApps(m, libs)
    PROVE  \E a : /\ NewApp(m, module, libs) = MergeGlobals(a)
                  /\ Sound(a, m, module, libs)
                  /\ \A j \in Range(module) :
                        /\ j.name \in DOMAIN a.jobs
                        /\ \A s \in Range(j.imports) : Has(a, <<j, s>>, m, libs)
<1> DEFINE n == Len(module)
<1>1. /\ n \in Nat \ {0}
      /\ Range(module) = {module[i] : i \in 1..n}
      /\ \A j \in Range(module) : j.name = Root => j = module[1]
      /\ module[1].name = Root
  BY ModuleFacts
<1>2. PICK f : /\ NewApp(m, module, libs) = MergeGlobals(f[n])
               /\ f[0] = NoJobs(m)
               /\ \A i \in 1..n : f[i] = Declare(f[i - 1], module[i], m, libs)
  <2>1. n \in Nat
    BY <1>1
  <2> HIDE DEF n
  <2> QED
    BY <2>1, NewAppRecursion DEF n
<1> DEFINE Brought(a, j) == /\ j.name \in DOMAIN a.jobs
                            /\ \A s \in Range(j.imports) : Has(a, <<j, s>>, m, libs)
           Inv(i) == /\ Sound(f[i], m, module, libs)
                     /\ \A q \in 1..i : Brought(f[i], module[q])
           S == {i \in 0..n : i = 0 \/ Inv(i)}
<1>3. 0 \in S
  BY <1>1
<1>4. ASSUME NEW i \in 1..n, i - 1 \in S PROVE i \in S
  <2> DEFINE j == module[i]
             old == f[i - 1]
             new == f[i]
  <2>1. j \in Range(module) /\ new = Declare(old, j, m, libs) /\ (j.name = Root <=> i = 1)
    BY <1>1, <1>2 DEF IsModule
  <2>2. CASE i = 1
    <3>1. old = NoJobs(m) /\ j.name = Root
      BY <1>2, <2>1, <2>2
    <3> HIDE DEF j, old, new
    <3>2. Sound(new, m, module, libs) /\ Brought(new, j)
      BY <2>1, <3>1, DeclareKeeps
    <3>3. \A q \in 1..i : module[q] = j
      BY <2>2 DEF j
    <3>4. Inv(i)
      <4> HIDE DEF Brought
      <4> QED
        BY <3>2, <3>3 DEF new
    <3> QED
      BY <3>4
  <2>3. CASE i # 1
    <3>1. j.name # Root /\ i - 1 \in 1..n
      BY <2>1, <2>3
    <3>2. Sound(old, m, module, libs) /\ \A q \in 1..i - 1 : Brought(old, module[q])
      <4> HIDE DEF Brought
      <4> QED
        BY <1>4, <3>1
    <3> HIDE DEF j, old, new
    <3>3. /\ Sound(new, m, module, libs) /\ Brought(new, j)
          /\ Grows(old, new) /\ new.jobs[Root] = old.jobs[Root]
      BY <2>1, <3>1, <3>2, DeclareKeeps
    <3>4. ASSUME NEW q \in 1..i - 1 PROVE Brought(new, module[q])
      <4> DEFINE k == module[q]
      <4>1. k.name \in DOMAIN old.jobs /\ \A s \in Range(k.imports) : Has(old, <<k, s>>, m, libs)
        BY <3>2
      <4>2. old.failed \in BOOLEAN /\ new.failed \in BOOLEAN
        BY <3>2, <3>3 DEF Sound, IsApp
      <4> HIDE DEF k
      <4>3. ASSUME NEW s \in Range(k.imports) PROVE Has(new, <<k, s>>, m, libs)
        BY <4>1, <4>2, <3>3, HasStays
      <4>4. k.name \in DOMAIN new.jobs
        BY <4>1, <3>3 DEF Grows
      <4> QED
        BY <4>3, <4>4 DEF k
    <3>5. Inv(i)
      <4> HIDE DEF Brought
      <4>1. \A q \in 1..i : q \in 1..i - 1 \/ q = i
        OBVIOUS
      <4> QED
        BY <3>3, <3>4, <4>1 DEF new, j
    <3> QED
      BY <3>5
  <2> QED
    BY <2>2, <2>3
<1>5. Inv(n)
  <2> HIDE DEF S, n, Inv
  <2>1. 0..n \subseteq S
    BY <1>1, <1>3, <1>4, UpTo
  <2> QED
    BY <1>1, <2>1 DEF S
<1>6. \A j \in Range(module) : Brought(f[n], j)
  <2> HIDE DEF Brought, n
  <2> QED
    BY <1>1, <1>5
<1> QED
  BY <1>2, <1>5, <1>6

\* Only the root job has the root job's name.
LEMMA OnlyRoot ==
    ASSUME NEW m \in Nat, NEW module, NEW libs, IsModule(m, module), AreApps(m, libs),
           NEW p \in Links(m, module), NEW y \in DOMAIN libs[p[2]].jobs, y # Root
    PROVE  p[1].name \o y # Root
<1>1. p[1].name \in Seq(STRING) /\ y \in Seq(STRING)
  BY GlobalFacts DEF IsApp
<1> QED
  BY <1>1, ConcatEqualIffEmpty DEF Root

\* Merging the globals of a library keeps what there is and adds them.
LEMMA MergeGlobalKeeps ==
    ASSUME NEW m \in Nat, NEW module, NEW libs, IsModule(m, module), AreApps(m, libs),
           NEW a, Sound(a, m, module, libs), NEW p \in Links(m, module),
           NEW g, g = Global(p, m, libs), NEW b, b = MergeGlobal(a, g)
    PROVE  /\ Sound(b, m, module, libs)
           /\ b.globals = a.globals /\ b.funcs = a.funcs
           /\ DOMAIN b.jobs = DOMAIN a.jobs
           /\ Kept(a.jobs[Root].options, b.jobs[Root].options)
           /\ a.failed => b.failed
           /\ DOMAIN g.options \subseteq DOMAIN b.jobs[Root].options
           /\ ~b.failed => Within(g.options, b.jobs[Root].options)
<1> DEFINE dst == a.jobs[Root]
           v == Merge(g, dst)
           newJobs == [a.jobs EXCEPT ![Root] = v]
           newFailed == a.failed \/ ~Mergeable(g, dst)
           All == {Global(q, m, libs) : q \in Links(m, module)}
<1>1. /\ a = [module |-> m, jobs |-> a.jobs, funcs |-> a.funcs, globals |-> a.globals,
              failed |-> a.failed]
      /\ a.failed \in BOOLEAN
      /\ Root \in DOMAIN a.jobs
      /\ DOMAIN a.jobs \subseteq Seq(STRING)
      /\ \A x \in DOMAIN a.jobs : IsJob(a.jobs[x])
  BY DEF Sound, IsApp
<1>2. IsJob(g) /\ AllKnown(g.options, m, module, libs)
  BY GlobalFacts
<1>3. /\ IsJob(v) /\ v.by = dst.by
      /\ DOMAIN v.options = DOMAIN dst.options \cup DOMAIN g.options
      /\ Kept(dst.options, v.options)
      /\ \A o \in DOMAIN v.options :
            \/ o \in DOMAIN dst.options /\ v.options[o] = dst.options[o]
            \/ o \in DOMAIN g.options /\ v.options[o] = g.options[o]
      /\ Mergeable(g, dst) => Within(g.options, v.options)
  <2>1. IsJob(dst)
    BY <1>1
  <2> HIDE DEF v, dst
  <2> QED
    BY <2>1, MergeFacts DEF v
<1>4. b = [a EXCEPT !.jobs = newJobs, !.failed = newFailed]
  BY DEF MergeGlobal
<1>5. /\ DOMAIN newJobs = DOMAIN a.jobs
      /\ newJobs[Root] = v
      /\ \A x \in DOMAIN a.jobs \ {Root} : newJobs[x] = a.jobs[x]
  <2> HIDE DEF v
  <2> QED
    BY <1>1
<1> HIDE DEF newJobs, newFailed, v, dst, All
<1>6. b = [module |-> m, jobs |-> newJobs, funcs |-> a.funcs, globals |-> a.globals,
           failed |-> newFailed]
  <2>1. DOMAIN a = {"module", "jobs", "funcs", "globals", "failed"} /\ a.module = m
    BY <1>1
  <2>2. DOMAIN b = {"module", "jobs", "funcs", "globals", "failed"}
    BY <1>4, <2>1
  <2>3. /\ b.module = m /\ b.jobs = newJobs /\ b.funcs = a.funcs /\ b.globals = a.globals
        /\ b.failed = newFailed
    BY <1>4, <2>1
  <2>4. b = [x \in DOMAIN b |-> b[x]]
    BY <1>4
  <2> QED
    BY <2>2, <2>3, <2>4
<1>7. /\ b.module = m /\ b.jobs = newJobs /\ b.funcs = a.funcs /\ b.globals = a.globals
      /\ b.failed = newFailed
  BY <1>6
<1>8. newFailed \in BOOLEAN /\ (newFailed = (a.failed \/ ~Mergeable(g, dst)))
  BY <1>1 DEF newFailed
<1>9. IsApp(b, m)
  <2>1. \A x \in DOMAIN newJobs : IsJob(newJobs[x])
    BY <1>1, <1>3, <1>5
  <2> QED
    BY <1>1, <1>5, <1>6, <1>7, <1>8, <2>1 DEF IsApp
<1>10. JobOrigin(b, m, module, libs)
  <2> SUFFICES ASSUME NEW x \in DOMAIN newJobs
      PROVE \/ \E k \in Range(module) :
                  x = k.name /\ newJobs[x].by = m /\ Kept(k.options, newJobs[x].options)
            \/ \E q \in Links(m, module) : \E y \in DOMAIN libs[q[2]].jobs \ {Root} :
                  x = q[1].name \o y /\ newJobs[x] = libs[q[2]].jobs[y]
    BY <1>7 DEF JobOrigin
  <2>1. \/ \E k \in Range(module) :
              x = k.name /\ a.jobs[x].by = m /\ Kept(k.options, a.jobs[x].options)
        \/ \E q \in Links(m, module) : \E y \in DOMAIN libs[q[2]].jobs \ {Root} :
              x = q[1].name \o y /\ a.jobs[x] = libs[q[2]].jobs[y]
    <3>1. JobOrigin(a, m, module, libs) /\ x \in DOMAIN a.jobs
      BY <1>5 DEF Sound
    <3> QED
      BY <3>1 DEF JobOrigin
  <2>2. CASE \E k \in Range(module) :
              x = k.name /\ a.jobs[x].by = m /\ Kept(k.options, a.jobs[x].options)
    <3>1. PICK k \in Range(module) :
              x = k.name /\ a.jobs[x].by = m /\ Kept(k.options, a.jobs[x].options)
      BY <2>2
    <3>2. newJobs[x].by = m /\ Kept(k.options, newJobs[x].options)
      <4>1. CASE x = Root
        <5>1. Kept(k.options, dst.options) /\ dst.by = m /\ newJobs[x] = v
          BY <3>1, <4>1, <1>5 DEF dst
        <5> QED
          BY <5>1, <1>3 DEF Kept
      <4>2. CASE x # Root
        BY <3>1, <4>2, <1>5
      <4> QED
        BY <4>1, <4>2
    <3> QED
      BY <3>1, <3>2
  <2>3. CASE \E q \in Links(m, module) : \E y \in DOMAIN libs[q[2]].jobs \ {Root} :
              x = q[1].name \o y /\ a.jobs[x] = libs[q[2]].jobs[y]
    <3>1. PICK q \in Links(m, module) : \E y \in DOMAIN libs[q[2]].jobs \ {Root} :
              x = q[1].name \o y /\ a.jobs[x] = libs[q[2]].jobs[y]
      BY <2>3
    <3>2. PICK y \in DOMAIN libs[q[2]].jobs \ {Root} :
              x = q[1].name \o y /\ a.jobs[x] = libs[q[2]].jobs[y]
      BY <3>1
    <3>3. x # Root
      BY <3>2, OnlyRoot
    <3>4. newJobs[x] = libs[q[2]].jobs[y]
      BY <3>2, <3>3, <1>5
    <3> QED
      BY <3>2, <3>4
  <2> QED
    BY <2>1, <2>2, <2>3
<1>11. FuncOrigin(b, m, module, libs)
  BY <1>7 DEF Sound, FuncOrigin
<1>12. AllKnown(v.options, m, module, libs)
  <2>1. AllKnown(dst.options, m, module, libs)
    BY DEF Sound, dst
  <2> QED
    BY <1>2, <1>3, <2>1 DEF AllKnown
<1>13. Reason(b, m, module, libs)
  <2> SUFFICES ASSUME newFailed
               PROVE  \/ \E q \in Links(m, module) : libs[q[2]].failed
                      \/ \E o, x, w : /\ Known(o, x, m, module, libs)
                                      /\ Known(o, w, m, module, libs)
                                      /\ x.type # w.type
    BY <1>7 DEF Reason
  <2>1. CASE a.failed
    BY <2>1 DEF Sound, Reason
  <2>2. CASE ~Mergeable(g, dst)
    <3>1. PICK o \in DOMAIN g.options \cap DOMAIN dst.options :
                g.options[o].type # dst.options[o].type
      BY <2>2 DEF Mergeable
    <3>2. Known(o, g.options[o], m, module, libs)
      BY <3>1, <1>2 DEF AllKnown
    <3>3. Known(o, dst.options[o], m, module, libs)
      BY <3>1 DEF Sound, AllKnown, dst
    <3> QED
      BY <3>1, <3>2, <3>3
  <2> QED
    BY <1>8, <2>1, <2>2
<1>14. Sound(b, m, module, libs)
  <2>1. a.globals \in Seq({Global(q, m, libs) : q \in Links(m, module)})
    BY DEF Sound
  <2> QED
    BY <2>1, <1>5, <1>7, <1>9, <1>10, <1>11, <1>12, <1>13 DEF Sound
<1> QED
  BY <1>3, <1>5, <1>7, <1>8, <1>14 DEF dst

\* The globals of all libraries end up in the root job.
LEMMA AllMerged ==
    ASSUME NEW m \in Nat, NEW module, NEW libs, IsModule(m, module), AreApps(m, libs),
           NEW a, Sound(a, m, module, libs), NEW b, b = MergeGlobals(a)
    PROVE  /\ Sound(b, m, module, libs)
           /\ b.funcs = a.funcs
           /\ DOMAIN b.jobs = DOMAIN a.jobs
           /\ Kept(a.jobs[Root].options, b.jobs[Root].options)
           /\ a.failed => b.failed
           /\ \A g \in Range(a.globals) :
                 /\ DOMAIN g.options \subseteq DOMAIN b.jobs[Root].options
                 /\ ~b.failed => Within(g.options, b.jobs[Root].options)
<1> DEFINE n == Len(a.globals)
           All == {Global(q, m, libs) : q \in Links(m, module)}
<1>1. a.globals \in Seq(All)
  BY DEF Sound
<1>2. n \in Nat /\ Range(a.globals) = {a.globals[i] : i \in 1..n}
  <2> HIDE DEF All
  <2> QED
    BY <1>1, LenProperties, RangeEquality
<1>3. \A i \in 1..n : \E q \in Links(m, module) : a.globals[i] = Global(q, m, libs)
  <2>1. \A i \in 1..n : a.globals[i] \in All
    <3> HIDE DEF All
    <3> QED
      BY <1>1, ElementOfSeq
  <2> QED
    BY <2>1
<1>4. PICK f : /\ b = f[n]
               /\ f[0] = a
               /\ \A i \in 1..n : f[i] = MergeGlobal(f[i - 1], a.globals[i])
  BY <1>2, MergeGlobalsRecursion
<1> DEFINE Inv(i) ==
              /\ Sound(f[i], m, module, libs)
              /\ f[i].funcs = a.funcs
              /\ DOMAIN f[i].jobs = DOMAIN a.jobs
              /\ Kept(a.jobs[Root].options, f[i].jobs[Root].options)
              /\ a.failed => f[i].failed
              /\ \A q \in 1..i :
                    /\ DOMAIN a.globals[q].options \subseteq DOMAIN f[i].jobs[Root].options
                    /\ ~f[i].failed => Within(a.globals[q].options, f[i].jobs[Root].options)
           S == {i \in 0..n : Inv(i)}
<1>5. 0 \in S
  <2>1. Inv(0)
    BY <1>4 DEF Kept
  <2> QED
    BY <1>2, <2>1
<1>6. ASSUME NEW i \in 1..n, i - 1 \in S PROVE i \in S
  <2> DEFINE old == f[i - 1]
             new == f[i]
             g == a.globals[i]
  <2>1. Inv(i - 1)
    BY <1>6
  <2>2. PICK q \in Links(m, module) : g = Global(q, m, libs)
    BY <1>3
  <2>3. new = MergeGlobal(old, g)
    BY <1>4
  <2>4. Sound(old, m, module, libs)
    BY <2>1
  <2> HIDE DEF old, new, g
  <2>5. /\ Sound(new, m, module, libs)
        /\ new.funcs = old.funcs
        /\ DOMAIN new.jobs = DOMAIN old.jobs
        /\ Kept(old.jobs[Root].options, new.jobs[Root].options)
        /\ old.failed => new.failed
        /\ DOMAIN g.options \subseteq DOMAIN new.jobs[Root].options
        /\ ~new.failed => Within(g.options, new.jobs[Root].options)
    BY <2>2, <2>3, <2>4, MergeGlobalKeeps
  <2>6. ASSUME NEW k \in 1..i
        PROVE  /\ DOMAIN a.globals[k].options \subseteq DOMAIN new.jobs[Root].options
               /\ ~new.failed => Within(a.globals[k].options, new.jobs[Root].options)
    <3>1. CASE k = i
      BY <3>1, <2>5 DEF g
    <3>2. CASE k # i
      <4>1. k \in 1..i - 1
        BY <3>2
      <4>2. /\ DOMAIN a.globals[k].options \subseteq DOMAIN old.jobs[Root].options
            /\ ~old.failed => Within(a.globals[k].options, old.jobs[Root].options)
        BY <4>1, <2>1 DEF old
      <4> QED
        BY <4>2, <2>5 DEF Within, Kept
    <3> QED
      BY <3>1, <3>2
  <2>7. /\ old.funcs = a.funcs /\ DOMAIN old.jobs = DOMAIN a.jobs
        /\ Kept(a.jobs[Root].options, old.jobs[Root].options)
        /\ a.failed => old.failed
    BY <2>1 DEF old
  <2>8. Kept(a.jobs[Root].options, new.jobs[Root].options)
    BY <2>5, <2>7 DEF Kept
  <2>9. Inv(i)
    BY <2>5, <2>6, <2>7, <2>8 DEF new
  <2> QED
    BY <2>9
<1>7. Inv(n)
  <2> HIDE DEF S, n, Inv
  <2>1. 0..n \subseteq S
    BY <1>2, <1>5, <1>6, UpTo
  <2> QED
    BY <1>2, <2>1 DEF S
<1> QED
  BY <1>2, <1>4, <1>7

\* What an application has of a library: its jobs, and its globals, unless the
\* root job imports another one after it.
Taken(a, p, libs) ==
    LET lib == libs[p[2]]
        mine == a.jobs[Root].options
        theirs == lib.jobs[Root].options
    IN  /\ \A y \in DOMAIN lib.jobs :
              p[1].name \o y \in DOMAIN a.jobs /\ p[1].name \o y \in DOMAIN a.funcs
        /\ ~a.failed => ~lib.failed /\ Within(p[1].options, mine)
        /\ (p[1].name = Root => Len(p[1].imports) <= 1) =>
              /\ DOMAIN theirs \subseteq DOMAIN mine
              /\ ~a.failed => Within(theirs, mine)

\* What newApp makes of a module and the applications it imports.
Made(a, m, module, libs) ==
    /\ IsApp(a, m)
    /\ JobOrigin(a, m, module, libs)
    /\ FuncOrigin(a, m, module, libs)
    /\ AllKnown(a.jobs[Root].options, m, module, libs)
    /\ Reason(a, m, module, libs)
    /\ \A j \in Range(module) : j.name \in DOMAIN a.jobs
    /\ \A p \in Links(m, module) : Taken(a, p, libs)
    /\ Kept(module[1].options, a.jobs[Root].options)

\* newApp as a whole.
LEMMA NewAppMade ==
    ASSUME NEW m \in Nat, NEW module, NEW libs, IsModule(m, module), AreApps(m, libs)
    PROVE  Made(NewApp(m, module, libs), m, module, libs)
<1> DEFINE b == NewApp(m, module, libs)
<1>1. PICK a : /\ b = MergeGlobals(a)
               /\ Sound(a, m, module, libs)
               /\ \A j \in Range(module) :
                     /\ j.name \in DOMAIN a.jobs
                     /\ \A s \in Range(j.imports) : Has(a, <<j, s>>, m, libs)
  BY AllDeclared
<1> HIDE DEF b
<1>2. /\ Sound(b, m, module, libs)
      /\ b.funcs = a.funcs
      /\ DOMAIN b.jobs = DOMAIN a.jobs
      /\ Kept(a.jobs[Root].options, b.jobs[Root].options)
      /\ a.failed => b.failed
      /\ \A g \in Range(a.globals) :
            /\ DOMAIN g.options \subseteq DOMAIN b.jobs[Root].options
            /\ ~b.failed => Within(g.options, b.jobs[Root].options)
  BY <1>1, AllMerged
<1>3. Kept(module[1].options, b.jobs[Root].options)
  <2>1. JobOrigin(a, m, module, libs) /\ Root \in DOMAIN a.jobs
    BY <1>1 DEF Sound, IsApp
  <2>2. \/ \E j \in Range(module) : Root = j.name /\ Kept(j.options, a.jobs[Root].options)
        \/ \E q \in Links(m, module) : \E y \in DOMAIN libs[q[2]].jobs \ {Root} :
              Root = q[1].name \o y
    BY <2>1 DEF JobOrigin
  <2>3. Kept(module[1].options, a.jobs[Root].options)
    <3>1. ASSUME NEW q \in Links(m, module), NEW y \in DOMAIN libs[q[2]].jobs \ {Root}
          PROVE  Root # q[1].name \o y
      BY OnlyRoot
    <3>2. PICK j \in Range(module) : Root = j.name /\ Kept(j.options, a.jobs[Root].options)
      BY <2>2, <3>1
    <3>3. j = module[1]
      BY <3>2, ModuleFacts
    <3> QED
      BY <3>2, <3>3
  <2> QED
    BY <2>3, <1>2 DEF Kept
<1>4. ASSUME NEW p \in Links(m, module) PROVE Taken(b, p, libs)
  <2> DEFINE j == p[1]
             lib == libs[p[2]]
             v == Global(p, m, libs)
             mine == b.jobs[Root].options
             theirs == lib.jobs[Root].options
  <2>1. /\ j \in Range(module) /\ p[2] \in Range(j.imports)
        /\ DOMAIN v.options = DOMAIN j.options \cup DOMAIN theirs
        /\ Kept(j.options, v.options)
        /\ Mergeable(lib.jobs[Root], j) => Within(theirs, v.options)
    <3>1. /\ p[1] \in Range(module) /\ p[2] \in 1..m - 1 /\ p[2] \in Range(p[1].imports)
          /\ p[1].name \in Seq(STRING) /\ IsApp(libs[p[2]], p[2])
          /\ p[1].imports # <<>>
          /\ IsJob(v) /\ v.by = m
          /\ DOMAIN v.options = DOMAIN p[1].options \cup DOMAIN libs[p[2]].jobs[Root].options
          /\ Kept(p[1].options, v.options)
          /\ AllKnown(v.options, m, module, libs)
          /\ Mergeable(libs[p[2]].jobs[Root], p[1]) =>
                 Within(libs[p[2]].jobs[Root].options, v.options)
      BY GlobalFacts
    <3> QED
      BY <3>1
  <2>2. Has(a, p, m, libs)
    <3>1. p = <<j, p[2]>>
      BY DEF Links
    <3> QED
      BY <1>1, <2>1, <3>1
  <2> HIDE DEF v
  <2>3. /\ \A y \in DOMAIN lib.jobs :
              j.name \o y \in DOMAIN a.jobs /\ j.name \o y \in DOMAIN a.funcs
        /\ ~a.failed => ~lib.failed /\ Mergeable(lib.jobs[Root], j)
        /\ j.name # Root => v \in Range(a.globals)
        /\ j.name = Root /\ Len(j.imports) <= 1 =>
              /\ DOMAIN theirs \subseteq DOMAIN a.jobs[Root].options
              /\ ~a.failed => Within(theirs, a.jobs[Root].options)
    BY <2>2 DEF Has, v
  <2> HIDE DEF j, lib, mine, theirs
  <2>4. CASE j.name = Root
    <3>1. j = module[1]
      BY <2>1, <2>4, ModuleFacts
    <3>2. Within(j.options, mine)
      BY <1>3, <3>1 DEF Within, Kept, mine
    <3>3. Len(j.imports) <= 1 => DOMAIN theirs \subseteq DOMAIN mine
                                  /\ (~b.failed => Within(theirs, mine))
      BY <2>3, <2>4, <1>2 DEF Within, Kept, mine
    <3> QED
      BY <1>2, <2>3, <2>4, <3>2, <3>3 DEF Taken, j, lib, mine, theirs
  <2>5. CASE j.name # Root
    <3>1. /\ DOMAIN v.options \subseteq DOMAIN mine
          /\ ~b.failed => Within(v.options, mine)
      BY <2>3, <2>5, <1>2 DEF mine
    <3>2. DOMAIN theirs \subseteq DOMAIN mine
      BY <3>1, <2>1
    <3>3. ~b.failed => ~lib.failed /\ Within(theirs, mine) /\ Within(j.options, mine)
      <4> SUFFICES ASSUME ~b.failed
                   PROVE  ~lib.failed /\ Within(theirs, mine) /\ Within(j.options, mine)
        OBVIOUS
      <4>1. ~lib.failed /\ Within(theirs, v.options) /\ Within(v.options, mine)
        BY <1>2, <2>1, <2>3, <3>1
      <4> QED
        BY <4>1, <2>1 DEF Within, Kept
    <3> QED
      BY <1>2, <2>3, <3>2, <3>3 DEF Taken, j, lib, mine, theirs
  <2> QED
    BY <2>4, <2>5
<1>5. \A j \in Range(module) : j.name \in DOMAIN b.jobs
  BY <1>1, <1>2
<1>6. Made(b, m, module, libs)
  BY <1>2, <1>3, <1>4, <1>5 DEF Made, Sound
<1> QED
  BY <1>6 DEF b

\* This depends only on the applications that a module can import.
LEMMA MadeOfEarlier ==
    ASSUME NEW m \in Nat, NEW module, NEW a, NEW libs, Made(a, m, module, libs),
           NEW others, \A s \in 1..m - 1 : others[s] = libs[s]
    PROVE  Made(a, m, module, others)
<1>1. \A p \in Links(m, module) : others[p[2]] = libs[p[2]]
  BY DEF Links
<1>2. JobOrigin(a, m, module, others)
  <2> SUFFICES ASSUME NEW x \in DOMAIN a.jobs
      PROVE \/ \E k \in Range(module) :
                  x = k.name /\ a.jobs[x].by = m /\ Kept(k.options, a.jobs[x].options)
            \/ \E q \in Links(m, module) : \E y \in DOMAIN others[q[2]].jobs \ {Root} :
                  x = q[1].name \o y /\ a.jobs[x] = others[q[2]].jobs[y]
    BY DEF JobOrigin
  <2>1. \/ \E k \in Range(module) :
              x = k.name /\ a.jobs[x].by = m /\ Kept(k.options, a.jobs[x].options)
        \/ \E q \in Links(m, module) : \E y \in DOMAIN libs[q[2]].jobs \ {Root} :
              x = q[1].name \o y /\ a.jobs[x] = libs[q[2]].jobs[y]
    <3>1. JobOrigin(a, m, module, libs)
      BY DEF Made
    <3> QED
      BY <3>1 DEF JobOrigin
  <2>2. CASE \E q \in Links(m, module) : \E y \in DOMAIN libs[q[2]].jobs \ {Root} :
              x = q[1].name \o y /\ a.jobs[x] = libs[q[2]].jobs[y]
    <3>1. PICK q \in Links(m, module) : \E y \in DOMAIN libs[q[2]].jobs \ {Root} :
              x = q[1].name \o y /\ a.jobs[x] = libs[q[2]].jobs[y]
      BY <2>2
    <3>2. others[q[2]] = libs[q[2]]
      BY <1>1
    <3> QED
      BY <3>1, <3>2
  <2> QED
    BY <2>1, <2>2
<1>3. FuncOrigin(a, m, module, others)
  BY <1>1 DEF Made, FuncOrigin
<1>4. \A o, v : Known(o, v, m, module, libs) <=> Known(o, v, m, module, others)
  BY <1>1 DEF Known
<1>5. AllKnown(a.jobs[Root].options, m, module, others)
  BY <1>4 DEF Made, AllKnown
<1>6. Reason(a, m, module, others)
  BY <1>1, <1>4 DEF Made, Reason
<1>7. \A p \in Links(m, module) : Taken(a, p, others)
  BY <1>1 DEF Made, Taken
<1> QED
  BY <1>2, <1>3, <1>5, <1>6, <1>7 DEF Made

-------------------------------------------------------------------------------
(* All modules *)

\* The modules of a program that is well formed.
LEMMA ProgramFacts ==
    ASSUME NEW p, WellFormed(p)
    PROVE  /\ Len(p) \in Nat \ {0}
           /\ \A m \in 1..Len(p) : IsModule(m, p[m])
<1>1. Len(p) \in Nat \ {0}
  BY EmptySeq, LenProperties DEF WellFormed, IsSeq
<1>2. \A m \in 1..Len(p) : IsModule(m, p[m])
  BY Zenon DEF WellFormed, IsModule
<1> QED
  BY <1>1, <1>2

\* Appending to a sequence, whatever its elements are.
LEMMA AppendToAny ==
    ASSUME NEW s, NEW e, IsSeq(s), NEW t, t = Append(s, e)
    PROVE  /\ IsSeq(t) /\ Len(s) \in Nat /\ Len(t) = Len(s) + 1
           /\ \A i \in 1..Len(s) : t[i] = s[i]
           /\ t[Len(s) + 1] = e
<1> DEFINE S == Range(s) \cup {e}
<1>1. s \in Seq(S)
  <2>1. s \in Seq(Range(s)) /\ Range(s) \subseteq S
    BY DEF IsSeq
  <2> HIDE DEF S
  <2> QED
    BY <2>1, SeqMonotonic
<1>2. /\ t \in Seq(S) /\ Len(s) \in Nat /\ Len(t) = Len(s) + 1
      /\ \A i \in 1..Len(s) : t[i] = s[i]
      /\ t[Len(s) + 1] = e
  <2>1. e \in S
    OBVIOUS
  <2> HIDE DEF S
  <2> QED
    BY <1>1, <2>1, AppendProperties, LenProperties
<1>3. t \in Seq(Range(t))
  <2> HIDE DEF S
  <2> QED
    BY <1>2, SeqOfRange
<1> QED
  BY <1>2, <1>3 DEF IsSeq

\* What Load makes of a program, module by module.
LEMMA AppsMade ==
    ASSUME NEW p, WellFormed(p)
    PROVE  \A m \in 1..Len(p) : Made(Apps(p)[m], m, p[m], Apps(p))
<1> DEFINE n == Len(p)
<1>1. n \in Nat \ {0} /\ \A m \in 1..n : IsModule(m, p[m])
  BY ProgramFacts
<1>2. PICK f : /\ Apps(p) = f[n]
               /\ f[0] = <<>>
               /\ \A i \in 1..n : f[i] = Append(f[i - 1], NewApp(i, p[i], f[i - 1]))
  BY <1>1, AppsRecursion
<1> DEFINE Inv(i) == /\ IsSeq(f[i]) /\ Len(f[i]) = i
                     /\ \A k \in 1..i : Made(f[i][k], k, p[k], f[i])
           S == {i \in 0..n : Inv(i)}
<1>3. 0 \in S
  <2>1. IsSeq(<<>>) /\ Len(<<>>) = 0
    <3>1. <<>> \in Seq(Range(<<>>))
      BY EmptySeq
    <3> QED
      BY <3>1, EmptySeq DEF IsSeq
  <2>2. Inv(0)
    BY <1>2, <2>1
  <2> QED
    BY <1>1, <2>2
<1>4. ASSUME NEW i \in 1..n, i - 1 \in S PROVE i \in S
  <2> DEFINE old == f[i - 1]
             new == f[i]
             a == NewApp(i, p[i], old)
  <2>1. Inv(i - 1)
    BY <1>4
  <2>2. IsSeq(old) /\ Len(old) = i - 1 /\ new = Append(old, a)
    BY <1>2, <2>1
  <2> HIDE DEF old, new, a
  <2>3. /\ IsSeq(new) /\ Len(new) = i /\ new[i] = a
        /\ \A k \in 1..i - 1 : new[k] = old[k]
    <3>1. /\ IsSeq(new) /\ Len(old) \in Nat /\ Len(new) = Len(old) + 1
          /\ \A k \in 1..Len(old) : new[k] = old[k]
          /\ new[Len(old) + 1] = a
      <4>1. IsSeq(old)
        BY <2>2
      <4>2. new = Append(old, a)
        BY <2>2
      <4>3. IsSeq(new)
        BY <4>1, <4>2, AppendToAny
      <4>4. Len(old) \in Nat /\ Len(new) = Len(old) + 1
        BY <4>1, <4>2, AppendToAny
      <4>5. \A k \in 1..Len(old) : new[k] = old[k]
        BY <4>1, <4>2, AppendToAny
      <4>6. new[Len(old) + 1] = a
        BY <4>1, <4>2, AppendToAny
      <4> QED
        BY <4>3, <4>4, <4>5, <4>6
    <3>2. i \in Nat /\ Len(old) + 1 = i
      BY <1>1, <2>2
    <3> QED
      BY <2>2, <3>1, <3>2
  <2>4. ASSUME NEW k \in 1..i - 1 PROVE Made(new[k], k, p[k], new)
    <3>1. Made(old[k], k, p[k], old)
      BY <2>1 DEF old
    <3>2. \A s \in 1..k - 1 : new[s] = old[s]
      BY <2>3
    <3> QED
      BY <2>3, <3>1, <3>2, MadeOfEarlier
  <2>5. Made(new[i], i, p[i], new)
    <3>1. AreApps(i, old)
      <4> SUFFICES ASSUME NEW s \in 1..i - 1 PROVE IsApp(old[s], s)
        BY DEF AreApps
      <4>1. Made(old[s], s, p[s], old)
        BY <2>1 DEF old
      <4> QED
        BY <4>1 DEF Made
    <3>2. IsModule(i, p[i]) /\ i \in Nat
      BY <1>1
    <3>3. Made(a, i, p[i], old)
      BY <3>1, <3>2, NewAppMade DEF a
    <3> QED
      BY <2>3, <3>2, <3>3, MadeOfEarlier
  <2>6. Inv(i)
    <3>1. \A k \in 1..i : k \in 1..i - 1 \/ k = i
      OBVIOUS
    <3> QED
      BY <2>3, <2>4, <2>5, <3>1 DEF new
  <2> HIDE DEF Inv
  <2> QED
    BY <2>6
<1>5. Inv(n)
  <2> HIDE DEF S, n, Inv
  <2>1. 0..n \subseteq S
    BY <1>1, <1>3, <1>4, UpTo
  <2>2. n \in 0..n
    BY <1>1
  <2> QED
    BY <2>1, <2>2 DEF S
<1> QED
  BY <1>2, <1>5

\* Loaded is the least set with the user's module that is closed under imports.
LEMMA LoadedFacts ==
    ASSUME NEW p, WellFormed(p)
    PROVE  /\ Loaded(p) \subseteq 1..Len(p)
           /\ Len(p) \in Loaded(p)
           /\ \A m \in Loaded(p) : \A q \in Links(m, p[m]) : q[2] \in Loaded(p)
           /\ \A S \in SUBSET (1..Len(p)) :
                 /\ Len(p) \in S
                 /\ \A m \in S : \A q \in Links(m, p[m]) : q[2] \in S
                 => Loaded(p) \subseteq S
<1> DEFINE n == Len(p)
           closed(S) == /\ Len(p) \in S
                        /\ \A m \in S : \A j \in Jobs(p, m) : Range(j.imports) \subseteq S
<1>1. n \in Nat \ {0} /\ \A m \in 1..n : IsModule(m, p[m])
  BY ProgramFacts
<1>2. Loaded(p) = {m \in 1..n : \A S \in SUBSET (1..n) : closed(S) => m \in S}
  BY DEF Loaded
<1> HIDE DEF closed
<1>3. Len(p) \in Loaded(p)
  BY <1>1, <1>2 DEF closed
<1>4. ASSUME NEW m \in Loaded(p), NEW q \in Links(m, p[m]) PROVE q[2] \in Loaded(p)
  <2>1. q[1] \in Jobs(p, m) /\ q[2] \in 1..m - 1 /\ q[2] \in Range(q[1].imports)
    BY DEF Links, Jobs
  <2>2. q[2] \in 1..n
    BY <1>1, <1>2, <2>1
  <2>3. ASSUME NEW S \in SUBSET (1..n), closed(S) PROVE q[2] \in S
    <3>1. m \in S
      BY <1>2, <2>3
    <3> QED
      BY <2>1, <2>3, <3>1 DEF closed
  <2> QED
    BY <1>2, <2>2, <2>3
<1>5. ASSUME NEW S \in SUBSET (1..n), n \in S,
             \A m \in S : \A q \in Links(m, p[m]) : q[2] \in S
      PROVE  closed(S)
  <2> SUFFICES ASSUME NEW m \in S, NEW j \in Jobs(p, m), NEW s \in Range(j.imports)
               PROVE  s \in S
    BY <1>5 DEF closed
  <2>1. m \in Nat /\ IsModule(m, p[m]) /\ j \in Range(p[m])
    BY <1>1 DEF Jobs
  <2>2. /\ j.imports \in Seq(1..m - 1) /\ Len(j.imports) \in Nat
        /\ Range(j.imports) = {j.imports[k] : k \in 1..Len(j.imports)}
    <3>1. j.imports \in Seq(1..m - 1)
      BY <2>1, ModuleFacts
    <3> QED
      BY <3>1, LenProperties, RangeEquality
  <2>3. PICK k \in 1..Len(j.imports) : s = j.imports[k]
    BY <2>2
  <2>4. s \in 1..m - 1
    BY <2>2, <2>3, ElementOfSeq
  <2>5. <<j, s>> \in Links(m, p[m])
    BY <2>1, <2>4 DEF Links
  <2> QED
    BY <1>5, <2>5
<1>6. ASSUME NEW S \in SUBSET (1..n), n \in S,
             \A m \in S : \A q \in Links(m, p[m]) : q[2] \in S
      PROVE  Loaded(p) \subseteq S
  <2>1. closed(S)
    BY <1>5, <1>6
  <2> QED
    BY <1>2, <2>1
<1> QED
  BY <1>2, <1>3, <1>4, <1>6

\* What holds of a module if it holds of those it imports, holds of all loaded.
LEMMA LoadedInduction ==
    ASSUME NEW p, WellFormed(p), NEW S,
           \A m \in Loaded(p) : (\A q \in Links(m, p[m]) : q[2] \in S) => m \in S
    PROVE  Loaded(p) \subseteq S
<1> DEFINE n == Len(p)
           T == {i \in 0..n : \A k \in 1..i : k \in Loaded(p) => k \in S}
<1>1. /\ n \in Nat /\ Loaded(p) \subseteq 1..n
      /\ \A m \in Loaded(p) : \A q \in Links(m, p[m]) : q[2] \in Loaded(p)
  BY ProgramFacts, LoadedFacts
<1>2. 0 \in T
  BY <1>1
<1>3. ASSUME NEW i \in 1..n, i - 1 \in T PROVE i \in T
  <2>1. \A k \in 1..i - 1 : k \in Loaded(p) => k \in S
    BY <1>3
  <2>2. ASSUME i \in Loaded(p) PROVE i \in S
    <3>1. ASSUME NEW q \in Links(i, p[i]) PROVE q[2] \in S
      <4>1. q[2] \in 1..i - 1 /\ q[2] \in Loaded(p)
        BY <1>1, <2>2 DEF Links
      <4> QED
        BY <2>1, <4>1
    <3> QED
      BY <2>2, <3>1
  <2>3. \A k \in 1..i : k \in 1..i - 1 \/ k = i
    OBVIOUS
  <2> QED
    BY <2>1, <2>2, <2>3
<1>4. 0..n \subseteq T
  <2> HIDE DEF T, n
  <2> QED
    BY <1>1, <1>2, <1>3, UpTo
<1>5. n \in T
  <2>1. n \in 0..n
    BY <1>1
  <2> HIDE DEF T, n
  <2> QED
    BY <1>4, <2>1
<1> QED
  BY <1>1, <1>5

\* What the lemmas below know of a module that is loaded and of one it imports.
LEMMA MadeFacts ==
    ASSUME NEW p, WellFormed(p), NEW m \in 1..Len(p)
    PROVE  LET A == Apps(p) IN
           /\ m \in Nat /\ IsModule(m, p[m]) /\ Made(A[m], m, p[m], A)
           /\ AreApps(m, A)
           /\ \A q \in Links(m, p[m]) : q[2] \in 1..m - 1 /\ q[2] \in 1..Len(p)
<1>1. Len(p) \in Nat \ {0} /\ \A k \in 1..Len(p) : IsModule(k, p[k])
  BY ProgramFacts
<1> DEFINE A == Apps(p)
<1>2. \A k \in 1..Len(p) : Made(A[k], k, p[k], A)
  BY AppsMade
<1> HIDE DEF A
<1>3. AreApps(m, A)
  <2>1. \A k \in 1..m - 1 : k \in 1..Len(p)
    BY <1>1
  <2> QED
    BY <1>2, <2>1 DEF AreApps, Made
<1>4. \A q \in Links(m, p[m]) : q[2] \in 1..m - 1 /\ q[2] \in 1..Len(p)
  BY <1>1 DEF Links
<1>5. m \in Nat /\ IsModule(m, p[m])
  BY <1>1
<1> QED
  BY <1>2, <1>3, <1>4, <1>5 DEF A

\* No global option of a file that declares a job is lost.
LEMMA ModuleOptionsKept ==
    ASSUME NEW p, WellFormed(p), ~LosesGlobals(p), NEW m \in Loaded(p),
           NEW x \in DOMAIN Apps(p)[m].jobs
    PROVE  DOMAIN RootOptions(p, Apps(p)[m].jobs[x].by)
              \subseteq DOMAIN Apps(p)[m].jobs[Root].options
<1> DEFINE A == Apps(p)
           P(k) == \A y \in DOMAIN A[k].jobs :
                      DOMAIN RootOptions(p, A[k].jobs[y].by)
                          \subseteq DOMAIN A[k].jobs[Root].options
           S == {k \in Loaded(p) : P(k)}
<1>1. ASSUME NEW k \in Loaded(p), \A q \in Links(k, p[k]) : q[2] \in S PROVE k \in S
  <2> DEFINE a == A[k]
  <2>1. /\ k \in Nat /\ IsModule(k, p[k]) /\ Made(a, k, p[k], A)
    BY LoadedFacts, MadeFacts
  <2>2. Len(p[k][1].imports) \in Nat /\ ~(Len(p[k][1].imports) > 1)
    <3>1. p[k][1] \in Range(p[k]) /\ Len(p[k][1].imports) \in Nat
      BY <2>1, ModuleFacts
    <3> QED
      BY <3>1 DEF LosesGlobals
  <2> SUFFICES ASSUME NEW y \in DOMAIN a.jobs
               PROVE  DOMAIN RootOptions(p, a.jobs[y].by) \subseteq DOMAIN a.jobs[Root].options
    OBVIOUS
  <2>3. \/ a.jobs[y].by = k
        \/ \E q \in Links(k, p[k]) : \E z \in DOMAIN A[q[2]].jobs \ {Root} :
              a.jobs[y] = A[q[2]].jobs[z]
    <3>1. JobOrigin(a, k, p[k], A)
      BY <2>1 DEF Made
    <3> HIDE DEF a, A
    <3> QED
      BY <3>1 DEF JobOrigin
  <2>4. CASE a.jobs[y].by = k
    <3>1. Kept(p[k][1].options, a.jobs[Root].options)
      BY <2>1 DEF Made
    <3> HIDE DEF a
    <3> QED
      BY <2>4, <3>1 DEF Kept, RootOptions
  <2>5. CASE \E q \in Links(k, p[k]) : \E z \in DOMAIN A[q[2]].jobs \ {Root} :
                 a.jobs[y] = A[q[2]].jobs[z]
    <3>1. PICK q \in Links(k, p[k]) : \E z \in DOMAIN A[q[2]].jobs \ {Root} :
                 a.jobs[y] = A[q[2]].jobs[z]
      BY <2>5
    <3>2. PICK z \in DOMAIN A[q[2]].jobs \ {Root} : a.jobs[y] = A[q[2]].jobs[z]
      BY <3>1
    <3>3. q[2] \in S
      BY <1>1
    <3>4. DOMAIN RootOptions(p, A[q[2]].jobs[z].by) \subseteq DOMAIN A[q[2]].jobs[Root].options
      BY <3>3
    <3>5. q[1].name = Root => Len(q[1].imports) <= 1
      <4>1. q[1] \in Range(p[k])
        BY DEF Links
      <4> QED
        BY <2>1, <2>2, <4>1, ModuleFacts
    <3>6. Taken(a, q, A)
      BY <2>1 DEF Made
    <3>7. DOMAIN A[q[2]].jobs[Root].options \subseteq DOMAIN a.jobs[Root].options
      <4> HIDE DEF a, A
      <4> QED
        BY <3>5, <3>6 DEF Taken
    <3> HIDE DEF a, A
    <3> QED
      BY <3>2, <3>4, <3>7
  <2> QED
    BY <2>3, <2>4, <2>5
<1>2. Loaded(p) \subseteq S
  <2> HIDE DEF S
  <2> QED
    BY <1>1, LoadedInduction
<1> QED
  BY <1>2

-------------------------------------------------------------------------------
(* When loading fails *)

\* An option is in one of the lists that become global.
Listed(o, v, p) == \E a \in GlobalOptionLists(p) : o \in DOMAIN a /\ v = a[o]

\* Which lists these are.
LEMMA ListFacts ==
    ASSUME NEW p
    PROVE  /\ \A m \in Loaded(p) : \A j \in Range(p[m]) :
                 j.name = Root \/ j.imports # <<>> => j.options \in GlobalOptionLists(p)
           /\ \A a \in GlobalOptionLists(p) : \E m \in Loaded(p) : \E j \in Range(p[m]) :
                 (j.name = Root \/ j.imports # <<>>) /\ a = j.options
BY DEF GlobalOptionLists, Jobs

\* What comes from an import is listed if the globals of libraries are.
LEMMA KnownListed ==
    ASSUME NEW p, WellFormed(p), NEW m \in Loaded(p),
           \A q \in Links(m, p[m]) :
              \A o \in DOMAIN Apps(p)[q[2]].jobs[Root].options :
                 Listed(o, Apps(p)[q[2]].jobs[Root].options[o], p),
           NEW o, NEW v, Known(o, v, m, p[m], Apps(p))
    PROVE  Listed(o, v, p)
<1> DEFINE A == Apps(p)
<1>1. CASE \E j \in Range(p[m]) :
              /\ j.name = Root \/ j.imports # <<>>
              /\ o \in DOMAIN j.options /\ v = j.options[o]
  BY <1>1, ListFacts DEF Listed
<1>2. CASE \E q \in Links(m, p[m]) :
              o \in DOMAIN A[q[2]].jobs[Root].options /\ v = A[q[2]].jobs[Root].options[o]
  BY <1>2
<1>3. \/ \E j \in Range(p[m]) :
            /\ j.name = Root \/ j.imports # <<>>
            /\ o \in DOMAIN j.options /\ v = j.options[o]
      \/ \E q \in Links(m, p[m]) :
            o \in DOMAIN A[q[2]].jobs[Root].options /\ v = A[q[2]].jobs[Root].options[o]
  BY DEF Known
<1> QED
  BY <1>1, <1>2, <1>3

\* The globals of a loaded module are those the files declare.
LEMMA GlobalsListed ==
    ASSUME NEW p, WellFormed(p), NEW m \in Loaded(p),
           NEW o \in DOMAIN Apps(p)[m].jobs[Root].options
    PROVE  Listed(o, Apps(p)[m].jobs[Root].options[o], p)
<1> DEFINE A == Apps(p)
           P(k) == \A x \in DOMAIN A[k].jobs[Root].options :
                      Listed(x, A[k].jobs[Root].options[x], p)
           S == {k \in Loaded(p) : P(k)}
<1>1. ASSUME NEW k \in Loaded(p), \A q \in Links(k, p[k]) : q[2] \in S PROVE k \in S
  <2> SUFFICES ASSUME NEW x \in DOMAIN A[k].jobs[Root].options
               PROVE  Listed(x, A[k].jobs[Root].options[x], p)
    OBVIOUS
  <2>1. Made(A[k], k, p[k], A)
    BY LoadedFacts, MadeFacts
  <2>2. Known(x, A[k].jobs[Root].options[x], k, p[k], A)
    <3>1. AllKnown(A[k].jobs[Root].options, k, p[k], A)
      BY <2>1 DEF Made
    <3> HIDE DEF A
    <3> QED
      BY <3>1 DEF AllKnown
  <2>3. \A q \in Links(k, p[k]) : P(q[2])
    BY <1>1
  <2> QED
    BY <2>2, <2>3, KnownListed
<1>2. Loaded(p) \subseteq S
  <2> HIDE DEF S
  <2> QED
    BY <1>1, LoadedInduction
<1> QED
  BY <1>2

\* Two files disagree on the type of a global option.
Disagreement(p) ==
    \E a, b \in GlobalOptionLists(p) :
        \E o \in DOMAIN a \cap DOMAIN b : a[o].type # b[o].type

\* Loading fails only if two files disagree.
LEMMA FailedDisagrees ==
    ASSUME NEW p, WellFormed(p), NEW m \in Loaded(p), Apps(p)[m].failed
    PROVE  Disagreement(p)
<1> DEFINE A == Apps(p)
           S == {k \in Loaded(p) : A[k].failed => Disagreement(p)}
<1>1. ASSUME NEW k \in Loaded(p), \A q \in Links(k, p[k]) : q[2] \in S PROVE k \in S
  <2> SUFFICES ASSUME A[k].failed PROVE Disagreement(p)
    OBVIOUS
  <2>1. Made(A[k], k, p[k], A)
    BY LoadedFacts, MadeFacts
  <2>2. \/ \E q \in Links(k, p[k]) : A[q[2]].failed
        \/ \E o, v, w : /\ Known(o, v, k, p[k], A) /\ Known(o, w, k, p[k], A)
                        /\ v.type # w.type
    <3>1. Reason(A[k], k, p[k], A)
      BY <2>1 DEF Made
    <3> HIDE DEF A
    <3> QED
      BY <2>1, <3>1 DEF Reason
  <2>3. CASE \E q \in Links(k, p[k]) : A[q[2]].failed
    BY <1>1, <2>3
  <2>4. CASE \E o, v, w : /\ Known(o, v, k, p[k], A) /\ Known(o, w, k, p[k], A)
                          /\ v.type # w.type
    <3>1. PICK o, v, w : /\ Known(o, v, k, p[k], A) /\ Known(o, w, k, p[k], A)
                         /\ v.type # w.type
      BY <2>4
    <3>2. \A q \in Links(k, p[k]) : \A x \in DOMAIN A[q[2]].jobs[Root].options :
              Listed(x, A[q[2]].jobs[Root].options[x], p)
      BY LoadedFacts, GlobalsListed
    <3>3. Listed(o, v, p) /\ Listed(o, w, p)
      BY <3>1, <3>2, KnownListed
    <3> QED
      BY <3>1, <3>3 DEF Listed, Disagreement
  <2> QED
    BY <2>2, <2>3, <2>4
<1>2. Loaded(p) \subseteq S
  <2> HIDE DEF S
  <2> QED
    BY <1>1, LoadedInduction
<1> QED
  BY <1>2

\* ... and always if they do, unless globals are lost.
LEMMA DisagreementFails ==
    ASSUME NEW p, WellFormed(p), ~LosesGlobals(p), Disagreement(p)
    PROVE  Load(p).failed
<1> SUFFICES ASSUME ~Load(p).failed PROVE FALSE
  OBVIOUS
<1> DEFINE A == Apps(p)
           n == Len(p)
           all == A[n].jobs[Root].options
           S == {k \in Loaded(p) : ~A[k].failed /\ Within(A[k].jobs[Root].options, all)}
<1>1. n \in S
  <2>1. n \in Loaded(p) /\ ~A[n].failed
    BY LoadedFacts DEF Load
  <2>2. Within(all, all)
    BY DEF Within
  <2> QED
    BY <2>1, <2>2
\* A library that is taken is within the user's globals, and so is its importer.
<1>2. ASSUME NEW m \in S, NEW q \in Links(m, p[m])
      PROVE  q[2] \in S /\ Within(q[1].options, all)
  <2> DEFINE a == A[m]
             mine == a.jobs[Root].options
             theirs == A[q[2]].jobs[Root].options
  <2>1. /\ m \in Nat /\ IsModule(m, p[m]) /\ Made(a, m, p[m], A)
    BY LoadedFacts, MadeFacts
  <2>2. q[1].name = Root => Len(q[1].imports) <= 1
    <3>1. Len(p[m][1].imports) \in Nat /\ ~(Len(p[m][1].imports) > 1)
      <4>1. p[m][1] \in Range(p[m]) /\ Len(p[m][1].imports) \in Nat
        BY <2>1, ModuleFacts
      <4> QED
        BY <4>1 DEF LosesGlobals
    <3>2. q[1] \in Range(p[m])
      BY DEF Links
    <3> QED
      BY <2>1, <3>1, <3>2, ModuleFacts
  <2>3. ~a.failed /\ Within(mine, all)
    OBVIOUS
  <2>4. Taken(a, q, A)
    BY <2>1 DEF Made
  <2>5. q[2] \in Loaded(p)
    BY LoadedFacts
  <2>6. ~A[q[2]].failed /\ Within(q[1].options, mine) /\ Within(theirs, mine)
    <3> HIDE DEF A, a
    <3> QED
      BY <2>2, <2>3, <2>4 DEF Taken
  <2>7. Within(q[1].options, all) /\ Within(theirs, all)
    <3> HIDE DEF mine, theirs, all
    <3> QED
      BY <2>3, <2>6 DEF Within
  <2> QED
    BY <2>5, <2>6, <2>7
<1>3. Loaded(p) \subseteq S
  <2>1. S \in SUBSET (1..n)
    BY LoadedFacts
  <2> HIDE DEF S
  <2> QED
    BY <1>1, <1>2, <2>1, LoadedFacts
<1>4. ASSUME NEW a \in GlobalOptionLists(p) PROVE Within(a, all)
  <2>1. PICK m \in Loaded(p) : \E j \in Range(p[m]) :
           (j.name = Root \/ j.imports # <<>>) /\ a = j.options
    BY ListFacts
  <2>2. PICK j \in Range(p[m]) : (j.name = Root \/ j.imports # <<>>) /\ a = j.options
    BY <2>1
  <2>3. m \in S
    BY <1>3
  <2>4. /\ m \in Nat /\ IsModule(m, p[m]) /\ Made(A[m], m, p[m], A)
    BY LoadedFacts, MadeFacts
  <2>5. CASE j.name = Root
    <3>1. j = p[m][1]
      BY <2>4, <2>5, ModuleFacts
    <3>2. Kept(j.options, A[m].jobs[Root].options)
      BY <2>4, <3>1 DEF Made
    <3>3. Within(A[m].jobs[Root].options, all)
      BY <2>3
    <3> HIDE DEF A, all
    <3> QED
      BY <2>2, <3>2, <3>3 DEF Within, Kept
  <2>6. CASE j.imports # <<>>
    <3>1. j.imports \in Seq(1..m - 1)
      BY <2>4, ModuleFacts
    <3>2. Len(j.imports) \in Nat \ {0} /\ j.imports[1] \in 1..m - 1
          /\ j.imports[1] \in Range(j.imports)
      <4>1. Len(j.imports) \in Nat \ {0}
        BY <2>6, <3>1, LenProperties, EmptySeq
      <4>2. 1 \in 1..Len(j.imports)
        BY <4>1
      <4>3. j.imports[1] \in 1..m - 1
        BY <3>1, <4>2, ElementOfSeq
      <4>4. Range(j.imports) = {j.imports[k] : k \in 1..Len(j.imports)}
        BY <3>1, RangeEquality
      <4> QED
        BY <4>1, <4>2, <4>3, <4>4
    <3>3. <<j, j.imports[1]>> \in Links(m, p[m])
      BY <3>2 DEF Links
    <3>4. Within(<<j, j.imports[1]>>[1].options, all)
      <4> HIDE DEF S, all
      <4> QED
        BY <1>2, <2>3, <3>3
    <3> QED
      BY <2>2, <3>4
  <2> QED
    BY <2>2, <2>5, <2>6
<1>5. PICK a, b \in GlobalOptionLists(p) :
         \E o \in DOMAIN a \cap DOMAIN b : a[o].type # b[o].type
  BY DEF Disagreement
<1>6. PICK o \in DOMAIN a \cap DOMAIN b : a[o].type # b[o].type
  BY <1>5
<1>7. Within(a, all) /\ Within(b, all)
  BY <1>4
<1> HIDE DEF all
<1> QED
  BY <1>6, <1>7 DEF Within

-------------------------------------------------------------------------------
(* What can be called *)

\* A job of module `by' has a suffix of the name, and its options are kept.
DeclaredIn(by, x, options, p) ==
    \E j \in Range(p[by]), z \in Seq(STRING) :
        j.name \in Seq(STRING) /\ x = z \o j.name /\ Kept(j.options, options)

\* What is called x at module m is declared, and nothing else is.
Callable(D, m, a, p) ==
    /\ \A d \in D :
          /\ d.name \in DOMAIN a.jobs
          /\ d.via \in Seq(Nat)
          /\ d.via = <<>> => d.by = m
          /\ d.via # <<>> => d.name # Root /\ d.name \in DOMAIN a.funcs
          /\ Len(d.via) = 1 => d.by = d.via[1]
    /\ \A x \in DOMAIN a.jobs : \E d \in D :
          d.name = x /\ d.by = a.jobs[x].by /\ DeclaredIn(d.by, x, a.jobs[x].options, p)
    /\ \A x \in DOMAIN a.funcs :
          \/ \E j \in Range(p[m]) : j.name = x /\ j.imports # <<>>
          \/ \E d \in D : d.name = x /\ d.via # <<>> /\ d.via[1] = a.funcs[x]

\* The entries of DeclaredBy: a job of the module, and one of a library.
Own(j, m) == [name |-> j.name, by |-> m, via |-> <<>>]
Under(q, d) == [name |-> q[1].name \o d.name, by |-> d.by, via |-> <<q[2]>> \o d.via]

\* What DeclaredBy consists of.
LEMMA DeclaredByFacts ==
    ASSUME NEW p, NEW m \in Nat, IsModule(m, p[m]), NEW names
    PROVE  /\ \A j \in Range(p[m]) : Own(j, m) \in DeclaredBy(p, m, names)
           /\ \A q \in Links(m, p[m]) : \A d \in names[q[2]] :
                 d.name # Root => Under(q, d) \in DeclaredBy(p, m, names)
           /\ \A e \in DeclaredBy(p, m, names) :
                 \/ \E j \in Range(p[m]) : e = Own(j, m)
                 \/ \E q \in Links(m, p[m]) : \E d \in names[q[2]] :
                       d.name # Root /\ e = Under(q, d)
<1> DEFINE D == DeclaredBy(p, m, names)
           under(j, s) == {[name |-> j.name \o d.name, by |-> d.by, via |-> <<s>> \o d.via] :
                              d \in {e \in names[s] : e.name # Root}}
<1>1. D = {Own(j, m) : j \in Range(p[m])} \cup
          UNION {UNION {under(j, s) : s \in Range(j.imports)} : j \in Range(p[m])}
  BY DEF DeclaredBy, Jobs, Own
<1>2. \A j \in Range(p[m]) : Own(j, m) \in D
  <2> HIDE DEF D
  <2> QED
    BY <1>1
<1>3. ASSUME NEW q \in Links(m, p[m]), NEW d \in names[q[2]], d.name # Root
      PROVE  Under(q, d) \in D
  <2>1. q[1] \in Range(p[m]) /\ q[2] \in Range(q[1].imports)
    BY DEF Links
  <2>2. Under(q, d) \in under(q[1], q[2])
    BY <1>3 DEF Under
  <2> HIDE DEF D, under
  <2> QED
    BY <1>1, <2>1, <2>2
<1>4. ASSUME NEW e \in D
      PROVE  \/ \E j \in Range(p[m]) : e = Own(j, m)
             \/ \E q \in Links(m, p[m]) : \E d \in names[q[2]] :
                   d.name # Root /\ e = Under(q, d)
  <2>1. CASE \E j \in Range(p[m]) : e = Own(j, m)
    BY <2>1
  <2>2. CASE \E j \in Range(p[m]) : \E s \in Range(j.imports) : e \in under(j, s)
    <3>1. PICK j \in Range(p[m]) : \E s \in Range(j.imports) : e \in under(j, s)
      BY <2>2
    <3>2. PICK s \in Range(j.imports) : e \in under(j, s)
      BY <3>1
    <3>3. PICK d \in names[s] : d.name # Root /\ e = Under(<<j, s>>, d)
      BY <3>2 DEF Under
    <3>4. s \in 1..m - 1
      <4>1. j.imports \in Seq(1..m - 1)
        BY ModuleFacts
      <4>2. Range(j.imports) = {j.imports[k] : k \in 1..Len(j.imports)}
        BY <4>1, RangeEquality
      <4>3. PICK k \in 1..Len(j.imports) : s = j.imports[k]
        BY <4>2
      <4> QED
        BY <4>1, <4>3, ElementOfSeq
    <3>5. <<j, s>> \in Links(m, p[m]) /\ <<j, s>>[2] = s
      BY <3>4 DEF Links
    <3> QED
      BY <3>3, <3>5
  <2> HIDE DEF D, under
  <2> QED
    BY <1>1, <2>1, <2>2
<1> QED
  BY <1>2, <1>3, <1>4

\* What follows a prefix.
LEMMA Suffix ==
    ASSUME NEW z \in Seq(STRING), NEW t \in Seq(STRING), NEW x, x = z \o t
    PROVE  Len(z) \in 0..Len(x) /\ SubSeq(x, Len(z) + 1, Len(x)) = t
<1>1. x \in Seq(STRING) /\ Len(z) \in Nat /\ Len(t) \in Nat /\ Len(x) = Len(z) + Len(t)
  BY ConcatProperties, LenProperties
<1>2. CASE t = <<>>
  <2>1. Len(t) = 0
    BY <1>2, EmptySeq
  <2>2. SubSeq(x, Len(z) + 1, Len(x)) = <<>>
    BY <1>1, <2>1, SubSeqEmpty
  <2> QED
    BY <1>1, <1>2, <2>2
<1>3. CASE t # <<>>
  <2>1. Len(t) # 0
    BY <1>3, EmptySeq
  <2>2. Len(z) + 1 \in Len(z)+1..Len(z)+Len(t) /\ Len(x) \in Len(z)+1..Len(z)+Len(t)
    BY <1>1, <2>1
  <2>3. SubSeq(x, Len(z) + 1, Len(x)) = SubSeq(t, (Len(z) + 1) - Len(z), Len(x) - Len(z))
    BY <2>2, SubSeqOfConcat2
  <2>4. (Len(z) + 1) - Len(z) = 1 /\ Len(x) - Len(z) = Len(t)
    BY <1>1
  <2>5. SubSeq(t, 1, Len(t)) = t
    BY SubSeqFull
  <2> QED
    BY <1>1, <2>3, <2>4, <2>5
<1> QED
  BY <1>2, <1>3

\* A library before the libraries it imports.
LEMMA Via ==
    ASSUME NEW s \in Nat, NEW t \in Seq(Nat), NEW v, v = <<s>> \o t
    PROVE  v \in Seq(Nat) /\ v # <<>> /\ v[1] = s /\ (Len(v) = 1 => t = <<>>)
<1>1. <<s>> \in Seq(Nat) /\ Len(<<s>>) = 1 /\ <<s>>[1] = s
  OBVIOUS
<1>2. Len(t) \in Nat /\ (Len(t) = 0 => t = <<>>)
  BY EmptySeq, LenProperties
<1>3. v \in Seq(Nat) /\ Len(v) = 1 + Len(t)
  BY <1>1, ConcatProperties
<1>4. v[1] = s
  <2>1. \A i \in 1..Len(<<s>>) + Len(t) :
           v[i] = IF i <= Len(<<s>>) THEN <<s>>[i] ELSE t[i - Len(<<s>>)]
    BY <1>1, ConcatProperties
  <2>2. 1 \in 1..Len(<<s>>) + Len(t) /\ 1 <= Len(<<s>>)
    BY <1>1, <1>2
  <2> QED
    BY <1>1, <2>1, <2>2
<1> QED
  BY <1>2, <1>3, <1>4, EmptySeq

\* One module, given those it imports.
LEMMA CallableStep ==
    ASSUME NEW p, WellFormed(p), NEW m \in 1..Len(p), NEW names,
           \A s \in 1..m - 1 : Callable(names[s], s, Apps(p)[s], p)
    PROVE  Callable(DeclaredBy(p, m, names), m, Apps(p)[m], p)
<1> DEFINE A == Apps(p)
           a == A[m]
           D == DeclaredBy(p, m, names)
<1>1. /\ m \in Nat /\ IsModule(m, p[m]) /\ Made(a, m, p[m], A)
      /\ AreApps(m, A)
      /\ \A q \in Links(m, p[m]) : q[2] \in 1..m - 1
  BY MadeFacts
<1>2. /\ \A j \in Range(p[m]) : Own(j, m) \in D
      /\ \A q \in Links(m, p[m]) : \A d \in names[q[2]] : d.name # Root => Under(q, d) \in D
      /\ \A e \in D :
            \/ \E j \in Range(p[m]) : e = Own(j, m)
            \/ \E q \in Links(m, p[m]) : \E d \in names[q[2]] :
                  d.name # Root /\ e = Under(q, d)
  BY <1>1, DeclaredByFacts
<1> HIDE DEF D
<1>3. ASSUME NEW q \in Links(m, p[m])
      PROVE  /\ q[1] \in Range(p[m]) /\ q[1].name \in Seq(STRING) /\ q[2] \in Nat
             /\ q[1].imports # <<>>
             /\ IsApp(A[q[2]], q[2])
             /\ Callable(names[q[2]], q[2], A[q[2]], p)
             /\ Taken(a, q, A)
  <2>1. q[1] \in Range(p[m])
    BY DEF Links
  <2>2. q[1].name \in Seq(STRING) /\ IsApp(A[q[2]], q[2]) /\ q[1].imports # <<>>
    <3> HIDE DEF A, a
    <3>1. q[1].name \in Seq(STRING)
      BY <1>1, GlobalFacts
    <3>2. IsApp(A[q[2]], q[2])
      BY <1>1 DEF AreApps
    <3>3. q[1].imports # <<>>
      <4>1. q[1].imports \in Seq(1..m - 1) /\ q[2] \in Range(q[1].imports)
        BY <1>1, <2>1, ModuleFacts DEF Links
      <4>2. \E k \in 1..Len(q[1].imports) : q[2] = q[1].imports[k]
        BY <4>1, RangeEquality
      <4> QED
        BY <4>2, EmptySeq
    <3> QED
      BY <3>1, <3>2, <3>3
  <2>3. Taken(a, q, A)
    BY <1>1 DEF Made
  <2>4. q[2] \in 1..m - 1
    BY <1>1
  <2> QED
    BY <2>1, <2>2, <2>3, <2>4
\* What is declared can be called.
<1>4. ASSUME NEW e \in D
      PROVE  /\ e.name \in DOMAIN a.jobs
             /\ e.via \in Seq(Nat)
             /\ e.via = <<>> => e.by = m
             /\ e.via # <<>> => e.name # Root /\ e.name \in DOMAIN a.funcs
             /\ Len(e.via) = 1 => e.by = e.via[1]
  <2>1. CASE \E j \in Range(p[m]) : e = Own(j, m)
    <3>1. PICK j \in Range(p[m]) : e = Own(j, m)
      BY <2>1
    <3>2. e.name = j.name /\ e.by = m /\ e.via = <<>>
      BY <3>1 DEF Own
    <3>3. j.name \in DOMAIN a.jobs
      <4> HIDE DEF a, A
      <4> QED
        BY <1>1 DEF Made
    <3>4. <<>> \in Seq(Nat) /\ Len(<<>>) # 1
      OBVIOUS
    <3> HIDE DEF a
    <3> QED
      BY <3>2, <3>3, <3>4
  <2>2. CASE \E q \in Links(m, p[m]) : \E d \in names[q[2]] : d.name # Root /\ e = Under(q, d)
    <3>1. PICK q \in Links(m, p[m]) : \E d \in names[q[2]] : d.name # Root /\ e = Under(q, d)
      BY <2>2
    <3>2. PICK d \in names[q[2]] : d.name # Root /\ e = Under(q, d)
      BY <3>1
    <3> DEFINE lib == A[q[2]]
    <3>3. /\ d.name \in DOMAIN lib.jobs
          /\ d.via \in Seq(Nat)
          /\ d.via = <<>> => d.by = q[2]
      BY <1>3 DEF Callable
    <3>4. e.name = q[1].name \o d.name /\ e.by = d.by /\ e.via = <<q[2]>> \o d.via
      BY <3>2 DEF Under
    <3>5. e.name # Root
      <4>1. q[1].name \o d.name # Root
        BY <1>1, <3>2, <3>3, OnlyRoot
      <4> QED
        BY <3>4, <4>1
    <3>6. /\ e.via \in Seq(Nat) /\ e.via # <<>> /\ e.via[1] = q[2]
          /\ Len(e.via) = 1 => d.via = <<>>
      <4>1. q[2] \in Nat
        BY <1>3
      <4> QED
        BY <3>3, <3>4, <4>1, Via
    <3>7. e.name \in DOMAIN a.jobs /\ e.name \in DOMAIN a.funcs
      <4>1. Taken(a, q, A)
        BY <1>3
      <4> HIDE DEF a
      <4>2. \A y \in DOMAIN lib.jobs :
               q[1].name \o y \in DOMAIN a.jobs /\ q[1].name \o y \in DOMAIN a.funcs
        BY <4>1 DEF Taken
      <4> HIDE DEF lib
      <4> QED
        BY <3>3, <3>4, <4>2
    <3> HIDE DEF a, lib
    <3> QED
      BY <3>3, <3>4, <3>5, <3>6, <3>7
  <2> QED
    BY <1>2, <2>1, <2>2
\* A job of an imported application is declared there.
<1>5. ASSUME NEW q \in Links(m, p[m]), NEW y \in DOMAIN A[q[2]].jobs, y # Root
      PROVE  \E e \in D :
                /\ e.name = q[1].name \o y /\ e.by = A[q[2]].jobs[y].by
                /\ e.via # <<>> /\ e.via[1] = q[2]
                /\ DeclaredIn(e.by, q[1].name \o y, A[q[2]].jobs[y].options, p)
  <2> DEFINE lib == A[q[2]]
             x == q[1].name \o y
  <2>1. /\ Callable(names[q[2]], q[2], lib, p) /\ q[1].name \in Seq(STRING) /\ q[2] \in Nat
        /\ y \in DOMAIN lib.jobs
    BY <1>3, <1>5
  <2> HIDE DEF lib
  <2>2. PICK d \in names[q[2]] :
           d.name = y /\ d.by = lib.jobs[y].by /\ DeclaredIn(d.by, y, lib.jobs[y].options, p)
    BY <2>1 DEF Callable
  <2>3. d.via \in Seq(Nat)
    BY <2>1 DEF Callable
  <2> DEFINE e == Under(q, d)
  <2>4. e \in D
    BY <1>2, <1>5, <2>2
  <2>5. e.name = x /\ e.by = d.by /\ e.via = <<q[2]>> \o d.via
    BY <2>2 DEF Under
  <2> HIDE DEF e
  <2>6. e.via # <<>> /\ e.via[1] = q[2]
    BY <2>1, <2>3, <2>5, Via
  <2>7. DeclaredIn(d.by, x, lib.jobs[y].options, p)
    <3>1. PICK j \in Range(p[d.by]), z \in Seq(STRING) :
             j.name \in Seq(STRING) /\ y = z \o j.name /\ Kept(j.options, lib.jobs[y].options)
      BY <2>2 DEF DeclaredIn
    <3>2. (q[1].name \o z) \o j.name = x /\ q[1].name \o z \in Seq(STRING)
      <4>1. q[1].name \in Seq(STRING) /\ j.name \in Seq(STRING) /\ y = z \o j.name
        BY <2>1, <3>1
      <4>2. (q[1].name \o z) \o j.name = q[1].name \o (z \o j.name)
        <5>1. \A s, t, u \in Seq(STRING) : (s \o t) \o u = s \o (t \o u)
          BY ConcatAssociative
        <5> HIDE DEF x
        <5> QED
          BY <4>1, <5>1
      <4>3. q[1].name \o z \in Seq(STRING)
        BY <4>1, ConcatProperties
      <4> QED
        BY <4>1, <4>2, <4>3
    <3> HIDE DEF x
    <3> QED
      BY <3>1, <3>2 DEF DeclaredIn
  <2> QED
    BY <2>2, <2>4, <2>5, <2>6, <2>7 DEF lib
\* What can be called is declared.
<1>6. ASSUME NEW x \in DOMAIN a.jobs
      PROVE  \E e \in D :
                e.name = x /\ e.by = a.jobs[x].by /\ DeclaredIn(e.by, x, a.jobs[x].options, p)
  <2>1. \/ \E j \in Range(p[m]) :
              x = j.name /\ a.jobs[x].by = m /\ Kept(j.options, a.jobs[x].options)
        \/ \E q \in Links(m, p[m]) : \E y \in DOMAIN A[q[2]].jobs \ {Root} :
              x = q[1].name \o y /\ a.jobs[x] = A[q[2]].jobs[y]
    <3>1. JobOrigin(a, m, p[m], A)
      BY <1>1 DEF Made
    <3> HIDE DEF a, A
    <3> QED
      BY <3>1 DEF JobOrigin
  <2>2. CASE \E j \in Range(p[m]) :
                x = j.name /\ a.jobs[x].by = m /\ Kept(j.options, a.jobs[x].options)
    <3>1. PICK j \in Range(p[m]) :
             x = j.name /\ a.jobs[x].by = m /\ Kept(j.options, a.jobs[x].options)
      BY <2>2
    <3>2. Own(j, m) \in D /\ Own(j, m).name = x /\ Own(j, m).by = m
      BY <1>2, <3>1 DEF Own
    <3>3. j.name \in Seq(STRING)
      BY <1>1, ModuleFacts
    <3>4. <<>> \in Seq(STRING) /\ x = <<>> \o j.name
      BY <3>1, <3>3, ConcatEmptySeq
    <3>5. DeclaredIn(m, x, a.jobs[x].options, p)
      <4> HIDE DEF a
      <4> QED
        BY <3>1, <3>3, <3>4 DEF DeclaredIn
    <3> HIDE DEF a
    <3> QED
      BY <3>1, <3>2, <3>5
  <2>3. CASE \E q \in Links(m, p[m]) : \E y \in DOMAIN A[q[2]].jobs \ {Root} :
                x = q[1].name \o y /\ a.jobs[x] = A[q[2]].jobs[y]
    <3>1. PICK q \in Links(m, p[m]) : \E y \in DOMAIN A[q[2]].jobs \ {Root} :
                x = q[1].name \o y /\ a.jobs[x] = A[q[2]].jobs[y]
      BY <2>3
    <3>2. PICK y \in DOMAIN A[q[2]].jobs \ {Root} :
                x = q[1].name \o y /\ a.jobs[x] = A[q[2]].jobs[y]
      BY <3>1
    <3>3. PICK e \in D :
             /\ e.name = q[1].name \o y /\ e.by = A[q[2]].jobs[y].by
             /\ DeclaredIn(e.by, q[1].name \o y, A[q[2]].jobs[y].options, p)
      BY <1>5, <3>2
    <3> HIDE DEF a, A
    <3> QED
      BY <3>2, <3>3
  <2> QED
    BY <2>1, <2>2, <2>3
\* The functions of a job are those of the library it is imported from.
<1>7. ASSUME NEW x \in DOMAIN a.funcs
      PROVE  \/ \E j \in Range(p[m]) : j.name = x /\ j.imports # <<>>
             \/ \E e \in D : e.name = x /\ e.via # <<>> /\ e.via[1] = a.funcs[x]
  <2>1. \E q \in Links(m, p[m]) : \E y \in DOMAIN A[q[2]].jobs :
           x = q[1].name \o y /\ a.funcs[x] = q[2]
    <3>1. FuncOrigin(a, m, p[m], A)
      BY <1>1 DEF Made
    <3> HIDE DEF a, A
    <3> QED
      BY <3>1 DEF FuncOrigin
  <2>2. PICK q \in Links(m, p[m]) : \E y \in DOMAIN A[q[2]].jobs :
           x = q[1].name \o y /\ a.funcs[x] = q[2]
    BY <2>1
  <2>3. PICK y \in DOMAIN A[q[2]].jobs : x = q[1].name \o y /\ a.funcs[x] = q[2]
    BY <2>2
  <2>4. CASE y = Root
    <3>1. x = q[1].name
      BY <1>3, <2>3, <2>4, ConcatEmptySeq DEF Root
    <3> QED
      BY <1>3, <3>1
  <2>5. CASE y # Root
    <3>1. PICK e \in D : e.name = q[1].name \o y /\ e.via # <<>> /\ e.via[1] = q[2]
      BY <1>5, <2>5
    <3> HIDE DEF a, A
    <3> QED
      BY <2>3, <3>1
  <2> QED
    BY <2>4, <2>5
<1> HIDE DEF a, A
<1>8. Callable(D, m, a, p)
  BY <1>4, <1>6, <1>7 DEF Callable
<1> QED
  BY <1>8 DEF D, a, A

\* All modules, in their order.
LEMMA DeclaredCallable ==
    ASSUME NEW p, WellFormed(p)
    PROVE  Callable(Declared(p), Len(p), Load(p), p)
<1> DEFINE n == Len(p)
           A == Apps(p)
<1>1. n \in Nat \ {0}
  BY ProgramFacts
<1>2. PICK f : /\ Declared(p) = f[n][n]
               /\ f[0] = <<>>
               /\ \A i \in 1..n : f[i] = Append(f[i - 1], DeclaredBy(p, i, f[i - 1]))
  BY <1>1, DeclaredRecursion
<1> DEFINE Inv(i) == /\ IsSeq(f[i]) /\ Len(f[i]) = i
                     /\ \A k \in 1..i : Callable(f[i][k], k, A[k], p)
           S == {i \in 0..n : Inv(i)}
<1> HIDE DEF A
<1>3. 0 \in S
  <2>1. <<>> \in Seq(Range(<<>>)) /\ Len(<<>>) = 0
    BY EmptySeq
  <2>2. Inv(0)
    BY <1>2, <2>1 DEF IsSeq
  <2> QED
    BY <1>1, <2>2
<1>4. ASSUME NEW i \in 1..n, i - 1 \in S PROVE i \in S
  <2> DEFINE old == f[i - 1]
             new == f[i]
             D == DeclaredBy(p, i, old)
  <2>1. Inv(i - 1)
    BY <1>4
  <2>2. IsSeq(old) /\ Len(old) = i - 1 /\ new = Append(old, D)
    BY <1>2, <2>1
  <2>3. \A k \in 1..i - 1 : Callable(old[k], k, A[k], p)
    BY <2>1
  <2> HIDE DEF old, new, D
  <2>4. /\ IsSeq(new) /\ Len(new) = i /\ new[i] = D
        /\ \A k \in 1..i - 1 : new[k] = old[k]
    <3>1. IsSeq(new)
      BY <2>2, AppendToAny
    <3>2. Len(old) \in Nat /\ Len(new) = Len(old) + 1
      BY <2>2, AppendToAny
    <3>3. \A k \in 1..Len(old) : new[k] = old[k]
      BY <2>2, AppendToAny
    <3>4. new[Len(old) + 1] = D
      BY <2>2, AppendToAny
    <3>5. Len(old) + 1 = i
      BY <1>1, <2>2
    <3> QED
      BY <2>2, <3>1, <3>2, <3>3, <3>4, <3>5
  <2>5. Callable(D, i, A[i], p)
    BY <2>3, CallableStep DEF A, D
  <2>6. ASSUME NEW k \in 1..i PROVE Callable(new[k], k, A[k], p)
    <3>1. k \in 1..i - 1 \/ k = i
      OBVIOUS
    <3> QED
      BY <2>3, <2>4, <2>5, <3>1
  <2>7. Inv(i)
    BY <2>4, <2>6 DEF new
  <2> HIDE DEF Inv
  <2> QED
    BY <2>7
<1>5. Inv(n)
  <2> HIDE DEF S, n, Inv
  <2>1. 0..n \subseteq S
    BY <1>1, <1>3, <1>4, UpTo
  <2>2. n \in 0..n
    BY <1>1
  <2> QED
    BY <2>1, <2>2 DEF S
<1>6. n \in 1..n
  BY <1>1
<1>7. Callable(f[n][n], n, A[n], p)
  BY <1>5, <1>6
<1> QED
  BY <1>2, <1>7 DEF A, Load

-------------------------------------------------------------------------------
(* Contexts *)

\* The stages in which the options of the first or of both groups are settled.
AfterGlobals == {"locals", "module", "plan", "wave", "eval", "ok"}
AfterLocals == AfterGlobals \ {"locals"}

\* Being asked twice takes being in both groups.
Asking ==
    /\ pc \in {"params", "globals"} => \A o \in Options : asked[o] = 0
    /\ pc = "locals" =>
          \A o \in Options : asked[o] <= 1 /\ (asked[o] = 1 => o \in globals)
    /\ \A o \in Options : asked[o] = 2 => o \in globals \cap locals

\* A settled option has a value, unless the user left it out, and a default
\* in any case.
Settled ==
    /\ pc \in AfterGlobals /\ ~declined => \A o \in globals : values.global[o] # None
    /\ pc \in AfterLocals /\ ~declined => \A o \in locals : values.local[o] # None
    /\ pc \in AfterGlobals =>
          \A o \in globals : values.global[o] = None => o \notin defaults

\* A called job is given the global options as its caller has them.
Agreed ==
    depth > 0 =>
        /\ ~canAsk
        /\ \A o \in globals :
              /\ given[o] \in {inherited[o], "call"}
              /\ given[o] = None => o \notin defaults
              /\ pc \in AfterGlobals => values.global[o] = given[o]

\* The blocks of a wave refer to blocks whose fields are visible.
Waves ==
    /\ pc \in {"wave", "eval"} => \A b \in Blocks : Undeclared \notin refs[b]
    /\ \A b \in wave : refs[b] \subseteq visible
    /\ pc = "ok" => visible = Blocks

IInv ==
    /\ TypeOK
    /\ Asking
    /\ Settled
    /\ Agreed
    /\ Waves
    /\ BlocksSeeTheirRefs
    /\ FailureHasReason

USE UndeclaredAssumption, RefsAssumption, MaxCallsAssumption

-------------------------------------------------------------------------------
LEMMA InitHolds == Init => IInv
<1> SUFFICES ASSUME Init PROVE IInv
  OBVIOUS
<1>1. TypeOK
  <2>1. values \in [global : [Options -> Origin], local : [Options -> Origin]]
    BY DEF Init, Nothing, Origin
  <2>2. given \in [Options -> Origin] /\ inherited \in [Options -> Origin]
    BY DEF Init, Nothing, Origin
  <2>3. globals \cup locals \cup defaults \subseteq Options
    BY DEF Init
  <2>4. refs \in [Blocks -> SUBSET (Blocks \cup {Undeclared})]
    BY DEF Init
  <2>5. saw \in [Blocks -> SUBSET Blocks] /\ asked \in [Options -> 0..2]
    BY DEF Init, Unevaluated
  <2>6. depth \in 0..MaxCalls
    BY DEF Init
  <2>7. {root, canAsk, declined, broke} \subseteq BOOLEAN
    BY DEF Init
  <2>8. fields \subseteq Blocks /\ wave \subseteq Blocks \ fields /\ visible \subseteq fields
    BY DEF Init
  <2> QED
    BY <2>1, <2>2, <2>3, <2>4, <2>5, <2>6, <2>7, <2>8 DEF Init, TypeOK
<1>2. Asking /\ Settled /\ Agreed
  BY DEF Init, Asking, Settled, Agreed, AfterGlobals, AfterLocals
<1>3. Waves /\ BlocksSeeTheirRefs /\ FailureHasReason
  BY DEF Init, Waves, BlocksSeeTheirRefs, FailureHasReason
<1> QED
  BY <1>1, <1>2, <1>3 DEF IInv

\* Leaving a stage changes nothing but pc, and broke if something failed.
LEMMA StageKeeps ==
    ASSUME IInv, UNCHANGED <<config, job, values, asked, declined, blocks>>,
           pc' \in {"globals", "plan", "wave", "error"}, broke' \in BOOLEAN,
           pc' = "globals" => pc = "params",
           pc' = "plan" => pc = "module",
           pc' = "wave" => pc \in {"plan", "eval"} /\ \A b \in Blocks : Undeclared \notin refs[b],
           pc' = "error" => FailureHasReason'
    PROVE  IInv'
<1>1. TypeOK'
  BY DEF IInv, TypeOK, config, job, blocks
<1>2. Asking' /\ Settled' /\ Agreed'
  BY DEF IInv, Asking, Settled, Agreed, AfterGlobals, AfterLocals, config, job
<1>3. Waves' /\ BlocksSeeTheirRefs' /\ FailureHasReason'
  BY DEF IInv, Waves, BlocksSeeTheirRefs, FailureHasReason, config, blocks
<1> QED
  BY <1>1, <1>2, <1>3 DEF IInv

LEMMA BreakKeeps ==
    ASSUME IInv, NEW stage, Break(stage)
    PROVE  IInv'
<1>1. FailureHasReason'
  BY DEF Break, FailureHasReason
<1> QED
  BY <1>1, StageKeeps DEF Break

LEMMA ParamsKeeps == IInv /\ Params => IInv'
<1>1. CASE Leave("params", "globals")
  <2>1. UNCHANGED <<config, job, values, asked, declined, blocks>> /\ pc = "params"
        /\ pc' = "globals" /\ broke' = broke
    BY <1>1 DEF Leave
  <2>2. IInv => broke' \in BOOLEAN
    BY <2>1 DEF IInv, TypeOK
  <2> QED
    BY <2>1, <2>2, StageKeeps
<1>2. CASE Break("params")
  BY <1>2, BreakKeeps
<1> QED
  BY <1>1, <1>2 DEF Params

-------------------------------------------------------------------------------
(* Options *)

\* What setValues yields: a value for whatever is given or has a default, and
\* for all the rest once it is answered.
LEMMA SettleIs ==
    ASSUME given \in [Options -> Origin], NEW specs \in SUBSET Options
    PROVE  /\ Settle(specs) \in [Options -> Origin]
           /\ Answered(specs) \in [Options -> Origin]
           /\ Missing(specs) \subseteq specs
           /\ \A o \in specs : Answered(specs)[o] # None
           /\ \A o \in specs : o \notin Missing(specs) => Settle(specs)[o] # None
           /\ \A o \in specs : Settle(specs)[o] = ValueOf(o)
<1>1. \A o \in Options : ValueOf(o) \in Origin
  BY DEF ValueOf, Origin
<1>2. Settle(specs) \in [Options -> Origin] /\ \A o \in specs : Settle(specs)[o] = ValueOf(o)
  BY <1>1 DEF Settle, Origin
<1>3. Answered(specs) \in [Options -> Origin]
  BY <1>2 DEF Answered, Origin
<1>4. \A o \in specs : o \notin Missing(specs) => ValueOf(o) # None
  BY DEF Missing
<1>5. \A o \in specs : Answered(specs)[o] # None
  BY <1>2, <1>4 DEF Answered, None
<1> QED
  BY <1>2, <1>3, <1>4, <1>5 DEF Missing

\* A group of options that is settled keeps the types, if it is the first time
\* or the second that the user is asked.
LEMMA SetOptionsTypes ==
    ASSUME TypeOK, \A o \in Options : asked[o] <= 1,
           NEW stage, NEW group \in {"global", "local"},
           NEW specs \in SUBSET Options, NEW next \in {"locals", "module"},
           SetOptions(stage, group, specs, next)
    PROVE  TypeOK'
<1>1. /\ Settle(specs) \in [Options -> Origin]
      /\ Answered(specs) \in [Options -> Origin]
  BY SettleIs DEF TypeOK
<1>2. values' \in [global : [Options -> Origin], local : [Options -> Origin]]
  BY <1>1 DEF SetOptions, TypeOK
<1>3. asked' \in [Options -> 0..2]
  BY DEF SetOptions, TypeOK
<1>4. pc' \in {"locals", "module", "error"}
  BY DEF SetOptions
<1>5. {root, canAsk, declined, broke}' \subseteq BOOLEAN
  BY DEF SetOptions, TypeOK, job
<1> QED
  BY <1>2, <1>3, <1>4, <1>5 DEF SetOptions, TypeOK, config, job, blocks

LEMMA GlobalOptionsKeeps == IInv /\ GlobalOptions => IInv'
<1> SUFFICES ASSUME IInv, GlobalOptions PROVE IInv'
  OBVIOUS
<1> DEFINE missing == Missing(globals)
<1>1. /\ SetOptions("globals", "global", globals, "locals")
      /\ globals \in SUBSET Options
      /\ pc = "globals" /\ \A o \in Options : asked[o] = 0
      /\ UNCHANGED <<config, job, blocks>>
  BY DEF IInv, GlobalOptions, SetOptions, TypeOK, Asking
<1>2. /\ missing \subseteq globals
      /\ \A o \in globals : Answered(globals)[o] # None
      /\ \A o \in globals : o \notin missing => Settle(globals)[o] # None
      /\ \A o \in globals : Settle(globals)[o] = ValueOf(o)
  BY <1>1, SettleIs DEF IInv, TypeOK
<1>3. TypeOK'
  BY <1>1, SetOptionsTypes DEF IInv
<1>4. Asking'
  <2>1. /\ pc' \in {"locals", "error"}
        /\ \A o \in Options : asked'[o] = 0 \/ (asked'[o] = 1 /\ o \in globals)
    BY <1>1, <1>2 DEF SetOptions, IInv, TypeOK
  <2> QED
    BY <1>1, <2>1 DEF Asking, config
<1>5. Settled'
  <2>1. pc' = "locals" =>
          /\ values'.global \in {Settle(globals), Answered(globals)}
          /\ declined' \/ missing = {} \/ values'.global = Answered(globals)
    BY <1>1 DEF SetOptions, IInv, TypeOK
  <2>2. \A o \in globals : Settle(globals)[o] = None => o \notin defaults
    BY <1>2 DEF ValueOf, None
  <2>3. pc' = "locals" /\ ~declined' => \A o \in globals : values'.global[o] # None
    BY <1>2, <2>1
  <2>4. pc' = "locals" => \A o \in globals : values'.global[o] = None => o \notin defaults
    BY <1>2, <2>1, <2>2
  <2>5. pc' \in {"locals", "error"}
    BY <1>1 DEF SetOptions
  <2> QED
    BY <1>1, <2>3, <2>4, <2>5 DEF Settled, AfterGlobals, AfterLocals, config, job
<1>6. Agreed'
  <2>1. ASSUME depth > 0, pc' = "locals"
        PROVE  \A o \in globals : values'.global[o] = given[o]
    <3>1. ~canAsk /\ \A o \in globals : given[o] = None => o \notin defaults
      BY <2>1 DEF IInv, Agreed
    <3>2. missing = {} /\ values'.global = Settle(globals)
      BY <1>1, <2>1, <3>1 DEF SetOptions, IInv, TypeOK
    <3>3. \A o \in globals : ValueOf(o) # None
      BY <3>2 DEF Missing
    <3> QED
      BY <1>2, <3>1, <3>2, <3>3 DEF ValueOf
  <2>2. pc' \in {"locals", "error"}
    BY <1>1 DEF SetOptions
  <2> QED
    BY <1>1, <2>1, <2>2 DEF IInv, Agreed, AfterGlobals, config, job
<1>7. FailureHasReason'
  <2>1. pc' = "error" => broke' \/ (~canAsk /\ missing # {})
    BY <1>1 DEF SetOptions
  <2>2. missing \subseteq Missing(globals \cup locals)
    BY DEF Missing
  <2>3. Missing(globals \cup locals)' = Missing(globals \cup locals)
    BY <1>1 DEF Missing, ValueOf, config, job
  <2> QED
    BY <1>1, <2>1, <2>2, <2>3 DEF FailureHasReason, job
<1>8. Waves' /\ BlocksSeeTheirRefs'
  BY <1>1 DEF SetOptions, IInv, Waves, BlocksSeeTheirRefs, config, blocks
<1> QED
  BY <1>3, <1>4, <1>5, <1>6, <1>7, <1>8 DEF IInv

LEMMA LocalOptionsKeeps == IInv /\ LocalOptions => IInv'
<1> SUFFICES ASSUME IInv, LocalOptions PROVE IInv'
  OBVIOUS
<1> DEFINE missing == Missing(locals)
<1>1. /\ SetOptions("locals", "local", locals, "module")
      /\ locals \in SUBSET Options
      /\ pc = "locals"
      /\ \A o \in Options : asked[o] <= 1 /\ (asked[o] = 1 => o \in globals)
      /\ UNCHANGED <<config, job, blocks>>
      /\ pc' \in {"module", "error"}
  BY DEF IInv, LocalOptions, SetOptions, TypeOK, Asking
<1>2. /\ missing \subseteq locals
      /\ \A o \in locals : Answered(locals)[o] # None
      /\ \A o \in locals : o \notin missing => Settle(locals)[o] # None
  BY <1>1, SettleIs DEF IInv, TypeOK
<1>3. TypeOK'
  BY <1>1, SetOptionsTypes DEF IInv
<1>4. Asking'
  <2>1. \A o \in Options : asked'[o] = 2 => o \in globals \cap locals
    <3>1. \A o \in Options : asked'[o] = asked[o] \/ (o \in missing /\ asked'[o] = asked[o] + 1)
      BY <1>1 DEF SetOptions, IInv, TypeOK
    <3>2. \A o \in Options : asked[o] \in 0..2
      BY DEF IInv, TypeOK
    <3> QED
      BY <1>1, <1>2, <3>1, <3>2
  <2> QED
    BY <1>1, <2>1 DEF Asking, config, job
<1>5. pc' = "module" =>
        /\ values'.local \in {Settle(locals), Answered(locals)}
        /\ values'.global = values.global
        /\ declined => declined'
        /\ declined' \/ missing = {} \/ values'.local = Answered(locals)
  BY <1>1 DEF SetOptions, IInv, TypeOK
<1>6. Settled'
  <2>1. pc' = "module" /\ ~declined' => \A o \in locals : values'.local[o] # None
    BY <1>2, <1>5
  <2> QED
    BY <1>1, <1>5, <2>1 DEF IInv, Settled, AfterGlobals, AfterLocals, config, job
<1>7. Agreed'
  BY <1>1, <1>5 DEF IInv, Agreed, AfterGlobals, config, job
<1>8. FailureHasReason'
  <2>1. pc' = "error" => broke' \/ (~canAsk /\ missing # {})
    BY <1>1 DEF SetOptions
  <2>2. missing \subseteq Missing(globals \cup locals)
    BY DEF Missing
  <2>3. Missing(globals \cup locals)' = Missing(globals \cup locals)
    BY <1>1 DEF Missing, ValueOf, config, job
  <2> QED
    BY <1>1, <2>1, <2>2, <2>3 DEF FailureHasReason, job
<1>9. Waves' /\ BlocksSeeTheirRefs'
  BY <1>1 DEF IInv, Waves, BlocksSeeTheirRefs, config, blocks
<1> QED
  BY <1>3, <1>4, <1>6, <1>7, <1>8, <1>9 DEF IInv

LEMMA ModuleKeeps == IInv /\ Module => IInv'
<1> SUFFICES ASSUME IInv, Module PROVE IInv'
  OBVIOUS
<1>1. CASE Break("module")
  BY <1>1, BreakKeeps
<1>2. CASE Shadowing /\ Leave("module", "error")
  <2>1. UNCHANGED <<config, job, values, asked, declined, blocks, broke>> /\ pc' = "error"
    BY <1>2 DEF Leave
  <2>2. FailureHasReason'
    BY <1>2, <2>1 DEF FailureHasReason, Shadowing, config, job
  <2> QED
    BY <2>1, <2>2, StageKeeps DEF IInv, TypeOK
<1>3. CASE Leave("module", "plan")
  BY <1>3, StageKeeps DEF Leave, IInv, TypeOK
<1> QED
  BY <1>1, <1>2, <1>3 DEF Module

-------------------------------------------------------------------------------
(* Waves *)

LEMMA PlanKeeps == IInv /\ Plan => IInv'
<1> SUFFICES ASSUME IInv, Plan PROVE IInv'
  OBVIOUS
<1>1. CASE Break("plan")
  BY <1>1, BreakKeeps
<1>2. CASE (\E b \in Blocks : Undeclared \in refs[b]) /\ Leave("plan", "error")
  <2>1. UNCHANGED <<config, job, values, asked, declined, blocks, broke>> /\ pc' = "error"
    BY <1>2 DEF Leave
  <2>2. FailureHasReason'
    BY <1>2, <2>1 DEF FailureHasReason, config
  <2> QED
    BY <2>1, <2>2, StageKeeps DEF IInv, TypeOK
<1>3. CASE /\ \A b \in Blocks : Undeclared \notin refs[b]
           /\ Leave("plan", IF Orderable THEN "wave" ELSE "error")
  <2>1. /\ UNCHANGED <<config, job, values, asked, declined, blocks, broke>>
        /\ pc = "plan"
        /\ pc' = IF Orderable THEN "wave" ELSE "error"
    BY <1>3 DEF Leave
  <2>2. pc' = "error" => FailureHasReason'
    BY <2>1 DEF FailureHasReason, Orderable, RefersTo, config
  <2> QED
    BY <1>3, <2>1, <2>2, StageKeeps DEF IInv, TypeOK
<1> QED
  BY <1>1, <1>2, <1>3 DEF Plan

\* What the steps of a wave leave alone.
LEMMA WaveKeeps ==
    ASSUME IInv, UNCHANGED <<config, job, values, asked, declined, broke>>,
           pc \in {"wave", "eval"}, pc' \in {"wave", "eval", "ok"}
    PROVE  Asking' /\ Settled' /\ Agreed' /\ FailureHasReason'
BY DEF IInv, Asking, Settled, Agreed, AfterGlobals, AfterLocals,
       FailureHasReason, config, job

LEMMA BeginWaveKeeps == IInv /\ BeginWave => IInv'
<1> SUFFICES ASSUME IInv, BeginWave PROVE IInv'
  OBVIOUS
<1>1. Asking' /\ Settled' /\ Agreed' /\ FailureHasReason'
  BY WaveKeeps DEF BeginWave
<1>2. TypeOK'
  BY DEF IInv, TypeOK, BeginWave, Sorted, config, job
<1>3. \A b \in Sorted : refs[b] \subseteq fields
  <2>1. \A b \in Blocks : refs[b] \subseteq Blocks
    BY DEF IInv, TypeOK, Waves, BeginWave
  <2> QED
    BY <2>1 DEF Sorted, RefersTo
<1>4. Waves' /\ BlocksSeeTheirRefs'
  BY <1>3 DEF IInv, Waves, BlocksSeeTheirRefs, BeginWave, config
<1> QED
  BY <1>1, <1>2, <1>4 DEF IInv

LEMMA EvaluateKeeps == ASSUME IInv, NEW b \in Blocks, Evaluate(b) PROVE IInv'
<1>1. Asking' /\ Settled' /\ Agreed' /\ FailureHasReason'
  BY WaveKeeps DEF Evaluate
<1>2. TypeOK'
  <2>1. saw' \in [Blocks -> SUBSET Blocks]
    BY DEF IInv, TypeOK, Evaluate
  <2>2. visible' \subseteq fields' /\ wave' \subseteq Blocks \ fields' /\ fields' \subseteq Blocks
    BY DEF IInv, TypeOK, Evaluate
  <2> QED
    BY <2>1, <2>2 DEF IInv, TypeOK, Evaluate, config, job
<1>3. Waves'
  BY DEF IInv, Waves, Evaluate, config
<1>4. BlocksSeeTheirRefs'
  <2>1. refs[b] \subseteq visible
    BY DEF IInv, Waves, Evaluate
  <2>2. saw'[b] = visible /\ \A c \in fields : c # b => saw'[c] = saw[c]
    BY DEF IInv, TypeOK, Evaluate
  <2> QED
    BY <2>1, <2>2 DEF IInv, BlocksSeeTheirRefs, Evaluate, config
<1> QED
  BY <1>1, <1>2, <1>3, <1>4 DEF IInv

LEMMA PublishKeeps == IInv /\ Publish => IInv'
<1> SUFFICES ASSUME IInv, Publish PROVE IInv'
  OBVIOUS
<1>1. Asking' /\ Settled' /\ Agreed' /\ FailureHasReason'
  BY WaveKeeps DEF Publish
<1>2. TypeOK'
  BY DEF IInv, TypeOK, Publish, config, job
<1>3. Waves' /\ BlocksSeeTheirRefs'
  BY DEF IInv, TypeOK, Waves, BlocksSeeTheirRefs, Publish, config
<1> QED
  BY <1>1, <1>2, <1>3 DEF IInv

LEMMA EndWaveKeeps == IInv /\ EndWave => IInv'
BY StageKeeps DEF EndWave, Leave, IInv, TypeOK, Waves

-------------------------------------------------------------------------------
(* Calls *)

LEMMA CallKeeps == IInv /\ Call => IInv'
<1> SUFFICES ASSUME IInv, Call PROVE IInv'
  OBVIOUS
<1>1. /\ pc \in {"ok", "eval"} /\ pc' = "params"
      /\ depth < MaxCalls /\ depth' = depth + 1
      /\ inherited' = values.global
      /\ canAsk' = FALSE /\ declined' = FALSE
      /\ asked' = [o \in Options |-> 0]
      /\ wave' = {} /\ fields' = {} /\ visible' = {} /\ saw' = Unevaluated
      /\ UNCHANGED <<config, broke>>
  BY DEF Call, Enter
<1>2. PICK overrides \in SUBSET Options :
        given' = [o \in Options |-> IF o \in overrides THEN "call" ELSE values.global[o]]
  BY DEF Call, Enter
<1>3. /\ values.global \in [Options -> Origin]
      /\ globals \subseteq Options
  BY DEF IInv, TypeOK
<1>9. \A o \in Options : o \in globals => (o \in defaults' <=> o \in defaults)
  BY <1>3 DEF Call, Enter
<1>10. defaults' \subseteq Options
  BY DEF Call, Enter, IInv, TypeOK
<1>4. TypeOK'
  <2>1. given' \in [Options -> Origin] /\ inherited' \in [Options -> Origin]
    BY <1>1, <1>2, <1>3 DEF Origin
  <2>2. values' \in [global : [Options -> Origin], local : [Options -> Origin]]
    BY DEF Call, Enter, Nothing, Origin
  <2>3. (globals \cup locals \cup defaults)' \subseteq Options
    BY <1>1, <1>10 DEF IInv, TypeOK, Call, Enter, config
  <2>4. depth' \in 0..MaxCalls
    BY <1>1 DEF IInv, TypeOK
  <2>5. {root, canAsk, declined, broke}' \subseteq BOOLEAN
    BY <1>1 DEF IInv, TypeOK, Call, Enter
  <2>6. saw' \in [Blocks -> SUBSET Blocks] /\ asked' \in [Options -> 0..2]
    BY <1>1 DEF Unevaluated
  <2>7. refs' \in [Blocks -> SUBSET (Blocks \cup {Undeclared})]
    BY <1>1 DEF IInv, TypeOK, config
  <2> QED
    BY <1>1, <2>1, <2>2, <2>3, <2>4, <2>5, <2>6, <2>7 DEF TypeOK
<1>5. Asking'
  BY <1>1 DEF Asking
<1>6. Settled'
  BY <1>1 DEF Settled, AfterGlobals, AfterLocals
<1>7. Agreed'
  <2>1. \A o \in globals : values.global[o] = None => o \notin defaults
    BY <1>1 DEF IInv, Settled, AfterGlobals
  <2>2. \A o \in globals :
           /\ given'[o] \in {inherited'[o], "call"}
           /\ given'[o] = None => o \notin defaults'
    BY <1>1, <1>2, <1>3, <1>9, <2>1 DEF None
  <2> QED
    BY <1>1, <2>2 DEF Agreed, AfterGlobals, config
<1>8. Waves' /\ BlocksSeeTheirRefs' /\ FailureHasReason'
  BY <1>1 DEF Waves, BlocksSeeTheirRefs, FailureHasReason
<1> QED
  BY <1>4, <1>5, <1>6, <1>7, <1>8 DEF IInv

LEMMA StutterKeeps == IInv /\ UNCHANGED vars => IInv'
<1> SUFFICES ASSUME IInv, UNCHANGED vars PROVE IInv'
  OBVIOUS
<1>1. TypeOK'
  BY DEF IInv, TypeOK, vars
<1>2. Asking' /\ Settled' /\ Agreed'
  BY DEF IInv, Asking, Settled, Agreed, AfterGlobals, AfterLocals, vars
<1>3. Waves' /\ BlocksSeeTheirRefs' /\ FailureHasReason'
  BY DEF IInv, Waves, BlocksSeeTheirRefs, FailureHasReason, Missing, ValueOf,
         Orderable, RefersTo, vars
<1> QED
  BY <1>1, <1>2, <1>3 DEF IInv

LEMMA NextKeeps == IInv /\ [Next]_vars => IInv'
<1> SUFFICES ASSUME IInv, [Next]_vars PROVE IInv'
  OBVIOUS
<1>1. CASE Create
  <2>1. CASE EvaluationFails
    BY <2>1, BreakKeeps DEF EvaluationFails
  <2>2. CASE \E b \in Blocks : Evaluate(b)
    BY <2>2, EvaluateKeeps
  <2> QED
    BY <1>1, <2>1, <2>2, ParamsKeeps, GlobalOptionsKeeps, LocalOptionsKeeps,
       ModuleKeeps, PlanKeeps, BeginWaveKeeps, EndWaveKeeps, PublishKeeps
    DEF Create
<1>2. CASE Call
  BY <1>2, CallKeeps
<1>3. CASE Stop \/ UNCHANGED vars
  BY <1>3, StutterKeeps DEF Stop
<1> QED
  BY <1>1, <1>2, <1>3 DEF Next

LEMMA Invariance == Spec => []IInv
BY InitHolds, NextKeeps, PTL DEF Spec

-------------------------------------------------------------------------------
(* Theorems *)

\* The types of the variables of createJobContext.
THEOREM TypeCorrect == Spec => []TypeOK
<1>1. IInv => TypeOK
  BY DEF IInv
<1> QED
  BY <1>1, Invariance, PTL

\* addConfigsAndVariables evaluates every block with all it refers to in the
\* context, for any number of blocks and any references that it accepts.
THEOREM BlocksSeeTheirRefsAlways == Spec => []BlocksSeeTheirRefs
<1>1. IInv => BlocksSeeTheirRefs
  BY DEF IInv
<1> QED
  BY <1>1, Invariance, PTL

\* The context createJobContext returns is complete.
THEOREM CompleteOnSuccessAlways == Spec => []CompleteOnSuccess
<1>1. IInv => CompleteOnSuccess
  BY DEF IInv, Settled, Waves, AfterGlobals, AfterLocals, CompleteOnSuccess, Opt
<1> QED
  BY <1>1, Invariance, PTL

\* createJobContext fails for a reason only.
THEOREM FailureHasReasonAlways == Spec => []FailureHasReason
<1>1. IInv => FailureHasReason
  BY DEF IInv
<1> QED
  BY <1>1, Invariance, PTL

\* However deep the calls, a called job has the global options of its caller.
THEOREM GlobalsAgreeAlways == Spec => []GlobalsAgree
<1>1. IInv => GlobalsAgree
  BY DEF IInv, Agreed, AfterGlobals, GlobalsAgree
<1> QED
  BY <1>1, Invariance, PTL

\* setOptionValues, called for both groups, asks for an option once.
THEOREM AskedOnceAlways == Spec => []AskedOnce
<1>1. ASSUME IInv PROVE AskedOnce
  <2>1. \A o \in Options : asked[o] \in 0..2
    BY <1>1 DEF IInv, TypeOK
  <2>2. \A o \in Options : asked[o] = 2 => o \in globals /\ o \in locals
    BY <1>1 DEF IInv, Asking
  <2>3. \A o \in Options : asked[o] <= 1 \/ asked[o] = 2
    <3>1. \A n \in 0..2 : n <= 1 \/ n = 2
      OBVIOUS
    <3> QED
      BY <2>1, <3>1
  <2>4. \A o \in Options : asked[o] <= 1 \/ o \in globals \cap locals
    BY <2>2, <2>3
  <2> QED
    BY <2>4 DEF AskedOnce
<1> QED
  BY <1>1, Invariance, PTL

-------------------------------------------------------------------------------
(* Applications *)

LEMMA AppInitIsInit == AppInit => Init
BY DEF AppInit

LEMMA AppStepIsStep == [AppNext]_appVars => [Next]_vars
<1> SUFFICES ASSUME [AppNext]_appVars PROVE [Next]_vars
  OBVIOUS
<1>1. CASE ~app.failed /\ (Create \/ Stop)
  BY <1>1 DEF Next
<1>2. CASE ~app.failed /\ CallByName
  BY <1>2 DEF CallByName, Next
<1>3. CASE UNCHANGED appVars
  BY <1>3 DEF appVars
<1> QED
  BY <1>1, <1>2, <1>3 DEF AppNext

\* An application runs jobs as JobContext describes: the options it takes from
\* the files, and the flags it takes from the command line, are among those
\* JobContext allows (App.Job and createJobContext of app.go).
THEOREM RunsJobContext == AppSpec => Spec
BY AppInitIsInit, AppStepIsStep, PTL DEF AppSpec, Spec

\* Whatever libraries an application is made of, the contexts of its jobs are
\* complete or refused for a reason, their blocks see what they refer to, and
\* nested calls agree on the global options.
THEOREM AppContextsComplete ==
    AppSpec => /\ []CompleteOnSuccess /\ []FailureHasReason
               /\ []BlocksSeeTheirRefs /\ []GlobalsAgree
BY RunsJobContext, CompleteOnSuccessAlways, FailureHasReasonAlways,
   BlocksSeeTheirRefsAlways, GlobalsAgreeAlways, PTL

\* No step of createJobContext changes what it was called with.
LEMMA CreateKeepsJob == Create \/ Stop => UNCHANGED <<config, job>>
<1>1. Create => UNCHANGED <<config, job>>
  BY DEF Create, Params, GlobalOptions, LocalOptions, SetOptions, Module, Plan,
         BeginWave, Evaluate, EvaluationFails, EndWave, Publish, Leave, Break
<1>2. Stop => UNCHANGED <<config, job>>
  BY DEF Stop, vars, config, job
<1> QED
  BY <1>1, <1>2

\* The context of a job has the types of JobContext and the options of the job
\* that was named, wherever it was imported from (App.Job).
THEOREM AppTypeCorrect == AppSpec => []AppTypeOK
<1>1. AppInit => OfItsTarget
  BY DEF AppInit, OfItsTarget
<1>2. OfItsTarget /\ [AppNext]_appVars => OfItsTarget'
  <2> SUFFICES ASSUME OfItsTarget, [AppNext]_appVars PROVE OfItsTarget'
    OBVIOUS
  <2>1. CASE (Create \/ Stop) /\ UNCHANGED <<program, app, entry, target>>
    BY <2>1, CreateKeepsJob DEF OfItsTarget, OptionsOf, config, job
  <2>2. CASE CallByName /\ UNCHANGED <<program, app, entry>>
    BY <2>2 DEF CallByName, Call, Enter, OfItsTarget, OptionsOf, config
  <2>3. CASE UNCHANGED appVars
    BY <2>3 DEF appVars, vars, OfItsTarget, OptionsOf
  <2> QED
    BY <2>1, <2>2, <2>3 DEF AppNext
<1> QED
  BY <1>1, <1>2, RunsJobContext, TypeCorrect, PTL DEF AppSpec, AppTypeOK

\* The first call from the command line passes what the commands accept.
FromCommandLine ==
    entry = "cli" /\ depth = 0 =>
        \E typed \in Accepted(app.jobs, target, canAsk) :
            given = [o \in Options |->
                        IF o \in Read(app.jobs, target, typed) THEN "given" ELSE None]

\* The application is what Load makes of the files, and is not run if it
\* cannot be loaded; a context is created for one of its jobs.
Running ==
    /\ WellFormed(program)
    /\ app = Load(program)
    /\ target \in DOMAIN app.jobs
    /\ root = (target = Root)
    /\ defaults = DefaultsFor(target)
    /\ OfItsTarget
    /\ FromCommandLine
    /\ app.failed => pc = "params"

\* What Load returns is an application.
LEMMA LoadIsApp ==
    ASSUME NEW p, WellFormed(p)
    PROVE  IsApp(Load(p), Len(p))
<1>1. Len(p) \in 1..Len(p)
  BY ProgramFacts
<1>2. Made(Apps(p)[Len(p)], Len(p), p[Len(p)], Apps(p))
  BY <1>1, MadeFacts
<1> QED
  BY <1>2 DEF Made, Load

LEMMA RunningInit == AppInit => Running
<1> SUFFICES ASSUME AppInit PROVE Running
  OBVIOUS
<1>1. WellFormed(program)
  BY ProgramsAssumption DEF AppInit
<1>2. app = Load(program) /\ IsApp(app, Len(program))
  BY <1>1, LoadIsApp DEF AppInit
<1>3. target \in DOMAIN app.jobs
  BY <1>2 DEF AppInit, IsApp
<1>4. OfItsTarget /\ root = (target = Root) /\ defaults = DefaultsFor(target)
  BY <1>3 DEF AppInit, OfItsTarget
<1>5. FromCommandLine
  BY DEF AppInit, FirstCall, FromCommandLine
<1>6. pc = "params"
  BY DEF AppInit, Init
<1> QED
  BY <1>1, <1>2, <1>3, <1>4, <1>5, <1>6 DEF Running

LEMMA RunningKeeps == TypeOK /\ Running /\ [AppNext]_appVars => Running'
<1> SUFFICES ASSUME TypeOK, Running, [AppNext]_appVars PROVE Running'
  OBVIOUS
<1>1. CASE /\ ~app.failed
           /\ Create \/ Stop
           /\ UNCHANGED <<program, app, entry, target>>
  <2>1. UNCHANGED <<config, job>>
    BY <1>1, CreateKeepsJob
  <2>2. /\ globals' = globals /\ locals' = locals /\ defaults' = defaults /\ root' = root
        /\ canAsk' = canAsk /\ given' = given /\ depth' = depth
    BY <2>1 DEF config, job
  <2>3. OfItsTarget' /\ DefaultsFor(target)' = DefaultsFor(target)
    BY <1>1, <2>2 DEF Running, OfItsTarget, OptionsOf, DefaultsFor
  <2>4. FromCommandLine'
    BY <1>1, <2>2 DEF Running, FromCommandLine
  <2> QED
    BY <1>1, <2>2, <2>3, <2>4 DEF Running
<1>2. CASE ~app.failed /\ CallByName /\ UNCHANGED <<program, app, entry>>
  <2>1. /\ target' \in DOMAIN app.jobs /\ root' = (target' = Root)
        /\ locals' = OptionsOf(target') /\ defaults' = DefaultsFor(target')
        /\ globals' = globals
        /\ depth' = depth + 1
    BY <1>2 DEF CallByName, Call, Enter, config
  <2>2. depth' # 0
    BY <2>1, MaxCallsAssumption DEF TypeOK
  <2>3. OfItsTarget' /\ DefaultsFor(target)' = DefaultsFor(target')
    BY <1>2, <2>1 DEF Running, OfItsTarget, OptionsOf, DefaultsFor
  <2>4. FromCommandLine'
    BY <2>2 DEF FromCommandLine
  <2> QED
    BY <1>2, <2>1, <2>3, <2>4 DEF Running
<1>3. CASE UNCHANGED appVars
  <2>1. /\ UNCHANGED <<program, app, entry, target>> /\ pc' = pc
        /\ globals' = globals /\ locals' = locals /\ defaults' = defaults /\ root' = root
        /\ canAsk' = canAsk /\ given' = given /\ depth' = depth
    BY <1>3 DEF appVars, vars
  <2>2. OfItsTarget' /\ DefaultsFor(target)' = DefaultsFor(target)
    BY <2>1 DEF Running, OfItsTarget, OptionsOf, DefaultsFor
  <2>3. FromCommandLine'
    BY <2>1 DEF Running, FromCommandLine
  <2> QED
    BY <2>1, <2>2, <2>3 DEF Running
<1> QED
  BY <1>1, <1>2, <1>3 DEF AppNext

LEMMA AppInvariance == AppSpec => [](IInv /\ Running)
<1>1. IInv => TypeOK
  BY DEF IInv
<1> QED
  BY <1>1, RunningInit, RunningKeeps, RunsJobContext, Invariance, PTL DEF AppSpec

\* Of the commands that declare a flag of a job, the job's own is the nearest.
LEMMA NearestIsOwn ==
    ASSUME NEW jobs, NEW n \in Seq(STRING), n \in DOMAIN jobs,
           NEW o \in DOMAIN jobs[n].options
    PROVE  /\ o \in Flags(jobs, n)
           /\ SubSeq(n, 1, Nearest(jobs, n, o)) = n
<1>1. Len(n) \in Nat /\ SubSeq(n, 1, Len(n)) = n
  BY LenProperties, SubSeqFull
<1>2. Len(n) \in Above(jobs, n) /\ Above(jobs, n) \subseteq 0..Len(n)
  <2>1. Len(n) \in 0..Len(n)
    BY <1>1
  <2>2. SubSeq(n, 1, Len(n)) \in DOMAIN jobs
    BY <1>1, Zenon
  <2> QED
    BY <2>1, <2>2, Zenon DEF Above
<1>3. Len(n) \in Declaring(jobs, n, o) /\ \A k \in Declaring(jobs, n, o) : k \in 0..Len(n)
  BY <1>1, <1>2 DEF Declaring
<1>4. \A k \in Declaring(jobs, n, o) : k <= Len(n)
  BY <1>1, <1>3
<1>5. PICK i \in Declaring(jobs, n, o) :
         i = Nearest(jobs, n, o) /\ \A k \in Declaring(jobs, n, o) : k <= i
  BY <1>3, <1>4 DEF Nearest
<1>6. i = Len(n)
  BY <1>1, <1>3, <1>5
<1> QED
  BY <1>1, <1>2, <1>5, <1>6 DEF Flags

\* The options of the root job are flags of every command.
LEMMA GlobalsAreFlags ==
    ASSUME NEW jobs, NEW n \in Seq(STRING), Root \in DOMAIN jobs,
           NEW o \in DOMAIN jobs[Root].options
    PROVE  o \in Flags(jobs, n)
<1>1. Len(n) \in Nat /\ SubSeq(n, 1, 0) = Root
  BY LenProperties, SubSeqEmpty DEF Root
<1>2. 0 \in Above(jobs, n)
  <2>1. 0 \in 0..Len(n)
    BY <1>1
  <2>2. SubSeq(n, 1, 0) \in DOMAIN jobs
    BY <1>1, Zenon
  <2> QED
    BY <2>1, <2>2, Zenon DEF Above
<1> QED
  BY <1>1, <1>2 DEF Flags

\* Every flag a command reads is the one cobra sets.
LEMMA ReadsWhatIsTyped ==
    ASSUME NEW jobs, NEW n, NEW typed
    PROVE  Read(jobs, n, typed) = typed
BY DEF Read, ReadFrom, Nearest

\* createCobraFlagsFromVariantOptions: the flags that cobra insists on are all
\* that createJobContext needs (variant.go, app.go).
THEOREM FlagsSufficeAlways == AppSpec => []FlagsSuffice
<1>1. ASSUME IInv, Running PROVE FlagsSuffice
  <2> SUFFICES ASSUME entry = "cli", depth = 0, ~canAsk, pc = "error",
                      ~broke, ~Shadowing, Orderable,
                      ~\E b \in Blocks : Undeclared \in refs[b]
               PROVE  DefaultsDiffer
    BY DEF FlagsSuffice
  <2>1. Missing(globals \cup locals) # {}
    BY <1>1 DEF IInv, FailureHasReason, Shadowing
  <2>2. PICK o \in globals \cup locals : ValueOf(o) = None
    BY <2>1 DEF Missing
  <2>3. o \in Options /\ given[o] = None /\ o \notin defaults
    <3>1. o \in Options
      BY <1>1 DEF IInv, TypeOK
    <3>2. "default" # None
      BY DEF None
    <3> QED
      BY <2>2, <3>1, <3>2 DEF ValueOf
  <2>4. PICK typed \in Accepted(app.jobs, target, FALSE) :
           given = [x \in Options |->
                       IF x \in Read(app.jobs, target, typed) THEN "given" ELSE None]
    <3>1. canAsk = FALSE
      BY <1>1 DEF IInv, TypeOK
    <3> QED
      BY <1>1, <3>1 DEF Running, FromCommandLine
  <2>5. o \notin typed
    <3>1. "given" # None
      BY DEF None
    <3> QED
      BY <2>3, <2>4, <3>1, ReadsWhatIsTyped
  <2>6. o \notin Required(app.jobs, target, FALSE)
    BY <2>4, <2>5 DEF Accepted
  <2>7. /\ IsApp(app, Len(program)) /\ target \in DOMAIN app.jobs
        /\ globals = DOMAIN app.jobs[Root].options
        /\ locals = DOMAIN app.jobs[target].options
    BY <1>1, LoadIsApp DEF Running, OfItsTarget, OptionsOf
  <2>8. target \in Seq(STRING) /\ Root \in DOMAIN app.jobs
    BY <2>7 DEF IsApp
  <2>9. CASE o \in globals
    <3>1. o \in Flags(app.jobs, target)
      BY <2>7, <2>8, <2>9, GlobalsAreFlags
    <3> QED
      BY <2>3, <2>6, <2>9, <3>1 DEF DefaultsDiffer
  <2>10. CASE o \in locals \ globals
    <3>1. /\ o \in Flags(app.jobs, target)
          /\ SubSeq(target, 1, Nearest(app.jobs, target, o)) = target
      BY <2>7, <2>8, <2>10, NearestIsOwn
    <3>2. app.jobs[target].options[o].default
      BY <2>6, <3>1 DEF Required
    <3>3. o \in DefaultsFor(target)
      BY <2>7, <2>10, <3>2 DEF DefaultsFor, OptionsOf
    <3> QED
      BY <1>1, <2>3, <3>3 DEF Running
  <2> QED
    BY <2>9, <2>10
<1> QED
  BY <1>1, AppInvariance, PTL

\* A job of a library finds the global options of its files in its context
\* (newApp of load.go and createJobContext of app.go).
THEOREM ModuleOptionsKnownAlways == AppSpec => []ModuleOptionsKnown
<1>1. ASSUME IInv, Running PROVE ModuleOptionsKnown
  <2> SUFFICES ASSUME pc = "ok", ~LosesGlobals(program),
                      NEW o \in DOMAIN RootOptions(program, app.jobs[target].by)
               PROVE  o \in globals /\ (declined \/ Opt(o) # None)
    BY DEF ModuleOptionsKnown
  <2>1. WellFormed(program) /\ app = Apps(program)[Len(program)] /\ target \in DOMAIN app.jobs
    BY <1>1 DEF Running, Load
  <2>2. Len(program) \in Loaded(program)
    BY <2>1, LoadedFacts
  <2>3. DOMAIN RootOptions(program, app.jobs[target].by) \subseteq DOMAIN app.jobs[Root].options
    BY <2>1, <2>2, ModuleOptionsKept
  <2>4. globals = DOMAIN app.jobs[Root].options
    BY <1>1 DEF Running, OfItsTarget, OptionsOf
  <2>5. declined \/ values.global[o] # None
    BY <1>1, <2>3, <2>4 DEF IInv, Settled, AfterGlobals
  <2> QED
    BY <2>3, <2>4, <2>5 DEF Opt
<1> QED
  BY <1>1, AppInvariance, PTL

\* What newApp makes of the files of a program is what they say, and it fails
\* exactly if they disagree (load.go).
THEOREM LoadsWhatIsDeclaredAlways == AppSpec => []LoadsWhatIsDeclared
<1>1. ASSUME Running PROVE LoadsWhatIsDeclared
  <2> DEFINE declared == Declared(program)
             n == Len(program)
  <2>1. WellFormed(program) /\ app = Load(program)
    BY <1>1 DEF Running
  <2>2. /\ Callable(declared, n, app, program) /\ IsApp(app, n) /\ n \in Loaded(program)
        /\ app = Apps(program)[n]
    BY <2>1, DeclaredCallable, LoadIsApp, LoadedFacts DEF Load
  <2> HIDE DEF declared
  <2>3. DOMAIN app.jobs = {d.name : d \in declared}
    BY <2>2 DEF Callable
  <2>4. ASSUME NEW d \in declared, {e \in declared : e.name = d.name} = {d}
        PROVE  /\ app.jobs[d.name].by = d.by
               /\ \E j \in Jobs(program, d.by), k \in 0..Len(d.name) :
                     /\ SubSeq(d.name, k + 1, Len(d.name)) = j.name
                     /\ \A o \in DOMAIN j.options :
                           app.jobs[d.name].options[o] = j.options[o]
               /\ Len(d.via) <= 1 /\ ~ImportsSome(d.name) => FunctionsOf(d.name) = d.by
    <3> DEFINE x == d.name
    <3>1. x \in DOMAIN app.jobs
      BY <2>3
    <3>2. app.jobs[x].by = d.by /\ DeclaredIn(d.by, x, app.jobs[x].options, program)
      <4>1. PICK e \in declared :
               /\ e.name = x /\ e.by = app.jobs[x].by
               /\ DeclaredIn(e.by, x, app.jobs[x].options, program)
        BY <2>2, <3>1 DEF Callable
      <4>2. e = d
        BY <2>4, <4>1
      <4> QED
        BY <4>1, <4>2
    <3>3. \E j \in Jobs(program, d.by), k \in 0..Len(x) :
             /\ SubSeq(x, k + 1, Len(x)) = j.name
             /\ \A o \in DOMAIN j.options : app.jobs[x].options[o] = j.options[o]
      <4>1. PICK j \in Range(program[d.by]), z \in Seq(STRING) :
               j.name \in Seq(STRING) /\ x = z \o j.name /\ Kept(j.options, app.jobs[x].options)
        BY <3>2 DEF DeclaredIn
      <4> HIDE DEF x
      <4>2. Len(z) \in 0..Len(x) /\ SubSeq(x, Len(z) + 1, Len(x)) = j.name
        BY <4>1, Suffix
      <4> QED
        BY <4>1, <4>2 DEF Jobs, Kept
    <3>4. ASSUME Len(d.via) <= 1, ~ImportsSome(x) PROVE FunctionsOf(x) = d.by
      <4>1. /\ d.via \in Seq(Nat)
            /\ d.via = <<>> => d.by = n
            /\ d.via # <<>> => x # Root /\ x \in DOMAIN app.funcs
            /\ Len(d.via) = 1 => d.by = d.via[1]
        BY <2>2 DEF Callable
      <4>2. x \in DOMAIN app.funcs => d.via # <<>> /\ app.funcs[x] = d.via[1]
        <5> SUFFICES ASSUME x \in DOMAIN app.funcs
                     PROVE  d.via # <<>> /\ app.funcs[x] = d.via[1]
          OBVIOUS
        <5>1. \/ \E j \in Range(program[n]) : j.name = x /\ j.imports # <<>>
              \/ \E e \in declared : e.name = x /\ e.via # <<>> /\ e.via[1] = app.funcs[x]
          BY <2>2 DEF Callable
        <5>2. PICK e \in declared : e.name = x /\ e.via # <<>> /\ e.via[1] = app.funcs[x]
          BY <3>4, <5>1 DEF ImportsSome, Jobs
        <5>3. e = d
          BY <2>4, <5>2
        <5> QED
          BY <5>2, <5>3
      <4>3. CASE d.via = <<>>
        <5>1. app.module = n
          BY <2>2 DEF IsApp
        <5> QED
          BY <4>1, <4>2, <4>3, <5>1 DEF FunctionsOf
      <4>4. CASE d.via # <<>>
        <5>1. Len(d.via) = 1
          <6>1. Len(d.via) \in Nat
            BY <4>1, LenProperties
          <6>2. Len(d.via) # 0
            BY <4>1, <4>4, EmptySeq
          <6>3. \A k \in Nat : k <= 1 /\ k # 0 => k = 1
            OBVIOUS
          <6> QED
            BY <3>4, <6>1, <6>2, <6>3, Zenon
        <5> QED
          BY <4>1, <4>2, <4>4, <5>1 DEF FunctionsOf
      <4> QED
        BY <4>3, <4>4
    <3> QED
      BY <3>2, <3>3, <3>4
  <2>5. app.failed => Disagreement(program)
    BY <2>1, <2>2, FailedDisagrees
  <2>6. ~app.failed /\ ~LosesGlobals(program) => ~Disagreement(program)
    BY <2>1, DisagreementFails
  <2> QED
    BY <2>3, <2>4, <2>5, <2>6 DEF LoadsWhatIsDeclared, Disagreement, declared
<1> QED
  BY <1>1, AppInvariance, PTL
===============================================================================
