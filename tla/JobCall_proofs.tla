----------------------------- MODULE JobCall_proofs -----------------------------
(***************************************************************************)
(* Proofs about JobCall, for any jobs that call each other to any depth.   *)
(*                                                                         *)
(* The calls under way and the one that has just returned form one chain,  *)
(* Live.  The inductive invariant says of each frame of it what the job    *)
(* has done at its stage and what its collector got (Good) and which of    *)
(* the commands its output stems from (Writes), and of the chain that each *)
(* frame but the last waits for the next, at which level (Nested), and how *)
(* far a failure may have come (Failing).  A step without a command cuts   *)
(* the chain somewhere and adds a frame (ByChanging); what is left to show *)
(* of that frame is the lemma of each action.                              *)
(***************************************************************************)
EXTENDS JobCall, SequenceTheorems, TLAPS

USE ConfigsAssumption

\* The calls under way and, if there is one, the one that has just returned.
Live == IF Handed THEN Append(stack, ret) ELSE stack

\* A frame in the middle of a call.
Waiting(f) ==
    \/ f.pc \in {"prepare", "deps", "unregister"}
    \/ f.pc = "steps" /\ f.i <= Len(jobs[f.job].steps)
    \/ f.pc = "runs" /\ f.i <= Len(jobs[f.job].runs)

\* The level of what f calls where it is.
Above(f) == IF f.pc \in {"prepare", "unregister"} THEN f.level + 1 ELSE f.level

Nested ==
    /\ \A d \in 1..Len(Live) : d < Len(Live) => /\ Waiting(Live[d])
                                                /\ Live[d + 1].level = Above(Live[d])
    /\ \A d, e \in 1..Len(Live) : d < e => Above(Live[d]) <= Live[e].level

\* A call that knows of a failure of its own.
Faulty(f) == ~f.execOk \/ f.end # "ok"

Sane(f) ==
    /\ ~f.execOk => f.pc \in {"asserts", "finish"} \/ f.end # "ok"
    /\ f.end # "ok" => f.pc = "unregister"

\* Nothing has failed in the innermost call but what it knows of, and nothing
\* in a call that is called by one that knows of none.
Failing ==
    /\ \A d \in 1..Len(Live) :
          /\ Live[d].before <= failures
          /\ failures = Live[d].before =>
                \A n \in (Live[d].from + 1)..Len(cmds) : cmds[n].ok
          /\ d = Len(Live) => failures = Live[d].before \/ Faulty(Live[d])
    /\ \A d, e \in 1..Len(Live) :
          d < e /\ (\A c \in d..(e - 1) : ~Faulty(Live[c])) => Live[e].before = Live[d].before

\* The commands after the a-th, up to the b-th, at level l.
Mine(a, b, l) == {n \in (a + 1)..b : cmds[n].level = l}

Deep(f) ==
    /\ f.from <= Len(cmds)
    /\ \A n \in (f.from + 1)..Len(cmds) : cmds[n].level >= f.level

Logs(f) == f.collects /\ ~broken => Ascending(f.logged) /\ Range(f.logged) = Own(f)

Quiet(f) == f.pc \in {"prepare", "log"} => Own(f) = {} /\ f.logged = <<>>

RanBody(f) ==
    /\ jobs[f.job].exec => \E n \in Own(f) : cmds[n].by = f.job
    /\ jobs[f.job].exec \/ f.called = Len(jobs[f.job].runs)

DidAll(f) ==
    jobs[f.job].steps = <<>> => RanBody(f) /\ f.asserted = jobs[f.job].asserts

Doing(f) ==
    /\ f.pc \in {"prepare", "log", "deps", "checkout", "steps"} => f.called = 0
    /\ f.pc = "exec" => jobs[f.job].exec
    /\ f.pc = "runs" => /\ ~jobs[f.job].exec
                        /\ f.i = f.called + 1 /\ f.i <= Len(jobs[f.job].runs) + 1
    /\ f.pc = "asserts" => RanBody(f)
    /\ f.pc = "finish" => DidAll(f)
    /\ f.pc = "unregister" /\ f.end = "ok" => f.res = "set" /\ DidAll(f)

\* Before its body a job has no output of its own.
Silent(f) ==
    /\ f.pc \in {"prepare", "log", "deps", "checkout", "exec"} => f.out = <<>>
    /\ f.pc = "checkout" => f.i = 1
    /\ f.pc = "steps" => /\ f.i >= 1 /\ f.i <= Len(jobs[f.job].steps) + 1
                         /\ f.i = 1 => f.out = <<>>

Good(f) == Sane(f) /\ Deep(f) /\ Logs(f) /\ Quiet(f) /\ Doing(f) /\ Silent(f)

Unchained == \A j \in DOMAIN jobs : ~Chained(j)

\* s lists members of S in ascending order, and all if no job chains its steps.
Covers(s, S) ==
    /\ Ascending(s)
    /\ Range(s) \subseteq S
    /\ Unchained => S \subseteq Range(s)

\* The output of f up to the e-th command: that of the jobs it depends on, then
\* that of its body, or all of it.
Writes(f, e) ==
    IF f.pc = "unregister"
    THEN f.end = "ok" => Covers(f.out, Mine(f.from, e, f.level))
    ELSE \E m \in f.from..e : /\ Covers(f.depOut, Mine(f.from, m, f.level))
                              /\ Covers(f.out, Mine(m, e, f.level))

\* The commands before the call above, or all.
Until(d) == IF d < Len(Live) THEN Live[d + 1].from ELSE Len(cmds)

IInv ==
    /\ TypeOK
    /\ Handed => ret.pc = "unregister"
    /\ ~Handed => stack # <<>>
    /\ Nested
    /\ Failing
    /\ \A d \in 1..Len(Live) : Good(Live[d]) /\ Writes(Live[d], Until(d))

-------------------------------------------------------------------------------
(* Frames *)

\* The fields in S are those of f.
Keep(f, g, S) == \A k \in S : g[k] = f[k]

Results == {"nil", "set"}
Ends == {"ok", "error", "panic"}

Fields ==
    {"job", "pc", "i", "item", "depRes", "depOut", "execOk", "res", "out", "from",
     "before", "level", "collects", "logged", "called", "asserted", "end"}

\* The frame of the same call.
Slot(f, g) == g.from = f.from /\ g.before = f.before /\ g.level = f.level

LEMMA Goto ==
    ASSUME NEW f \in Frames, NEW p \in Places
    PROVE  LET g == [f EXCEPT !.pc = p]
           IN  g \in Frames /\ g.pc = p /\ Keep(f, g, Fields \ {"pc"})
BY DEF Frames, Fields, Keep

LEMMA SetI ==
    ASSUME NEW f \in Frames, NEW n \in Nat
    PROVE  LET g == [f EXCEPT !.i = n]
           IN  g \in Frames /\ g.i = n /\ Keep(f, g, Fields \ {"i"})
BY DEF Frames, Fields, Keep

LEMMA SetItem ==
    ASSUME NEW f \in Frames, NEW n \in Nat
    PROVE  LET g == [f EXCEPT !.item = n]
           IN  g \in Frames /\ g.item = n /\ Keep(f, g, Fields \ {"item"})
BY DEF Frames, Fields, Keep

LEMMA SetDepOut ==
    ASSUME NEW f \in Frames, NEW o \in Seq(Nat)
    PROVE  LET g == [f EXCEPT !.depOut = o]
           IN  g \in Frames /\ g.depOut = o /\ Keep(f, g, Fields \ {"depOut"})
BY DEF Frames, Fields, Keep

LEMMA SetExecOk ==
    ASSUME NEW f \in Frames, NEW b \in BOOLEAN
    PROVE  LET g == [f EXCEPT !.execOk = b]
           IN  g \in Frames /\ g.execOk = b /\ Keep(f, g, Fields \ {"execOk"})
BY DEF Frames, Fields, Keep

LEMMA SetRes ==
    ASSUME NEW f \in Frames, NEW r \in Results
    PROVE  LET g == [f EXCEPT !.res = r]
           IN  g \in Frames /\ g.res = r /\ Keep(f, g, Fields \ {"res"})
BY DEF Frames, Fields, Keep, Results

LEMMA SetOut ==
    ASSUME NEW f \in Frames, NEW o \in Seq(Nat)
    PROVE  LET g == [f EXCEPT !.out = o]
           IN  g \in Frames /\ g.out = o /\ Keep(f, g, Fields \ {"out"})
BY DEF Frames, Fields, Keep

LEMMA SetCollects ==
    ASSUME NEW f \in Frames, NEW b \in BOOLEAN
    PROVE  LET g == [f EXCEPT !.collects = b]
           IN  g \in Frames /\ g.collects = b /\ Keep(f, g, Fields \ {"collects"})
BY DEF Frames, Fields, Keep

LEMMA SetLogged ==
    ASSUME NEW f \in Frames, NEW l \in Seq(Nat)
    PROVE  LET g == [f EXCEPT !.logged = l]
           IN  g \in Frames /\ g.logged = l /\ Keep(f, g, Fields \ {"logged"})
BY DEF Frames, Fields, Keep

LEMMA SetCalled ==
    ASSUME NEW f \in Frames, NEW n \in Nat
    PROVE  LET g == [f EXCEPT !.called = n]
           IN  g \in Frames /\ g.called = n /\ Keep(f, g, Fields \ {"called"})
BY DEF Frames, Fields, Keep

LEMMA SetAsserted ==
    ASSUME NEW f \in Frames, NEW n \in Nat
    PROVE  LET g == [f EXCEPT !.asserted = n]
           IN  g \in Frames /\ g.asserted = n /\ Keep(f, g, Fields \ {"asserted"})
BY DEF Frames, Fields, Keep

LEMMA SetDepRes ==
    ASSUME NEW f \in Frames
    PROVE  LET g == [f EXCEPT !.depRes = TRUE]
           IN  g \in Frames /\ g.depRes /\ Keep(f, g, Fields \ {"depRes"})
BY DEF Frames, Fields, Keep

LEMMA SetFirst ==
    ASSUME NEW f \in Frames
    PROVE  LET g == [f EXCEPT !.i = 1]
           IN  g \in Frames /\ g.i = 1 /\ Keep(f, g, Fields \ {"i"})
BY DEF Frames, Fields, Keep

LEMMA SetResult ==
    ASSUME NEW f \in Frames
    PROVE  LET g == [f EXCEPT !.res = "set"]
           IN  g \in Frames /\ g.res = "set" /\ Keep(f, g, Fields \ {"res"})
BY DEF Frames, Fields, Keep

LEMMA SetEnd ==
    ASSUME NEW f \in Frames, NEW e \in Ends
    PROVE  LET g == [f EXCEPT !.end = e]
           IN  g \in Frames /\ g.end = e /\ Keep(f, g, Fields \ {"end"})
BY DEF Frames, Fields, Keep, Ends

LEMMA LeftIs ==
    ASSUME NEW f \in Frames, NEW end \in Ends, NEW res \in Results, NEW out \in Seq(Nat)
    PROVE  LET g == [f EXCEPT !.pc = "unregister", !.i = 1, !.end = end,
                              !.res = res, !.out = out]
           IN  /\ g \in Frames /\ g.pc = "unregister" /\ g.end = end /\ g.res = res
               /\ g.out = out /\ Keep(f, g, Fields \ {"pc", "i", "end", "res", "out"})
<1> DEFINE g1 == [f EXCEPT !.pc = "unregister"]
           g2 == [g1 EXCEPT !.i = 1]
           g3 == [g2 EXCEPT !.end = end]
           g4 == [g3 EXCEPT !.res = res]
           g5 == [g4 EXCEPT !.out = out]
           g == [f EXCEPT !.pc = "unregister", !.i = 1, !.end = end,
                          !.res = res, !.out = out]
<1>1. g1 \in Frames /\ g1.pc = "unregister" /\ Keep(f, g1, Fields \ {"pc"})
  BY Goto DEF Places
<1>2. g = g5
  OBVIOUS
<1> HIDE DEF g1, g
<1>3. /\ g2 \in Frames /\ g2.pc = "unregister" /\ Keep(f, g2, Fields \ {"pc", "i"})
  BY <1>1, SetFirst DEF Keep, Fields
<1> HIDE DEF g2
<1>4. /\ g3 \in Frames /\ g3.pc = "unregister" /\ g3.end = end
      /\ Keep(f, g3, Fields \ {"pc", "i", "end"})
  BY <1>3, SetEnd DEF Keep, Fields
<1> HIDE DEF g3
<1>5. /\ g4 \in Frames /\ g4.pc = "unregister" /\ g4.end = end /\ g4.res = res
      /\ Keep(f, g4, Fields \ {"pc", "i", "end", "res"})
  BY <1>4, SetRes DEF Keep, Fields
<1> HIDE DEF g4
<1>6. /\ g5 \in Frames /\ g5.out = out /\ Keep(g4, g5, Fields \ {"out"})
  BY <1>5, SetOut
<1> HIDE DEF g5
<1>7. /\ g \in Frames /\ g.pc = "unregister" /\ g.end = end /\ g.res = res
      /\ g.out = out /\ Keep(f, g, Fields \ {"pc", "i", "end", "res", "out"})
  BY <1>2, <1>5, <1>6 DEF Keep, Fields
<1> QED
  BY <1>7 DEF g

-------------------------------------------------------------------------------
(* The stack and the chain of calls *)

LEMMA TopIs ==
    ASSUME stack \in Seq(Frames), stack # <<>>
    PROVE  /\ Len(stack) \in Nat \ {0} /\ Len(stack) \in 1..Len(stack)
           /\ Top = stack[Len(stack)] /\ Top \in Frames
BY DEF Top, Last

LEMMA FrontIs ==
    ASSUME NEW S, NEW s \in Seq(S), s # <<>>
    PROVE  /\ Front(s) \in Seq(S) /\ Len(Front(s)) = Len(s) - 1
           /\ Len(s) \in Nat \ {0} /\ Len(Front(s)) \in Nat
           /\ \A d \in 1..(Len(s) - 1) : Front(s)[d] = s[d]
<1>1. Len(s) \in Nat \ {0} /\ \A d \in 1..(Len(s) - 1) : s[d] \in S
  BY EmptySeq, ElementOfSeq
<1> DEFINE n == Len(s)
<1>2. /\ SubSeq(s, 1, n - 1) \in Seq(S)
      /\ Len(SubSeq(s, 1, n - 1)) = IF 1 <= n - 1 THEN n - 1 - 1 + 1 ELSE 0
      /\ \A d \in 1..(n - 1 - 1 + 1) : SubSeq(s, 1, n - 1)[d] = s[1 + d - 1]
  BY <1>1, SubSeqProperties
<1>3. Front(s) = SubSeq(s, 1, n - 1)
  BY DEF Front
<1>4. n \in Nat \ {0}
  BY <1>1
<1> HIDE DEF n
<1>5. Len(Front(s)) = n - 1
  BY <1>2, <1>3, <1>4
<1>6. \A d \in 1..(n - 1) : Front(s)[d] = s[d]
  <2> TAKE d \in 1..(n - 1)
  <2>1. d \in 1..(n - 1 - 1 + 1) /\ 1 + d - 1 = d
    BY <1>4
  <2> QED
    BY <2>1, <1>2, <1>3
<1> QED
  BY <1>2, <1>3, <1>4, <1>5, <1>6 DEF n

\* The frame on top is replaced by g, or g is what it returns.
Settles(g) ==
    \/ Becomes(g) /\ ret' = NoReturn
    \/ stack' = Front(stack) /\ ret' = g

LEMMA FramesReturn ==
    ASSUME NEW g \in Frames
    PROVE  g # NoReturn
<1>1. "pc" \in DOMAIN g /\ DOMAIN NoReturn = {"job"}
  BY DEF Frames, NoReturn
<1> QED
  BY <1>1

LEMMA LiveIs ==
    ASSUME TypeOK, ~Handed => stack # <<>>
    PROVE  /\ Live \in Seq(Frames) /\ Len(Live) \in Nat \ {0}
           /\ Len(stack) \in Nat /\ Len(stack) <= Len(Live)
           /\ Len(Live) = IF Handed THEN Len(stack) + 1 ELSE Len(stack)
           /\ \A d \in 1..Len(stack) : Live[d] = stack[d]
           /\ Handed => Live[Len(Live)] = ret
           /\ \A d \in 1..Len(Live) : Live[d] \in Frames
<1>1. stack \in Seq(Frames) /\ Len(stack) \in Nat
  BY DEF TypeOK
<1>2. CASE Handed
  <2>1. ret \in Frames /\ Live = Append(stack, ret)
    BY <1>2 DEF TypeOK, Handed, Live
  <2>2. /\ Live \in Seq(Frames) /\ Len(Live) = Len(stack) + 1
        /\ \A d \in 1..Len(stack) : Live[d] = stack[d]
        /\ Live[Len(stack) + 1] = ret
    BY <1>1, <2>1, AppendProperties
  <2> QED
    BY <1>1, <1>2, <2>2
<1>3. CASE ~Handed
  <2>1. Live = stack /\ Len(stack) # 0
    BY <1>1, <1>3, EmptySeq DEF Live
  <2> QED
    BY <1>1, <1>3, <2>1
<1> QED
  BY <1>2, <1>3

\* What a step without a command does: g is the last call now, the m-th, and
\* those before are as they were.
Changed(m, g) ==
    /\ Len(Live') = m /\ Live'[m] = g
    /\ \A d \in 1..(m - 1) : Live'[d] = Live[d]

LEMMA SettlesIs ==
    ASSUME TypeOK, stack # <<>>, NEW g \in Frames, Settles(g), UNCHANGED jobs
    PROVE  /\ stack' \in Seq(Frames) /\ ret' \in Frames \cup {NoReturn}
           /\ ~Handed' => stack' # <<>>
           /\ Handed' => ret' = g
           /\ Len(stack) \in 1..Len(Live) /\ Live[Len(stack)] = Top
           /\ Changed(Len(stack), g)
<1> DEFINE n == Len(stack)
<1>1. /\ Front(stack) \in Seq(Frames) /\ Len(Front(stack)) = n - 1
      /\ n \in Nat \ {0}
      /\ \A d \in 1..(n - 1) : Front(stack)[d] = stack[d]
  BY FrontIs DEF TypeOK
<1>2. /\ Len(Append(Front(stack), g)) = n
      /\ Append(Front(stack), g) \in Seq(Frames)
      /\ \A d \in 1..(n - 1) : Append(Front(stack), g)[d] = stack[d]
      /\ Append(Front(stack), g)[n] = g
  BY <1>1, AppendProperties
<1>3. /\ Top = stack[n] /\ n \in 1..Len(Live) /\ \A d \in 1..n : Live[d] = stack[d]
  BY <1>1, TopIs, LiveIs DEF TypeOK
<1>4. Live' = Append(Front(stack), g)
  <2>1. CASE Becomes(g) /\ ret' = NoReturn
    BY <2>1 DEF Becomes, Live, Handed
  <2>2. CASE stack' = Front(stack) /\ ret' = g
    BY <2>2, FramesReturn DEF Live, Handed
  <2> QED
    BY <2>1, <2>2 DEF Settles
<1>5. stack' \in Seq(Frames) /\ ret' \in Frames \cup {NoReturn}
  BY <1>1, <1>2 DEF Settles, Becomes
<1>6. ~Handed' => stack' # <<>>
  BY <1>1, <1>2, FramesReturn DEF Settles, Becomes, Handed
<1>7. Handed' => ret' = g
  BY DEF Settles, Handed
<1>8. Changed(n, g)
  BY <1>1, <1>2, <1>3, <1>4 DEF Changed
<1> QED
  BY <1>1, <1>3, <1>5, <1>6, <1>7, <1>8

LEMMA PushIs ==
    ASSUME TypeOK, stack # <<>>, ~Handed, NEW g \in Frames,
           stack' = Append(stack, g), UNCHANGED <<jobs, ret>>
    PROVE  /\ stack' \in Seq(Frames) /\ stack' # <<>> /\ ~Handed'
           /\ Len(Live) \in Nat \ {0} /\ Live[Len(Live)] = Top
           /\ Changed(Len(Live) + 1, g)
<1>1. stack \in Seq(Frames) /\ Len(stack) \in Nat \ {0} /\ Top = stack[Len(stack)]
  BY TopIs DEF TypeOK
<1>2. /\ stack' \in Seq(Frames) /\ Len(stack') = Len(stack) + 1
      /\ \A d \in 1..Len(stack) : stack'[d] = stack[d]
      /\ stack'[Len(stack) + 1] = g
  BY <1>1, AppendProperties
<1>3. ~Handed' /\ Live = stack /\ Live' = stack'
  BY DEF Handed, Live
<1> QED
  BY <1>1, <1>2, <1>3 DEF Changed

-------------------------------------------------------------------------------
(* Commands and the outputs that cover them *)

LEMMA MineSplit ==
    ASSUME NEW a \in Nat, NEW b \in Nat, NEW c \in Nat, a <= b, b <= c, NEW l
    PROVE  Mine(a, c, l) = Mine(a, b, l) \cup Mine(b, c, l)
<1>1. (a + 1)..c = ((a + 1)..b) \cup ((b + 1)..c)
  OBVIOUS
<1> QED
  BY <1>1 DEF Mine

LEMMA MineNone ==
    ASSUME NEW a \in Nat, NEW l
    PROVE  Mine(a, a, l) = {}
BY DEF Mine

LEMMA CoversNothing == Covers(<<>>, {})
BY DEF Covers, Ascending, Range

LEMMA CoversConcat ==
    ASSUME NEW a \in Nat, NEW b \in Nat, NEW c \in Nat, a <= b, b <= c, NEW l,
           NEW s \in Seq(Nat), NEW t \in Seq(Nat),
           Covers(s, Mine(a, b, l)), Covers(t, Mine(b, c, l))
    PROVE  s \o t \in Seq(Nat) /\ Covers(s \o t, Mine(a, c, l))
<1> DEFINE u == s \o t
           p == Len(s)
           q == Len(t)
<1>1. /\ u \in Seq(Nat) /\ Len(u) = p + q /\ p \in Nat /\ q \in Nat
      /\ \A n \in 1..(p + q) : u[n] = IF n <= p THEN s[n] ELSE t[n - p]
  BY ConcatProperties
<1>2. DOMAIN u = 1..(p + q) /\ DOMAIN s = 1..p /\ DOMAIN t = 1..q
  BY <1>1
<1> HIDE DEF u, p, q
<1>3. \A n \in 1..p : n \in 1..(p + q) /\ u[n] = s[n]
  BY <1>1
<1>4. \A n \in 1..q : n + p \in 1..(p + q) /\ u[n + p] = t[n]
  <2> TAKE n \in 1..q
  <2>1. n + p \in 1..(p + q) /\ ~(n + p <= p) /\ n + p - p = n
    BY <1>1
  <2> QED
    BY <1>1, <2>1
<1>5. \A n \in 1..(p + q) : \/ n \in 1..p /\ u[n] = s[n]
                            \/ n - p \in 1..q /\ n > p /\ u[n] = t[n - p]
  <2> TAKE n \in 1..(p + q)
  <2>1. CASE n <= p
    BY <1>1, <2>1
  <2>2. CASE ~(n <= p)
    BY <1>1, <2>2
  <2> QED
    BY <2>1, <2>2
<1>6. Range(u) = Range(s) \cup Range(t)
  <2>1. \A n \in 1..(p + q) : u[n] \in Range(s) \cup Range(t)
    BY <1>2, <1>5 DEF Range
  <2>2. \A n \in 1..p : s[n] \in Range(u)
    BY <1>2, <1>3 DEF Range
  <2>3. \A n \in 1..q : t[n] \in Range(u)
    BY <1>2, <1>4 DEF Range
  <2> QED
    BY <1>2, <2>1, <2>2, <2>3 DEF Range
<1>7. /\ \A n \in 1..p : s[n] \in Nat /\ s[n] <= b
      /\ \A n \in 1..q : t[n] \in Nat /\ b < t[n]
  <2>1. Range(s) \subseteq (a + 1)..b /\ Range(t) \subseteq (b + 1)..c
    BY DEF Covers, Mine
  <2>2. /\ \A n \in 1..p : s[n] \in (a + 1)..b
        /\ \A n \in 1..q : t[n] \in (b + 1)..c
    BY <1>2, <2>1 DEF Range
  <2> QED
    BY <2>2
<1>8. Ascending(u)
  <2> SUFFICES ASSUME NEW m \in 1..(p + q), NEW n \in 1..(p + q), m < n
               PROVE  u[m] < u[n]
    BY <1>2 DEF Ascending
  <2>1. CASE m \in 1..p /\ n \in 1..p
    BY <1>2, <1>3, <2>1 DEF Covers, Ascending
  <2>2. CASE m \in 1..p /\ n > p
    <3>1. ~(n \in 1..p)
      BY <1>1, <2>2
    <3>2. u[m] = s[m] /\ u[n] = t[n - p] /\ n - p \in 1..q
      BY <1>3, <1>5, <2>2, <3>1
    <3> QED
      BY <1>7, <2>2, <3>2
  <2>3. CASE m > p
    <3>1. ~(m \in 1..p) /\ ~(n \in 1..p) /\ m - p < n - p
      BY <1>1, <2>3
    <3>2. m - p \in 1..q /\ u[m] = t[m - p] /\ n - p \in 1..q /\ u[n] = t[n - p]
      BY <1>5, <3>1
    <3> QED
      BY <1>2, <3>1, <3>2 DEF Covers, Ascending
  <2>4. (m \in 1..p /\ n \in 1..p) \/ (m \in 1..p /\ n > p) \/ m > p
    BY <1>1
  <2> QED
    BY <2>1, <2>2, <2>3, <2>4
<1>9. Mine(a, c, l) = Mine(a, b, l) \cup Mine(b, c, l)
  BY MineSplit
<1> QED
  BY <1>1, <1>6, <1>8, <1>9 DEF Covers, u

\* One more entry, after all others.
LEMMA AscendingAppend ==
    ASSUME NEW s \in Seq(Nat), NEW n \in Nat, Ascending(s), \A k \in Range(s) : k < n
    PROVE  /\ Append(s, n) \in Seq(Nat) /\ Ascending(Append(s, n))
           /\ Range(Append(s, n)) = Range(s) \cup {n}
<1> DEFINE u == Append(s, n)
           p == Len(s)
<1>1. /\ u \in Seq(Nat) /\ Len(u) = p + 1 /\ p \in Nat
      /\ \A k \in 1..p : u[k] = s[k]
      /\ u[p + 1] = n
  BY AppendProperties
<1>2. DOMAIN u = 1..(p + 1) /\ DOMAIN s = 1..p
  BY <1>1
<1> HIDE DEF u, p
<1>3. \A k \in 1..(p + 1) : k \in 1..p \/ k = p + 1
  BY <1>1
<1>4. Range(u) = Range(s) \cup {n}
  <2>1. \A k \in 1..(p + 1) : u[k] \in Range(s) \cup {n}
    BY <1>1, <1>2, <1>3 DEF Range
  <2>2. p + 1 \in 1..(p + 1) /\ \A k \in 1..p : k \in 1..(p + 1)
    BY <1>1
  <2>3. n \in Range(u)
    BY <1>1, <1>2, <2>2 DEF Range
  <2>4. \A k \in 1..p : s[k] \in Range(u)
    BY <1>1, <1>2, <2>2 DEF Range
  <2> QED
    BY <1>2, <2>1, <2>3, <2>4 DEF Range
<1>5. Ascending(u)
  <2> SUFFICES ASSUME NEW j \in 1..(p + 1), NEW k \in 1..(p + 1), j < k
               PROVE  u[j] < u[k]
    BY <1>2 DEF Ascending
  <2>1. j \in 1..p
    BY <1>1
  <2>2. u[j] = s[j] /\ s[j] \in Range(s)
    BY <1>1, <1>2, <2>1 DEF Range
  <2>3. CASE k = p + 1
    BY <1>1, <2>2, <2>3
  <2>4. CASE k \in 1..p
    BY <1>1, <1>2, <2>1, <2>2, <2>4 DEF Ascending
  <2> QED
    BY <1>3, <2>3, <2>4
<1> QED
  BY <1>1, <1>4, <1>5 DEF u

\* The whole output of a call whose body has come to its end.
LEMMA WholeOutput ==
    ASSUME NEW f \in Frames, NEW e \in Nat, f.pc # "unregister", Writes(f, e)
    PROVE  /\ f.depOut \o f.out \in Seq(Nat)
           /\ Covers(f.depOut \o f.out, Mine(f.from, e, f.level))
<1>1. PICK m \in f.from..e : /\ Covers(f.depOut, Mine(f.from, m, f.level))
                             /\ Covers(f.out, Mine(m, e, f.level))
  BY DEF Writes
<1>2. /\ f.from \in Nat /\ m \in Nat /\ f.from <= m /\ m <= e
      /\ f.depOut \in Seq(Nat) /\ f.out \in Seq(Nat)
  BY <1>1 DEF Frames
<1> QED
  BY <1>1, <1>2, CoversConcat

-------------------------------------------------------------------------------
(* The kinds of steps *)

LEMMA JobsTyped ==
    ASSUME jobs \in Configs
    PROVE  /\ Root \in DOMAIN jobs
           /\ \A j \in DOMAIN jobs :
              /\ jobs[j].deps \in Seq([job : Names, items : Nat])
              /\ jobs[j].steps \in Seq(Names) /\ jobs[j].runs \in Seq(Names)
              /\ jobs[j].asserts \in Nat
              /\ Len(jobs[j].steps) \in Nat /\ Len(jobs[j].runs) \in Nat
<1>1. \A j \in DOMAIN jobs : jobs[j] \in Job
  OBVIOUS
<1>2. \A j \in DOMAIN jobs :
              /\ jobs[j].deps \in Seq([job : Names, items : Nat])
              /\ jobs[j].steps \in Seq(Names) /\ jobs[j].runs \in Seq(Names)
              /\ jobs[j].asserts \in Nat
  BY <1>1 DEF Job
<1>3. \A j \in DOMAIN jobs : Len(jobs[j].steps) \in Nat /\ Len(jobs[j].runs) \in Nat
  <2> TAKE j \in DOMAIN jobs
  <2>1. jobs[j].steps \in Seq(Names) /\ jobs[j].runs \in Seq(Names)
    BY <1>2
  <2> QED
    BY <2>1
<1> QED
  BY <1>2, <1>3

LEMMA FrameTyped ==
    ASSUME jobs \in Configs, cmds \in Seq([by : DOMAIN jobs, level : Nat, ok : BOOLEAN]),
           failures \in Nat, NEW name, NEW level \in Nat, NEW g, g = Frame(name, level)
    PROVE  /\ g \in Frames /\ g.pc = "prepare" /\ g.execOk /\ g.end = "ok"
           /\ ~g.collects /\ g.called = 0 /\ g.from = Len(cmds) /\ g.before = failures
           /\ g.level = level /\ g.logged = <<>> /\ g.out = <<>> /\ g.depOut = <<>>
<1>1. Resolve(name) \in DOMAIN jobs
  BY DEF Resolve
<1>2. <<>> \in Seq(Nat) /\ Len(cmds) \in Nat /\ "prepare" \in Places
  BY DEF Places
<1> QED
  BY <1>1, <1>2 DEF Frame, Frames

\* What the inductive invariant says, at one glance.
LEMMA Known ==
    ASSUME IInv
    PROVE  /\ TypeOK /\ jobs \in Configs /\ Len(cmds) \in Nat /\ failures \in Nat
           /\ Len(Live) \in Nat \ {0} /\ Len(Live) \in 1..Len(Live)
           /\ Len(Live) = IF Handed THEN Len(stack) + 1 ELSE Len(stack)
           /\ Handed => Live[Len(Live)] = ret
           /\ \A d \in 1..Len(Live) :
                 /\ Live[d] \in Frames /\ Good(Live[d]) /\ Writes(Live[d], Until(d))
                 /\ Live[d].level \in Nat /\ Live[d].from \in Nat /\ Live[d].before \in Nat
           /\ \A n \in 1..Len(cmds) : cmds[n].level \in Nat
<1>1. TypeOK /\ (~Handed => stack # <<>>)
  BY DEF IInv
<1>2. jobs \in Configs /\ Len(cmds) \in Nat /\ failures \in Nat
  BY <1>1 DEF TypeOK
<1>3. \A n \in 1..Len(cmds) : cmds[n].level \in Nat
  <2> TAKE n \in 1..Len(cmds)
  <2>1. cmds[n] \in [by : DOMAIN jobs, level : Nat, ok : BOOLEAN]
    BY <1>1, ElementOfSeq DEF TypeOK
  <2> QED
    BY <2>1
<1>4. \A d \in 1..Len(Live) : Live[d] \in Frames
  BY <1>1, LiveIs
<1>5. \A d \in 1..Len(Live) :
        Live[d].level \in Nat /\ Live[d].from \in Nat /\ Live[d].before \in Nat
  <2> TAKE d \in 1..Len(Live)
  <2>1. Live[d] \in Frames
    BY <1>4
  <2> QED
    BY <2>1 DEF Frames
<1> QED
  BY <1>1, <1>2, <1>3, <1>4, <1>5, LiveIs DEF IInv

\* What is good of a frame stays so unless a command is executed.
LEMMA GoodKept ==
    ASSUME NEW d, NEW g, Live'[d] = g, Good(g), UNCHANGED <<jobs, cmds>>, broken => broken'
    PROVE  Good(Live[d])'
BY DEF Good, Sane, Deep, Logs, Quiet, Doing, DidAll, RanBody, Silent, Own, Ascending

LEMMA WritesKept ==
    ASSUME NEW d, NEW g, NEW e, Live'[d] = g, Until(d)' = e, Writes(g, e),
           UNCHANGED <<jobs, cmds>>
    PROVE  Writes(Live[d], Until(d))'
BY DEF Writes, Covers, Ascending, Mine, Unchained, Chained

NewFrame(m, g) ==
    IF m <= Len(Live)
    THEN Slot(Live[m], g)
    ELSE /\ Waiting(Live[Len(Live)])
         /\ g.from = Len(cmds) /\ g.before = failures /\ g.level = Above(Live[Len(Live)])

LEMMA NestedKept ==
    ASSUME IInv, NEW m \in 1..(Len(Live) + 1), NEW g \in Frames, Changed(m, g),
           NewFrame(m, g), UNCHANGED jobs
    PROVE  Nested'
<1> DEFINE L == Len(Live)
<1>1. /\ L \in Nat \ {0} /\ m \in Nat \ {0} /\ m <= L + 1 /\ Len(Live') = m
      /\ \A d \in 1..L : Live[d] \in Frames /\ Live[d].level \in Nat
      /\ L \in 1..L
  BY Known DEF Changed
<1> HIDE DEF L
<1>2. ASSUME NEW d \in 1..m, d < m
      PROVE  d \in 1..L /\ Live'[d] = Live[d] /\ Waiting(Live[d])
  <2>1. d \in 1..(m - 1) /\ d \in 1..L
    BY <1>1, <1>2
  <2>2. Live'[d] = Live[d]
    BY <2>1 DEF Changed
  <2>3. Waiting(Live[d])
    <3>1. CASE d < L
      BY <2>1, <3>1 DEF IInv, Nested, L
    <3>2. CASE d = L
      <4>1. ~(m <= L)
        BY <1>1, <1>2, <3>2
      <4> QED
        BY <3>2, <4>1 DEF NewFrame, L
    <3> QED
      BY <1>1, <2>1, <3>1, <3>2
  <2> QED
    BY <2>1, <2>2, <2>3
<1>3. \A d \in 1..L : Above(Live[d]) \in Nat /\ Live[d].level <= Above(Live[d])
  BY <1>1 DEF Above
<1>4. \A d \in 1..m : d < m => Waiting(Live[d])'
  <2> TAKE d \in 1..m
  <2> HAVE d < m
  <2> QED
    BY <1>2 DEF Waiting
<1>5. \A d \in 1..m : d < m => Above(Live[d])' = Above(Live[d])
  BY <1>2 DEF Above
<1>6. ASSUME NEW d \in 1..m, NEW e \in 1..m, d < e
      PROVE  /\ Above(Live[d]) <= Live'[e].level
             /\ e = d + 1 => Live'[e].level = Above(Live[d])
  <2>1. d < m /\ d \in 1..L
    BY <1>1, <1>2, <1>6
  <2>2. CASE e \in 1..L
    <3>1. Live'[e].level = Live[e].level
      <4>1. CASE e < m
        BY <1>2, <4>1
      <4>2. CASE e = m
        BY <1>1, <2>2, <4>2 DEF NewFrame, L, Changed, Slot
      <4> QED
        BY <1>1, <4>1, <4>2
    <3>2. d < L
      BY <1>1, <1>6, <2>2
    <3>3. Above(Live[d]) <= Live[e].level
      BY <1>6, <2>1, <2>2 DEF IInv, Nested, L
    <3>4. e = d + 1 => Live[e].level = Above(Live[d])
      BY <2>1, <3>2 DEF IInv, Nested, L
    <3> QED
      BY <3>1, <3>3, <3>4
  <2>3. CASE ~(e \in 1..L)
    <3>1. e = L + 1 /\ m = L + 1 /\ ~(m <= L)
      BY <1>1, <2>3
    <3>2. Live'[e].level = Above(Live[L])
      BY <3>1 DEF NewFrame, L, Changed
    <3>3. CASE d = L
      BY <1>1, <1>3, <3>2, <3>3
    <3>4. CASE d < L
      <4>1. Above(Live[d]) <= Live[L].level
        BY <1>1, <2>1, <3>4 DEF IInv, Nested, L
      <4>2. Above(Live[d]) <= Above(Live[L]) /\ e # d + 1
        BY <1>1, <1>3, <2>1, <3>1, <3>4, <4>1
      <4> QED
        BY <3>2, <4>2
    <3> QED
      BY <1>1, <2>1, <3>3, <3>4
  <2> QED
    BY <2>2, <2>3
<1>7. \A d \in 1..m : d < m => Live'[d + 1].level = Above(Live[d])'
  <2> TAKE d \in 1..m
  <2> HAVE d < m
  <2>1. d + 1 \in 1..m /\ d < d + 1
    BY <1>1
  <2> QED
    BY <1>5, <1>6, <2>1
<1>8. \A d, e \in 1..m : d < e => Above(Live[d])' <= Live'[e].level
  <2> TAKE d, e \in 1..m
  <2> HAVE d < e
  <2>1. d < m
    BY <1>1
  <2> QED
    BY <1>5, <1>6, <2>1
<1> QED
  BY <1>1, <1>4, <1>7, <1>8 DEF Nested

LEMMA FailingKept ==
    ASSUME IInv, NEW m \in 1..(Len(Live) + 1), NEW g \in Frames, Changed(m, g),
           NewFrame(m, g), UNCHANGED cmds,
           failures' \in {failures, failures + 1}, failures' = g.before \/ Faulty(g)
    PROVE  Failing'
<1> DEFINE L == Len(Live)
<1>1. /\ L \in Nat \ {0} /\ m \in Nat \ {0} /\ m <= L + 1 /\ Len(Live') = m
      /\ failures \in Nat /\ failures' \in Nat /\ failures <= failures'
      /\ \A d \in 1..L : /\ Live[d].before \in Nat /\ Live[d].before <= failures
                         /\ failures = Live[d].before =>
                              \A n \in (Live[d].from + 1)..Len(cmds) : cmds[n].ok
      /\ L \in 1..L
  BY Known DEF IInv, Failing, Changed
<1> HIDE DEF L
<1>2. \A d \in 1..m : d < m => d \in 1..L /\ Live'[d] = Live[d]
  BY <1>1 DEF Changed, L
<1>3. Live'[m] = g /\ m \in 1..m
  BY <1>1 DEF Changed
<1>4. ASSUME NEW d \in 1..m
      PROVE  /\ Live'[d].before \in Nat /\ Live'[d].before <= failures
             /\ failures = Live'[d].before =>
                  \A n \in (Live'[d].from + 1)..Len(cmds) : cmds[n].ok
  <2>1. CASE d \in 1..L
    <3>1. Live'[d].before = Live[d].before /\ Live'[d].from = Live[d].from
      <4>1. CASE d < m
        BY <1>2, <4>1
      <4>2. CASE d = m
        BY <1>1, <1>3, <2>1, <4>2 DEF NewFrame, Slot, L
      <4> QED
        BY <1>1, <4>1, <4>2
    <3> QED
      BY <1>1, <2>1, <3>1
  <2>2. CASE ~(d \in 1..L)
    <3>1. d = m /\ ~(m <= L)
      BY <1>1, <2>2
    <3>2. Live'[d].before = failures /\ Live'[d].from = Len(cmds)
      BY <1>3, <3>1 DEF NewFrame, L
    <3>3. (Len(cmds) + 1)..Len(cmds) = {}
      <4>1. Len(cmds) \in Nat
        BY Known
      <4> QED
        BY <4>1
    <3> QED
      BY <1>1, <3>2, <3>3
  <2> QED
    BY <2>1, <2>2
<1>5. \A d \in 1..m :
         /\ Live'[d].before <= failures'
         /\ failures' = Live'[d].before =>
              \A n \in (Live'[d].from + 1)..Len(cmds) : cmds[n].ok
  BY <1>1, <1>4
<1>6. ASSUME NEW d \in 1..m, NEW e \in 1..m, d < e,
             \A c \in d..(e - 1) : ~Faulty(Live[c])'
      PROVE  Live'[e].before = Live'[d].before
  <2>1. d \in 1..L /\ Live'[d] = Live[d] /\ d < m
    BY <1>1, <1>2, <1>6
  <2>2. \A c \in d..(e - 1) : ~Faulty(Live[c])
    <3> TAKE c \in d..(e - 1)
    <3>1. c \in 1..m /\ c < m
      BY <1>1, <1>6
    <3> QED
      BY <1>2, <1>6, <3>1 DEF Faulty
  <2>3. CASE e \in 1..L
    <3>1. Live'[e].before = Live[e].before
      <4>1. CASE e < m
        BY <1>2, <4>1
      <4>2. CASE e = m
        BY <1>1, <1>3, <2>3, <4>2 DEF NewFrame, Slot, L
      <4> QED
        BY <1>1, <4>1, <4>2
    <3> QED
      BY <1>6, <2>1, <2>2, <2>3, <3>1 DEF IInv, Failing, L
  <2>4. CASE ~(e \in 1..L)
    <3>1. e = m /\ e = L + 1 /\ ~(m <= L)
      BY <1>1, <2>4
    <3>2. Live'[e].before = failures
      BY <1>3, <3>1 DEF NewFrame, L
    <3>3. L \in d..(e - 1) /\ L \in 1..L
      BY <1>1, <2>1, <3>1
    <3>4. failures = Live[L].before
      BY <2>2, <3>3 DEF IInv, Failing, L
    <3>5. CASE d = L
      BY <2>1, <3>2, <3>4, <3>5
    <3>6. CASE d < L
      <4>1. \A c \in d..(L - 1) : ~Faulty(Live[c])
        BY <1>1, <2>2, <3>1
      <4>2. Live[L].before = Live[d].before
        BY <2>1, <3>3, <3>6, <4>1 DEF IInv, Failing, L
      <4> QED
        BY <2>1, <3>2, <3>4, <4>2
    <3> QED
      BY <1>1, <2>1, <3>5, <3>6
  <2> QED
    BY <2>3, <2>4
<1>7. failures' = Live'[m].before \/ Faulty(Live[m])'
  BY <1>3 DEF Faulty
<1> QED
  BY <1>1, <1>5, <1>6, <1>7 DEF Failing

\* A step in which no command is executed.
LEMMA ByChanging ==
    ASSUME IInv, TypeOK', NEW m \in 1..(Len(Live) + 1), NEW g \in Frames, Changed(m, g),
           NewFrame(m, g), UNCHANGED <<jobs, cmds>>, broken => broken',
           failures' \in {failures, failures + 1}, failures' = g.before \/ Faulty(g),
           Good(g), Writes(g, Len(cmds)),
           Handed' => ret'.pc = "unregister", ~Handed' => stack' # <<>>
    PROVE  IInv'
<1> DEFINE L == Len(Live)
<1>1. /\ L \in Nat \ {0} /\ m \in Nat \ {0} /\ m <= L + 1 /\ Len(Live') = m
      /\ Live'[m] = g
      /\ \A d \in 1..L : Good(Live[d]) /\ Writes(Live[d], Until(d))
      /\ \A d \in 1..(m - 1) : Live'[d] = Live[d]
  BY Known DEF Changed
<1> HIDE DEF L
<1>2. ASSUME NEW d \in 1..m PROVE (Good(Live[d]) /\ Writes(Live[d], Until(d)))'
  <2>1. CASE d = m
    <3>1. Live'[d] = g /\ Until(d)' = Len(cmds)
      BY <1>1, <2>1 DEF Until
    <3> QED
      BY <3>1, GoodKept, WritesKept
  <2>2. CASE d # m
    <3>1. d < m /\ d \in 1..(m - 1) /\ d \in 1..L /\ d + 1 \in 1..m
      BY <1>1, <2>2
    <3>2. Live'[d] = Live[d] /\ Good(Live[d]) /\ Writes(Live[d], Until(d))
      BY <1>1, <3>1
    <3>3. Until(d)' = Live'[d + 1].from
      BY <1>1, <3>1 DEF Until
    <3>4. Live'[d + 1].from = Until(d)
      <4>1. CASE d + 1 < m
        <5>1. d + 1 \in 1..(m - 1) /\ d < L
          BY <1>1, <3>1, <4>1
        <5> QED
          BY <1>1, <5>1 DEF Until, L
      <4>2. CASE d + 1 = m /\ m <= L
        <5>1. d < L
          BY <1>1, <3>1, <4>2
        <5> QED
          BY <1>1, <4>2, <5>1 DEF Until, L, NewFrame, Slot
      <4>3. CASE d + 1 = m /\ ~(m <= L)
        <5>1. ~(d < L)
          BY <1>1, <4>3
        <5> QED
          BY <1>1, <4>3, <5>1 DEF Until, L, NewFrame
      <4> QED
        BY <1>1, <3>1, <4>1, <4>2, <4>3
    <3> QED
      BY <3>2, <3>3, <3>4, GoodKept, WritesKept
  <2> QED
    BY <2>1, <2>2
<1>3. Nested' /\ Failing'
  BY NestedKept, FailingKept
<1> QED
  BY <1>1, <1>2, <1>3 DEF IInv

\* What is known of the innermost call.
LEMMA TopIsGood ==
    ASSUME IInv, stack # <<>>
    PROVE  /\ Top \in Frames /\ Good(Top) /\ Top.job \in DOMAIN jobs
           /\ Len(stack) \in 1..Len(Live) /\ Live[Len(stack)] = Top
           /\ ~Handed => Writes(Top, Len(cmds)) /\ Len(stack) = Len(Live)
           /\ Handed => /\ Writes(Top, ret.from) /\ Waiting(Top)
                        /\ Len(Live) = Len(stack) + 1
           /\ Top.from \in Nat /\ Top.level \in Nat /\ Top.before \in Nat
           /\ Top.from <= Len(cmds) /\ Top.i \in Nat
           /\ {"log", "deps", "checkout", "steps", "exec", "runs", "asserts", "finish"}
                \subseteq Places
<1>1. /\ Len(stack) \in Nat \ {0} /\ Top = stack[Len(stack)] /\ Top \in Frames
  BY TopIs DEF IInv, TypeOK
<1>2. /\ Len(Live) = IF Handed THEN Len(stack) + 1 ELSE Len(stack)
      /\ Len(stack) \in 1..Len(Live) /\ Live[Len(stack)] = Top
      /\ Handed => Live[Len(Live)] = ret
  BY <1>1, LiveIs DEF IInv
<1>3. Good(Top) /\ Writes(Top, Until(Len(stack)))
  BY <1>2, Known
<1>4. Until(Len(stack)) = IF Handed THEN ret.from ELSE Len(cmds)
  BY <1>1, <1>2 DEF Until
<1>5. Handed => Waiting(Top)
  BY <1>1, <1>2 DEF IInv, Nested
<1>6. /\ Top.job \in DOMAIN jobs /\ Top.from \in Nat /\ Top.level \in Nat
      /\ Top.before \in Nat /\ Top.i \in Nat
  BY <1>1 DEF Frames
<1> QED
  BY <1>1, <1>2, <1>3, <1>4, <1>5, <1>6 DEF Good, Deep, Places

\* What is known of the call that has just returned.
LEMMA RetIsGood ==
    ASSUME IInv, Handed
    PROVE  /\ ret \in Frames /\ ret.pc = "unregister" /\ Good(ret) /\ Writes(ret, Len(cmds))
           /\ ret.from \in Nat /\ ret.level \in Nat /\ ret.from <= Len(cmds)
           /\ ret.end = "ok" => failures = ret.before
           /\ stack # <<>> => ret.level = Above(Top)
<1>1. Live[Len(Live)] = ret /\ Len(Live) \in 1..Len(Live) /\ Len(Live) \in Nat
  BY Known
<1>2. Until(Len(Live)) = Len(cmds)
  BY <1>1 DEF Until
<1>3. /\ ret \in Frames /\ Good(ret) /\ Writes(ret, Len(cmds))
      /\ ret.from \in Nat /\ ret.level \in Nat
  BY <1>1, <1>2, Known
<1>4. ret.pc = "unregister" /\ (failures = ret.before \/ Faulty(ret))
  BY <1>1 DEF IInv, Failing
<1>5. ret.end = "ok" => ~Faulty(ret)
  BY <1>3, <1>4 DEF Good, Sane, Faulty
<1>6. ASSUME stack # <<>> PROVE ret.level = Above(Top)
  <2>1. Len(stack) \in 1..Len(Live) /\ Live[Len(stack)] = Top /\ Len(Live) = Len(stack) + 1
    BY <1>6, TopIsGood
  <2>2. Len(stack) < Len(Live)
    BY <2>1
  <2>3. Live[Len(stack) + 1].level = Above(Live[Len(stack)])
    BY <2>1, <2>2 DEF IInv, Nested
  <2> QED
    BY <1>1, <2>1, <2>3
<1> QED
  BY <1>3, <1>4, <1>5, <1>6 DEF Good, Deep

\* A call of which nothing it called has failed.
LEMMA Clean ==
    ASSUME IInv, stack # <<>>, ~Handed \/ ret.end = "ok"
    PROVE  failures = Top.before \/ Faulty(Top)
<1>1. Len(stack) \in 1..Len(Live) /\ Live[Len(stack)] = Top
  BY TopIsGood
<1>2. CASE ~Handed
  BY <1>1, <1>2, TopIsGood DEF IInv, Failing
<1>3. CASE Handed
  <2>1. failures = ret.before /\ Live[Len(Live)] = ret /\ Len(Live) \in 1..Len(Live)
    BY <1>3, RetIsGood, Known
  <2>2. Len(Live) = Len(stack) + 1 /\ Len(stack) \in Nat
    BY <1>1, <1>3, TopIsGood
  <2>3. Len(stack) < Len(Live) /\ \A c \in Len(stack)..(Len(Live) - 1) : c = Len(stack)
    BY <2>2
  <2>4. ~Faulty(Top) => Live[Len(Live)].before = Live[Len(stack)].before
    BY <1>1, <2>1, <2>3 DEF IInv, Failing
  <2> QED
    BY <1>1, <2>1, <2>4
<1> QED
  BY <1>2, <1>3

\* The frame on top is replaced, or returned.
LEMMA BySettling ==
    ASSUME IInv, stack # <<>>, NEW g \in Frames, Slot(Top, g), Settles(g),
           Handed' => g.pc = "unregister",
           UNCHANGED <<jobs, cmds>>, broken' \in {TRUE, broken},
           failures' \in {failures, failures + 1}, failures' = g.before \/ Faulty(g),
           Good(g), Writes(g, Len(cmds))
    PROVE  IInv'
<1>1. /\ stack' \in Seq(Frames) /\ ret' \in Frames \cup {NoReturn}
      /\ ~Handed' => stack' # <<>>
      /\ Handed' => ret' = g
      /\ Len(stack) \in 1..Len(Live) /\ Live[Len(stack)] = Top
      /\ Changed(Len(stack), g)
  BY SettlesIs DEF IInv
<1>2. Frames' = Frames
  BY DEF Frames
<1>3. TypeOK'
  <2>1. failures' \in Nat
    BY DEF IInv, TypeOK
  <2>2. broken' \in BOOLEAN
    BY Zenon DEF IInv, TypeOK
  <2> QED
    BY <1>1, <1>2, <2>1, <2>2 DEF IInv, TypeOK
<1>4. Len(Live) \in Nat /\ Len(stack) \in 1..(Len(Live) + 1) /\ Len(stack) <= Len(Live)
  BY <1>1, Known
<1>5. NewFrame(Len(stack), g)
  BY <1>1, <1>4 DEF NewFrame
<1>6. broken => broken'
  BY DEF IInv, TypeOK
<1> QED
  BY <1>1, <1>3, <1>4, <1>5, <1>6, ByChanging

\* The innermost call goes on.
LEMMA ByProceeding ==
    ASSUME IInv, stack # <<>>, ~Handed \/ ret.end = "ok", NEW g \in Frames,
           Keep(Top, g, {"from", "before", "level", "execOk", "end"}),
           Good(g), Writes(g, Len(cmds)), (Proceed(g) /\ ~Handed) \/ Resume(g)
    PROVE  IInv'
<1>1. Slot(Top, g) /\ (Faulty(g) <=> Faulty(Top)) /\ g.before = Top.before
  BY DEF Keep, Slot, Faulty
<1>2. ret' = NoReturn /\ Becomes(g) /\ UNCHANGED <<jobs, cmds, failures, broken>>
  BY DEF Proceed, Resume, Handed
<1>3. ~Handed' /\ Settles(g)
  BY <1>2 DEF Handed, Settles
<1>4. failures' = g.before \/ Faulty(g)
  BY <1>1, <1>2, Clean
<1> QED
  BY <1>1, <1>2, <1>3, <1>4, BySettling

\* The innermost call leaves.
LEMMA ByLeaving ==
    ASSUME IInv, stack # <<>>, NEW f \in Frames, Slot(Top, f), f.end = "ok",
           Deep(f), Logs(f), NEW end \in Ends, NEW res \in Results, NEW out \in Seq(Nat),
           Leave(f, end, res, out), UNCHANGED <<jobs, cmds>>, broken' \in {TRUE, broken},
           failures' \in {failures, failures + 1},
           end = "ok" => /\ f.execOk /\ failures' = Top.before /\ res = "set" /\ DidAll(f)
                         /\ Covers(out, Own(f))
    PROVE  IInv'
<1> DEFINE g == [f EXCEPT !.pc = "unregister", !.i = 1, !.end = end,
                          !.res = res, !.out = out]
<1>1. Settles(g)
  BY DEF Leave, Settles, Becomes
<1>3. /\ g \in Frames /\ g.pc = "unregister" /\ g.end = end /\ g.res = res
      /\ g.out = out /\ Keep(f, g, Fields \ {"pc", "i", "end", "res", "out"})
  BY LeftIs
<1> HIDE DEF g
<1>4. Slot(Top, g) /\ Slot(f, g)
  BY <1>3 DEF Slot, Keep, Fields
<1>5. Good(g)
  <2>1. Sane(g)
    BY <1>3 DEF Sane, Keep, Fields
  <2>2. Deep(g) /\ Logs(g) /\ Own(g) = Own(f)
    BY <1>3 DEF Deep, Logs, Own, Keep, Fields
  <2>3. DidAll(f) => DidAll(g)
    BY <1>3 DEF DidAll, RanBody, Own, Keep, Fields
  <2> QED
    BY <1>3, <2>1, <2>2, <2>3 DEF Good, Quiet, Doing, Silent
<1>6. Writes(g, Len(cmds))
  BY <1>3 DEF Writes, Own, Mine, Keep, Fields
<1>7. failures' = g.before \/ Faulty(g)
  BY <1>3, <1>4 DEF Slot, Faulty
<1> QED
  BY <1>1, <1>3, <1>4, <1>5, <1>6, <1>7, BySettling

\* The innermost call fails or panics.
LEMMA ByFailing ==
    ASSUME IInv, stack # <<>>, NEW f \in Frames, Slot(Top, f), f.end = "ok",
           Deep(f), Logs(f), NEW end \in Ends \ {"ok"}, Leave(f, end, "nil", <<>>),
           UNCHANGED <<jobs, cmds>>, broken' \in {TRUE, broken},
           failures' \in {failures, failures + 1}
    PROVE  IInv'
<1>1. <<>> \in Seq(Nat) /\ "nil" \in Results /\ end \in Ends
  BY DEF Results
<1> QED
  BY <1>1, ByLeaving

LEMMA FailKeeps ==
    ASSUME IInv, stack # <<>>, Top.pc # "unregister", Fail, broken' \in {TRUE, broken}
    PROVE  IInv'
<1>1. Top \in Frames /\ Deep(Top) /\ Logs(Top) /\ Top.end = "ok" /\ Slot(Top, Top)
  BY TopIsGood DEF Good, Sane, Slot
<1>2. "error" \in Ends \ {"ok"}
  BY DEF Ends
<1> QED
  BY <1>1, <1>2, ByFailing DEF Fail, FailAs

\* A call is pushed.
LEMMA ByPushing ==
    ASSUME IInv, stack # <<>>, ~Handed, Waiting(Top), NEW name,
           Push(Frame(name, Above(Top)))
    PROVE  IInv'
<1> DEFINE g == Frame(name, Above(Top))
<1>1. g = Frame(name, Above(Top)) /\ stack' = Append(stack, g)
      /\ UNCHANGED <<jobs, ret, cmds, failures, broken>>
  BY DEF Push
<1> HIDE DEF g
<1>2. Above(Top) \in Nat /\ jobs \in Configs
      /\ cmds \in Seq([by : DOMAIN jobs, level : Nat, ok : BOOLEAN]) /\ failures \in Nat
  BY TopIsGood DEF Above, IInv, TypeOK
<1>3. /\ g \in Frames /\ g.pc = "prepare" /\ g.execOk /\ g.end = "ok"
      /\ ~g.collects /\ g.called = 0 /\ g.from = Len(cmds) /\ g.before = failures
      /\ g.level = Above(Top) /\ g.logged = <<>> /\ g.out = <<>> /\ g.depOut = <<>>
  BY <1>1, <1>2, FrameTyped
<1>4. /\ stack' \in Seq(Frames) /\ stack' # <<>> /\ ~Handed'
      /\ Len(Live) \in Nat \ {0} /\ Live[Len(Live)] = Top
      /\ Changed(Len(Live) + 1, g)
  BY <1>1, <1>3, PushIs DEF IInv
<1>5. Frames' = Frames
  BY <1>1 DEF Frames
<1>6. TypeOK'
  BY <1>1, <1>4, <1>5 DEF IInv, TypeOK
<1>7. NewFrame(Len(Live) + 1, g)
  <2>1. ~(Len(Live) + 1 <= Len(Live))
    BY <1>4
  <2> QED
    BY <1>3, <1>4, <2>1 DEF NewFrame
<1>8. Len(cmds) \in Nat /\ (Len(cmds) + 1)..Len(cmds) = {}
  BY Known
<1>9. Good(g)
  BY <1>3, <1>8 DEF Good, Sane, Deep, Logs, Quiet, Own, Doing, Silent
<1>10. Writes(g, Len(cmds))
  <2>1. Mine(Len(cmds), Len(cmds), g.level) = {} /\ Len(cmds) \in Len(cmds)..Len(cmds)
    BY <1>8 DEF Mine
  <2> QED
    BY <1>3, <2>1, CoversNothing DEF Writes
<1>11. Len(Live) + 1 \in 1..(Len(Live) + 1)
  BY <1>4
<1>12. failures' = g.before /\ failures' \in {failures, failures + 1} /\ (broken => broken')
  BY <1>1, <1>3
<1> QED
  BY <1>1, <1>3, <1>4, <1>6, <1>7, <1>9, <1>10, <1>11, <1>12, ByChanging

\* A call is pushed, or its event is not delivered.
LEMMA ByCalling ==
    ASSUME IInv, stack # <<>>, ~Handed, Waiting(Top), Top.pc \in {"deps", "steps", "runs"},
           NEW name, Call(name)
    PROVE  IInv'
<1>1. CASE EventLost /\ Fail
  BY <1>1, FailKeeps DEF EventLost
<1>2. CASE Push(Frame(name, Top.level))
  BY <1>2, ByPushing DEF Above
<1> QED
  BY <1>1, <1>2 DEF Call

LEMMA ByCallingAside ==
    ASSUME IInv, stack # <<>>, ~Handed, Top.pc \in {"prepare", "unregister"},
           NEW name, CallAside(name)
    PROVE  IInv'
BY ByPushing DEF CallAside, Above, Waiting

-------------------------------------------------------------------------------
(* The actions *)

\* A call that goes on without output has written what it had.
LEMMA StillWrites ==
    ASSUME IInv, stack # <<>>, ~Handed, Top.pc # "unregister", NEW g, g.pc # "unregister",
           Keep(Top, g, {"from", "level", "depOut", "out"})
    PROVE  Writes(g, Len(cmds))
BY TopIsGood DEF Writes, Keep

\* What is executed for a config or for a log is no output of the call.
LEMMA AsideWrites ==
    ASSUME IInv, stack # <<>>, Handed, Top.pc \in {"prepare", "unregister"}, NEW g,
           Keep(Top, g, {"pc", "from", "level", "depOut", "out", "end"})
    PROVE  Writes(g, Len(cmds))
<1>1. /\ Top.from \in Nat /\ Top.level \in Nat /\ Len(cmds) \in Nat
      /\ Writes(Top, ret.from) /\ \A n \in 1..Len(cmds) : cmds[n].level \in Nat
  BY TopIsGood, Known
<1>2. /\ ret.from \in Nat /\ ret.from <= Len(cmds) /\ Deep(ret)
      /\ ret.level = Top.level + 1 /\ ret.level \in Nat
  BY RetIsGood DEF Above, Good
<1>3. \A n \in (ret.from + 1)..Len(cmds) : cmds[n].level # Top.level
  <2> TAKE n \in (ret.from + 1)..Len(cmds)
  <2>1. n \in 1..Len(cmds) /\ cmds[n].level >= ret.level
    BY <1>1, <1>2 DEF Deep
  <2> QED
    BY <1>1, <1>2, <2>1
<1>4. \A a \in Nat : Mine(a, Len(cmds), Top.level) = Mine(a, ret.from, Top.level)
  <2> TAKE a \in Nat
  <2>1. \A n \in (a + 1)..Len(cmds) : n \in (a + 1)..ret.from \/ n \in (ret.from + 1)..Len(cmds)
    BY <1>1, <1>2
  <2>2. (a + 1)..ret.from \subseteq (a + 1)..Len(cmds)
    BY <1>1, <1>2
  <2> QED
    BY <1>3, <2>1, <2>2 DEF Mine
<1>5. CASE Top.pc = "unregister"
  BY <1>1, <1>4, <1>5 DEF Writes, Keep
<1>6. CASE Top.pc = "prepare"
  <2>1. PICK m \in Top.from..ret.from :
               /\ Covers(Top.depOut, Mine(Top.from, m, Top.level))
               /\ Covers(Top.out, Mine(m, ret.from, Top.level))
    BY <1>1, <1>6 DEF Writes
  <2>2. m \in Nat /\ m \in Top.from..Len(cmds)
    BY <1>1, <1>2
  <2>3. Mine(m, Len(cmds), Top.level) = Mine(m, ret.from, Top.level)
    BY <1>4, <2>2
  <2> QED
    BY <1>6, <2>1, <2>2, <2>3 DEF Writes, Keep
<1> QED
  BY <1>5, <1>6

\* The output of a job that was called, as that of its caller.
LEMMA RetCovers ==
    ASSUME IInv, stack # <<>>, Handed, ret.end = "ok", Top.pc \in {"deps", "steps", "runs"}
    PROVE  /\ ret.out \in Seq(Nat) /\ ret.from \in Nat /\ ret.from <= Len(cmds)
           /\ Covers(ret.out, Mine(ret.from, Len(cmds), Top.level))
<1>1. ret.level = Top.level
  BY RetIsGood DEF Above
<1>2. Covers(ret.out, Mine(ret.from, Len(cmds), ret.level))
  BY RetIsGood DEF Writes
<1>3. ret.out \in Seq(Nat)
  BY RetIsGood DEF Frames
<1> QED
  BY <1>1, <1>2, <1>3, RetIsGood

\* What the job on top and the one it called have written.
LEMMA TopCovers ==
    ASSUME IInv, stack # <<>>, Handed, ret.end = "ok", Top.pc \in {"deps", "steps", "runs"}
    PROVE  \E m \in Nat :
              /\ Top.from <= m /\ m <= ret.from /\ ret.from <= Len(cmds)
              /\ Covers(Top.depOut, Mine(Top.from, m, Top.level))
              /\ Covers(Top.out, Mine(m, ret.from, Top.level))
              /\ Top.out \o ret.out \in Seq(Nat)
              /\ Covers(Top.out \o ret.out, Mine(m, Len(cmds), Top.level))
<1>1. Top.from \in Nat /\ Len(cmds) \in Nat /\ Top \in Frames /\ Writes(Top, ret.from)
  BY TopIsGood, Known
<1>2. /\ ret.out \in Seq(Nat) /\ ret.from \in Nat /\ ret.from <= Len(cmds)
      /\ Covers(ret.out, Mine(ret.from, Len(cmds), Top.level))
  BY RetCovers
<1>3. PICK m \in Top.from..ret.from :
             /\ Covers(Top.depOut, Mine(Top.from, m, Top.level))
             /\ Covers(Top.out, Mine(m, ret.from, Top.level))
  BY <1>1 DEF Writes
<1>4. m \in Nat /\ Top.from <= m /\ m <= ret.from
  BY <1>1, <1>2
<1>5. Top.out \in Seq(Nat)
  BY <1>1 DEF Frames
<1>6. /\ Top.out \o ret.out \in Seq(Nat)
      /\ Covers(Top.out \o ret.out, Mine(m, Len(cmds), Top.level))
  BY <1>1, <1>2, <1>3, <1>4, <1>5, CoversConcat
<1> QED
  BY <1>2, <1>3, <1>4, <1>6

LEMMA CallConfigKeeps == ASSUME IInv, CallConfig PROVE IInv'
<1>1. /\ stack # <<>> /\ Top.pc = "prepare" /\ ~Handed
      /\ CallAside(ConfigsOf(Top)[Top.i]) \/ FailUnbroken
  BY DEF CallConfig, At, Handed
<1> QED
  BY <1>1, ByCallingAside, FailKeeps DEF FailUnbroken

LEMMA ConfigReturnedKeeps == ASSUME IInv, ConfigReturned PROVE IInv'
<1> DEFINE n == Top.i + 1
           g == [Top EXCEPT !.i = n]
<1>1. stack # <<>> /\ Top.pc = "prepare" /\ Handed /\ ret.end = "ok" /\ Resume(g)
  BY DEF ConfigReturned, Succeeded, Returned, Handed
<1>2. Top \in Frames /\ Good(Top) /\ n \in Nat
  BY <1>1, TopIsGood
<1> HIDE DEF n
<1>3. g \in Frames /\ Keep(Top, g, Fields \ {"i"})
  BY <1>2, SetI
<1> HIDE DEF g
<1>4. Good(g)
  BY <1>1, <1>2, <1>3 DEF Keep, Fields, Good, Sane, Deep, Logs, Quiet, Own, Doing, Silent
<1>5. Writes(g, Len(cmds))
  BY <1>1, <1>3, AsideWrites DEF Keep, Fields
<1> QED
  BY <1>1, <1>3, <1>4, <1>5, ByProceeding DEF Keep, Fields

LEMMA PrepareKeeps == ASSUME IInv, Prepare PROVE IInv'
<1> DEFINE g1 == [Top EXCEPT !.pc = "log"]
           g == [g1 EXCEPT !.i = 1]
<1>1. stack # <<>> /\ Top.pc = "prepare" /\ ~Handed /\ (Proceed(g) \/ FailUnbroken)
  BY DEF Prepare, At, Handed
<1>2. Top \in Frames /\ Good(Top) /\ "log" \in Places
  BY <1>1, TopIsGood
<1>3. g1 \in Frames /\ g1.pc = "log" /\ Keep(Top, g1, Fields \ {"pc"})
  BY <1>2, Goto
<1> HIDE DEF g1
<1>4. g \in Frames /\ g.pc = "log" /\ Keep(Top, g, Fields \ {"pc", "i"})
  BY <1>3, SetFirst DEF Keep, Fields
<1> HIDE DEF g
<1>5. CASE Proceed(g)
  <2>1. Good(g)
    BY <1>1, <1>2, <1>4 DEF Keep, Fields, Good, Sane, Deep, Logs, Quiet, Own, Doing, Silent
  <2>2. Writes(g, Len(cmds))
    BY <1>1, <1>4, StillWrites DEF Keep, Fields
  <2> QED
    BY <1>1, <1>4, <1>5, <2>1, <2>2, ByProceeding DEF Keep, Fields
<1> QED
  BY <1>1, <1>5, FailKeeps DEF FailUnbroken

LEMMA StartLogKeeps == ASSUME IInv, StartLog PROVE IInv'
<1> DEFINE c == JobOf(Top).log = "collects"
           g1 == [Top EXCEPT !.pc = "deps"]
           g == [g1 EXCEPT !.collects = c]
<1>1. /\ stack # <<>> /\ Top.pc = "log" /\ ~Handed
      /\ \/ Proceed(g) \/ FailUnbroken
         \/ FailAs(g) /\ UNCHANGED <<cmds, broken>>
  BY DEF StartLog, At, Handed
<1>2. Top \in Frames /\ Good(Top) /\ "deps" \in Places /\ c \in BOOLEAN
  BY <1>1, TopIsGood
<1> HIDE DEF c
<1>3. g1 \in Frames /\ g1.pc = "deps" /\ Keep(Top, g1, Fields \ {"pc"})
  BY <1>2, Goto
<1> HIDE DEF g1
<1>4. g \in Frames /\ g.pc = "deps" /\ Keep(Top, g, Fields \ {"pc", "collects"})
  BY <1>2, <1>3, SetCollects DEF Keep, Fields
<1> HIDE DEF g
<1>5. Logs(g) /\ Deep(g) /\ g.end = "ok" /\ Slot(Top, g)
  <2>1. Own(g) = {} /\ g.logged = <<>>
    BY <1>1, <1>2, <1>4 DEF Good, Quiet, Own, Keep, Fields
  <2>2. Ascending(<<>>) /\ Range(<<>>) = {}
    BY DEF Ascending, Range
  <2> QED
    BY <1>1, <1>2, <1>4, <2>1, <2>2 DEF Good, Sane, Deep, Logs, Slot, Keep, Fields
<1>6. CASE Proceed(g)
  <2>1. Good(g)
    BY <1>1, <1>2, <1>4, <1>5 DEF Keep, Fields, Good, Sane, Quiet, Doing, Silent
  <2>2. Writes(g, Len(cmds))
    BY <1>1, <1>4, StillWrites DEF Keep, Fields
  <2> QED
    BY <1>1, <1>4, <1>6, <2>1, <2>2, ByProceeding DEF Keep, Fields
<1>7. CASE FailAs(g) /\ UNCHANGED <<cmds, broken>>
  <2>1. "error" \in Ends \ {"ok"}
    BY DEF Ends
  <2> QED
    BY <1>1, <1>4, <1>5, <1>7, <2>1, ByFailing DEF FailAs
<1> QED
  BY <1>1, <1>6, <1>7, FailKeeps DEF FailUnbroken

LEMMA CallDepKeeps == ASSUME IInv, CallDep PROVE IInv'
<1>1. /\ stack # <<>> /\ Top.pc = "deps" /\ ~Handed
      /\ Call(JobOf(Top).deps[Top.i].job) \/ FailUnbroken
  BY DEF CallDep, At, Handed
<1>2. Waiting(Top)
  BY <1>1 DEF Waiting
<1> QED
  BY <1>1, <1>2, ByCalling, FailKeeps DEF FailUnbroken

LEMMA DepReturnedKeeps == ASSUME IInv, DepReturned PROVE IInv'
<1> DEFINE more == Top.item + 1 < JobOf(Top).deps[Top.i].items
           o == Top.depOut \o ret.out
           m == IF more THEN Top.item + 1 ELSE 0
           n == IF more THEN Top.i ELSE Top.i + 1
           g1 == [Top EXCEPT !.depRes = TRUE]
           g2 == [g1 EXCEPT !.depOut = o]
           g3 == [g2 EXCEPT !.item = m]
           g == [g3 EXCEPT !.i = n]
<1>1. /\ stack # <<>> /\ Top.pc = "deps" /\ Handed /\ ret.end = "ok"
      /\ Resume(g)
  BY DEF DepReturned, Succeeded, Returned, Handed
<1>2. Top \in Frames /\ Good(Top) /\ Top.level \in Nat /\ Top.from \in Nat
  BY <1>1, TopIsGood
<1>3. PICK k \in Nat :
             /\ Top.from <= k /\ k <= ret.from /\ ret.from <= Len(cmds)
             /\ Covers(Top.depOut, Mine(Top.from, k, Top.level))
             /\ Covers(Top.out, Mine(k, ret.from, Top.level))
             /\ Top.out \o ret.out \in Seq(Nat)
             /\ Covers(Top.out \o ret.out, Mine(k, Len(cmds), Top.level))
  BY <1>1, TopCovers
<1>4. Top.depOut \in Seq(Nat) /\ Top.item \in Nat /\ Top.i \in Nat
  BY <1>2 DEF Frames
<1>5. ret.out \in Seq(Nat) /\ ret.from \in Nat /\ Len(cmds) \in Nat
  BY <1>1, RetCovers, Known
<1>6. Top.out = <<>> /\ Top.out \o ret.out = ret.out
  <2>1. Top.out = <<>>
    BY <1>1, <1>2 DEF Good, Silent
  <2> QED
    BY <1>5, <2>1, ConcatEmptySeq
<1>7. o \in Seq(Nat) /\ Covers(o, Mine(Top.from, Len(cmds), Top.level))
  <2>1. k <= Len(cmds)
    BY <1>3, <1>5
  <2>2. Covers(ret.out, Mine(k, Len(cmds), Top.level))
    BY <1>3, <1>6
  <2> QED
    BY <1>2, <1>3, <1>4, <1>5, <2>1, <2>2, CoversConcat
<1>8. m \in Nat /\ n \in Nat
  BY <1>4
<1> HIDE DEF o, m, n
<1>g1. g1 \in Frames /\ Keep(Top, g1, Fields \ {"depRes"})
  BY <1>2, SetDepRes
<1> HIDE DEF g1
<1>g2. g2 \in Frames /\ g2.depOut = o /\ Keep(Top, g2, Fields \ {"depRes", "depOut"})
  BY <1>g1, <1>7, SetDepOut DEF Keep, Fields
<1> HIDE DEF g2
<1>g3. g3 \in Frames /\ g3.depOut = o /\ Keep(Top, g3, Fields \ {"depRes", "depOut", "item"})
  BY <1>g2, <1>8, SetItem DEF Keep, Fields
<1> HIDE DEF g3
<1>g. /\ g \in Frames /\ g.depOut = o
      /\ Keep(Top, g, Fields \ {"depRes", "depOut", "item", "i"})
  BY <1>g3, <1>8, SetI DEF Keep, Fields
<1> HIDE DEF g
<1>9. Good(g)
  BY <1>1, <1>2, <1>g DEF Keep, Fields, Good, Sane, Deep, Logs, Quiet, Own, Doing, Silent
<1>10. Writes(g, Len(cmds))
  <2>1. Covers(<<>>, Mine(Len(cmds), Len(cmds), Top.level))
    BY <1>5, MineNone, CoversNothing
  <2>2. Len(cmds) \in Top.from..Len(cmds)
    BY <1>2, <1>3, <1>5
  <2>3. /\ g.out = <<>> /\ g.from = Top.from /\ g.level = Top.level /\ g.pc = "deps"
    BY <1>1, <1>6, <1>g DEF Keep, Fields
  <2> QED
    BY <1>7, <1>g, <2>1, <2>2, <2>3 DEF Writes
<1> QED
  BY <1>1, <1>g, <1>9, <1>10, ByProceeding DEF Keep, Fields

LEMMA DepsDoneKeeps == ASSUME IInv, DepsDone PROVE IInv'
<1> DEFINE g1 == [Top EXCEPT !.pc = "checkout"]
           g == [g1 EXCEPT !.i = 1]
<1>1. stack # <<>> /\ Top.pc = "deps" /\ ~Handed /\ Proceed(g)
  BY DEF DepsDone, At, Handed
<1>2. Top \in Frames /\ Good(Top) /\ "checkout" \in Places
  BY <1>1, TopIsGood
<1>3. g1 \in Frames /\ g1.pc = "checkout" /\ Keep(Top, g1, Fields \ {"pc"})
  BY <1>2, Goto
<1> HIDE DEF g1
<1>4. g \in Frames /\ g.pc = "checkout" /\ g.i = 1 /\ Keep(Top, g, Fields \ {"pc", "i"})
  BY <1>3, SetFirst DEF Keep, Fields
<1> HIDE DEF g
<1>5. Good(g)
  BY <1>1, <1>2, <1>4 DEF Keep, Fields, Good, Sane, Deep, Logs, Quiet, Own, Doing, Silent
<1>6. Writes(g, Len(cmds))
  BY <1>1, <1>4, StillWrites DEF Keep, Fields
<1> QED
  BY <1>1, <1>4, <1>5, <1>6, ByProceeding DEF Keep, Fields

LEMMA CheckoutKeeps == ASSUME IInv, Checkout PROVE IInv'
<1> DEFINE g == [Top EXCEPT !.pc = "steps"]
<1>1. stack # <<>> /\ Top.pc = "checkout" /\ ~Handed /\ (Proceed(g) \/ FailUnbroken)
  BY DEF Checkout, At, Handed
<1>2. Top \in Frames /\ Good(Top) /\ "steps" \in Places
  BY <1>1, TopIsGood
<1>3. g \in Frames /\ g.pc = "steps" /\ Keep(Top, g, Fields \ {"pc"})
  BY <1>2, Goto
<1> HIDE DEF g
<1>4. CASE Proceed(g)
  <2>1. Len(jobs[Top.job].steps) \in Nat
    BY <1>1, TopIsGood, JobsTyped, Known
  <2>2. Good(g)
    BY <1>1, <1>2, <1>3, <2>1
       DEF Keep, Fields, Good, Sane, Deep, Logs, Quiet, Own, Doing, Silent
  <2>3. Writes(g, Len(cmds))
    BY <1>1, <1>3, StillWrites DEF Keep, Fields
  <2> QED
    BY <1>1, <1>3, <1>4, <2>2, <2>3, ByProceeding DEF Keep, Fields
<1> QED
  BY <1>1, <1>4, FailKeeps DEF FailUnbroken

LEMMA CallStepKeeps == ASSUME IInv, CallStep PROVE IInv'
<1>1. /\ stack # <<>> /\ Top.pc = "steps" /\ ~Handed
      /\ Top.i <= Len(JobOf(Top).steps)
      /\ Call(JobOf(Top).steps[Top.i]) \/ FailUnbroken
  BY DEF CallStep, At, Handed
<1>2. Waiting(Top)
  BY <1>1 DEF Waiting, JobOf
<1> QED
  BY <1>1, <1>2, ByCalling, FailKeeps DEF FailUnbroken

LEMMA StepReturnedKeeps == ASSUME IInv, StepReturned PROVE IInv'
<1> DEFINE o == IF JobOf(Top).chained THEN ret.out ELSE Top.out \o ret.out
           n == Top.i + 1
           g1 == [Top EXCEPT !.i = n]
           g2 == [g1 EXCEPT !.res = "set"]
           g == [g2 EXCEPT !.out = o]
<1>1. stack # <<>> /\ Top.pc = "steps" /\ Handed /\ ret.end = "ok" /\ Resume(g)
  BY DEF StepReturned, Succeeded, Returned, Handed
<1>2. /\ Top \in Frames /\ Good(Top) /\ Top.level \in Nat /\ Top.from \in Nat
      /\ Top.i \in Nat /\ Top.job \in DOMAIN jobs
      /\ Top.i >= 1 /\ Top.i <= Len(jobs[Top.job].steps)
  BY <1>1, TopIsGood DEF Good, Silent, Waiting
<1>3. PICK k \in Nat :
             /\ Top.from <= k /\ k <= ret.from /\ ret.from <= Len(cmds)
             /\ Covers(Top.depOut, Mine(Top.from, k, Top.level))
             /\ Covers(Top.out, Mine(k, ret.from, Top.level))
             /\ Top.out \o ret.out \in Seq(Nat)
             /\ Covers(Top.out \o ret.out, Mine(k, Len(cmds), Top.level))
  BY <1>1, TopCovers
<1>4. /\ ret.out \in Seq(Nat) /\ ret.from \in Nat /\ Len(cmds) \in Nat
      /\ Covers(ret.out, Mine(ret.from, Len(cmds), Top.level))
      /\ Len(jobs[Top.job].steps) \in Nat
  BY <1>1, <1>2, RetCovers, Known, JobsTyped
<1>5. o \in Seq(Nat) /\ Covers(o, Mine(k, Len(cmds), Top.level))
  <2>1. CASE ~JobOf(Top).chained \/ Top.i = 1
    <3>1. Top.i = 1 => Top.out = <<>>
      BY <1>1, <1>2 DEF Good, Silent
    <3>2. Top.i = 1 => Top.out \o ret.out = ret.out
      BY <1>4, <3>1, ConcatEmptySeq
    <3> QED
      BY <1>3, <2>1, <3>2
  <2>2. CASE JobOf(Top).chained /\ Top.i # 1
    <3>1. ~Unchained
      <4>1. Len(jobs[Top.job].steps) > 1
        BY <1>2, <1>4, <2>2
      <4> QED
        BY <1>2, <2>2, <4>1 DEF Unchained, Chained, JobOf
    <3>2. Mine(k, Len(cmds), Top.level) =
            Mine(k, ret.from, Top.level) \cup Mine(ret.from, Len(cmds), Top.level)
      BY <1>3, <1>4, MineSplit
    <3> QED
      BY <1>4, <2>2, <3>1, <3>2 DEF Covers
  <2> QED
    BY <2>1, <2>2
<1>6. n \in Nat /\ n >= 1 /\ n # 1 /\ n <= Len(jobs[Top.job].steps) + 1
  BY <1>2, <1>4
<1> HIDE DEF o, n
<1>g1. g1 \in Frames /\ g1.i = n /\ Keep(Top, g1, Fields \ {"i"})
  BY <1>2, <1>6, SetI
<1> HIDE DEF g1
<1>g2. g2 \in Frames /\ g2.i = n /\ Keep(Top, g2, Fields \ {"i", "res"})
  BY <1>g1, SetResult DEF Keep, Fields
<1> HIDE DEF g2
<1>g. g \in Frames /\ g.i = n /\ g.out = o /\ Keep(Top, g, Fields \ {"i", "res", "out"})
  BY <1>g2, <1>5, SetOut DEF Keep, Fields
<1> HIDE DEF g
<1>7. Good(g)
  <2>1. Silent(g)
    BY <1>1, <1>6, <1>g DEF Silent, Keep, Fields
  <2> QED
    BY <1>1, <1>2, <1>g, <2>1 DEF Keep, Fields, Good, Sane, Deep, Logs, Quiet, Own, Doing
<1>8. Writes(g, Len(cmds))
  <2>1. /\ g.from = Top.from /\ g.level = Top.level /\ g.pc = "steps"
        /\ g.depOut = Top.depOut
    BY <1>1, <1>g DEF Keep, Fields
  <2>2. k \in Top.from..Len(cmds)
    BY <1>2, <1>3, <1>4
  <2> QED
    BY <1>3, <1>5, <1>g, <2>1, <2>2 DEF Writes
<1> QED
  BY <1>1, <1>g, <1>7, <1>8, ByProceeding DEF Keep, Fields


LEMMA StepsDoneKeeps == ASSUME IInv, StepsDone PROVE IInv'
<1> DEFINE steps == JobOf(Top).steps
           gf == [Top EXCEPT !.pc = "finish"]
           ge == [Top EXCEPT !.pc = "exec"]
           gr1 == [Top EXCEPT !.pc = "runs"]
           gr == [gr1 EXCEPT !.i = 1]
<1>1. /\ stack # <<>> /\ Top.pc = "steps" /\ ~Handed /\ Top.i > Len(steps)
      /\ \/ steps # <<>> /\ Proceed(gf)
         \/ steps = <<>> /\ jobs[Top.job].exec /\ Proceed(ge)
         \/ steps = <<>> /\ ~jobs[Top.job].exec /\ (Proceed(gr) \/ FailUnbroken)
  BY DEF StepsDone, At, Handed, JobOf
<1>2. /\ Top \in Frames /\ Good(Top) /\ Top.job \in DOMAIN jobs
      /\ {"finish", "exec", "runs"} \subseteq Places
  BY <1>1, TopIsGood
<1>3. steps = jobs[Top.job].steps /\ Len(steps) \in Nat /\ Len(jobs[Top.job].runs) \in Nat
  BY <1>2, JobsTyped, Known DEF JobOf
<1>4. steps = <<>> => Top.out = <<>> /\ Top.called = 0
  <2>1. steps = <<>> => Top.i = 1
    BY <1>1, <1>2, <1>3 DEF Good, Silent, Frames
  <2> QED
    BY <1>1, <1>2, <2>1 DEF Good, Silent, Doing
<1> HIDE DEF steps
<1>5. gf \in Frames /\ gf.pc = "finish" /\ Keep(Top, gf, Fields \ {"pc"})
  BY <1>2, Goto
<1>6. ge \in Frames /\ ge.pc = "exec" /\ Keep(Top, ge, Fields \ {"pc"})
  BY <1>2, Goto
<1>7. gr1 \in Frames /\ gr1.pc = "runs" /\ Keep(Top, gr1, Fields \ {"pc"})
  BY <1>2, Goto
<1> HIDE DEF gf, ge, gr1
<1>8. gr \in Frames /\ gr.pc = "runs" /\ gr.i = 1 /\ Keep(Top, gr, Fields \ {"pc", "i"})
  BY <1>7, SetFirst DEF Keep, Fields
<1> HIDE DEF gr
<1>9. CASE steps # <<>> /\ Proceed(gf)
  <2>1. Good(gf)
    BY <1>1, <1>2, <1>3, <1>5, <1>9
       DEF Keep, Fields, Good, Sane, Deep, Logs, Quiet, Own, Doing, DidAll, Silent
  <2>2. Writes(gf, Len(cmds))
    BY <1>1, <1>5, StillWrites DEF Keep, Fields
  <2> QED
    BY <1>1, <1>5, <1>9, <2>1, <2>2, ByProceeding DEF Keep, Fields
<1>10. CASE steps = <<>> /\ jobs[Top.job].exec /\ Proceed(ge)
  <2>1. Good(ge)
    BY <1>1, <1>2, <1>4, <1>6, <1>10
       DEF Keep, Fields, Good, Sane, Deep, Logs, Quiet, Own, Doing, Silent
  <2>2. Writes(ge, Len(cmds))
    BY <1>1, <1>6, StillWrites DEF Keep, Fields
  <2> QED
    BY <1>1, <1>6, <1>10, <2>1, <2>2, ByProceeding DEF Keep, Fields
<1>11. CASE steps = <<>> /\ ~jobs[Top.job].exec /\ Proceed(gr)
  <2>1. Good(gr)
    BY <1>1, <1>2, <1>3, <1>4, <1>8, <1>11
       DEF Keep, Fields, Good, Sane, Deep, Logs, Quiet, Own, Doing, Silent
  <2>2. Writes(gr, Len(cmds))
    BY <1>1, <1>8, StillWrites DEF Keep, Fields
  <2> QED
    BY <1>1, <1>8, <1>11, <2>1, <2>2, ByProceeding DEF Keep, Fields
<1> QED
  BY <1>1, <1>9, <1>10, <1>11, FailKeeps DEF FailUnbroken

LEMMA CallRunKeeps == ASSUME IInv, CallRun PROVE IInv'
<1>1. /\ stack # <<>> /\ Top.pc = "runs" /\ ~Handed
      /\ Top.i <= Len(JobOf(Top).runs)
      /\ Call(JobOf(Top).runs[Top.i]) \/ FailUnbroken
  BY DEF CallRun, MoreRuns, At, Handed
<1>2. Waiting(Top)
  BY <1>1 DEF Waiting, JobOf
<1> QED
  BY <1>1, <1>2, ByCalling, FailKeeps DEF FailUnbroken

LEMMA SkipRunKeeps == ASSUME IInv, SkipRun PROVE IInv'
<1> DEFINE n == Top.i + 1
           k == Top.called + 1
           g1 == [Top EXCEPT !.i = n]
           g == [g1 EXCEPT !.called = k]
<1>1. /\ stack # <<>> /\ Top.pc = "runs" /\ ~Handed /\ Top.i <= Len(jobs[Top.job].runs)
      /\ Proceed(g) \/ (EventLost /\ Fail)
  BY DEF SkipRun, MoreRuns, At, Handed, JobOf
<1>2. Top \in Frames /\ Good(Top) /\ Top.job \in DOMAIN jobs
  BY <1>1, TopIsGood
<1>3. Top.i \in Nat /\ Top.called \in Nat /\ Len(jobs[Top.job].runs) \in Nat
  BY <1>2, JobsTyped, Known DEF Frames
<1>4. n \in Nat /\ k \in Nat /\ n <= Len(jobs[Top.job].runs) + 1 /\ n = k + 1
  BY <1>1, <1>2, <1>3 DEF Good, Doing
<1> HIDE DEF n, k
<1>5. g1 \in Frames /\ g1.i = n /\ Keep(Top, g1, Fields \ {"i"})
  BY <1>2, <1>4, SetI
<1> HIDE DEF g1
<1>6. g \in Frames /\ g.i = n /\ g.called = k /\ Keep(Top, g, Fields \ {"i", "called"})
  BY <1>4, <1>5, SetCalled DEF Keep, Fields
<1> HIDE DEF g
<1>7. CASE Proceed(g)
  <2>1. Good(g)
    BY <1>1, <1>2, <1>4, <1>6
       DEF Keep, Fields, Good, Sane, Deep, Logs, Quiet, Own, Doing, Silent
  <2>2. Writes(g, Len(cmds))
    BY <1>1, <1>6, StillWrites DEF Keep, Fields
  <2> QED
    BY <1>1, <1>6, <1>7, <2>1, <2>2, ByProceeding DEF Keep, Fields
<1>8. CASE EventLost /\ Fail
  BY <1>1, <1>8, FailKeeps DEF EventLost
<1> QED
  BY <1>1, <1>7, <1>8

LEMMA RunReturnedKeeps == ASSUME IInv, RunReturned PROVE IInv'
<1> DEFINE n == Top.i + 1
           k == Top.called + 1
           o == Top.out \o ret.out
           g1 == [Top EXCEPT !.i = n]
           g2 == [g1 EXCEPT !.called = k]
           g3 == [g2 EXCEPT !.res = "set"]
           g == [g3 EXCEPT !.out = o]
<1>1. stack # <<>> /\ Top.pc = "runs" /\ Handed /\ ret.end = "ok" /\ Resume(g)
  BY DEF RunReturned, Succeeded, Returned, Handed
<1>2. /\ Top \in Frames /\ Good(Top) /\ Top.job \in DOMAIN jobs /\ Top.from \in Nat
      /\ Top.i <= Len(jobs[Top.job].runs)
  BY <1>1, TopIsGood DEF Waiting
<1>3. Top.i \in Nat /\ Top.called \in Nat /\ Len(jobs[Top.job].runs) \in Nat /\ Len(cmds) \in Nat
  BY <1>2, JobsTyped, Known DEF Frames
<1>4. n \in Nat /\ k \in Nat /\ n <= Len(jobs[Top.job].runs) + 1 /\ n = k + 1
  <2>1. Top.i = Top.called + 1
    BY <1>1, <1>2 DEF Good, Doing
  <2> QED
    BY <1>2, <1>3, <2>1
<1>5. PICK m \in Nat :
             /\ Top.from <= m /\ m <= ret.from /\ ret.from <= Len(cmds)
             /\ Covers(Top.depOut, Mine(Top.from, m, Top.level))
             /\ Covers(Top.out, Mine(m, ret.from, Top.level))
             /\ o \in Seq(Nat)
             /\ Covers(o, Mine(m, Len(cmds), Top.level))
  BY <1>1, TopCovers
<1>6. m \in Top.from..Len(cmds)
  <2>1. ret.from \in Nat
    BY <1>1, RetIsGood
  <2> QED
    BY <1>2, <1>3, <1>5, <2>1
<1> HIDE DEF n, k, o
<1>g1. g1 \in Frames /\ g1.i = n /\ Keep(Top, g1, Fields \ {"i"})
  BY <1>2, <1>4, SetI
<1> HIDE DEF g1
<1>g2. g2 \in Frames /\ g2.i = n /\ g2.called = k /\ Keep(Top, g2, Fields \ {"i", "called"})
  BY <1>g1, <1>4, SetCalled DEF Keep, Fields
<1> HIDE DEF g2
<1>g3. /\ g3 \in Frames /\ g3.i = n /\ g3.called = k
       /\ Keep(Top, g3, Fields \ {"i", "called", "res"})
  BY <1>g2, SetResult DEF Keep, Fields
<1> HIDE DEF g3
<1>g. /\ g \in Frames /\ g.i = n /\ g.called = k /\ g.out = o
      /\ Keep(Top, g, Fields \ {"i", "called", "res", "out"})
  BY <1>g3, <1>5, SetOut DEF Keep, Fields
<1> HIDE DEF g
<1>7. Good(g)
  BY <1>1, <1>2, <1>4, <1>g
     DEF Keep, Fields, Good, Sane, Deep, Logs, Quiet, Own, Doing, Silent
<1>8. Writes(g, Len(cmds))
  <2>1. g.from = Top.from /\ g.level = Top.level /\ g.pc = "runs" /\ g.depOut = Top.depOut
    BY <1>1, <1>g DEF Keep, Fields
  <2> QED
    BY <1>5, <1>6, <1>g, <2>1 DEF Writes
<1> QED
  BY <1>1, <1>g, <1>7, <1>8, ByProceeding DEF Keep, Fields

LEMMA RunsDoneKeeps == ASSUME IInv, RunsDone PROVE IInv'
<1> DEFINE g == [Top EXCEPT !.pc = "asserts"]
<1>1. /\ stack # <<>> /\ Top.pc = "runs" /\ ~Handed /\ Top.i > Len(jobs[Top.job].runs)
      /\ Proceed(g)
  BY DEF RunsDone, At, Handed, JobOf
<1>2. Top \in Frames /\ Good(Top) /\ "asserts" \in Places /\ Top.job \in DOMAIN jobs
  BY <1>1, TopIsGood
<1>3. g \in Frames /\ g.pc = "asserts" /\ Keep(Top, g, Fields \ {"pc"})
  BY <1>2, Goto
<1> HIDE DEF g
<1>4. RanBody(g)
  <2>1. Top.i \in Nat /\ Top.called \in Nat /\ Len(jobs[Top.job].runs) \in Nat
    BY <1>2, JobsTyped, Known DEF Frames
  <2>2. ~jobs[Top.job].exec /\ Top.called = Len(jobs[Top.job].runs)
    BY <1>1, <1>2, <2>1 DEF Good, Doing
  <2> QED
    BY <1>3, <2>2 DEF RanBody, Keep, Fields
<1>5. Good(g)
  BY <1>1, <1>2, <1>3, <1>4
     DEF Keep, Fields, Good, Sane, Deep, Logs, Quiet, Own, Doing, Silent
<1>6. Writes(g, Len(cmds))
  BY <1>1, <1>3, StillWrites DEF Keep, Fields
<1> QED
  BY <1>1, <1>3, <1>5, <1>6, ByProceeding DEF Keep, Fields

LEMMA ExecAssertKeeps == ASSUME IInv, ExecAssert PROVE IInv'
<1> DEFINE n == Top.asserted + 1
           g == [Top EXCEPT !.asserted = n]
<1>1. stack # <<>> /\ Top.pc = "asserts" /\ ~Handed /\ (Proceed(g) \/ FailUnbroken)
  BY DEF ExecAssert, At, Handed
<1>2. Top \in Frames /\ Good(Top)
  BY <1>1, TopIsGood
<1>3. n \in Nat
  BY <1>2 DEF Frames
<1> HIDE DEF n
<1>4. g \in Frames /\ Keep(Top, g, Fields \ {"asserted"})
  BY <1>2, <1>3, SetAsserted
<1> HIDE DEF g
<1>5. CASE Proceed(g)
  <2>1. Good(g)
    BY <1>1, <1>2, <1>4
       DEF Keep, Fields, Good, Sane, Deep, Logs, Quiet, Own, Doing, RanBody, Silent
  <2>2. Writes(g, Len(cmds))
    BY <1>1, <1>4, StillWrites DEF Keep, Fields
  <2> QED
    BY <1>1, <1>4, <1>5, <2>1, <2>2, ByProceeding DEF Keep, Fields
<1> QED
  BY <1>1, <1>5, FailKeeps DEF FailUnbroken

LEMMA AssertsDoneKeeps == ASSUME IInv, AssertsDone PROVE IInv'
<1> DEFINE only == ~HasBody(JobOf(Top)) /\ JobOf(Top).asserts > 0
           r == IF only THEN "set" ELSE Top.res
           g1 == [Top EXCEPT !.pc = "finish"]
           g == [g1 EXCEPT !.res = r]
<1>1. /\ stack # <<>> /\ Top.pc = "asserts" /\ ~Handed
      /\ Top.asserted = jobs[Top.job].asserts /\ Proceed(g)
  BY DEF AssertsDone, At, Handed, JobOf
<1>2. Top \in Frames /\ Good(Top) /\ "finish" \in Places
  BY <1>1, TopIsGood
<1>3. r \in Results
  BY <1>2 DEF Frames, Results
<1> HIDE DEF only, r
<1>4. g1 \in Frames /\ g1.pc = "finish" /\ Keep(Top, g1, Fields \ {"pc"})
  BY <1>2, Goto
<1> HIDE DEF g1
<1>5. g \in Frames /\ g.pc = "finish" /\ Keep(Top, g, Fields \ {"pc", "res"})
  BY <1>3, <1>4, SetRes DEF Keep, Fields
<1> HIDE DEF g
<1>6. Good(g)
  BY <1>1, <1>2, <1>5
     DEF Keep, Fields, Good, Sane, Deep, Logs, Quiet, Own, Doing, DidAll, RanBody, Silent
<1>7. Writes(g, Len(cmds))
  BY <1>1, <1>5, StillWrites DEF Keep, Fields
<1> QED
  BY <1>1, <1>5, <1>6, <1>7, ByProceeding DEF Keep, Fields

LEMMA FinishKeeps == ASSUME IInv, Finish PROVE IInv'
<1>1. stack # <<>> /\ Top.pc = "finish" /\ ~Handed
  BY DEF Finish, At, Handed
<1>2. /\ Top \in Frames /\ Good(Top) /\ Writes(Top, Len(cmds)) /\ Len(cmds) \in Nat
      /\ Top.end = "ok" /\ Slot(Top, Top)
  BY <1>1, TopIsGood, Known DEF Good, Sane, Slot
<1> DEFINE o == Top.depOut \o Top.out
<1>3. o \in Seq(Nat) /\ Covers(o, Own(Top))
  BY <1>1, <1>2, WholeOutput DEF Own, Mine
<1>4. CASE Top.execOk /\ Leave(Top, "ok", "set", o) /\ UNCHANGED <<jobs, cmds, failures, broken>>
  <2>1. failures' = Top.before
    BY <1>1, <1>2, <1>4, Clean DEF Faulty
  <2>2. DidAll(Top) /\ Deep(Top) /\ Logs(Top)
    BY <1>1, <1>2 DEF Good, Doing
  <2>3. "ok" \in Ends /\ "set" \in Results
    BY DEF Ends, Results
  <2>4. broken' \in {TRUE, broken} /\ failures' \in {failures, failures + 1}
    BY <1>4
  <2> HIDE DEF o
  <2> QED
    BY <1>1, <1>2, <1>3, <1>4, <2>1, <2>2, <2>3, <2>4, ByLeaving
<1>5. CASE FailUnbroken
  BY <1>1, <1>5, FailKeeps DEF FailUnbroken
<1> QED
  BY <1>4, <1>5 DEF Finish

-------------------------------------------------------------------------------
(* The deferred unregister *)

LEMMA PanicKeeps ==
    ASSUME IInv, stack # <<>>, Top.pc = "unregister", PanicTop,
           UNCHANGED <<jobs, cmds, broken>>, failures' \in {failures, failures + 1}
    PROVE  IInv'
<1> DEFINE g == [Top EXCEPT !.end = "panic"]
<1>1. Settles(g)
  BY DEF PanicTop, Settles
<1>2. Top \in Frames /\ Good(Top) /\ "panic" \in Ends
  BY TopIsGood DEF Ends
<1>3. g \in Frames /\ g.end = "panic" /\ Keep(Top, g, Fields \ {"end"})
  BY <1>2, SetEnd
<1> HIDE DEF g
<1>4. Slot(Top, g) /\ g.pc = "unregister"
  BY <1>3 DEF Slot, Keep, Fields
<1>5. Good(g) /\ Writes(g, Len(cmds))
  BY <1>2, <1>3, <1>4
     DEF Keep, Fields, Good, Sane, Deep, Logs, Quiet, Own, Doing, Silent, Writes
<1>6. failures' = g.before \/ Faulty(g)
  BY <1>3 DEF Faulty
<1> QED
  BY <1>1, <1>3, <1>4, <1>5, <1>6, BySettling

LEMMA UnregisterFailsKeeps == ASSUME IInv, UnregisterFails PROVE IInv'
BY PanicKeeps DEF UnregisterFails, At

LEMMA ForwardKeeps == ASSUME IInv, Forward PROVE IInv'
<1>1. /\ stack # <<>> /\ Top.pc = "unregister" /\ ~Handed
      /\ CallAside(ForwardsOf(Top)[Top.i])
  BY DEF Forward, At, Handed
<1> QED
  BY <1>1, ByCallingAside

LEMMA ForwardReturnedKeeps == ASSUME IInv, ForwardReturned PROVE IInv'
<1> DEFINE n == Top.i + 1
           g == [Top EXCEPT !.i = n]
<1>1. CASE Succeeded("unregister") /\ Resume(g)
  <2>1. stack # <<>> /\ Top.pc = "unregister" /\ Handed /\ ret.end = "ok"
    BY <1>1 DEF Succeeded, Returned, Handed
  <2>2. Top \in Frames /\ Good(Top) /\ n \in Nat
    BY <2>1, TopIsGood
  <2> HIDE DEF n
  <2>3. g \in Frames /\ Keep(Top, g, Fields \ {"i"})
    BY <2>2, SetI
  <2> HIDE DEF g
  <2>4. Good(g)
    BY <2>1, <2>2, <2>3
       DEF Keep, Fields, Good, Sane, Deep, Logs, Quiet, Own, Doing, DidAll, RanBody, Silent
  <2>5. Writes(g, Len(cmds))
    BY <2>1, <2>3, AsideWrites DEF Keep, Fields
  <2> QED
    BY <1>1, <2>1, <2>3, <2>4, <2>5, ByProceeding DEF Keep, Fields
<1>2. CASE /\ Returned("unregister") /\ PanicTop
           /\ UNCHANGED <<jobs, cmds, failures, broken>>
  BY <1>2, PanicKeeps DEF Returned
<1> QED
  BY <1>1, <1>2 DEF ForwardReturned

LEMMA UnregisteredKeeps == ASSUME IInv, Unregistered PROVE IInv'
<1>1. /\ stack # <<>> /\ Top.pc = "unregister" /\ ~Handed
      /\ stack' = Front(stack) /\ ret' = Top
      /\ UNCHANGED <<jobs, cmds, failures, broken>>
  BY DEF Unregistered, At, Handed
<1>2. Top \in Frames /\ Good(Top) /\ Writes(Top, Len(cmds)) /\ Slot(Top, Top)
  BY <1>1, TopIsGood DEF Slot
<1>3. Settles(Top) /\ (failures' = Top.before \/ Faulty(Top))
  BY <1>1, Clean DEF Settles
<1>4. broken' \in {TRUE, broken} /\ failures' \in {failures, failures + 1}
  BY <1>1
<1> QED
  BY <1>1, <1>2, <1>3, <1>4, BySettling

LEMMA PassErrorKeeps == ASSUME IInv, PassError PROVE IInv'
<1>1. /\ stack # <<>> /\ Handed /\ ret.end # "ok" /\ Top.pc # "unregister"
      /\ Leave(Top, ret.end, "nil", <<>>)
      /\ UNCHANGED <<jobs, cmds, failures, broken>>
  BY DEF PassError, Handed
<1>2. Top \in Frames /\ Deep(Top) /\ Logs(Top) /\ Top.end = "ok" /\ Slot(Top, Top)
  BY <1>1, TopIsGood DEF Good, Sane, Slot
<1>3. ret.end \in Ends \ {"ok"}
  BY <1>1, RetIsGood DEF Frames, Ends
<1>4. broken' \in {TRUE, broken} /\ failures' \in {failures, failures + 1}
  BY <1>1
<1> QED
  BY <1>1, <1>2, <1>3, <1>4, ByFailing

\* The process ends: what has returned last is all that is left of the chain.
LEMMA CrashKeeps == ASSUME IInv, Crash PROVE IInv'
<1>1. /\ Handed /\ stack' = <<>> /\ UNCHANGED <<jobs, ret, cmds, failures, broken>>
  BY DEF Crash, Returned, Handed
<1>2. /\ ret \in Frames /\ ret.pc = "unregister" /\ Good(ret) /\ Writes(ret, Len(cmds))
  BY <1>1, RetIsGood
<1>3. Handed' /\ Live' = <<ret>>
  BY <1>1 DEF Handed, Live
<1>4. /\ Len(Live') = 1 /\ Live'[1] = ret /\ \A d \in 1..Len(Live') : d = 1
  BY <1>3
<1>5. TypeOK'
  <2>1. Frames' = Frames /\ <<>> \in Seq(Frames)
    BY <1>1 DEF Frames
  <2> QED
    BY <1>1, <2>1 DEF IInv, TypeOK
<1>6. Nested'
  <2>1. \A d \in 1..Len(Live') : ~(d < Len(Live'))
    BY <1>4
  <2>2. \A d, e \in 1..Len(Live') : ~(d < e)
    BY <1>4
  <2> QED
    BY <2>1, <2>2 DEF Nested
<1>7. Failing'
  <2>1. Live[Len(Live)] = ret /\ Len(Live) \in 1..Len(Live)
    BY <1>1, Known
  <2>2. /\ ret.before <= failures
        /\ failures = ret.before => \A n \in (ret.from + 1)..Len(cmds) : cmds[n].ok
        /\ failures = ret.before \/ Faulty(ret)
    BY <2>1 DEF IInv, Failing
  <2>3. \A d, e \in 1..Len(Live') : ~(d < e)
    BY <1>4
  <2> QED
    BY <1>1, <1>4, <2>2, <2>3 DEF Failing, Faulty
<1>8. \A d \in 1..Len(Live') : (Good(Live[d]) /\ Writes(Live[d], Until(d)))'
  <2> TAKE d \in 1..Len(Live')
  <2>1. Live'[d] = ret /\ Until(d)' = Len(cmds) /\ (broken => broken')
    BY <1>1, <1>4 DEF Until
  <2> QED
    BY <1>1, <1>2, <2>1, GoodKept, WritesKept
<1> QED
  BY <1>1, <1>2, <1>3, <1>5, <1>6, <1>7, <1>8 DEF IInv

-------------------------------------------------------------------------------
(* The command of an exec block *)

LEMMA CommandsAre ==
    ASSUME IInv, NEW ok, cmds' = Append(cmds, Command(ok))
    PROVE  /\ Len(cmds) \in Nat /\ Len(cmds') = Len(cmds) + 1
           /\ \A n \in 1..Len(cmds) : cmds'[n] = cmds[n]
           /\ cmds'[Len(cmds) + 1] = Command(ok)
<1>1. Len(cmds) \in Nat
  BY Known
<1>2. \A n \in 1..Len(cmds) : n \in 1..(Len(cmds) + 1) /\ n # Len(cmds) + 1
  BY <1>1
<1> QED
  BY <1>1, <1>2, AppendProperties DEF IInv, TypeOK

\* What was written of commands executed before.
LEMMA WritesStill ==
    ASSUME IInv, NEW ok, cmds' = Append(cmds, Command(ok)), UNCHANGED jobs,
           NEW f, f.from \in Nat, NEW e \in Nat, e <= Len(cmds), Writes(f, e)
    PROVE  Writes(f, e)'
<1>1. /\ Len(cmds) \in Nat /\ \A n \in 1..Len(cmds) : cmds'[n] = cmds[n]
  BY CommandsAre
<1>2. ASSUME NEW a \in Nat, NEW b \in Nat, b <= Len(cmds), NEW l
      PROVE  Mine(a, b, l)' = Mine(a, b, l)
  <2>1. \A n \in (a + 1)..b : n \in 1..Len(cmds)
    BY <1>1, <1>2
  <2> QED
    BY <1>1, <2>1 DEF Mine
<1>3. \A s, S : Covers(s, S) => Covers(s, S)'
  BY DEF Covers, Ascending, Unchained, Chained
<1>4. CASE f.pc = "unregister"
  BY <1>2, <1>3, <1>4 DEF Writes
<1>5. CASE f.pc # "unregister"
  <2>1. PICK m \in f.from..e : /\ Covers(f.depOut, Mine(f.from, m, f.level))
                               /\ Covers(f.out, Mine(m, e, f.level))
    BY <1>5 DEF Writes
  <2>2. m \in Nat /\ m <= Len(cmds)
    BY <1>1, <2>1
  <2>3. /\ Covers(f.depOut, Mine(f.from, m, f.level))'
        /\ Covers(f.out, Mine(m, e, f.level))'
    BY <1>2, <1>3, <2>1, <2>2
  <2> QED
    BY <1>5, <2>1, <2>3 DEF Writes
<1> QED
  BY <1>4, <1>5

\* What a frame owns, and what its collector got, after the command.
LEMMA AfterCommand ==
    ASSUME IInv, stack # <<>>, ~Handed, NEW ok \in BOOLEAN, NEW heard \in BOOLEAN,
           cmds' = Append(cmds, Command(ok)), heard \/ broken', broken => broken',
           NEW d \in 1..Len(Live), NEW h,
           Keep(Live[d], h, {"from", "level", "collects"}),
           h.logged = IF heard /\ Listens(Live[d])
                      THEN Append(Live[d].logged, Len(cmds) + 1) ELSE Live[d].logged
    PROVE  /\ Own(h)' = IF h.level = Top.level
                        THEN Own(Live[d]) \cup {Len(cmds) + 1} ELSE Own(Live[d])
           /\ h.from <= Len(cmds)
           /\ Deep(h)' /\ Logs(h)'
<1> DEFINE f == Live[d]
           N == Len(cmds) + 1
<1>1. /\ Len(cmds) \in Nat /\ Len(cmds') = N
      /\ \A n \in 1..Len(cmds) : cmds'[n] = cmds[n]
      /\ cmds'[N].level = Top.level
      /\ N \in Nat
  BY CommandsAre DEF Command
<1>2. /\ f \in Frames /\ Good(f) /\ f.level \in Nat /\ f.from \in Nat
      /\ f.logged \in Seq(Nat)
      /\ \A n \in 1..Len(cmds) : cmds[n].level \in Nat
  BY Known DEF Frames
<1>3. Top.level \in Nat /\ f.level <= Top.level
  <2>1. /\ Top.level \in Nat /\ Len(stack) = Len(Live) /\ Len(Live) \in 1..Len(Live)
        /\ Live[Len(Live)] = Top /\ Len(Live) \in Nat
    BY TopIsGood, Known
  <2>2. CASE d = Len(Live)
    BY <1>2, <2>1, <2>2
  <2>3. CASE d < Len(Live)
    <3>1. Above(f) <= Top.level
      BY <2>1, <2>3 DEF IInv, Nested
    <3> QED
      BY <1>2, <2>1, <3>1 DEF Above
  <2> QED
    BY <2>1, <2>2, <2>3
<1> HIDE DEF f
<1>4. h.from = f.from /\ h.level = f.level /\ (h.collects <=> f.collects)
  BY DEF Keep, f
<1>5. f.from <= Len(cmds) /\ \A n \in (f.from + 1)..Len(cmds) : cmds[n].level >= f.level
  BY <1>2 DEF Good, Deep
<1>6. \A n : n \in (f.from + 1)..N <=> n \in (f.from + 1)..Len(cmds) \/ n = N
  BY <1>1, <1>2, <1>5
<1>7. \A n \in (f.from + 1)..Len(cmds) : n \in 1..Len(cmds)
  BY <1>1, <1>2
<1>8. Own(h)' = IF h.level = Top.level THEN Own(f) \cup {N} ELSE Own(f)
  <2>1. Own(h)' = {n \in (f.from + 1)..N : cmds'[n].level = f.level}
    BY <1>1, <1>4 DEF Own
  <2>2. Own(f) = {n \in (f.from + 1)..Len(cmds) : cmds[n].level = f.level}
    BY DEF Own
  <2> HIDE DEF N
  <2> QED
    BY <1>1, <1>4, <1>6, <1>7, <2>1, <2>2
<1>9. Deep(h)'
  <2>1. \A n \in (f.from + 1)..N : cmds'[n].level >= f.level
    BY <1>1, <1>3, <1>5, <1>6, <1>7
  <2>2. h.from <= N
    BY <1>1, <1>2, <1>4, <1>5
  <2> QED
    BY <1>1, <1>4, <2>1, <2>2 DEF Deep
<1>10. Logs(h)'
  <2> SUFFICES ASSUME h.collects, ~broken'
               PROVE  Ascending(h.logged) /\ Range(h.logged) = Own(h)'
    BY DEF Logs, Ascending
  <2>1. heard /\ f.collects /\ ~broken
    BY <1>4
  <2>2. Ascending(f.logged) /\ Range(f.logged) = Own(f)
    BY <1>2, <2>1 DEF Good, Logs
  <2>3. CASE h.level = Top.level
    <3>1. h.logged = Append(f.logged, N)
      BY <1>4, <2>1, <2>3 DEF Listens, f
    <3>2. \A k \in Range(f.logged) : k < N
      BY <1>1, <1>2, <2>2 DEF Own
    <3> QED
      BY <1>1, <1>2, <1>8, <2>2, <2>3, <3>1, <3>2, AscendingAppend
  <2>4. CASE h.level # Top.level
    <3>1. h.logged = f.logged
      BY <1>4, <2>4 DEF Listens, f
    <3> QED
      BY <1>8, <2>2, <2>4, <3>1
  <2> QED
    BY <2>3, <2>4
<1>11. h.from <= Len(cmds)
  BY <1>4, <1>5
<1> QED
  BY <1>8, <1>9, <1>10, <1>11 DEF f

LEMMA GoodIs ==
    ASSUME NEW d, NEW h, Live'[d] = h, Good(h)'
    PROVE  Good(Live[d])'
BY DEF Good, Sane, Deep, Logs, Quiet, Doing, DidAll, RanBody, Silent, Own, Ascending

LEMMA WritesIs ==
    ASSUME NEW d, NEW h, NEW e, Live'[d] = h, Until(d)' = e, Writes(h, e)'
    PROVE  Writes(Live[d], Until(d))'
BY DEF Writes, Covers, Ascending, Mine, Unchained, Chained

\* A call that waits for the one whose command is executed.
LEMMA StaysGood ==
    ASSUME IInv, stack # <<>>, ~Handed, NEW ok \in BOOLEAN, NEW heard \in BOOLEAN,
           cmds' = Append(cmds, Command(ok)), UNCHANGED jobs,
           heard \/ broken', broken => broken',
           NEW d \in 1..Len(Live), d < Len(Live), NEW e, e = Live[d + 1].from, NEW h,
           Keep(Live[d], h, Fields \ {"logged"}),
           h.logged = IF heard /\ Listens(Live[d])
                      THEN Append(Live[d].logged, Len(cmds) + 1) ELSE Live[d].logged
    PROVE  Good(h)' /\ Writes(h, e)'
<1> DEFINE f == Live[d]
<1>1. /\ f \in Frames /\ Good(f) /\ Writes(f, Live[d + 1].from) /\ f.level \in Nat
      /\ f.from \in Nat /\ Live[d + 1].from \in Nat /\ Live[d + 1].from <= Len(cmds)
      /\ Waiting(f)
  <2>1. d + 1 \in 1..Len(Live) /\ Until(d) = Live[d + 1].from
    BY Known DEF Until
  <2> QED
    BY <2>1, Known DEF Good, Deep, IInv, Nested
<1>2. /\ Own(h)' = IF h.level = Top.level THEN Own(f) \cup {Len(cmds) + 1} ELSE Own(f)
      /\ Deep(h)' /\ Logs(h)'
  BY AfterCommand DEF Keep, Fields
<1>3. f.pc = "prepare" => h.level # Top.level /\ h.logged = f.logged
  <2>1. /\ Top.level \in Nat /\ Len(stack) = Len(Live) /\ Len(Live) \in 1..Len(Live)
        /\ Live[Len(Live)] = Top
    BY TopIsGood, Known
  <2>2. Above(f) <= Top.level
    BY <2>1 DEF IInv, Nested
  <2>3. h.level = f.level
    BY DEF Keep, Fields
  <2>4. f.pc = "prepare" => f.level # Top.level
    BY <1>1, <2>1, <2>2 DEF Above
  <2> QED
    BY <2>3, <2>4 DEF Listens
<1>4. Sane(h)' /\ Silent(h)'
  BY <1>1 DEF Good, Sane, Silent, Keep, Fields
<1>5. Quiet(h)'
  <2>1. h.pc = f.pc
    BY DEF Keep, Fields
  <2>2. f.pc # "log"
    BY <1>1 DEF Waiting
  <2>3. f.pc = "prepare" => Own(h)' = {} /\ h.logged = <<>>
    BY <1>1, <1>2, <1>3 DEF Good, Quiet
  <2> QED
    BY <2>1, <2>2, <2>3 DEF Quiet
<1>6. Doing(h)'
  <2>1. /\ h.pc = f.pc /\ h.job = f.job /\ h.called = f.called /\ h.i = f.i
        /\ h.res = f.res /\ h.asserted = f.asserted /\ h.end = f.end
    BY DEF Keep, Fields
  <2>2. f.pc \notin {"exec", "asserts", "finish"}
    BY <1>1 DEF Waiting
  <2>3. DidAll(f) => DidAll(h)'
    <3>1. ASSUME NEW n \in Own(f), cmds[n].by = f.job
          PROVE  n \in Own(h)' /\ cmds'[n].by = f.job
      <4>1. n \in 1..Len(cmds)
        BY <1>1, Known DEF Own
      <4> QED
        BY <1>2, <3>1, <4>1, CommandsAre
    <3> QED
      BY <2>1, <3>1 DEF DidAll, RanBody
  <2> QED
    BY <1>1, <2>1, <2>2, <2>3 DEF Good, Doing
<1>7. Writes(h, e)'
  <2>1. e \in Nat /\ e <= Len(cmds)
    BY <1>1
  <2>2. h.from \in Nat /\ Writes(h, e)
    BY <1>1, <2>1 DEF Writes, Keep, Fields
  <2> QED
    BY <1>1, <2>1, <2>2, WritesStill
<1> QED
  BY <1>2, <1>4, <1>5, <1>6, <1>7 DEF Good

\* The call that has executed the command: it goes on to its asserts, or the
\* event was lost and it leaves with an error.
Went(g, ok) ==
    \/ g.pc = "asserts" /\ g.end = "ok" /\ g.out = <<Len(cmds) + 1>> /\ g.execOk = ok
    \/ g.pc = "unregister" /\ g.end = "error"

LEMMA WentGood ==
    ASSUME IInv, stack # <<>>, ~Handed, Top.pc = "exec",
           NEW ok \in BOOLEAN, NEW heard \in BOOLEAN,
           cmds' = Append(cmds, Command(ok)), UNCHANGED jobs,
           heard \/ broken', broken => broken', NEW g, Went(g, ok),
           Keep(Top, g, {"job", "from", "level", "collects", "depOut"}),
           g.logged = IF heard /\ Listens(Top)
                      THEN Append(Top.logged, Len(cmds) + 1) ELSE Top.logged,
           NEW e, e = Len(cmds) + 1
    PROVE  Good(g)' /\ Writes(g, e)'
<1>1. /\ Top \in Frames /\ Good(Top) /\ Writes(Top, Len(cmds)) /\ Top.level \in Nat
      /\ Top.from \in Nat /\ Top.from <= Len(cmds)
      /\ Len(stack) \in 1..Len(Live) /\ Live[Len(stack)] = Top
  BY TopIsGood
<1>2. /\ Len(cmds) \in Nat /\ Len(cmds') = e /\ cmds'[e] = Command(ok)
      /\ \A n \in 1..Len(cmds) : cmds'[n] = cmds[n]
  BY CommandsAre
<1>3. g.from = Top.from /\ g.level = Top.level /\ g.job = Top.job /\ g.depOut = Top.depOut
  BY DEF Keep
<1>4. Own(g)' = Own(Top) \cup {e} /\ Deep(g)' /\ Logs(g)'
  BY <1>1, <1>3, AfterCommand DEF Keep
<1>5. jobs[Top.job].exec /\ Top.out = <<>>
  BY <1>1 DEF Good, Doing, Silent
<1>6. Good(g)'
  <2>1. Sane(g)' /\ Quiet(g)' /\ Silent(g)'
    BY DEF Went, Sane, Quiet, Silent
  <2>2. RanBody(g)'
    BY <1>2, <1>3, <1>4, <1>5 DEF RanBody, Command
  <2>3. Doing(g)'
    BY <2>2 DEF Went, Doing
  <2> QED
    BY <1>4, <2>1, <2>3 DEF Good
<1>7. CASE g.pc = "asserts"
  <2>1. PICK m \in Top.from..Len(cmds) :
               /\ Covers(Top.depOut, Mine(Top.from, m, Top.level))
               /\ Covers(<<>>, Mine(m, Len(cmds), Top.level))
    BY <1>1, <1>5 DEF Writes
  <2>2. m \in Nat /\ m <= Len(cmds) /\ m \in Top.from..e
    BY <1>1, <1>2, <2>1
  <2>3. Mine(g.from, m, g.level)' = Mine(g.from, m, g.level)
    <3>1. \A n \in (g.from + 1)..m : n \in 1..Len(cmds)
      BY <1>1, <1>2, <1>3, <2>2
    <3> QED
      BY <1>2, <3>1 DEF Mine
  <2>4. Mine(m, e, g.level)' = Mine(m, Len(cmds), g.level) \cup {e}
    <3>1. \A n : n \in (m + 1)..e <=> n \in (m + 1)..Len(cmds) \/ n = e
      BY <1>2, <2>2
    <3>2. \A n \in (m + 1)..Len(cmds) : n \in 1..Len(cmds)
      BY <1>2, <2>2
    <3>3. cmds'[e].level = g.level
      BY <1>2, <1>3 DEF Command
    <3> QED
      BY <1>2, <3>1, <3>2, <3>3 DEF Mine
  <2>5. Covers(g.depOut, Mine(g.from, m, g.level))'
    BY <1>3, <2>1, <2>3 DEF Covers, Ascending, Unchained, Chained
  <2>6. Covers(g.out, Mine(m, e, g.level))'
    <3>1. g.out = <<e>>
      BY <1>7 DEF Went
    <3>2. Ascending(<<e>>) /\ Range(<<e>>) = {e}
      BY DEF Ascending, Range
    <3>3. Unchained => Mine(m, Len(cmds), g.level) = {}
      BY <1>3, <2>1 DEF Covers, Range
    <3> QED
      BY <2>4, <3>1, <3>2, <3>3 DEF Covers, Ascending, Unchained, Chained
  <2> QED
    BY <1>3, <1>6, <1>7, <2>2, <2>5, <2>6 DEF Writes
<1>8. CASE g.pc # "asserts"
  BY <1>6, <1>8 DEF Went, Writes
<1> QED
  BY <1>7, <1>8

LEMMA ByExecuting ==
    ASSUME IInv, stack # <<>>, ~Handed, Top.pc = "exec",
           NEW ok \in BOOLEAN, NEW heard \in BOOLEAN,
           cmds' = Append(cmds, Command(ok)), UNCHANGED jobs,
           heard \/ broken', broken => broken', TypeOK',
           Handed' => ret'.pc = "unregister", ~Handed' => stack' # <<>>,
           Len(Live') = Len(Live),
           \A d \in 1..Len(Live) :
              /\ Keep(Live[d], Live'[d], {"job", "from", "before", "level", "collects", "depOut"})
              /\ Live'[d].logged = IF heard /\ Listens(Live[d])
                                   THEN Append(Live[d].logged, Len(cmds) + 1)
                                   ELSE Live[d].logged
              /\ d < Len(Live) => Keep(Live[d], Live'[d], Fields \ {"logged"}),
           Went(Live'[Len(Live)], ok),
           failures' \in {failures, failures + 1},
           failures' = failures => ok,
           failures' = failures \/ Faulty(Live'[Len(Live)])
    PROVE  IInv'
<1> DEFINE L == Len(Live)
<1>1. /\ L \in Nat \ {0} /\ Len(cmds) \in Nat /\ Len(stack) = L /\ L \in 1..L
      /\ Live[L] = Top /\ failures \in Nat
      /\ \A d \in 1..L : Live[d].before \in Nat /\ Live[d].from \in Nat
  BY TopIsGood, Known
<1>2. /\ Len(cmds') = Len(cmds) + 1 /\ cmds'[Len(cmds) + 1] = Command(ok)
      /\ \A n \in 1..Len(cmds) : cmds'[n] = cmds[n]
  BY CommandsAre
<1>3. \A d \in 1..L : Live'[d].before = Live[d].before /\ Live'[d].level = Live[d].level
                      /\ Live'[d].from = Live[d].from
  BY DEF Keep
<1>4. \A d \in 1..L : d < L => /\ Live'[d].pc = Live[d].pc /\ Live'[d].end = Live[d].end
                               /\ (Live'[d].execOk <=> Live[d].execOk)
                               /\ Live'[d].i = Live[d].i /\ Live'[d].job = Live[d].job
  BY DEF Keep, Fields
<1>5. ASSUME NEW d \in 1..L PROVE (Good(Live[d]) /\ Writes(Live[d], Until(d)))'
  <2>1. PICK h : h = Live'[d]
    OBVIOUS
  <2>2. PICK e : e = IF d < L THEN Live[d + 1].from ELSE Len(cmds) + 1
    OBVIOUS
  <2>3. Until(d)' = e
    <3>1. d < L => d + 1 \in 1..L
      BY <1>1
    <3> QED
      BY <1>2, <1>3, <2>2, <3>1 DEF Until
  <2>4. Good(h)' /\ Writes(h, e)'
    <3>1. CASE d < L
      BY <2>1, <2>2, <3>1, StaysGood
    <3>2. CASE d = L
      <4>1. Keep(Top, h, {"job", "from", "level", "collects", "depOut"})
        BY <1>1, <2>1, <3>2 DEF Keep
      <4>2. /\ Went(h, ok) /\ e = Len(cmds) + 1
            /\ h.logged = IF heard /\ Listens(Top)
                          THEN Append(Top.logged, Len(cmds) + 1) ELSE Top.logged
        BY <1>1, <2>1, <2>2, <3>2
      <4> QED
        BY <4>1, <4>2, WentGood
    <3> QED
      BY <1>1, <3>1, <3>2
  <2> QED
    BY <2>1, <2>3, <2>4, GoodIs, WritesIs
<1> HIDE DEF L
<1>6. Nested'
  <2>1. \A d \in 1..L : d < L => /\ Waiting(Live[d]) /\ Live[d + 1].level = Above(Live[d])
    BY DEF IInv, Nested, L
  <2>2. \A d, e \in 1..L : d < e => Above(Live[d]) <= Live[e].level
    BY DEF IInv, Nested, L
  <2>3. \A d \in 1..L : d < L => /\ Above(Live[d])' = Above(Live[d]) /\ Waiting(Live[d])'
    BY <1>3, <1>4, <2>1 DEF Above, Waiting
  <2>4. \A d \in 1..L : d < L => /\ Waiting(Live[d])'
                                 /\ Live'[d + 1].level = Above(Live[d])'
    <3> TAKE d \in 1..L
    <3> HAVE d < L
    <3>1. d + 1 \in 1..L
      BY <1>1
    <3> QED
      BY <1>3, <2>1, <2>3, <3>1
  <2>5. \A d, e \in 1..L : d < e => Above(Live[d])' <= Live'[e].level
    <3> TAKE d, e \in 1..L
    <3> HAVE d < e
    <3>1. d < L
      BY <1>1
    <3> QED
      BY <1>3, <2>2, <2>3, <3>1
  <2> QED
    BY <2>4, <2>5 DEF Nested, L
<1>7. Failing'
  <2>1. /\ \A d \in 1..L : /\ Live[d].before <= failures
                           /\ failures = Live[d].before =>
                                \A n \in (Live[d].from + 1)..Len(cmds) : cmds[n].ok
        /\ failures = Live[L].before \/ Faulty(Live[L])
        /\ \A d, e \in 1..L :
              d < e /\ (\A c \in d..(e - 1) : ~Faulty(Live[c])) => Live[e].before = Live[d].before
    BY <1>1 DEF IInv, Failing, L
  <2>2. ASSUME NEW d \in 1..L
        PROVE  /\ Live'[d].before <= failures'
               /\ failures' = Live'[d].before =>
                     \A n \in (Live'[d].from + 1)..Len(cmds') : cmds'[n].ok
    <3>1. Live[d].before <= failures' /\ (failures' = Live[d].before => failures' = failures)
      BY <1>1, <2>1
    <3>2. ASSUME failures' = Live[d].before, NEW n \in (Live[d].from + 1)..Len(cmds')
          PROVE  cmds'[n].ok
      <4>1. ok /\ \A k \in (Live[d].from + 1)..Len(cmds) : cmds[k].ok
        BY <2>1, <3>1, <3>2
      <4>2. CASE n = Len(cmds) + 1
        BY <1>2, <4>1, <4>2 DEF Command
      <4>3. CASE n # Len(cmds) + 1
        <5>1. n \in (Live[d].from + 1)..Len(cmds) /\ n \in 1..Len(cmds)
          BY <1>1, <1>2, <4>3
        <5> QED
          BY <1>2, <4>1, <5>1
      <4> QED
        BY <4>2, <4>3
    <3> QED
      BY <1>3, <3>1, <3>2
  <2>3. \A d \in 1..L : d = L => failures' = Live'[d].before \/ Faulty(Live[d])'
    <3>1. CASE failures' = failures
      <4>1. ~Faulty(Live[L])
        <5>1. Sane(Top)
          BY TopIsGood DEF Good
        <5> QED
          BY <1>1, <5>1 DEF Sane, Faulty
      <4> QED
        BY <1>1, <1>3, <2>1, <3>1, <4>1
    <3>2. CASE Faulty(Live'[L])
      BY <3>2 DEF Faulty
    <3> QED
      BY <3>1, <3>2 DEF L
  <2>4. ASSUME NEW d \in 1..L, NEW e \in 1..L, d < e,
               \A c \in d..(e - 1) : ~Faulty(Live[c])'
        PROVE  Live'[e].before = Live'[d].before
    <3>1. \A c \in d..(e - 1) : c \in 1..L /\ c < L
      BY <1>1, <2>4
    <3>2. \A c \in d..(e - 1) : ~Faulty(Live[c])
      BY <1>4, <2>4, <3>1 DEF Faulty
    <3> QED
      BY <1>3, <2>1, <2>4, <3>2
  <2> QED
    BY <2>2, <2>3, <2>4 DEF Failing, L
<1> QED
  BY <1>5, <1>6, <1>7 DEF IInv, L

LEMMA ExecKeeps == ASSUME IInv, Exec PROVE IInv'
<1> DEFINE L == Len(Live)
           N == Len(cmds) + 1
<1>1. stack # <<>> /\ Top.pc = "exec" /\ ~Handed
  BY DEF Exec, At, Handed
<1>2. /\ Top \in Frames /\ Good(Top) /\ L \in Nat \ {0} /\ L \in 1..L
      /\ Live = stack /\ Live[L] = Top /\ Len(cmds) \in Nat
      /\ \A d \in 1..L : Live[d] \in Frames
      /\ cmds \in Seq([by : DOMAIN jobs, level : Nat, ok : BOOLEAN])
      /\ failures \in Nat /\ Top.job \in DOMAIN jobs /\ Top.level \in Nat
      /\ stack \in Seq(Frames)
  BY <1>1, TopIsGood, Known DEF Live, IInv, TypeOK
<1>3. Top.execOk /\ Top.end = "ok"
  BY <1>1, <1>2 DEF Good, Sane
<1>4. ASSUME NEW ok \in BOOLEAN, cmds' = Append(cmds, Command(ok)), UNCHANGED jobs,
             failures' \in {failures, failures + 1}
      PROVE  /\ cmds' \in Seq([by : DOMAIN jobs, level : Nat, ok : BOOLEAN])'
             /\ failures' \in Nat /\ Frames' = Frames /\ jobs' \in Configs
  <2>1. Command(ok) \in [by : DOMAIN jobs, level : Nat, ok : BOOLEAN]
    BY <1>2 DEF Command
  <2>2. Frames' = Frames
    BY <1>4 DEF Frames
  <2> QED
    BY <1>2, <1>4, <2>1, <2>2, AppendProperties, Known
<1>5. ASSUME NEW ok \in BOOLEAN, Executed(AfterExec(ok), ok, TRUE) PROVE IInv'
  <2> DEFINE o == <<N>>
             g1 == [Top EXCEPT !.pc = "asserts"]
             g2 == [g1 EXCEPT !.res = "set"]
             g3 == [g2 EXCEPT !.execOk = ok]
             g == [g3 EXCEPT !.out = o]
             was(d) == IF d = L THEN g ELSE Live[d]
             log(f) == Append(f.logged, N)
             now(d) == IF Listens(was(d)) THEN [was(d) EXCEPT !.logged = log(was(d))] ELSE was(d)
  <2>1. /\ cmds' = Append(cmds, Command(ok))
        /\ failures' = IF ok THEN failures ELSE failures + 1
        /\ stack' = [d \in DOMAIN stack |-> now(d)]
        /\ UNCHANGED <<jobs, ret, broken>>
    BY <1>2, <1>5 DEF Executed, AfterExec
  <2>2. o \in Seq(Nat) /\ {"asserts"} \subseteq Places /\ "set" \in Results
    BY <1>2 DEF Places, Results
  <2> HIDE DEF o
  <2>3. g1 \in Frames /\ g1.pc = "asserts" /\ Keep(Top, g1, Fields \ {"pc"})
    BY <1>2, <2>2, Goto
  <2> HIDE DEF g1
  <2>4. g2 \in Frames /\ g2.pc = "asserts" /\ Keep(Top, g2, Fields \ {"pc", "res"})
    BY <2>3, SetResult DEF Keep, Fields
  <2> HIDE DEF g2
  <2>5. /\ g3 \in Frames /\ g3.pc = "asserts" /\ g3.execOk = ok
        /\ Keep(Top, g3, Fields \ {"pc", "res", "execOk"})
    BY <2>4, SetExecOk DEF Keep, Fields
  <2> HIDE DEF g3
  <2>6. /\ g \in Frames /\ g.pc = "asserts" /\ g.execOk = ok /\ g.out = o
        /\ Keep(Top, g, Fields \ {"pc", "res", "execOk", "out"})
    BY <2>2, <2>5, SetOut DEF Keep, Fields
  <2> HIDE DEF g
  <2>7. \A d \in 1..L : /\ was(d) \in Frames
                        /\ Keep(Live[d], was(d), Fields \ {"pc", "res", "execOk", "out"})
    BY <1>2, <2>6 DEF Keep
  <2>8. \A d \in 1..L : Listens(was(d)) <=> Listens(Live[d])
    BY <2>7 DEF Listens, Keep, Fields
  <2>9. ASSUME NEW d \in 1..L
        PROVE  /\ now(d) \in Frames
               /\ now(d).logged = IF Listens(Live[d]) THEN Append(Live[d].logged, N)
                                  ELSE Live[d].logged
               /\ Keep(was(d), now(d), Fields \ {"logged"})
    <3>1. was(d).logged = Live[d].logged
      BY <2>7 DEF Keep, Fields
    <3>2. log(was(d)) \in Seq(Nat)
      <4>1. N \in Nat
        BY <1>2
      <4>2. was(d) \in Frames
        BY <2>7
      <4> HIDE DEF was, N
      <4>3. was(d).logged \in Seq(Nat)
        BY <4>2 DEF Frames
      <4> QED
        BY <4>1, <4>3, AppendProperties
    <3> HIDE DEF was, log
    <3>3. LET h == [was(d) EXCEPT !.logged = log(was(d))]
          IN  h \in Frames /\ h.logged = log(was(d)) /\ Keep(was(d), h, Fields \ {"logged"})
      BY <2>7, <3>2, SetLogged
    <3>4. CASE Listens(was(d))
      BY <2>8, <3>1, <3>3, <3>4 DEF log
    <3>5. CASE ~Listens(was(d))
      BY <2>7, <2>8, <3>1, <3>5 DEF Keep
    <3> QED
      BY <3>4, <3>5
  <2> HIDE DEF was, now
  <2>10. /\ stack' \in Seq(Frames) /\ Len(stack') = L /\ stack' # <<>>
         /\ \A d \in 1..L : stack'[d] = now(d)
    <3>1. DOMAIN stack = 1..L
      BY <1>2
    <3>2. stack' = [d \in 1..L |-> now(d)]
      BY <2>1, <3>1
    <3> HIDE DEF L
    <3>3. stack' \in Seq(Frames) /\ Len(stack') = L
      <4>1. stack' \in [1..L -> Frames] /\ L \in Nat
        BY <1>2, <2>9, <3>2
      <4>2. stack' \in Seq(Frames)
        BY <4>1
      <4> QED
        BY <4>1, <4>2
    <3>4. \A d \in 1..L : stack'[d] = now(d)
      BY <3>2
    <3>5. stack' # <<>>
      BY <1>2, <3>3
    <3> QED
      BY <3>3, <3>4, <3>5
  <2>11. ~Handed' /\ Live' = stack'
    BY <1>1, <2>1 DEF Handed, Live
  <2>12. TypeOK'
    <3>1. broken' \in BOOLEAN
      BY <2>1 DEF IInv, TypeOK
    <3>2. failures' \in {failures, failures + 1}
      BY <2>1
    <3>3. ret' \in Frames' \cup {NoReturn}
      BY <1>1, <2>1 DEF Handed
    <3> QED
      BY <1>4, <2>1, <2>10, <3>1, <3>2, <3>3 DEF TypeOK
  <2>13. \A d \in 1..L :
              /\ Keep(Live[d], now(d), {"job", "from", "before", "level", "collects", "depOut"})
              /\ d < L => Keep(Live[d], now(d), Fields \ {"logged"})
    <3>1. \A d \in 1..L : d < L => was(d) = Live[d]
      BY <1>2 DEF was
    <3> QED
      BY <2>7, <2>9, <3>1 DEF Keep, Fields
  <2>14. Went(now(L), ok) /\ (~ok => Faulty(now(L)))
    <3>1. was(L) = g
      BY DEF was
    <3>2. /\ now(L).pc = "asserts" /\ now(L).execOk = ok /\ now(L).out = o
          /\ now(L).end = Top.end
      BY <1>2, <2>6, <2>9, <3>1 DEF Keep, Fields
    <3> QED
      BY <1>3, <3>2 DEF Went, Faulty, o
  <2> HIDE DEF L
  <2> DEFINE heard == TRUE
  <2>15. /\ heard \in BOOLEAN /\ (heard \/ broken') /\ (broken => broken')
         /\ failures' \in {failures, failures + 1} /\ (failures' = failures => ok)
         /\ failures' = failures \/ ~ok
    BY <1>2, <2>1
  <2>16. \A d \in 1..L :
           /\ Keep(Live[d], Live'[d], {"job", "from", "before", "level", "collects", "depOut"})
           /\ Live'[d].logged = IF heard /\ Listens(Live[d])
                                THEN Append(Live[d].logged, N) ELSE Live[d].logged
           /\ d < L => Keep(Live[d], Live'[d], Fields \ {"logged"})
    BY <2>9, <2>10, <2>11, <2>13
  <2>17. Went(Live'[L], ok) /\ (~ok => Faulty(Live'[L])) /\ Len(Live') = L
    BY <1>2, <2>10, <2>11, <2>14
  <2> HIDE DEF heard
  <2> QED
    BY <1>1, <2>1, <2>10, <2>11, <2>12, <2>15, <2>16, <2>17, ByExecuting DEF L
<1>6. ASSUME NEW ok \in BOOLEAN, broken' = TRUE, FailAs(Top), cmds' = Append(cmds, Command(ok))
      PROVE  IInv'
  <2>1. PICK out \in Seq(Nat), end \in Ends, res \in Results :
               out = <<>> /\ end = "error" /\ res = "nil"
    <3>1. <<>> \in Seq(Nat) /\ "error" \in Ends /\ "nil" \in Results
      BY DEF Ends, Results
    <3> QED
      BY <3>1
  <2> DEFINE g == [Top EXCEPT !.pc = "unregister", !.i = 1, !.end = end,
                              !.res = res, !.out = out]
             heard == FALSE
  <2>2. Settles(g) /\ failures' = failures + 1 /\ UNCHANGED jobs
    BY <1>6, <2>1 DEF FailAs, Leave, Settles, Becomes
  <2>3. /\ g \in Frames /\ g.pc = "unregister" /\ g.end = end
        /\ Keep(Top, g, Fields \ {"pc", "i", "end", "res", "out"})
    <3>1. PICK f \in Frames : f = Top
      BY <1>2
    <3> DEFINE h == [f EXCEPT !.pc = "unregister", !.i = 1, !.end = end,
                              !.res = res, !.out = out]
    <3>2. /\ h \in Frames /\ h.pc = "unregister" /\ h.end = end /\ h.res = res
          /\ h.out = out /\ Keep(f, h, Fields \ {"pc", "i", "end", "res", "out"})
      BY LeftIs
    <3>3. h = g
      BY <3>1
    <3> HIDE DEF h, g
    <3> QED
      BY <3>1, <3>2, <3>3
  <2> HIDE DEF g
  <2>4. /\ stack' \in Seq(Frames) /\ ret' \in Frames \cup {NoReturn}
        /\ ~Handed' => stack' # <<>>
        /\ Handed' => ret' = g
        /\ Changed(Len(stack), g)
    BY <1>1, <2>2, <2>3, SettlesIs DEF IInv
  <2>5. Len(Live') = L /\ Live'[L] = g /\ \A d \in 1..L : d < L => Live'[d] = Live[d]
    <3>1. \A d \in 1..L : d < L => d \in 1..(L - 1)
      BY <1>2
    <3> QED
      BY <1>2, <2>4, <3>1 DEF Changed
  <2>6. TypeOK'
    <3>1. broken' \in BOOLEAN /\ failures' \in {failures, failures + 1}
      BY <1>6, <2>2
    <3> QED
      BY <1>4, <1>6, <2>2, <2>4, <3>1 DEF TypeOK
  <2> HIDE DEF L
  <2>7. \A d \in 1..L :
           /\ Keep(Live[d], Live'[d], {"job", "from", "before", "level", "collects", "depOut"})
           /\ Live'[d].logged = Live[d].logged
           /\ d < L => Keep(Live[d], Live'[d], Fields \ {"logged"})
    <3> TAKE d \in 1..L
    <3>1. CASE d = L
      BY <1>2, <2>3, <2>5, <3>1 DEF Keep, Fields
    <3>2. CASE d < L
      BY <2>5, <3>2 DEF Keep
    <3> QED
      BY <1>2, <3>1, <3>2
  <2>8. /\ heard \in BOOLEAN /\ (heard \/ broken') /\ (broken => broken')
        /\ failures' \in {failures, failures + 1} /\ failures' # failures
    BY <1>2, <1>6, <2>2
  <2>9. Went(Live'[L], ok) /\ Faulty(Live'[L])
    BY <2>1, <2>3, <2>5 DEF Went, Faulty
  <2>10. \A d \in 1..L :
            Live'[d].logged = IF heard /\ Listens(Live[d])
                              THEN Append(Live[d].logged, N) ELSE Live[d].logged
    BY <2>7
  <2>11. Handed' => ret'.pc = "unregister"
    BY <2>3, <2>4
  <2> HIDE DEF heard
  <2> QED
    BY <1>1, <1>6, <2>2, <2>4, <2>5, <2>6, <2>7, <2>8, <2>9, <2>10, <2>11, ByExecuting DEF L
<1>7. CASE FailUnbroken
  BY <1>1, <1>7, FailKeeps DEF FailUnbroken
<1> QED
  BY <1>5, <1>6, <1>7 DEF Exec, EventLost

-------------------------------------------------------------------------------
(* The invariant *)

LEMMA InitHolds == ASSUME Init PROVE IInv
<1>1. PICK name \in Entries : stack = <<Frame(name, 0)>>
  BY DEF Init
<1>2. PICK g : g = Frame(name, 0)
  OBVIOUS
<1>3. /\ jobs \in Configs /\ cmds = <<>> /\ failures = 0 /\ ret = NoReturn /\ broken = FALSE
      /\ stack = <<g>>
  BY <1>1, <1>2 DEF Init
<1>4. cmds \in Seq([by : DOMAIN jobs, level : Nat, ok : BOOLEAN]) /\ Len(cmds) = 0
  BY <1>3
<1>5. /\ g \in Frames /\ g.pc = "prepare" /\ g.execOk /\ g.end = "ok"
      /\ ~g.collects /\ g.called = 0 /\ g.from = 0 /\ g.before = 0
      /\ g.level = 0 /\ g.logged = <<>> /\ g.out = <<>> /\ g.depOut = <<>>
  <2>1. failures \in Nat /\ 0 \in Nat
    BY <1>3
  <2> QED
    BY <1>2, <1>3, <1>4, <2>1, FrameTyped
<1>6. ~Handed /\ Live = <<g>> /\ Len(Live) = 1 /\ Live[1] = g /\ stack # <<>>
  BY <1>3 DEF Handed, Live
<1>7. TypeOK
  <2>1. stack \in Seq(Frames)
    BY <1>3, <1>5
  <2> QED
    BY <1>3, <1>4, <2>1 DEF TypeOK
<1>8. \A d, e \in 1..Len(Live) : d = 1 /\ ~(d < e)
  BY <1>6
<1>9. Nested
  <2>1. \A d \in 1..Len(Live) : ~(d < Len(Live))
    BY <1>6
  <2> QED
    BY <1>8, <2>1 DEF Nested
<1>10. Failing
  <2>1. \A n : n \notin (0 + 1)..0
    OBVIOUS
  <2> QED
    BY <1>3, <1>4, <1>5, <1>6, <1>8, <2>1 DEF Failing
<1>11. Good(g)
  BY <1>4, <1>5 DEF Good, Sane, Deep, Logs, Quiet, Own, Doing, Silent
<1>12. Writes(g, 0)
  <2>1. Mine(0, 0, 0) = {} /\ 0 \in 0..0
    BY DEF Mine
  <2> QED
    BY <1>5, <2>1, CoversNothing DEF Writes
<1>13. \A d \in 1..Len(Live) : Good(Live[d]) /\ Writes(Live[d], Until(d))
  <2> TAKE d \in 1..Len(Live)
  <2>1. Live[d] = g /\ Until(d) = 0
    BY <1>4, <1>6, <1>8 DEF Until
  <2> QED
    BY <1>11, <1>12, <2>1
<1> QED
  BY <1>6, <1>7, <1>9, <1>10, <1>13 DEF IInv

LEMMA StutterKeeps == ASSUME IInv, UNCHANGED vars PROVE IInv'
<1>1. UNCHANGED <<jobs, stack, ret, cmds, failures, broken>>
  BY DEF vars
<1>2. Live' = Live /\ (Handed' <=> Handed)
  BY <1>1 DEF Live, Handed
<1>3. TypeOK' /\ (Handed' => ret'.pc = "unregister") /\ (~Handed' => stack' # <<>>)
  <2>1. Frames' = Frames
    BY <1>1 DEF Frames
  <2> QED
    BY <1>1, <1>2, <2>1 DEF IInv, TypeOK
<1>4. Nested'
  <2>1. Nested
    BY DEF IInv
  <2> QED
    BY <1>1, <1>2, <2>1 DEF Nested, Waiting, Above
<1>5. Failing'
  <2>1. Failing
    BY DEF IInv
  <2> QED
    BY <1>1, <1>2, <2>1 DEF Failing, Faulty
<1>6. \A d \in 1..Len(Live') : (Good(Live[d]) /\ Writes(Live[d], Until(d)))'
  <2> TAKE d \in 1..Len(Live')
  <2>1. PICK g : g = Live[d]
    OBVIOUS
  <2>2. PICK e : e = Until(d)
    OBVIOUS
  <2>3. Live'[d] = g /\ Until(d)' = e /\ Good(g) /\ Writes(g, e) /\ (broken => broken')
    BY <1>1, <1>2, <2>1, <2>2 DEF IInv, Until
  <2> QED
    BY <1>1, <2>3, GoodKept, WritesKept
<1> QED
  BY <1>3, <1>4, <1>5, <1>6 DEF IInv

LEMMA Invariance == Spec => []IInv
<1>1. IInv /\ [Next]_vars => IInv'
  <2> SUFFICES ASSUME IInv, [Next]_vars PROVE IInv'
    OBVIOUS
  <2>1. CASE Stop \/ UNCHANGED vars
    BY <2>1, StutterKeeps DEF Stop
  <2> QED
    BY <2>1, CallConfigKeeps, ConfigReturnedKeeps, PrepareKeeps, StartLogKeeps,
       CallDepKeeps, DepReturnedKeeps, DepsDoneKeeps, CheckoutKeeps,
       CallStepKeeps, StepReturnedKeeps, StepsDoneKeeps, ExecKeeps,
       CallRunKeeps, SkipRunKeeps, RunReturnedKeeps, RunsDoneKeeps,
       ExecAssertKeeps, AssertsDoneKeeps, FinishKeeps, UnregisterFailsKeeps,
       ForwardKeeps, ForwardReturnedKeeps, UnregisteredKeeps,
       PassErrorKeeps, CrashKeeps DEF Next
<1> QED
  BY <1>1, InitHolds, PTL DEF Spec

-------------------------------------------------------------------------------
(* The theorems *)

\* What the invariant says of the call that has just returned.
LEMMA ReturnedCall ==
    ASSUME IInv, Handed
    PROVE  /\ Logs(ret)
           /\ ret.end = "ok" => /\ ret.res = "set" /\ DidAll(ret) /\ failures = ret.before
                                /\ Covers(ret.out, Own(ret))
BY RetIsGood DEF Good, Doing, Writes, Own, Mine

\* Every call that has not returned, and the last one to return, is that of a
\* job there is; no name resolves to nothing (App.Job).
THEOREM TypeCorrect == Spec => []TypeOK
<1>1. IInv => TypeOK
  BY DEF IInv
<1> QED
  BY <1>1, Invariance, PTL

\* A call never gives its caller neither a result nor an error, however many of
\* its runs were skipped and whatever the jobs declare (App.Job).
THEOREM ResultOrErrorAlways == Spec => []ResultOrError
<1>1. IInv => ResultOrError
  BY ReturnedCall DEF ResultOrError
<1> QED
  BY <1>1, Invariance, PTL

\* No failure of a command, an assert, an expression, the delivery of an event
\* or the forwarding of a log is lost between the calls, however deep (App.Job,
\* execMultiRun, runJobInBody, the deferred unregister).
THEOREM FailureReportedAlways == Spec => []FailureReported
<1>1. IInv => FailureReported
  BY ReturnedCall DEF FailureReported
<1> QED
  BY <1>1, Invariance, PTL

\* Only the exec block executes commands.
LEMMA OnlyExec ==
    ASSUME [Next]_vars, cmds' # cmds
    PROVE  Exec
BY DEF vars, Next, CallConfig, ConfigReturned, Prepare, StartLog, CallDep, DepReturned,
       DepsDone, Checkout, CallStep, StepReturned, StepsDone, CallRun, SkipRun, RunReturned,
       RunsDone, ExecAssert, AssertsDone, Finish, UnregisterFails, Forward, ForwardReturned,
       Unregistered, PassError, Crash, Stop, Call, CallAside, Push, Resume, Proceed,
       FailUnbroken, Fail

\* After a command that failed, neither its job nor any that waits for it executes
\* another, but for the jobs to which the log of a call that failed is forwarded
\* (App.Job and its deferred unregister, runJobInBody).
THEOREM FailStopAlways == Spec => FailStop
<1> DEFINE Allowed ==
             \A d \in DOMAIN stack :
                ForwardsFailure(d) \/ \A n \in (stack[d].from + 1)..Len(cmds) : cmds[n].ok
<1>1. ASSUME IInv, [Next]_vars, cmds' # cmds PROVE Allowed
  <2>1. stack # <<>> /\ Top.pc = "exec" /\ ~Handed
    BY <1>1, OnlyExec DEF Exec, At, Handed
  <2>2. /\ Live = stack /\ stack \in Seq(Frames) /\ Len(stack) \in Nat \ {0}
        /\ Top = stack[Len(stack)]
    BY <1>1, <2>1, TopIs DEF Live, IInv, TypeOK
  <2> SUFFICES ASSUME NEW d \in 1..Len(stack), ~ForwardsFailure(d)
               PROVE  \A n \in (stack[d].from + 1)..Len(cmds) : cmds[n].ok
    BY <2>2
  <2>3. ASSUME NEW c \in d..Len(stack) PROVE ~Faulty(stack[c])
    <3>1. c \in 1..Len(stack) /\ Sane(stack[c]) /\ (c < Len(stack) => Waiting(stack[c]))
      BY <1>1, <2>2, Known DEF Good, IInv, Nested
    <3>2. stack[c].end = "ok"
      BY <3>1 DEF Sane, ForwardsFailure
    <3>3. stack[c].pc \notin {"asserts", "finish"}
      <4>1. CASE c < Len(stack)
        BY <3>1, <4>1 DEF Waiting
      <4>2. CASE c = Len(stack)
        BY <2>1, <2>2, <4>2
      <4> QED
        BY <2>2, <3>1, <4>1, <4>2
    <3> QED
      BY <3>1, <3>2, <3>3 DEF Sane, Faulty
  <2>4. failures = stack[Len(stack)].before
    BY <1>1, <2>2, <2>3 DEF IInv, Failing
  <2>5. stack[Len(stack)].before = stack[d].before
    <3>1. CASE d = Len(stack)
      BY <3>1
    <3>2. CASE d < Len(stack)
      <4>1. \A c \in d..(Len(stack) - 1) : ~Faulty(stack[c])
        BY <2>2, <2>3
      <4>2. d \in 1..Len(Live) /\ Len(stack) \in 1..Len(Live) /\ Live = stack
        BY <2>2
      <4>3. \A e \in 1..Len(Live) :
               d < e /\ (\A c \in d..(e - 1) : ~Faulty(Live[c]))
                 => Live[e].before = Live[d].before
        BY <1>1, <4>2 DEF IInv, Failing
      <4> QED
        BY <3>2, <4>1, <4>2, <4>3
    <3> QED
      BY <2>2, <3>1, <3>2
  <2> QED
    BY <1>1, <2>2, <2>4, <2>5 DEF IInv, Failing
<1>2. IInv /\ [Next]_vars => [cmds' # cmds => Allowed]_vars
  BY <1>1
<1> QED
  BY <1>2, Invariance, PTL DEF Spec, FailStop

\* A log block collects every command executed by its job and the jobs called
\* with its logger, in order, unless an event could not be delivered.
THEOREM LogIsCompleteAlways == Spec => []LogIsComplete
<1>1. IInv => LogIsComplete
  BY ReturnedCall DEF Logs, LogIsComplete
<1> QED
  BY <1>1, Invariance, PTL

\* A job that succeeds has executed its command or called its runs and evaluated
\* its asserts, unless it has steps.
THEOREM DoesAllItDeclaresAlways == Spec => []DoesAllItDeclares
<1>1. IInv => DoesAllItDeclares
  BY ReturnedCall DEF DidAll, RanBody, DoesAllItDeclares
<1> QED
  BY <1>1, Invariance, PTL

\* The output of a call that succeeded is that of its own commands, in the order
\* of their execution, and of all of them if no job chains its steps.
THEOREM OutputInOrderAlways == Spec => []OutputInOrder
<1>1. IInv => OutputInOrder
  BY ReturnedCall DEF Covers, Unchained, OutputInOrder
<1> QED
  BY <1>1, Invariance, PTL
===============================================================================
