-------------------------- MODULE ChapterRun_proofs --------------------------
(***************************************************************************)
(* Proofs about ChapterRun, for every workflow, every rewrite budget and   *)
(* every set of texts.                                                     *)
(***************************************************************************)
EXTENDS ChapterRun, FiniteSetTheorems, WellFoundedInduction, TLAPS

ConfigType == [editor : BOOLEAN, style : BOOLEAN, precheck : BOOLEAN,
               loop : BOOLEAN, force : BOOLEAN]

----------------------------------------------------------------------------
(* The graph.                                                              *)

\* The stage after Skeleton[i] is the first behind it that is present.
LEMMA AfterIs ==
    ASSUME NEW c, NEW i \in 1..10, NEW k \in 1..10, i < k, Present(c, Skeleton[k]),
           \A j \in 1..10 : i < j /\ j < k => ~Present(c, Skeleton[j])
    PROVE  After(c, Skeleton[i]) = Skeleton[k]
<1> DEFINE here == CHOOSE x \in DOMAIN Skeleton : Skeleton[x] = Skeleton[i]
           later == {x \in DOMAIN Skeleton : x > here /\ Present(c, Skeleton[x])}
           first == CHOOSE x \in later : \A y \in later : x <= y
<1>1. DOMAIN Skeleton = 1..10
  BY DEF Skeleton
<1>2. \A x, y \in 1..10 : Skeleton[x] = Skeleton[y] => x = y
  BY DEF Skeleton
<1>3. here = i
  BY <1>1, <1>2
<1>4. k \in later /\ \A y \in later : k <= y
  <2> HIDE DEF here
  <2>1. k \in later
    BY <1>1, <1>3
  <2>2. ASSUME NEW y \in later
        PROVE  k <= y
    <3>1. y \in 1..10 /\ i < y /\ Present(c, Skeleton[y])
      BY <1>1, <1>3
    <3>2. ~(y < k)
      BY <3>1
    <3> QED BY <3>1, <3>2
  <2> QED BY <2>1, <2>2
<1>5. first = k
  <2> HIDE DEF here
  <2>1. first \in later /\ \A y \in later : first <= y
    BY <1>4
  <2> HIDE DEF first
  <2>2. first \in 1..10 /\ first <= k /\ k <= first
    BY <2>1, <1>4, <1>1
  <2> QED BY <2>2
<1> HIDE DEF first
<1>6. After(c, Skeleton[i]) = IF later = {} THEN "@done" ELSE Skeleton[first]
  BY DEF After, first
<1> QED BY <1>4, <1>5, <1>6

LEMMA Stages ==
    ASSUME NEW c \in ConfigType
    PROVE  /\ After(c, "draft") = IF c.precheck THEN "pre_check"
                                  ELSE IF c.editor THEN "review" ELSE "final_check"
           /\ After(c, "pre_check") = IF c.editor THEN "review" ELSE "final_check"
           /\ c.editor => After(c, "review") = "post_check"
           /\ After(c, "polish") = "final_check"
           /\ After(c, "final_check") = "publish"
           /\ After(c, "publish") = "post"
           /\ After(c, "post") = "@done"
<1>1. /\ Skeleton[3] = "draft" /\ Skeleton[4] = "pre_check" /\ Skeleton[5] = "review"
      /\ Skeleton[6] = "post_check" /\ Skeleton[7] = "polish"
      /\ Skeleton[8] = "final_check" /\ Skeleton[9] = "publish" /\ Skeleton[10] = "post"
  BY DEF Skeleton
<1>2. /\ Present(c, Skeleton[4]) <=> c.precheck
      /\ Present(c, Skeleton[5]) <=> c.editor
      /\ Present(c, Skeleton[6]) <=> c.editor
      /\ Present(c, Skeleton[7]) <=> (c.editor /\ c.style)
      /\ Present(c, Skeleton[8]) /\ Present(c, Skeleton[9]) /\ Present(c, Skeleton[10])
  BY <1>1 DEF Present, ConfigType
<1>3. 3 \in 1..10 /\ 4 \in 1..10 /\ 5 \in 1..10 /\ 6 \in 1..10 /\ 7 \in 1..10
      /\ 8 \in 1..10 /\ 9 \in 1..10 /\ 10 \in 1..10
  OBVIOUS
<1>4. After(c, "draft") = IF c.precheck THEN "pre_check"
                          ELSE IF c.editor THEN "review" ELSE "final_check"
  <2>1. CASE c.precheck
    <3>1. \A j \in 1..10 : ~(3 < j /\ j < 4)
      OBVIOUS
    <3>2. 3 < 4 /\ Present(c, Skeleton[4])
          /\ \A j \in 1..10 : 3 < j /\ j < 4 => ~Present(c, Skeleton[j])
      BY <1>1, <1>2, <2>1, <3>1
    <3>3. After(c, Skeleton[3]) = Skeleton[4]
      BY <1>3, <3>2, AfterIs, Zenon
    <3> QED BY <1>1, <2>1, <3>3
  <2>2. CASE ~c.precheck /\ c.editor
    <3>1. \A j \in 1..10 : 3 < j /\ j < 5 => j = 4
      OBVIOUS
    <3>2. 3 < 5 /\ Present(c, Skeleton[5])
          /\ \A j \in 1..10 : 3 < j /\ j < 5 => ~Present(c, Skeleton[j])
      BY <1>1, <1>2, <2>2, <3>1
    <3>3. After(c, Skeleton[3]) = Skeleton[5]
      BY <1>3, <3>2, AfterIs, Zenon
    <3> QED BY <1>1, <2>2, <3>3
  <2>3. CASE ~c.precheck /\ ~c.editor
    <3>1. \A j \in 1..10 : 3 < j /\ j < 8 => j \in {4, 5, 6, 7}
      OBVIOUS
    <3>2. 3 < 8 /\ Present(c, Skeleton[8])
          /\ \A j \in 1..10 : 3 < j /\ j < 8 => ~Present(c, Skeleton[j])
      BY <1>1, <1>2, <2>3, <3>1
    <3>3. After(c, Skeleton[3]) = Skeleton[8]
      BY <1>3, <3>2, AfterIs, Zenon
    <3> QED BY <1>1, <2>3, <3>3
  <2> QED BY <2>1, <2>2, <2>3
<1>5. After(c, "pre_check") = IF c.editor THEN "review" ELSE "final_check"
  <2>1. CASE c.editor
    <3>1. \A j \in 1..10 : ~(4 < j /\ j < 5)
      OBVIOUS
    <3>2. 4 < 5 /\ Present(c, Skeleton[5])
          /\ \A j \in 1..10 : 4 < j /\ j < 5 => ~Present(c, Skeleton[j])
      BY <1>1, <1>2, <2>1, <3>1
    <3>3. After(c, Skeleton[4]) = Skeleton[5]
      BY <1>3, <3>2, AfterIs, Zenon
    <3> QED BY <1>1, <2>1, <3>3
  <2>2. CASE ~c.editor
    <3>1. \A j \in 1..10 : 4 < j /\ j < 8 => j \in {5, 6, 7}
      OBVIOUS
    <3>2. 4 < 8 /\ Present(c, Skeleton[8])
          /\ \A j \in 1..10 : 4 < j /\ j < 8 => ~Present(c, Skeleton[j])
      BY <1>1, <1>2, <2>2, <3>1
    <3>3. After(c, Skeleton[4]) = Skeleton[8]
      BY <1>3, <3>2, AfterIs, Zenon
    <3> QED BY <1>1, <2>2, <3>3
  <2> QED BY <2>1, <2>2
<1>6. ASSUME c.editor PROVE After(c, "review") = "post_check"
  <2>1. 5 < 6 /\ Present(c, Skeleton[6])
        /\ \A j \in 1..10 : 5 < j /\ j < 6 => ~Present(c, Skeleton[j])
    BY <1>1, <1>2, <1>6
  <2>2. After(c, Skeleton[5]) = Skeleton[6]
    BY <1>3, <2>1, AfterIs, Zenon
  <2> QED BY <1>1, <2>2
<1>7. \A i \in 7..9 : After(c, Skeleton[i]) = Skeleton[i + 1]
  <2> TAKE i \in 7..9
  <2>1. i \in 1..10 /\ i + 1 \in 1..10 /\ i < i + 1 /\ i + 1 \in {8, 9, 10}
    OBVIOUS
  <2>2. Present(c, Skeleton[i + 1])
        /\ \A j \in 1..10 : i < j /\ j < i + 1 => ~Present(c, Skeleton[j])
    BY <1>1, <1>2, <2>1
  <2> QED BY <2>1, <2>2, AfterIs, Zenon
<1>8. After(c, "post") = "@done"
  <2> DEFINE here == CHOOSE x \in DOMAIN Skeleton : Skeleton[x] = "post"
             later == {x \in DOMAIN Skeleton : x > here /\ Present(c, Skeleton[x])}
  <2>1. DOMAIN Skeleton = 1..10
    BY DEF Skeleton
  <2>2. here = 10
    BY DEF Skeleton
  <2> HIDE DEF here
  <2>3. later = {}
    BY <2>1, <2>2
  <2>4. After(c, "post") = IF later = {} THEN "@done"
                           ELSE Skeleton[CHOOSE i \in later : \A j \in later : i <= j]
    BY DEF After, here
  <2> QED BY <2>3, <2>4
<1> QED
  BY <1>1, <1>4, <1>5, <1>6, <1>7, <1>8

Steps == {"plan", "loop_head", "draft", "pre_check", "review", "force_fix",
          "post_check", "polish", "final_check", "publish", "post"}

LEMMA StepSet ==
    ASSUME NEW c \in ConfigType, NEW id
    PROVE  id \in StepIds(c) <=>
             \/ id \in {"plan", "loop_head", "draft", "final_check", "publish", "post"}
             \/ id = "pre_check" /\ c.precheck
             \/ id \in {"review", "post_check", "force_fix"} /\ c.editor
             \/ id = "polish" /\ c.editor /\ c.style
<1> DEFINE S == {Skeleton[i] : i \in {k \in DOMAIN Skeleton : Present(c, Skeleton[k])}}
<1>1. id \in S <=> \E k \in 1..10 : Present(c, Skeleton[k]) /\ id = Skeleton[k]
  BY DEF Skeleton
<1>2. (\E k \in 1..10 : Present(c, Skeleton[k]) /\ id = Skeleton[k])
      <=> Present(c, id) /\ id \in {"plan", "loop_head", "draft", "pre_check", "review",
                "post_check", "polish", "final_check", "publish", "post"}
  BY DEF Skeleton
<1>3. /\ id = "pre_check" => (Present(c, id) <=> c.precheck)
      /\ id \in {"review", "post_check"} => (Present(c, id) <=> c.editor)
      /\ id = "polish" => (Present(c, id) <=> c.editor /\ c.style)
      /\ id \in {"plan", "loop_head", "draft", "final_check", "publish", "post"}
           => Present(c, id)
  BY DEF Present, ConfigType
<1>4. id \in StepIds(c) <=> id \in S \/ (c.editor /\ id = "force_fix")
  BY DEF StepIds, ConfigType
<1> HIDE DEF S
<1> QED BY <1>1, <1>2, <1>3, <1>4

\* Where the verdict v of the step id leads, with these counters.
Goto(c, id, v, count, attempt) ==
    ResolveEdge(EdgeFor(DefaultGraph(c)[id], v),
                [loopEnabled |-> c.loop, rewriteCount |-> count,
                 maxRewrites |-> MaxRewrites, attempt |-> attempt])

LEMMA EdgeOf ==
    ASSUME NEW c \in ConfigType, NEW id \in StepIds(c), NEW v
    PROVE  EdgeFor(DefaultGraph(c)[id], v) =
             IF v \in DOMAIN Handlers(c, id) THEN Handlers(c, id)[v] ELSE NextEdge(c, id)
BY DEF EdgeFor, DefaultGraph

\* An edge without a budget is taken; the others, unless theirs is spent.
LEMMA Taken ==
    ASSUME NEW c \in ConfigType, NEW id \in StepIds(c), NEW v,
           NEW count, NEW attempt, NEW to,
           EdgeFor(DefaultGraph(c)[id], v) = Target(to)
    PROVE  Goto(c, id, v, count, attempt) = to
BY DEF Goto, Target, ResolveEdge, BudgetExhausted

LEMMA PlanEdges ==
    ASSUME NEW c \in ConfigType, NEW count \in Nat, NEW attempt \in Nat
    PROVE  /\ Goto(c, "plan", "empty", count, attempt) = "@pause:planner"
           /\ Goto(c, "plan", "ok", count, attempt) =
                IF count >= MaxRewrites THEN LoopExit(c) ELSE "loop_head"
<1>1. "plan" \in StepIds(c)
  BY StepSet
<1>2. /\ Handlers(c, "plan") = On("empty", Target("@pause:planner"))
      /\ NextEdge(c, "plan") = Budgeted("loop_head", "rewrite", FALSE, LoopExit(c))
  BY DEF Handlers, NextEdge
<1>3. EdgeFor(DefaultGraph(c)["plan"], "empty") = Target("@pause:planner")
  BY <1>1, <1>2, EdgeOf DEF On
<1>4. EdgeFor(DefaultGraph(c)["plan"], "ok") = Budgeted("loop_head", "rewrite", FALSE, LoopExit(c))
  BY <1>1, <1>2, EdgeOf DEF On
<1>5. Goto(c, "plan", "ok", count, attempt) =
        IF count >= MaxRewrites THEN LoopExit(c) ELSE "loop_head"
  BY <1>1, <1>4, LimitAssumption DEF Goto, Budgeted, ResolveEdge, BudgetExhausted
<1> QED BY <1>1, <1>3, <1>5, Taken

LEMMA LoopEdges ==
    ASSUME NEW c \in ConfigType, NEW count \in Nat, NEW attempt \in Nat
    PROVE  /\ Goto(c, "loop_head", "ok", count, attempt) = "draft"
           /\ Goto(c, "loop_head", "skipped", count, attempt) = After(c, "draft")
           /\ Goto(c, "draft", "ok", count, attempt) = After(c, "draft")
<1>1. "loop_head" \in StepIds(c) /\ "draft" \in StepIds(c)
  BY StepSet
<1>2. /\ Handlers(c, "loop_head") = On("skipped", Target(After(c, "draft")))
      /\ NextEdge(c, "loop_head") = Target("draft")
      /\ Handlers(c, "draft") = NoHandlers
      /\ NextEdge(c, "draft") = Target(After(c, "draft"))
  BY DEF Handlers, NextEdge
<1>3. /\ EdgeFor(DefaultGraph(c)["loop_head"], "ok") = Target("draft")
      /\ EdgeFor(DefaultGraph(c)["loop_head"], "skipped") = Target(After(c, "draft"))
      /\ EdgeFor(DefaultGraph(c)["draft"], "ok") = Target(After(c, "draft"))
  BY <1>1, <1>2, EdgeOf DEF On, NoHandlers
<1> QED BY <1>1, <1>3, Taken

LEMMA EditEdges ==
    ASSUME NEW c \in ConfigType, c.editor, NEW count \in Nat, NEW attempt \in Nat
    PROVE  /\ Goto(c, "review", "ok", count, attempt) = "post_check"
           /\ Goto(c, "review", "rewrite", count, attempt) =
                IF ~c.loop \/ count >= MaxRewrites THEN "force_fix" ELSE "loop_head"
           /\ Goto(c, "force_fix", "ok", count, attempt) = LoopExit(c)
           /\ Goto(c, "force_fix", "skipped", count, attempt) = "@pause:editor"
           /\ Goto(c, "post_check", "ok", count, attempt) = LoopExit(c)
           /\ Goto(c, "post_check", "blocked", count, attempt) = LoopExit(c)
           /\ Goto(c, "post_check", "rewrite", count, attempt) =
                IF count >= MaxRewrites THEN LoopExit(c) ELSE "loop_head"
<1>1. "review" \in StepIds(c) /\ "force_fix" \in StepIds(c) /\ "post_check" \in StepIds(c)
  BY StepSet
<1>2. /\ Handlers(c, "review") = On("rewrite", Budgeted("loop_head", "rewrite", TRUE, "force_fix"))
      /\ NextEdge(c, "review") = Target("post_check")
      /\ Handlers(c, "force_fix") = On("skipped", Target("@pause:editor"))
      /\ NextEdge(c, "force_fix") = Target(LoopExit(c))
      /\ Handlers(c, "post_check") =
           On("rewrite", Budgeted("loop_head", "rewrite", FALSE, LoopExit(c)))
      /\ NextEdge(c, "post_check") = Target(LoopExit(c))
  BY Stages DEF Handlers, NextEdge
<1>3. /\ EdgeFor(DefaultGraph(c)["review"], "ok") = Target("post_check")
      /\ EdgeFor(DefaultGraph(c)["review"], "rewrite") =
           Budgeted("loop_head", "rewrite", TRUE, "force_fix")
  BY <1>1, <1>2, EdgeOf DEF On
<1>4. /\ EdgeFor(DefaultGraph(c)["force_fix"], "ok") = Target(LoopExit(c))
      /\ EdgeFor(DefaultGraph(c)["force_fix"], "skipped") = Target("@pause:editor")
  BY <1>1, <1>2, EdgeOf DEF On
<1>5. /\ EdgeFor(DefaultGraph(c)["post_check"], "ok") = Target(LoopExit(c))
      /\ EdgeFor(DefaultGraph(c)["post_check"], "blocked") = Target(LoopExit(c))
      /\ EdgeFor(DefaultGraph(c)["post_check"], "rewrite") =
           Budgeted("loop_head", "rewrite", FALSE, LoopExit(c))
  BY <1>1, <1>2, EdgeOf DEF On
<1>6. Goto(c, "review", "rewrite", count, attempt) =
        IF ~c.loop \/ count >= MaxRewrites THEN "force_fix" ELSE "loop_head"
  BY <1>1, <1>3, LimitAssumption DEF Goto, Budgeted, ResolveEdge, BudgetExhausted
<1>7. Goto(c, "post_check", "rewrite", count, attempt) =
        IF count >= MaxRewrites THEN LoopExit(c) ELSE "loop_head"
  BY <1>1, <1>5, LimitAssumption DEF Goto, Budgeted, ResolveEdge, BudgetExhausted
<1>8. Goto(c, "review", "ok", count, attempt) = "post_check"
  BY <1>1, <1>3, Taken
<1>9. /\ Goto(c, "force_fix", "ok", count, attempt) = LoopExit(c)
      /\ Goto(c, "force_fix", "skipped", count, attempt) = "@pause:editor"
  BY <1>1, <1>4, Taken
<1>10. /\ Goto(c, "post_check", "ok", count, attempt) = LoopExit(c)
       /\ Goto(c, "post_check", "blocked", count, attempt) = LoopExit(c)
  BY <1>1, <1>5, Taken
<1> QED BY <1>6, <1>7, <1>8, <1>9, <1>10

LEMMA PreCheckEdge ==
    ASSUME NEW c \in ConfigType, c.precheck, NEW count \in Nat, NEW attempt \in Nat
    PROVE  Goto(c, "pre_check", "ok", count, attempt) =
             IF c.editor THEN "review" ELSE "final_check"
<1>1. "pre_check" \in StepIds(c)
  BY StepSet
<1>2. Handlers(c, "pre_check") = NoHandlers /\ NextEdge(c, "pre_check") = Target(After(c, "pre_check"))
  BY DEF Handlers, NextEdge
<1>3. EdgeFor(DefaultGraph(c)["pre_check"], "ok") = Target(After(c, "pre_check"))
  BY <1>1, <1>2, EdgeOf DEF NoHandlers
<1> QED BY <1>1, <1>3, Taken, Stages

LEMMA PolishEdges ==
    ASSUME NEW c \in ConfigType, c.editor, c.style, NEW count \in Nat, NEW attempt \in Nat,
           NEW v
    PROVE  Goto(c, "polish", v, count, attempt) = "final_check"
<1>1. "polish" \in StepIds(c)
  BY StepSet
<1>2. Handlers(c, "polish") = NoHandlers /\ NextEdge(c, "polish") = Target(After(c, "polish"))
  BY DEF Handlers, NextEdge
<1>3. EdgeFor(DefaultGraph(c)["polish"], v) = Target(After(c, "polish"))
  BY <1>1, <1>2, EdgeOf DEF NoHandlers
<1> QED BY <1>1, <1>3, Taken, Stages

LEMMA EndEdges ==
    ASSUME NEW c \in ConfigType, NEW count \in Nat, NEW attempt \in Nat
    PROVE  /\ Goto(c, "final_check", "ok", count, attempt) = "publish"
           /\ Goto(c, "final_check", "blocked", count, attempt) = "@pause:validator"
           /\ Goto(c, "final_check", "fail", count, attempt) =
                IF attempt >= 3 THEN "@pause:validator" ELSE "@retry_chapter"
           /\ Goto(c, "publish", "ok", count, attempt) = "post"
           /\ Goto(c, "post", "ok", count, attempt) = "@done"
<1>1. "final_check" \in StepIds(c) /\ "publish" \in StepIds(c) /\ "post" \in StepIds(c)
  BY StepSet
<1>2. /\ DOMAIN Handlers(c, "final_check") = {"blocked", "fail"}
      /\ Handlers(c, "final_check")["blocked"] = Target("@pause:validator")
      /\ Handlers(c, "final_check")["fail"] =
           Budgeted("@retry_chapter", "attempt", FALSE, "@pause:validator")
      /\ NextEdge(c, "final_check") = Target("publish")
      /\ Handlers(c, "publish") = On("blocked", Target("@pause:validator"))
      /\ NextEdge(c, "publish") = Target("post")
      /\ Handlers(c, "post") = NoHandlers
      /\ NextEdge(c, "post") = Target("@done")
  BY Stages DEF Handlers, NextEdge
<1>3. /\ EdgeFor(DefaultGraph(c)["final_check"], "ok") = Target("publish")
      /\ EdgeFor(DefaultGraph(c)["final_check"], "blocked") = Target("@pause:validator")
      /\ EdgeFor(DefaultGraph(c)["final_check"], "fail") =
           Budgeted("@retry_chapter", "attempt", FALSE, "@pause:validator")
  BY <1>1, <1>2, EdgeOf
<1>4. /\ EdgeFor(DefaultGraph(c)["publish"], "ok") = Target("post")
      /\ EdgeFor(DefaultGraph(c)["post"], "ok") = Target("@done")
  BY <1>1, <1>2, EdgeOf DEF On, NoHandlers
<1>5. Goto(c, "final_check", "fail", count, attempt) =
        IF attempt >= 3 THEN "@pause:validator" ELSE "@retry_chapter"
  BY <1>1, <1>3, LimitAssumption DEF Goto, Budgeted, ResolveEdge, BudgetExhausted
<1>6. /\ Goto(c, "final_check", "ok", count, attempt) = "publish"
      /\ Goto(c, "final_check", "blocked", count, attempt) = "@pause:validator"
  BY <1>1, <1>3, Taken
<1>7. /\ Goto(c, "publish", "ok", count, attempt) = "post"
      /\ Goto(c, "post", "ok", count, attempt) = "@done"
  BY <1>1, <1>4, Taken
<1> QED BY <1>5, <1>6, <1>7

----------------------------------------------------------------------------
(* Texts.                                                                  *)

\* The library's order on the naturals, unfolded.
LEMMA LessThanPair ==
    ASSUME NEW x \in Nat, NEW y \in Nat, y < x
    PROVE  <<y, x>> \in OpToRel(<, Nat)
<1> DEFINE p == <<y, x>>
<1>1. p \in Nat \X Nat /\ p[1] = y /\ p[2] = x
  OBVIOUS
<1>2. p[1] < p[2]
  BY <1>1
<1> HIDE DEF p
<1>3. p \in OpToRel(<, Nat)
  BY <1>1, <1>2, Zenon DEF OpToRel
<1> QED
  BY <1>3 DEF p

LEMMA LeastText ==
    ASSUME NEW S, S \subseteq Nat, S # {}
    PROVE  \E x \in S : \A y \in S : x <= y
<1>1. PICK x \in S : \A y \in S : ~ (<<y, x>> \in OpToRel(<, Nat))
  BY NatLessThanWellFounded, WFMin, Zenon
<1>2. ASSUME NEW y \in S
      PROVE  x <= y
  <2>1. x \in Nat /\ y \in Nat
    OBVIOUS
  <2>2. ~ (y < x)
    BY <1>1, <2>1, LessThanPair, Zenon
  <2> QED BY <2>1, <2>2
<1> QED BY <1>2

\* The rows and the run hold nine texts at most.
LEMMA FewHeld == IsFiniteSet(Held) /\ Cardinality(Held) <= 9
<1> DEFINE texts == << row.draft, row.edited, row.content, db.draft, db.edited,
                       db.content, run.draft, run.edited, run.latest.text >>
           R == {texts[i] : i \in 1..9}
<1>1. Held = R
  <2>1. Held = {row.draft, row.edited, row.content} \cup {db.draft, db.edited, db.content}
               \cup {run.draft, run.edited, run.latest.text}
    BY DEF Held, HeldBy
  <2>2. R = {texts[1], texts[2], texts[3], texts[4], texts[5], texts[6], texts[7],
             texts[8], texts[9]}
    <3> HIDE DEF texts
    <3>1. \A i : i \in 1..9 <=> i \in {1, 2, 3, 4, 5, 6, 7, 8, 9}
      OBVIOUS
    <3> QED BY <3>1
  <2>3. R = {row.draft, row.edited, row.content, db.draft, db.edited,
             db.content, run.draft, run.edited, run.latest.text}
    BY <2>2
  <2> HIDE DEF R
  <2> QED BY <2>1, <2>3
<1>2. DOMAIN texts = 1..9 /\ texts = [i \in 1..9 |-> texts[i]]
  OBVIOUS
<1>3. texts \in Surjection(1..9, R)
  <2> HIDE DEF texts
  <2> QED BY <1>2 DEF Surjection
<1>4. IsFiniteSet(1..9) /\ Cardinality(1..9) = 9
  <2>1. /\ IsFiniteSet(1..9)
        /\ Cardinality(1..9) = IF 1 > 9 THEN 0 ELSE 9 - 1 + 1
    BY 1 \in Int, 9 \in Int, FS_Interval, Zenon
  <2> QED BY <2>1
<1>5. IsFiniteSet(R) /\ Cardinality(R) <= Cardinality(1..9)
  <2> HIDE DEF texts, R
  <2> QED BY <1>3, <1>4, FS_Surjection
<1> QED BY <1>1, <1>4, <1>5

\* So there is always a text that nobody holds.
LEMMA NewTextThere == NewText \in Texts /\ NewText \notin Held
<1>1. Texts \ Held # {}
  <2>1. SUFFICES ASSUME Texts \subseteq Held PROVE FALSE
    OBVIOUS
  <2>2. IsFiniteSet(Texts) /\ Cardinality(Texts) <= Cardinality(Held)
    BY <2>1, FewHeld, FS_Subset
  <2>3. Cardinality(Texts) \in Nat /\ Cardinality(Held) \in Nat
    BY <2>2, FewHeld, FS_CardinalityType
  <2>4. Cardinality(Texts) > 9
    BY <2>2, TextAssumption
  <2> QED BY <2>2, <2>3, <2>4, FewHeld
<1>2. Texts \ Held \subseteq Nat
  BY TextAssumption
<1>3. \E t \in Texts \ Held : \A u \in Texts \ Held : t <= u
  BY <1>1, <1>2, LeastText
<1>4. NewText \in Texts \ Held
  <2> HIDE DEF Held
  <2> QED BY <1>3 DEF NewText
<1> QED BY <1>4

----------------------------------------------------------------------------
(* The inductive invariant.                                                *)

InLoop == {"loop_head", "draft", "pre_check", "review", "post_check"}

\* Where the run has a draft.
Behind == {"pre_check", "review", "force_fix", "post_check", "polish",
           "final_check", "publish", "@pause:editor"}

\* A row by itself: it waits for a review at a step the extractor left it at,
\* it was rewritten only if it had a draft, and without an Editor an edited
\* text is one the user or a publication has made its content.
RowSound(c, r) ==
    /\ r.status = "pending_review" => r.pstep \in {"validating", "extracting"}
    /\ r.count > 0 => r.draft # NoText
    /\ ~c.editor /\ r.content = NoText => r.edited = NoText

RowsSound ==
    /\ RowSound(conf, row) /\ RowSound(conf, db)
    /\ row.content = db.content
    /\ row.draft = NoText <=> db.draft = NoText
    /\ job.step = "editor" => row.draft # NoText

\* Every place of the walk is a step of this workflow's graph, with the budgets
\* that let it get there.
OnGraph ==
    /\ run.at \in Steps => run.at \in StepIds(conf)
    /\ run.at = "@pause:editor" => conf.editor
    /\ run.at \in InLoop => run.count < MaxRewrites
    /\ run.at = "@retry_chapter" => run.attempt < 3
    /\ run.start = "editor" => conf.editor

\* The chapter's pipeline step never runs ahead of the walk's.
StepKept ==
    /\ run.at = "plan" /\ run.start = "planner" => row.pstep = "outline"
    /\ run.at \in InLoop => row.pstep \in {"writing", "editing"}

\* A chapter that waits for a review is not walked.
Waiting ==
    /\ run.at \in Steps => row.status # "pending_review" /\ db.status # "pending_review"
    /\ retries = 4 => \/ run.at = "@done"
                      \/ run.at = "enter" /\ row.status = "pending_review"

DraftThere == run.at \in Behind => run.draft # NoText /\ row.draft # NoText

\* What a run brings from its start policy to the first pass of the loop.
Carried ==
    /\ run.at = "plan" =>
         /\ run.draft = row.draft /\ run.edited = row.edited
         /\ run.count > 0 => run.draft # NoText
         /\ run.skip => run.count = MaxRewrites
         /\ run.start = "editor" => run.decision = "keep" /\ run.draft # NoText
         /\ run.decision = "keep" => run.start = "editor"
         /\ ~run.skip => run.decision # "none"
         /\ run.decision # "blocked"
    /\ run.at = "loop_head" /\ run.decision # "rewrite" =>
         conf.editor /\ run.draft # NoText /\ row.draft # NoText
    /\ run.at \in {"draft", "plan"} => ~run.latest.given

\* From the Editor on, the row has the texts of the run.
Synced ==
    /\ ~conf.editor /\ row.content = NoText /\ run.at \in Steps => run.edited = NoText
    /\ seen.blank /\ run.at \in Steps \ {"post"} => row.content = NoText
    /\ run.at \in {"force_fix", "post_check", "polish", "final_check"} =>
         /\ row.draft = run.draft
         /\ row.edited = run.edited \/ (~conf.editor /\ row.content # NoText)

\* The verdict at hand before the final check is one on the present text.
Passed ==
    /\ run.latest.given => run.latest.text # NoText
    /\ run.at \in {"polish", "final_check"} /\ run.latest.given /\ run.latest.passed =>
         run.latest.text \in seen.passed /\ run.latest.text = Current
    /\ run.at = "publish" =>
         /\ Or(row.edited, row.draft) \in seen.passed
         /\ seen.blank => Or(row.edited, row.draft) = Current

\* A run that resumes at the Editor and has not heard the Editor yet.
Resumed ==
    run.start = "editor" /\ ~seen.reviewed =>
        /\ run.at \notin {"draft", "force_fix", "post_check"}
        /\ run.at \in {"plan", "loop_head"} => run.decision = "keep"

\* The steps a walk can still take.
Remaining ==
    CASE run.at = "plan"        -> 5 * (MaxRewrites - run.count) + 5
      [] run.at = "loop_head"   -> 5 * (MaxRewrites - run.count) + 4
      [] run.at = "draft"       -> 5 * (MaxRewrites - run.count) + 3
      [] run.at = "pre_check"   -> 5 * (MaxRewrites - run.count) + 2
      [] run.at = "review"      -> 5 * (MaxRewrites - run.count) + 1
      [] run.at = "post_check"  -> 5 * (MaxRewrites - run.count)
      [] run.at = "force_fix"   -> 5
      [] run.at = "polish"      -> 4
      [] run.at = "final_check" -> 3
      [] run.at = "publish"     -> 2
      [] run.at = "post"        -> 1
      [] OTHER                  -> 0

Converging == run.executed + Remaining <= 5 * MaxRewrites + 5

\* The invariant of a walk, and the inductive invariant.
WalkInv == OnGraph /\ StepKept /\ Waiting /\ DraftThere /\ Carried /\ Synced /\ Passed
           /\ Resumed /\ Converging
IInv == TypeOK /\ RowsSound /\ WalkInv

LEMMA Small == /\ NoText = 0 /\ NoText \notin Texts
               /\ MaxRewrites \in Nat /\ MaxRewrites > 0 /\ MaxSteps \in Nat
BY LimitAssumption, TextAssumption DEF NoText

\* A walk that is over, or that has not begun, leaves nothing to keep.
LEMMA Stopped ==
    ASSUME IInv, TypeOK', RowsSound', NEW at \in {"idle", "enter", "@done"}, NEW n,
           run' = AtStep(at, n),
           retries' = 4 => at = "@done" \/ (at = "enter" /\ row'.status = "pending_review")
    PROVE  IInv'
<1>1. /\ run'.at = at /\ run'.executed = 0 /\ run'.start = "planner"
      /\ run'.latest.given = FALSE /\ at \notin Steps
  BY DEF AtStep, NoResult, Steps
<1>2. OnGraph' /\ StepKept' /\ Waiting' /\ DraftThere' /\ Carried' /\ Synced' /\ Passed' /\ Resumed'
  BY <1>1 DEF OnGraph, StepKept, Waiting, DraftThere, Carried, Synced, Passed, Resumed,
              InLoop, Behind, Steps
<1>3. Converging'
  BY <1>1, Small DEF Converging, Remaining
<1> QED BY <1>2, <1>3 DEF IInv, WalkInv

LEMMA Followed ==
    ASSUME TypeOK, NEW st \in RunType, NEW v, run.executed < MaxSteps,
           st.executed = run.executed, Follow(st, v),
           NEW to, to = Goto(conf, run.at, v, st.count, st.attempt),
           to \in Steps \cup {"@done", "@retry_chapter", "@pause:planner", "@pause:editor",
                              "@pause:validator"}
    PROVE  /\ run' \in RunType
           /\ run'.at = to /\ run'.executed = run.executed + 1
           /\ run'.attempt = st.attempt /\ run'.start = st.start /\ run'.count = st.count
           /\ run'.draft = st.draft /\ run'.edited = st.edited
           /\ run'.decision = st.decision /\ run'.latest = st.latest
           /\ run'.skip = st.skip /\ run'.polished = st.polished
<1>1. run' = [st EXCEPT !.executed = @ + 1, !.at = to]
  BY DEF Follow, Goto, Graph
<1>2. PICK r : r = [st EXCEPT !.executed = @ + 1, !.at = to]
  OBVIOUS
<1>3. st.executed + 1 \in 0..MaxSteps
  BY Small DEF TypeOK, RunType
<1>4. to \in CallsModel \cup {"idle", "enter", "loop_head", "publish", "@done",
                              "@retry_chapter"} \cup DOMAIN PauseAnchor
  BY DEF Steps, CallsModel, PauseAnchor
<1>5. r \in RunType
  BY <1>2, <1>3, <1>4 DEF RunType
<1>6. /\ r.at = to /\ r.executed = st.executed + 1
      /\ r.attempt = st.attempt /\ r.start = st.start /\ r.count = st.count
      /\ r.draft = st.draft /\ r.edited = st.edited
      /\ r.decision = st.decision /\ r.latest = st.latest
      /\ r.skip = st.skip /\ r.polished = st.polished
  BY <1>2 DEF RunType
<1> QED BY <1>1, <1>2, <1>5, <1>6

LEMMA Types ==
    ASSUME TypeOK
    PROVE  /\ conf \in ConfigType /\ run \in RunType /\ row \in RowType /\ db \in RowType
           /\ run.count \in Nat /\ run.count <= MaxRewrites
           /\ run.attempt \in Nat /\ run.executed \in Nat
BY ConfigAssumption, Small DEF TypeOK, ConfigType, RunType

LEMMA IdleTyped ==
    /\ \A at \in {"idle", "enter", "@done"}, n \in 1..3 : AtStep(at, n) \in RunType
    /\ NothingSeen \in [passed : SUBSET Texts, rejected : SUBSET TextOrNone,
                        reviewed : BOOLEAN, blank : BOOLEAN]
BY Small DEF AtStep, NoResult, RunType, TextOrNone, Anchor, CallsModel, NothingSeen

\* What the history is after a step that leaves these texts in it.
LEMMA Remembered ==
    ASSUME TypeOK, NEW P \in SUBSET Texts, NEW R \in SUBSET TextOrNone, Remember(P, R)
    PROVE  /\ seen' \in [passed : SUBSET Texts, rejected : SUBSET TextOrNone,
                         reviewed : BOOLEAN, blank : BOOLEAN]
           /\ seen'.passed = P \cap Held'
           /\ seen'.reviewed = seen.reviewed /\ seen'.blank = seen.blank
<1>1. PICK H : H = Held'
  OBVIOUS
<1>2. seen' = [seen EXCEPT !.passed = P \cap H, !.rejected = R \cap H]
  BY <1>1 DEF Remember
<1> QED BY <1>1, <1>2 DEF TypeOK

LEMMA HeldNext ==
    /\ run'.latest.text \in Held' /\ row'.draft \in Held' /\ row'.edited \in Held'
BY DEF Held, HeldBy

LEMMA PSteps ==
    /\ {PipelineStep[i] : i \in DOMAIN PipelineStep} =
         {"none", "outline", "writing", "editing", "validating", "extracting", "published"}
    /\ ~IsBackward("outline", "writing")
    /\ ~IsBackward("writing", "editing") /\ ~IsBackward("editing", "editing")
<1>1. \A i : i \in DOMAIN PipelineStep <=> i \in {1, 2, 3, 4, 5, 6, 7}
  BY DEF PipelineStep
<1>2. /\ PipelineStep[1] = "none" /\ PipelineStep[2] = "outline" /\ PipelineStep[3] = "writing"
      /\ PipelineStep[4] = "editing" /\ PipelineStep[5] = "validating"
      /\ PipelineStep[6] = "extracting" /\ PipelineStep[7] = "published"
  BY DEF PipelineStep
<1>3. {PipelineStep[i] : i \in DOMAIN PipelineStep} =
        {"none", "outline", "writing", "editing", "validating", "extracting", "published"}
  BY <1>1, <1>2
<1>4. /\ ~IsBackward("outline", "writing")
      /\ ~IsBackward("writing", "editing") /\ ~IsBackward("editing", "editing")
  BY <1>1, <1>2 DEF IsBackward
<1> QED BY <1>3, <1>4

----------------------------------------------------------------------------
(* The steps.                                                              *)

LEMMA LoopHeadKeeps ==
    ASSUME IInv, LoopHead
    PROVE  IInv'
<1>1. TypeOK /\ run.at = "loop_head" /\ run.executed < MaxSteps
  BY DEF IInv, LoopHead, At
<1>2. PICK st : st = [run EXCEPT !.latest = NoResult]
  OBVIOUS
<1>3. /\ st \in RunType /\ st.executed = run.executed /\ st.count = run.count
      /\ st.attempt = run.attempt /\ st.start = run.start /\ st.draft = run.draft
      /\ st.edited = run.edited /\ st.decision = run.decision /\ ~st.latest.given
  BY <1>1, <1>2, Types DEF RunType, NoResult, TextOrNone
<1>4. PICK v : Follow(st, v) /\ v = (IF run.decision = "rewrite" THEN "ok" ELSE "skipped")
  BY <1>2 DEF LoopHead
<1>5. PICK to : to = IF run.decision = "rewrite" THEN "draft" ELSE After(conf, "draft")
  OBVIOUS
<1>6. Goto(conf, run.at, v, st.count, st.attempt) = to
  BY <1>1, <1>3, <1>4, <1>5, Types, LoopEdges
<1>7. /\ run.decision # "rewrite" => conf.editor
      /\ to \in StepIds(conf)
      /\ to = IF run.decision = "rewrite" THEN "draft"
              ELSE IF conf.precheck THEN "pre_check" ELSE "review"
  BY <1>1, <1>5, Types, Stages, StepSet DEF IInv, WalkInv, Carried
<1>8. /\ run' \in RunType
      /\ run'.at = to /\ run'.executed = run.executed + 1
      /\ run'.attempt = st.attempt /\ run'.start = st.start /\ run'.count = st.count
      /\ run'.draft = st.draft /\ run'.edited = st.edited
      /\ run'.decision = st.decision /\ run'.latest = st.latest
      /\ run'.skip = st.skip /\ run'.polished = st.polished
  BY <1>1, <1>3, <1>4, <1>6, <1>7, Followed DEF Steps
<1>9. UNCHANGED << conf, job, row, db, retries, seen >>
  BY DEF LoopHead
<1>10. TypeOK' /\ RowsSound'
  BY <1>8, <1>9 DEF IInv, TypeOK, RowsSound
<1>11. OnGraph' /\ StepKept' /\ Waiting' /\ DraftThere' /\ Carried' /\ Passed' /\ Resumed'
  BY <1>1, <1>3, <1>7, <1>8, <1>9 DEF IInv, WalkInv, OnGraph, StepKept, Waiting, DraftThere, Carried,
     Passed, Resumed, InLoop, Behind, Steps
<1>12. Synced' /\ Converging'
  BY <1>1, <1>3, <1>7, <1>8, <1>9, Types, Small DEF IInv, WalkInv, Synced, Converging, Remaining, Steps
<1> QED BY <1>10, <1>11, <1>12 DEF IInv, WalkInv

LEMMA PlanKeeps ==
    ASSUME IInv, Plan
    PROVE  IInv'
<1>1. TypeOK /\ RowsSound /\ run.at = "plan" /\ run.executed < MaxSteps /\ conf' = conf
  BY DEF IInv, Plan, Starts, At
<1> DEFINE fromPlanner == run.start = "planner"
<1>2. PICK anchor : anchor = IF run.start = "editor" /\ run.draft # NoText /\ conf.editor
                             THEN "editor" ELSE "writer"
  OBVIOUS
<1>3. PICK saved : saved = [row EXCEPT !.outline = "full",
                                       !.pstep = IF fromPlanner THEN "writing" ELSE @]
  OBVIOUS
<1>4. PICK anchored : anchored = [saved EXCEPT !.pstep = PipelineStepOf(anchor)]
  OBVIOUS
<1>5. \/ /\ run.skip /\ Commit(saved) /\ UNCHANGED job
         /\ Follow(run, "ok") /\ UNCHANGED << retries, seen >>
      \/ /\ ~run.skip
         /\ Commit(anchored) /\ job' = [job EXCEPT !.step = anchor]
         /\ Follow(run, "ok") /\ UNCHANGED << retries, seen >>
      \/ /\ Commit(saved)
         /\ job' = [job EXCEPT !.step = IF fromPlanner THEN "writer" ELSE @]
         /\ EndRun
  BY <1>2, <1>3, <1>4, Zenon DEF Plan
<1>6. /\ saved \in RowType /\ saved.outline = "full"
      /\ saved.status = row.status /\ saved.draft = row.draft /\ saved.edited = row.edited
      /\ saved.content = row.content /\ saved.count = row.count
      /\ saved.pstep \in {row.pstep, "writing"}
  BY <1>1, <1>3, Types, PSteps DEF RowType
<1>7. /\ anchored \in RowType
      /\ anchored.status = row.status /\ anchored.draft = row.draft
      /\ anchored.edited = row.edited
      /\ anchored.content = row.content /\ anchored.count = row.count
      /\ anchored.pstep \in {"editing", "writing"}
  <2>1. PipelineStepOf(anchor) \in {"editing", "writing"}
    BY <1>2 DEF PipelineStepOf
  <2> QED BY <2>1, <1>4, <1>6, PSteps DEF RowType
<1>8. anchor \in Anchor /\ (anchor = "editor" => row.draft # NoText)
  BY <1>1, <1>2 DEF Anchor, IInv, WalkInv, Carried
<1>9. row.status # "pending_review"
  BY <1>1 DEF IInv, WalkInv, Waiting, Steps
<1>10. CASE EndRun /\ Commit(saved)
              /\ job' = [job EXCEPT !.step = IF fromPlanner THEN "writer" ELSE @]
  <2>1. /\ row' = saved /\ db' = saved
        /\ run' = AtStep("idle", 1) /\ retries' = 0 /\ seen' = NothingSeen
    BY <1>10 DEF Commit, EndRun, Idle
  <2>2. TypeOK'
    BY <1>1, <1>6, <1>10, <2>1, IdleTyped DEF TypeOK, Anchor
  <2>3. RowsSound'
    BY <1>1, <1>6, <1>9, <1>10, <2>1 DEF RowsSound, RowSound, TypeOK
  <2> QED BY <2>1, <2>2, <2>3, Stopped
<1>11. CASE /\ Follow(run, "ok") /\ UNCHANGED << retries, seen >>
            /\ \/ run.skip /\ Commit(saved) /\ UNCHANGED job
               \/ ~run.skip /\ Commit(anchored) /\ job' = [job EXCEPT !.step = anchor]
  <2>1. PICK to : to = IF run.count >= MaxRewrites THEN LoopExit(conf) ELSE "loop_head"
    OBVIOUS
  <2>2. Goto(conf, run.at, "ok", run.count, run.attempt) = to
    BY <1>1, <2>1, Types, PlanEdges
  <2>3. to \in StepIds(conf) /\ to \in {"polish", "final_check", "loop_head"}
        /\ (to = "loop_head" <=> run.count < MaxRewrites)
    BY <1>1, <2>1, Types, Small, StepSet DEF LoopExit, Present, ConfigType
  <2>4. /\ run' \in RunType
        /\ run'.at = to /\ run'.executed = run.executed + 1
        /\ run'.attempt = run.attempt /\ run'.start = run.start /\ run'.count = run.count
        /\ run'.draft = run.draft /\ run'.edited = run.edited
        /\ run'.decision = run.decision /\ run'.latest = run.latest
        /\ run'.skip = run.skip /\ run'.polished = run.polished
    BY <1>1, <1>11, <2>2, <2>3, Types, Followed DEF Steps
  <2>5. /\ row' \in RowType /\ db' = row'
        /\ row'.status = row.status /\ row'.draft = row.draft /\ row'.edited = row.edited
        /\ row'.content = row.content /\ row'.count = row.count
        /\ ~run.skip => row'.pstep \in {"editing", "writing"}
    BY <1>6, <1>7, <1>11 DEF Commit
  <2>6. TypeOK'
    BY <1>1, <1>8, <1>11, <2>4, <2>5 DEF TypeOK
  <2>7. RowsSound'
    BY <1>1, <1>8, <1>9, <1>11, <2>5 DEF RowsSound, RowSound, TypeOK
  <2>8. /\ run.draft = row.draft /\ run.edited = row.edited
        /\ run.count > 0 => run.draft # NoText
        /\ run.skip => run.count = MaxRewrites
        /\ ~run.latest.given
    BY <1>1 DEF IInv, WalkInv, Carried
  <2>9. OnGraph' /\ StepKept' /\ Waiting' /\ DraftThere' /\ Passed'
    BY <1>1, <1>9, <1>11, <2>3, <2>4, <2>5, <2>8, Types, Small
       DEF IInv, WalkInv, OnGraph, StepKept, Waiting, DraftThere, Passed, InLoop, Behind, Steps
  <2>10. Carried' /\ Resumed'
    BY <1>1, <1>11, <2>3, <2>4, <2>5, <2>8, Types, Small
       DEF IInv, WalkInv, OnGraph, Carried, Resumed, RunType
  <2>11. Synced' /\ Converging'
    BY <1>1, <1>11, <2>3, <2>4, <2>5, <2>8, Types, Small
       DEF IInv, WalkInv, Synced, Converging, Remaining, Steps
  <2> QED BY <2>6, <2>7, <2>9, <2>10, <2>11 DEF IInv, WalkInv
<1> QED BY <1>5, <1>10, <1>11

LEMMA PlanEmptyKeeps ==
    ASSUME IInv, PlanEmpty
    PROVE  IInv'
<1>1. TypeOK /\ RowsSound /\ run.at = "plan" /\ run.executed < MaxSteps
  BY DEF IInv, PlanEmpty, At
<1>2. PICK r : r = [row EXCEPT !.outline = "bare"]
  OBVIOUS
<1>3. /\ r \in RowType /\ r.status = row.status /\ r.draft = row.draft /\ r.edited = row.edited
      /\ r.content = row.content /\ r.count = row.count /\ r.pstep = row.pstep
  BY <1>1, <1>2, Types DEF RowType
<1>4. /\ row' = r /\ db' = r /\ Follow(run, "empty")
      /\ UNCHANGED << conf, job, retries, seen >>
  BY <1>2 DEF PlanEmpty, Commit
<1>5. Goto(conf, run.at, "empty", run.count, run.attempt) = "@pause:planner"
  BY <1>1, Types, PlanEdges
<1>6. /\ run' \in RunType
      /\ run'.at = "@pause:planner" /\ run'.executed = run.executed + 1
      /\ run'.attempt = run.attempt /\ run'.start = run.start /\ run'.count = run.count
      /\ run'.draft = run.draft /\ run'.edited = run.edited
      /\ run'.decision = run.decision /\ run'.latest = run.latest
      /\ run'.skip = run.skip /\ run'.polished = run.polished
  BY <1>1, <1>4, <1>5, Types, Followed
<1>7. TypeOK' /\ RowsSound'
  BY <1>1, <1>3, <1>4, <1>6 DEF TypeOK, RowsSound, RowSound
<1>8. OnGraph' /\ StepKept' /\ Waiting' /\ DraftThere' /\ Passed' /\ Carried' /\ Resumed'
      /\ Synced'
  BY <1>1, <1>3, <1>4, <1>6
     DEF IInv, WalkInv, OnGraph, StepKept, Waiting, DraftThere, Passed, Carried, Resumed,
         Synced, InLoop, Behind, Steps
<1>9. Converging'
  BY <1>1, <1>6, Types, Small DEF IInv, WalkInv, Converging, Remaining
<1> QED BY <1>7, <1>8, <1>9 DEF IInv, WalkInv

LEMMA DraftKeeps ==
    ASSUME IInv, Draft
    PROVE  IInv'
<1>1. TypeOK /\ RowsSound /\ run.at = "draft" /\ run.executed < MaxSteps
  BY DEF IInv, Draft, Starts, At
<1>2. PICK text \in Texts : text = NewText
  BY NewTextThere
<1>3. PICK r : r = [row EXCEPT !.pstep = "writing", !.draft = text]
  OBVIOUS
<1>4. /\ r \in RowType /\ r.status = row.status /\ r.draft = text /\ r.edited = row.edited
      /\ r.content = row.content /\ r.count = row.count /\ r.pstep = "writing"
  BY <1>1, <1>2, <1>3, Types, PSteps DEF RowType, TextOrNone
<1>5. [StartedRow("draft") EXCEPT !.draft = WritersText] = r
  <2>1. PICK x : x = [row EXCEPT !.pstep = "writing"]
    OBVIOUS
  <2>2. StartedRow("draft") = x
    BY <2>1 DEF StartedRow, Checked, PipelineStepOf, JobAnchor
  <2>3. [x EXCEPT !.draft = text] = r
    BY <1>3, <2>1, Types DEF RowType
  <2> QED BY <1>2, <2>2, <2>3 DEF WritersText
<1>6. PICK st : st = [run EXCEPT !.draft = text, !.edited = NoText]
  OBVIOUS
<1>7. /\ st \in RunType /\ st.executed = run.executed /\ st.count = run.count
      /\ st.attempt = run.attempt /\ st.start = run.start /\ st.draft = text
      /\ st.edited = NoText /\ st.decision = run.decision /\ st.latest = run.latest
  BY <1>1, <1>2, <1>6, Types DEF RunType, TextOrNone
<1>8. /\ row' = r /\ db' = r /\ job' = [job EXCEPT !.step = "writer"]
      /\ Follow(st, "ok") /\ Forget /\ UNCHANGED << conf, retries >>
  BY <1>2, <1>5, <1>6 DEF Draft, Commit, StartedJob, Checked, JobAnchor, WritersText
<1>9. PICK to : to = After(conf, "draft")
  OBVIOUS
<1>10. Goto(conf, run.at, "ok", st.count, st.attempt) = to
  BY <1>1, <1>7, <1>9, Types, LoopEdges
<1>11. /\ to \in StepIds(conf)
       /\ to = IF conf.precheck THEN "pre_check"
               ELSE IF conf.editor THEN "review" ELSE "final_check"
  BY <1>1, <1>9, Types, Stages, StepSet
<1>12. /\ run' \in RunType
       /\ run'.at = to /\ run'.executed = run.executed + 1
       /\ run'.attempt = st.attempt /\ run'.start = st.start /\ run'.count = st.count
       /\ run'.draft = st.draft /\ run'.edited = st.edited
       /\ run'.decision = st.decision /\ run'.latest = st.latest
       /\ run'.skip = st.skip /\ run'.polished = st.polished
  BY <1>1, <1>7, <1>8, <1>10, <1>11, Followed DEF Steps
<1>13. /\ seen' \in [passed : SUBSET Texts, rejected : SUBSET TextOrNone,
                     reviewed : BOOLEAN, blank : BOOLEAN]
       /\ seen'.reviewed = seen.reviewed /\ seen'.blank = seen.blank
  BY <1>1, <1>8 DEF TypeOK, Forget, Remember
<1>14. TypeOK' /\ RowsSound'
  <2>1. row.status # "pending_review"
    BY <1>1 DEF IInv, WalkInv, Waiting, Steps
  <2>2. TypeOK'
    BY <1>1, <1>4, <1>8, <1>12, <1>13 DEF TypeOK, Anchor
  <2>3. RowsSound'
    BY <1>1, <1>2, <1>4, <1>8, <2>1, Small DEF RowsSound, RowSound, TypeOK
  <2> QED BY <2>2, <2>3
<1>15. run.latest.given = FALSE /\ text # NoText
  BY <1>1, <1>2, Small DEF IInv, WalkInv, Carried, TypeOK, RunType
<1>16. OnGraph' /\ StepKept' /\ Waiting' /\ DraftThere' /\ Carried' /\ Passed' /\ Resumed'
  BY <1>1, <1>4, <1>7, <1>8, <1>11, <1>12, <1>13, <1>15
     DEF IInv, WalkInv, OnGraph, StepKept, Waiting, DraftThere, Carried, Passed, Resumed,
         InLoop, Behind, Steps
<1>17. Synced'
  <2>1. /\ row'.content = row.content /\ row'.edited = row.edited /\ row'.draft = text
        /\ run'.edited = NoText /\ run'.draft = text /\ run'.at = to
        /\ seen'.blank = seen.blank /\ conf' = conf
    BY <1>4, <1>7, <1>8, <1>12, <1>13
  <2>2. seen.blank => row.content = NoText
    BY <1>1 DEF IInv, WalkInv, Synced, Steps
  <2>3. to \in {"pre_check", "review", "final_check"} /\ (to = "final_check" => ~conf.editor)
    BY <1>11
  <2>4. ~conf.editor /\ row.content = NoText => row.edited = NoText
    BY <1>1 DEF RowsSound, RowSound
  <2> QED BY <2>1, <2>2, <2>3, <2>4 DEF Synced
<1>18. Converging'
  BY <1>1, <1>7, <1>8, <1>11, <1>12, Types, Small DEF IInv, WalkInv, OnGraph, InLoop, Converging, Remaining
<1> QED BY <1>14, <1>16, <1>17, <1>18 DEF IInv, WalkInv

LEMMA PreCheckKeeps ==
    ASSUME IInv, PreCheck
    PROVE  IInv'
<1>1. TypeOK /\ RowsSound /\ run.at = "pre_check" /\ run.executed < MaxSteps
  BY DEF IInv, PreCheck, At
<1>2. /\ conf.precheck /\ run.draft # NoText /\ row.draft # NoText
      /\ row.status # "pending_review" /\ db.status # "pending_review"
  BY <1>1, Types, StepSet DEF IInv, WalkInv, OnGraph, DraftThere, Waiting, Behind, Steps
<1>3. PICK text \in Texts : text = Current
  BY <1>1, <1>2, Types DEF Current, Or, RunType, TextOrNone
<1>4. PICK ok \in BOOLEAN :
        /\ Follow(PreChecked(ok), "ok")
        /\ IF conf.editor THEN UNCHANGED << row, db >> ELSE Commit(EditorSkipped(row))
        /\ NotePassed(text, ok /\ ~conf.editor)
        /\ UNCHANGED << conf, job, retries >>
  BY <1>3 DEF PreCheck, Verdicts
<1>5. PICK st : st = PreChecked(ok)
  OBVIOUS
<1>6. /\ st \in RunType /\ st.executed = run.executed /\ st.count = run.count
      /\ st.attempt = run.attempt /\ st.start = run.start /\ st.draft = run.draft
      /\ st.edited = run.edited /\ st.decision = run.decision
      /\ st.latest.given /\ st.latest.text = text /\ st.latest.passed = ok
  BY <1>1, <1>3, <1>5, Types DEF PreChecked, Judged, RunType, TextOrNone
<1>7. PICK r : r = IF conf.editor THEN row ELSE EditorSkipped(row)
  OBVIOUS
<1>8. /\ r \in RowType /\ r.status = row.status /\ r.content = row.content
      /\ r.count = row.count /\ r.pstep = row.pstep
      /\ conf.editor => r = row
      /\ ~conf.editor => r.draft = run.draft /\ r.edited = run.edited
  BY <1>1, <1>7, Types DEF EditorSkipped, RowType, RunType
<1>9. /\ row' = r /\ (conf.editor => db' = db) /\ (~conf.editor => db' = r)
  BY <1>4, <1>7 DEF Commit
<1>10. PICK to : to = IF conf.editor THEN "review" ELSE "final_check"
  OBVIOUS
<1>11. Goto(conf, run.at, "ok", st.count, st.attempt) = to
  BY <1>1, <1>2, <1>6, <1>10, Types, PreCheckEdge
<1>12. to \in StepIds(conf) /\ to \in {"review", "final_check"}
  BY <1>1, <1>10, Types, StepSet
<1>13. /\ run' \in RunType
       /\ run'.at = to /\ run'.executed = run.executed + 1
       /\ run'.attempt = st.attempt /\ run'.start = st.start /\ run'.count = st.count
       /\ run'.draft = st.draft /\ run'.edited = st.edited
       /\ run'.decision = st.decision /\ run'.latest = st.latest
       /\ run'.skip = st.skip /\ run'.polished = st.polished
  BY <1>1, <1>4, <1>5, <1>6, <1>11, <1>12, Followed DEF Steps
<1>14. PICK P : P = IF ok /\ ~conf.editor THEN seen.passed \cup {text} ELSE seen.passed
  OBVIOUS
<1>15. P \in SUBSET Texts /\ seen.rejected \in SUBSET TextOrNone
  BY <1>1, <1>14 DEF TypeOK
<1>16. Remember(P, seen.rejected)
  BY <1>4, <1>14 DEF NotePassed
<1>17. /\ seen' \in [passed : SUBSET Texts, rejected : SUBSET TextOrNone,
                     reviewed : BOOLEAN, blank : BOOLEAN]
       /\ seen'.passed = P \cap Held'
       /\ seen'.reviewed = seen.reviewed /\ seen'.blank = seen.blank
  BY <1>1, <1>15, <1>16, Remembered
<1>18. ~conf.editor /\ row.content = NoText => run.edited = NoText
  BY <1>1 DEF IInv, WalkInv, Synced, Steps
<1>19. TypeOK' /\ RowsSound'
  <2>1. TypeOK'
    BY <1>1, <1>4, <1>8, <1>9, <1>13, <1>17 DEF TypeOK
  <2>2. RowsSound'
    BY <1>1, <1>2, <1>4, <1>8, <1>9, <1>18 DEF RowsSound, RowSound
  <2> QED BY <2>1, <2>2
<1>20. OnGraph' /\ StepKept' /\ Waiting' /\ DraftThere' /\ Carried' /\ Resumed'
  BY <1>1, <1>2, <1>4, <1>6, <1>8, <1>9, <1>12, <1>13, <1>17
     DEF IInv, WalkInv, OnGraph, StepKept, Waiting, DraftThere, Carried, Resumed,
         InLoop, Behind, Steps
<1>21. Synced'
  <2>1. seen.blank => row.content = NoText
    BY <1>1 DEF IInv, WalkInv, Synced, Steps
  <2>2. to = "final_check" => ~conf.editor
    BY <1>10
  <2> QED BY <1>4, <1>6, <1>8, <1>9, <1>12, <1>13, <1>17, <1>18, <2>1, <2>2 DEF Synced
<1>22. Passed'
  <2>1. text # NoText /\ text = Or(run.edited, run.draft)
    BY <1>3, Small DEF Current
  <2>2. run'.latest.text = text /\ text \in Held'
    BY <1>6, <1>13, HeldNext
  <2>3. to = "final_check" /\ ok => text \in seen'.passed
    BY <1>10, <1>14, <1>17, <2>2
  <2>4. Current' = text
    BY <1>6, <1>13, <2>1 DEF Current
  <2> QED BY <1>6, <1>12, <1>13, <2>1, <2>2, <2>3, <2>4 DEF Passed
<1>23. Converging'
  BY <1>1, <1>6, <1>12, <1>13, Types, Small DEF IInv, WalkInv, OnGraph, InLoop, Converging, Remaining
<1> QED BY <1>19, <1>20, <1>21, <1>22, <1>23 DEF IInv, WalkInv

LEMMA ReviewKeeps ==
    ASSUME IInv, Review
    PROVE  IInv'
<1>1. TypeOK /\ RowsSound /\ run.at = "review" /\ run.executed < MaxSteps
  BY DEF IInv, Review, Starts, At
<1>2. /\ conf.editor /\ run.draft # NoText /\ row.draft # NoText
      /\ row.status # "pending_review" /\ db.status # "pending_review"
      /\ run.count < MaxRewrites /\ (run.latest.given => run.latest.text # NoText)
  BY <1>1, Types, StepSet
     DEF IInv, WalkInv, OnGraph, DraftThere, Waiting, Passed, Behind, InLoop, Steps
<1>3. PICK a : a = [row EXCEPT !.pstep = "editing"]
  OBVIOUS
<1>4. /\ a \in RowType /\ a.status = row.status /\ a.draft = row.draft /\ a.edited = row.edited
      /\ a.content = row.content /\ a.count = row.count /\ a.pstep = "editing"
  BY <1>1, <1>3, Types, PSteps DEF RowType
<1>5. StartedRow("review") = a
  BY <1>3 DEF StartedRow, Checked, PipelineStepOf, JobAnchor
<1>6. job' = [job EXCEPT !.step = "editor"] /\ UNCHANGED << conf, retries >>
  BY DEF Review, StartedJob, Checked, JobAnchor
<1>7. PICK edited \in EditorsTexts, decision \in EditorDecisions :
        LET r  == Revised(a, edited)
            st == [run EXCEPT !.edited = edited, !.decision = decision]
        IN \/ /\ decision = "keep"
              /\ row' = r /\ db' = a
              /\ Follow(st, "ok")
              /\ ReviewSeen(seen.rejected \ {run.draft, edited})
           \/ /\ decision = "rewrite"
              /\ Commit(SentBack(r))
              /\ Follow([st EXCEPT !.count = @ + 1], "rewrite")
              /\ ReviewSeen(seen.rejected \cup {run.draft, edited})
  BY <1>5 DEF Review
<1>8. edited \in Texts /\ run.draft \in Texts /\ edited # NoText /\ decision \in {"keep", "rewrite"}
  BY <1>1, <1>2, <1>7, Types, NewTextThere, Small DEF EditorsTexts, EditorDecisions, RunType, TextOrNone
<1>9. PICK r : r = Revised(a, edited)
  OBVIOUS
<1>10. /\ r \in RowType /\ r.status = row.status /\ r.draft = run.draft /\ r.edited = edited
       /\ r.content = row.content /\ r.count = row.count /\ r.pstep = "editing"
  BY <1>4, <1>8, <1>9 DEF Revised, RowType, TextOrNone
<1>11. PICK st : st = [run EXCEPT !.edited = edited, !.decision = decision]
  OBVIOUS
<1>12. /\ st \in RunType /\ st.executed = run.executed /\ st.count = run.count
       /\ st.attempt = run.attempt /\ st.start = run.start /\ st.draft = run.draft
       /\ st.edited = edited /\ st.decision = decision /\ st.latest = run.latest
  BY <1>1, <1>8, <1>11, Types DEF RunType, TextOrNone
<1>13. PICK back : back = [st EXCEPT !.count = @ + 1]
  OBVIOUS
<1>14. /\ back \in RunType /\ back.executed = run.executed /\ back.count = run.count + 1
       /\ back.attempt = run.attempt /\ back.start = run.start /\ back.draft = run.draft
       /\ back.edited = edited /\ back.decision = decision /\ back.latest = run.latest
  BY <1>1, <1>2, <1>12, <1>13, Types, Small DEF RunType
<1>15. PICK sent : sent = SentBack(r)
  OBVIOUS
<1>16. /\ sent \in RowType /\ sent.status = "draft" /\ sent.draft = run.draft
       /\ sent.edited = edited /\ sent.content = row.content
       /\ sent.count = run.count + 1 /\ sent.pstep = "editing"
  <2>1. PICK n : n = run.count + 1
    OBVIOUS
  <2>2. n \in 0..MaxRewrites
    BY <1>1, <1>2, <2>1, Types, Small
  <2>3. sent = [r EXCEPT !.count = n, !.status = "draft"]
    BY <1>15, <2>1 DEF SentBack
  <2> QED BY <1>10, <2>1, <2>2, <2>3 DEF RowType, ChapterStatus
<1>17. ASSUME NEW R \in SUBSET TextOrNone, ReviewSeen(R)
       PROVE  /\ seen' \in [passed : SUBSET Texts, rejected : SUBSET TextOrNone,
                            reviewed : BOOLEAN, blank : BOOLEAN]
              /\ seen'.reviewed /\ seen'.blank = seen.blank
  <2>1. PICK H : H = Held'
    OBVIOUS
  <2>2. seen' = [seen EXCEPT !.reviewed = TRUE, !.passed = @ \cap H, !.rejected = R \cap H]
    BY <1>17, <2>1 DEF ReviewSeen
  <2> QED BY <1>1, <2>2 DEF TypeOK
<1>18. seen.blank => row.content = NoText
  BY <1>1 DEF IInv, WalkInv, Synced, Steps
<1>19. CASE /\ decision = "keep" /\ row' = r /\ db' = a /\ Follow(st, "ok")
            /\ ReviewSeen(seen.rejected \ {run.draft, edited})
  <2>1. Goto(conf, run.at, "ok", st.count, st.attempt) = "post_check"
    BY <1>1, <1>2, <1>12, Types, EditEdges
  <2>2. /\ run' \in RunType
        /\ run'.at = "post_check" /\ run'.executed = run.executed + 1
        /\ run'.attempt = st.attempt /\ run'.start = st.start /\ run'.count = st.count
        /\ run'.draft = st.draft /\ run'.edited = st.edited
        /\ run'.decision = st.decision /\ run'.latest = st.latest
        /\ run'.skip = st.skip /\ run'.polished = st.polished
    BY <1>1, <1>12, <1>19, <2>1, Followed DEF Steps
  <2>3. /\ seen' \in [passed : SUBSET Texts, rejected : SUBSET TextOrNone,
                      reviewed : BOOLEAN, blank : BOOLEAN]
        /\ seen'.reviewed /\ seen'.blank = seen.blank
    BY <1>1, <1>17, <1>19 DEF TypeOK
  <2>4. TypeOK'
    BY <1>1, <1>4, <1>6, <1>10, <1>19, <2>2, <2>3 DEF TypeOK, Anchor
  <2>5. RowsSound'
    BY <1>1, <1>2, <1>4, <1>6, <1>10, <1>19 DEF RowsSound, RowSound, TypeOK
  <2>6. OnGraph' /\ StepKept' /\ Waiting' /\ DraftThere' /\ Carried' /\ Resumed' /\ Passed'
    BY <1>1, <1>2, <1>4, <1>6, <1>10, <1>12, <1>19, <2>2, <2>3, Types, StepSet
       DEF IInv, WalkInv, OnGraph, StepKept, Waiting, DraftThere, Carried, Resumed, Passed,
           InLoop, Behind, Steps
  <2>7. Synced'
    BY <1>2, <1>6, <1>10, <1>12, <1>18, <1>19, <2>2, <2>3 DEF Synced
  <2>8. Converging'
    BY <1>1, <1>12, <2>2, Types, Small DEF IInv, WalkInv, Converging, Remaining
  <2> QED BY <2>4, <2>5, <2>6, <2>7, <2>8 DEF IInv, WalkInv
<1>20. CASE /\ decision = "rewrite" /\ Commit(sent) /\ Follow(back, "rewrite")
            /\ ReviewSeen(seen.rejected \cup {run.draft, edited})
  <2>1. PICK to : to = IF ~conf.loop \/ back.count >= MaxRewrites THEN "force_fix" ELSE "loop_head"
    OBVIOUS
  <2>2. Goto(conf, run.at, "rewrite", back.count, back.attempt) = to
    BY <1>1, <1>2, <1>14, <2>1, Types, EditEdges
  <2>3. to \in StepIds(conf) /\ to \in {"force_fix", "loop_head"}
        /\ (to = "loop_head" => back.count < MaxRewrites)
    BY <1>1, <1>2, <1>14, <2>1, Types, StepSet, Small
  <2>4. /\ run' \in RunType
        /\ run'.at = to /\ run'.executed = run.executed + 1
        /\ run'.attempt = back.attempt /\ run'.start = back.start /\ run'.count = back.count
        /\ run'.draft = back.draft /\ run'.edited = back.edited
        /\ run'.decision = back.decision /\ run'.latest = back.latest
        /\ run'.skip = back.skip /\ run'.polished = back.polished
    BY <1>1, <1>14, <1>20, <2>2, <2>3, Followed DEF Steps
  <2>5. /\ seen' \in [passed : SUBSET Texts, rejected : SUBSET TextOrNone,
                      reviewed : BOOLEAN, blank : BOOLEAN]
        /\ seen'.reviewed /\ seen'.blank = seen.blank
    BY <1>1, <1>8, <1>17, <1>20 DEF TypeOK, TextOrNone
  <2>6. row' = sent /\ db' = sent
    BY <1>20 DEF Commit
  <2>7. TypeOK'
    BY <1>1, <1>6, <1>16, <2>4, <2>5, <2>6 DEF TypeOK, Anchor
  <2>8. RowsSound'
    BY <1>1, <1>2, <1>6, <1>16, <2>6 DEF RowsSound, RowSound, TypeOK
  <2>9. OnGraph' /\ StepKept' /\ Waiting' /\ DraftThere' /\ Carried' /\ Resumed' /\ Passed'
    BY <1>1, <1>2, <1>6, <1>14, <1>16, <1>20, <2>3, <2>4, <2>5, <2>6
       DEF IInv, WalkInv, OnGraph, StepKept, Waiting, DraftThere, Carried, Resumed, Passed,
           InLoop, Behind, Steps
  <2>10. Synced'
    BY <1>2, <1>6, <1>14, <1>16, <1>18, <2>3, <2>4, <2>5, <2>6 DEF Synced
  <2>11. Converging'
    BY <1>1, <1>2, <1>14, <2>3, <2>4, Types, Small DEF IInv, WalkInv, Converging, Remaining
  <2> QED BY <2>7, <2>8, <2>9, <2>10, <2>11 DEF IInv, WalkInv
<1> QED BY <1>7, <1>9, <1>11, <1>13, <1>15, <1>19, <1>20

LEMMA ForceFixDisabledKeeps ==
    ASSUME IInv, ForceFixDisabled
    PROVE  IInv'
<1>1. TypeOK /\ RowsSound /\ run.at = "force_fix" /\ run.executed < MaxSteps
      /\ UNCHANGED << conf, job, row, db, retries, seen >> /\ Follow(run, "skipped")
  BY DEF IInv, ForceFixDisabled, At
<1>2. conf.editor
  BY <1>1, Types, StepSet DEF IInv, WalkInv, OnGraph, Steps
<1>3. Goto(conf, run.at, "skipped", run.count, run.attempt) = "@pause:editor"
  BY <1>1, <1>2, Types, EditEdges
<1>4. /\ run' \in RunType
      /\ run'.at = "@pause:editor" /\ run'.executed = run.executed + 1
      /\ run'.attempt = run.attempt /\ run'.start = run.start /\ run'.count = run.count
      /\ run'.draft = run.draft /\ run'.edited = run.edited
      /\ run'.decision = run.decision /\ run'.latest = run.latest
      /\ run'.skip = run.skip /\ run'.polished = run.polished
  BY <1>1, <1>3, Types, Followed
<1>5. TypeOK' /\ RowsSound'
  BY <1>1, <1>4 DEF TypeOK, RowsSound
<1>6. OnGraph' /\ StepKept' /\ Waiting' /\ DraftThere' /\ Passed' /\ Carried' /\ Resumed'
      /\ Synced'
  BY <1>1, <1>2, <1>4
     DEF IInv, WalkInv, OnGraph, StepKept, Waiting, DraftThere, Passed, Carried, Resumed,
         Synced, InLoop, Behind, Steps
<1>7. Converging'
  BY <1>1, <1>4, Types, Small DEF IInv, WalkInv, Converging, Remaining
<1> QED BY <1>5, <1>6, <1>7 DEF IInv, WalkInv

\* The steps behind the loop.
LEMMA Exit ==
    ASSUME NEW c \in ConfigType, NEW to, to = LoopExit(c)
    PROVE  to \in StepIds(c) /\ to \in {"polish", "final_check"}
BY StepSet DEF LoopExit, Present, ConfigType

LEMMA ForceFixKeeps ==
    ASSUME IInv, ForceFix
    PROVE  IInv'
<1>1. TypeOK /\ RowsSound /\ run.at = "force_fix" /\ run.executed < MaxSteps
      /\ UNCHANGED << conf, job, retries >>
  BY DEF IInv, ForceFix, At
<1>2. /\ conf.editor /\ run.draft # NoText /\ row.draft # NoText
      /\ row.draft = run.draft /\ row.edited = run.edited
      /\ seen.blank => row.content = NoText
      /\ row.status # "pending_review" /\ db.status # "pending_review"
      /\ (run.start = "editor" => seen.reviewed)
  BY <1>1, Types, StepSet
     DEF IInv, WalkInv, OnGraph, DraftThere, Synced, Waiting, Resumed, Behind, Steps
<1>3. PICK edited \in CorrectedTexts :
        /\ Commit([row EXCEPT !.edited = edited])
        /\ Follow([run EXCEPT !.edited = edited, !.decision = "keep", !.latest = NoResult], "ok")
        /\ Remember(seen.passed, seen.rejected \ {edited})
  BY DEF ForceFix
<1>4. edited \in Texts
  BY <1>1, <1>2, <1>3, Types, NewTextThere DEF CorrectedTexts, RunType, TextOrNone
<1>5. PICK r : r = [row EXCEPT !.edited = edited]
  OBVIOUS
<1>6. /\ r \in RowType /\ r.status = row.status /\ r.draft = row.draft /\ r.edited = edited
      /\ r.content = row.content /\ r.count = row.count /\ r.pstep = row.pstep
  BY <1>1, <1>4, <1>5, Types DEF RowType, TextOrNone
<1>7. PICK st : st = [run EXCEPT !.edited = edited, !.decision = "keep", !.latest = NoResult]
  OBVIOUS
<1>8. /\ st \in RunType /\ st.executed = run.executed /\ st.count = run.count
      /\ st.attempt = run.attempt /\ st.start = run.start /\ st.draft = run.draft
      /\ st.edited = edited /\ st.decision = "keep" /\ st.latest.given = FALSE
  BY <1>1, <1>4, <1>7, Types DEF RunType, TextOrNone, NoResult
<1>9. PICK to : to = LoopExit(conf)
  OBVIOUS
<1>10. Goto(conf, run.at, "ok", st.count, st.attempt) = to
  BY <1>1, <1>2, <1>8, <1>9, Types, EditEdges
<1>11. to \in StepIds(conf) /\ to \in {"polish", "final_check"}
  BY <1>1, <1>9, Types, Exit
<1>12. /\ run' \in RunType
       /\ run'.at = to /\ run'.executed = run.executed + 1
       /\ run'.attempt = st.attempt /\ run'.start = st.start /\ run'.count = st.count
       /\ run'.draft = st.draft /\ run'.edited = st.edited
       /\ run'.decision = st.decision /\ run'.latest = st.latest
       /\ run'.skip = st.skip /\ run'.polished = st.polished
  <2>1. Follow(st, "ok")
    BY <1>3, <1>7
  <2> QED BY <1>1, <1>8, <1>10, <1>11, <2>1, Followed DEF Steps
<1>13. /\ seen' \in [passed : SUBSET Texts, rejected : SUBSET TextOrNone,
                     reviewed : BOOLEAN, blank : BOOLEAN]
       /\ seen'.reviewed = seen.reviewed /\ seen'.blank = seen.blank
  BY <1>1, <1>3, Remembered DEF TypeOK
<1>14. row' = r /\ db' = r
  BY <1>3, <1>5 DEF Commit
<1>15. TypeOK' /\ RowsSound'
  <2>1. TypeOK'
    BY <1>1, <1>6, <1>12, <1>13, <1>14 DEF TypeOK
  <2>2. RowsSound'
    BY <1>1, <1>2, <1>6, <1>14 DEF RowsSound, RowSound
  <2> QED BY <2>1, <2>2
<1>16. OnGraph' /\ StepKept' /\ Waiting' /\ DraftThere' /\ Carried' /\ Resumed' /\ Passed'
  BY <1>1, <1>2, <1>6, <1>8, <1>11, <1>12, <1>13, <1>14
     DEF IInv, WalkInv, OnGraph, StepKept, Waiting, DraftThere, Carried, Resumed, Passed,
         InLoop, Behind, Steps
<1>17. Synced'
  BY <1>1, <1>2, <1>6, <1>8, <1>11, <1>12, <1>13, <1>14 DEF Synced
<1>18. Converging'
  BY <1>1, <1>8, <1>11, <1>12, Types, Small DEF IInv, WalkInv, Converging, Remaining
<1> QED BY <1>15, <1>16, <1>17, <1>18 DEF IInv, WalkInv

LEMMA PolishSkippedKeeps ==
    ASSUME IInv, PolishSkipped
    PROVE  IInv'
<1>1. TypeOK /\ RowsSound /\ run.at = "polish" /\ run.executed < MaxSteps
      /\ UNCHANGED << conf, job, row, db, retries, seen >> /\ Follow(run, "skipped")
  BY DEF IInv, PolishSkipped, At
<1>2. conf.editor /\ conf.style /\ "final_check" \in StepIds(conf)
  BY <1>1, Types, StepSet DEF IInv, WalkInv, OnGraph, Steps
<1>3. Goto(conf, run.at, "skipped", run.count, run.attempt) = "final_check"
  BY <1>1, <1>2, Types, PolishEdges
<1>4. /\ run' \in RunType
      /\ run'.at = "final_check" /\ run'.executed = run.executed + 1
      /\ run'.attempt = run.attempt /\ run'.start = run.start /\ run'.count = run.count
      /\ run'.draft = run.draft /\ run'.edited = run.edited
      /\ run'.decision = run.decision /\ run'.latest = run.latest
      /\ run'.skip = run.skip /\ run'.polished = run.polished
  BY <1>1, <1>3, Types, Followed DEF Steps
<1>5. TypeOK' /\ RowsSound'
  BY <1>1, <1>4 DEF TypeOK, RowsSound
<1>6. OnGraph' /\ StepKept' /\ Waiting' /\ DraftThere' /\ Carried' /\ Resumed'
  BY <1>1, <1>2, <1>4
     DEF IInv, WalkInv, OnGraph, StepKept, Waiting, DraftThere, Carried, Resumed,
         InLoop, Behind, Steps
<1>7. Synced' /\ Passed'
  BY <1>1, <1>2, <1>4 DEF IInv, WalkInv, Synced, Passed, Current, Steps
<1>8. Converging'
  BY <1>1, <1>4, Types, Small DEF IInv, WalkInv, Converging, Remaining
<1> QED BY <1>5, <1>6, <1>7, <1>8 DEF IInv, WalkInv

LEMMA PolishKeeps ==
    ASSUME IInv, Polish
    PROVE  IInv'
<1>1. TypeOK /\ RowsSound /\ run.at = "polish" /\ run.executed < MaxSteps
      /\ UNCHANGED << conf, job, retries >>
  BY DEF IInv, Polish, At
<1>2. /\ conf.editor /\ conf.style /\ "final_check" \in StepIds(conf)
      /\ run.draft # NoText /\ row.draft # NoText
      /\ row.draft = run.draft /\ row.edited = run.edited
      /\ seen.blank => row.content = NoText
      /\ row.status # "pending_review" /\ db.status # "pending_review"
  BY <1>1, Types, StepSet
     DEF IInv, WalkInv, OnGraph, DraftThere, Synced, Waiting, Resumed, Behind, Steps
<1>3. PICK edited \in {Current, NewText} :
        /\ Commit([row EXCEPT !.edited = edited])
        /\ Follow([run EXCEPT !.edited = edited, !.latest = NoResult], "ok")
        /\ Remember(seen.passed, seen.rejected)
  BY DEF Polish, Forget
<1>4. edited \in Texts
  BY <1>1, <1>2, <1>3, Types, NewTextThere DEF Current, Or, RunType, TextOrNone
<1>5. PICK r : r = [row EXCEPT !.edited = edited]
  OBVIOUS
<1>6. /\ r \in RowType /\ r.status = row.status /\ r.draft = row.draft /\ r.edited = edited
      /\ r.content = row.content /\ r.count = row.count /\ r.pstep = row.pstep
  BY <1>1, <1>4, <1>5, Types DEF RowType, TextOrNone
<1>7. PICK st : st = [run EXCEPT !.edited = edited, !.latest = NoResult]
  OBVIOUS
<1>8. /\ st \in RunType /\ st.executed = run.executed /\ st.count = run.count
      /\ st.attempt = run.attempt /\ st.start = run.start /\ st.draft = run.draft
      /\ st.edited = edited /\ st.decision = run.decision /\ st.latest.given = FALSE
  BY <1>1, <1>4, <1>7, Types DEF RunType, TextOrNone, NoResult
<1>9. Goto(conf, run.at, "ok", st.count, st.attempt) = "final_check"
  BY <1>1, <1>2, <1>8, Types, PolishEdges
<1>10. /\ run' \in RunType
       /\ run'.at = "final_check" /\ run'.executed = run.executed + 1
       /\ run'.attempt = st.attempt /\ run'.start = st.start /\ run'.count = st.count
       /\ run'.draft = st.draft /\ run'.edited = st.edited
       /\ run'.decision = st.decision /\ run'.latest = st.latest
       /\ run'.skip = st.skip /\ run'.polished = st.polished
  BY <1>1, <1>3, <1>7, <1>8, <1>9, Followed DEF Steps
<1>11. /\ seen' \in [passed : SUBSET Texts, rejected : SUBSET TextOrNone,
                     reviewed : BOOLEAN, blank : BOOLEAN]
       /\ seen'.reviewed = seen.reviewed /\ seen'.blank = seen.blank
  BY <1>1, <1>3, Remembered DEF TypeOK
<1>12. row' = r /\ db' = r
  BY <1>3, <1>5 DEF Commit
<1>13. TypeOK' /\ RowsSound'
  <2>1. TypeOK'
    BY <1>1, <1>6, <1>10, <1>11, <1>12 DEF TypeOK
  <2>2. RowsSound'
    BY <1>1, <1>2, <1>6, <1>12 DEF RowsSound, RowSound
  <2> QED BY <2>1, <2>2
<1>14. OnGraph' /\ StepKept' /\ Waiting' /\ DraftThere' /\ Carried' /\ Resumed' /\ Passed'
  BY <1>1, <1>2, <1>6, <1>8, <1>10, <1>11, <1>12
     DEF IInv, WalkInv, OnGraph, StepKept, Waiting, DraftThere, Carried, Resumed, Passed,
         InLoop, Behind, Steps
<1>15. Synced'
  BY <1>1, <1>2, <1>6, <1>8, <1>10, <1>11, <1>12 DEF Synced
<1>16. Converging'
  BY <1>1, <1>8, <1>10, Types, Small DEF IInv, WalkInv, Converging, Remaining
<1> QED BY <1>13, <1>14, <1>15, <1>16 DEF IInv, WalkInv

\* A repair is of the text at hand or a new one; without a repair it is the
\* text at hand that is judged.
LEMMA Judging ==
    ASSUME NEW repaired, NEW polish, NEW text, << repaired, polish, text >> \in PostChecked
    PROVE  repaired \in BOOLEAN /\ polish \in BOOLEAN /\ (~repaired => text = Current)
<1>1. PICK t : t = << repaired, polish, text >>
  OBVIOUS
<1>2. /\ t[1] \in BOOLEAN /\ t[2] \in BOOLEAN
      /\ t[1] = FALSE => t[3] = Current
  BY <1>1 DEF PostChecked, LocalRepairs, PolisherRepairs
<1> QED BY <1>1, <1>2

LEMMA PostCheckPassesKeeps ==
    ASSUME IInv, PostCheckPasses
    PROVE  IInv'
<1>1. TypeOK /\ RowsSound /\ run.at = "post_check" /\ run.executed < MaxSteps
      /\ UNCHANGED << conf, job, retries >>
  BY DEF IInv, PostCheckPasses, At
<1>2. /\ conf.editor /\ run.draft # NoText /\ row.draft # NoText
      /\ row.draft = run.draft /\ row.edited = run.edited
      /\ seen.blank => row.content = NoText
      /\ row.status # "pending_review" /\ db.status # "pending_review"
      /\ (run.start = "editor" => seen.reviewed) /\ run.count < MaxRewrites
  BY <1>1, Types, StepSet
     DEF IInv, WalkInv, OnGraph, DraftThere, Synced, Waiting, Resumed, Behind, InLoop, Steps
<1>3. PICK repaired \in BOOLEAN, polish \in BOOLEAN, text \in {Current, NewText} :
        /\ << repaired, polish, text >> \in PostChecked /\ text # NoText
        /\ Commit([row EXCEPT !.count = run.count, !.edited = IF repaired THEN text ELSE @])
        /\ Follow([PostEdited(repaired, polish, text, Judged(text, TRUE))
                     EXCEPT !.decision = "keep"], "ok")
        /\ NotePassed(text, TRUE)
  BY DEF PostCheckPasses
<1>4. text \in Texts /\ (~repaired => text = Current)
  BY <1>1, <1>3, Types, NewTextThere, Judging DEF Current, Or, RunType, TextOrNone
<1>5. PICK edited : edited = IF repaired THEN text ELSE run.edited
  OBVIOUS
<1>6. edited \in TextOrNone /\ Or(edited, run.draft) = text
  BY <1>1, <1>3, <1>4, <1>5, Types DEF Current, Or, RunType, TextOrNone
<1>7. PICK r : r = [row EXCEPT !.count = run.count, !.edited = IF repaired THEN text ELSE @]
  OBVIOUS
<1>8. /\ r \in RowType /\ r.status = row.status /\ r.draft = row.draft /\ r.edited = edited
      /\ r.content = row.content /\ r.count = run.count /\ r.pstep = row.pstep
  BY <1>1, <1>2, <1>5, <1>6, <1>7, Types DEF RowType, RunType
<1>9. PICK st : st = [PostEdited(repaired, polish, text, Judged(text, TRUE))
                        EXCEPT !.decision = "keep"]
  OBVIOUS
<1>10. /\ st \in RunType /\ st.executed = run.executed /\ st.count = run.count
       /\ st.attempt = run.attempt /\ st.start = run.start /\ st.draft = run.draft
       /\ st.edited = edited /\ st.decision = "keep"
       /\ st.latest = Judged(text, TRUE)
  <2>1. Judged(text, TRUE) \in [given : BOOLEAN, text : TextOrNone, passed : BOOLEAN, block : BOOLEAN]
    BY <1>4 DEF Judged, TextOrNone
  <2>2. PICK e : e = PostEdited(repaired, polish, text, Judged(text, TRUE))
    OBVIOUS
  <2>3. PICK polished \in BOOLEAN : polished = (run.polished \/ polish)
    OBVIOUS
  <2>4. PICK j : j = Judged(text, TRUE)
    OBVIOUS
  <2>5. e = [run EXCEPT !.latest = j, !.polished = polished, !.edited = edited]
    BY <1>1, <1>5, <2>2, <2>3, <2>4, Types DEF PostEdited, RunType
  <2>6. st = [e EXCEPT !.decision = "keep"]
    BY <1>9, <2>2
  <2> QED BY <1>1, <1>6, <2>1, <2>4, <2>5, <2>6, Types DEF RunType
<1>11. PICK to : to = LoopExit(conf)
  OBVIOUS
<1>12. Goto(conf, run.at, "ok", st.count, st.attempt) = to
  BY <1>1, <1>2, <1>10, <1>11, Types, EditEdges
<1>13. to \in StepIds(conf) /\ to \in {"polish", "final_check"}
  BY <1>1, <1>11, Types, Exit
<1>14. /\ run' \in RunType
       /\ run'.at = to /\ run'.executed = run.executed + 1
       /\ run'.attempt = st.attempt /\ run'.start = st.start /\ run'.count = st.count
       /\ run'.draft = st.draft /\ run'.edited = st.edited
       /\ run'.decision = st.decision /\ run'.latest = st.latest
       /\ run'.skip = st.skip /\ run'.polished = st.polished
  <2>1. Follow(st, "ok")
    BY <1>3, <1>9
  <2>2. st \in RunType /\ st.executed = run.executed
        /\ to = Goto(conf, run.at, "ok", st.count, st.attempt)
        /\ to \in Steps \cup {"@done", "@retry_chapter", "@pause:planner", "@pause:editor",
                              "@pause:validator"}
    BY <1>10, <1>12, <1>13 DEF Steps
  <2> QED BY <1>1, <2>1, <2>2, Followed
<1>15. /\ seen' \in [passed : SUBSET Texts, rejected : SUBSET TextOrNone,
                     reviewed : BOOLEAN, blank : BOOLEAN]
       /\ seen'.passed = (seen.passed \cup {text}) \cap Held'
       /\ seen'.reviewed = seen.reviewed /\ seen'.blank = seen.blank
  <2>1. Remember(seen.passed \cup {text}, seen.rejected)
    BY <1>3 DEF NotePassed
  <2>2. seen.passed \cup {text} \in SUBSET Texts /\ seen.rejected \in SUBSET TextOrNone
    BY <1>1, <1>4 DEF TypeOK
  <2> QED BY <1>1, <2>1, <2>2, Remembered
<1>16. row' = r /\ db' = r
  BY <1>3, <1>7 DEF Commit
<1>17. TypeOK' /\ RowsSound'
  <2>1. TypeOK'
    BY <1>1, <1>8, <1>14, <1>15, <1>16 DEF TypeOK
  <2>2. RowsSound'
    BY <1>1, <1>2, <1>8, <1>16 DEF RowsSound, RowSound
  <2> QED BY <2>1, <2>2
<1>18. OnGraph' /\ StepKept' /\ Waiting' /\ DraftThere' /\ Carried' /\ Resumed'
  BY <1>1, <1>2, <1>8, <1>10, <1>13, <1>14, <1>15, <1>16
     DEF IInv, WalkInv, OnGraph, StepKept, Waiting, DraftThere, Carried, Resumed,
         InLoop, Behind, Steps
<1>19. Synced'
  BY <1>1, <1>2, <1>8, <1>10, <1>13, <1>14, <1>15, <1>16 DEF Synced
<1>20. Passed'
  <2>1. run'.latest.text = text /\ text \in Held'
    BY <1>10, <1>14, HeldNext DEF Judged
  <2>2. Current' = text
    BY <1>6, <1>10, <1>14 DEF Current
  <2> QED BY <1>3, <1>13, <1>14, <1>15, <2>1, <2>2 DEF Passed
<1>21. Converging'
  BY <1>1, <1>2, <1>10, <1>13, <1>14, Types, Small DEF IInv, WalkInv, Converging, Remaining
<1> QED BY <1>17, <1>18, <1>19, <1>20, <1>21 DEF IInv, WalkInv

LEMMA PostCheckFailsKeeps ==
    ASSUME IInv, PostCheckFails
    PROVE  IInv'
<1>1. TypeOK /\ RowsSound /\ run.at = "post_check" /\ run.executed < MaxSteps
      /\ UNCHANGED << conf, job, retries >> /\ Forget
  BY DEF IInv, PostCheckFails, At
<1>2. /\ conf.editor /\ run.draft # NoText /\ row.draft # NoText
      /\ row.draft = run.draft /\ row.edited = run.edited
      /\ seen.blank => row.content = NoText
      /\ row.pstep \in {"writing", "editing"}
      /\ (run.start = "editor" => seen.reviewed) /\ run.count < MaxRewrites
  BY <1>1, Types, StepSet
     DEF IInv, WalkInv, OnGraph, DraftThere, Synced, StepKept, Resumed, Behind, InLoop, Steps
<1>3. PICK count : count = run.count + 1
  OBVIOUS
<1>4. count \in 1..MaxRewrites
  BY <1>1, <1>2, <1>3, Types, Small
<1>5. PICK repaired \in BOOLEAN, polish \in BOOLEAN, text \in {Current, NewText} :
        LET st == [PostEdited(repaired, polish, text, Judged(text, FALSE))
                     EXCEPT !.count = count]
        IN /\ << repaired, polish, text >> \in PostChecked
           /\ Commit([row EXCEPT !.count = count, !.status = "draft",
                                 !.edited = IF repaired THEN text ELSE @])
           /\ IF count >= MaxRewrites THEN Follow(Blocked(st), "blocked")
              ELSE Follow([st EXCEPT !.decision = "rewrite"], "rewrite")
  BY <1>3 DEF PostCheckFails
<1>6. text \in Texts
  BY <1>1, <1>2, <1>5, Types, NewTextThere DEF Current, Or, RunType, TextOrNone
<1>7. PICK edited : edited = IF repaired THEN text ELSE run.edited
  OBVIOUS
<1>8. edited \in TextOrNone
  BY <1>1, <1>6, <1>7, Types DEF RunType, TextOrNone
<1>9. PICK r : r = [row EXCEPT !.count = count, !.status = "draft",
                               !.edited = IF repaired THEN text ELSE @]
  OBVIOUS
<1>10. /\ r \in RowType /\ r.status = "draft" /\ r.draft = row.draft /\ r.edited = edited
       /\ r.content = row.content /\ r.count = count /\ r.pstep = row.pstep
  <2>1. r = [row EXCEPT !.count = count, !.status = "draft", !.edited = edited]
    BY <1>1, <1>2, <1>7, <1>9, Types DEF RowType
  <2>2. count \in 0..MaxRewrites /\ row \in RowType
    BY <1>1, <1>4, Types
  <2> QED BY <1>8, <2>1, <2>2 DEF RowType, ChapterStatus
<1>11. PICK st : st = [PostEdited(repaired, polish, text, Judged(text, FALSE))
                         EXCEPT !.count = count]
  OBVIOUS
<1>12. /\ st \in RunType /\ st.executed = run.executed /\ st.count = count
       /\ st.attempt = run.attempt /\ st.start = run.start /\ st.draft = run.draft
       /\ st.edited = edited /\ st.latest.given /\ st.latest.text = text
       /\ st.latest.passed = FALSE
  <2>1. PICK j : j = Judged(text, FALSE)
    OBVIOUS
  <2>2. /\ j \in [given : BOOLEAN, text : TextOrNone, passed : BOOLEAN, block : BOOLEAN]
        /\ j.given /\ j.text = text /\ j.passed = FALSE
    BY <1>6, <2>1 DEF Judged, TextOrNone
  <2>3. PICK e : e = PostEdited(repaired, polish, text, j)
    OBVIOUS
  <2>4. PICK polished \in BOOLEAN : polished = (run.polished \/ polish)
    OBVIOUS
  <2>5. e = [run EXCEPT !.latest = j, !.polished = polished, !.edited = edited]
    BY <1>1, <1>7, <2>3, <2>4, Types DEF PostEdited, RunType
  <2>6. st = [e EXCEPT !.count = count]
    BY <1>11, <2>1, <2>3
  <2>7. count \in 0..MaxRewrites /\ run \in RunType
    BY <1>1, <1>4, Types
  <2>8. /\ e \in RunType /\ e.executed = run.executed /\ e.attempt = run.attempt
        /\ e.start = run.start /\ e.draft = run.draft /\ e.edited = edited /\ e.latest = j
    BY <1>8, <2>2, <2>5, <2>7 DEF RunType
  <2> QED BY <2>2, <2>6, <2>7, <2>8 DEF RunType
<1>13. PICK last : last = IF count >= MaxRewrites THEN Blocked(st)
                          ELSE [st EXCEPT !.decision = "rewrite"]
  OBVIOUS
<1>14. /\ last \in RunType /\ last.executed = run.executed /\ last.count = count
       /\ last.attempt = run.attempt /\ last.start = run.start /\ last.draft = run.draft
       /\ last.edited = edited /\ last.latest.given /\ last.latest.text = text
       /\ last.latest.passed = FALSE
       /\ count < MaxRewrites => last.decision = "rewrite"
  <2>1. CASE count >= MaxRewrites
    <3>1. PICK l : l = [st.latest EXCEPT !.block = TRUE]
      OBVIOUS
    <3>2. /\ l \in [given : BOOLEAN, text : TextOrNone, passed : BOOLEAN, block : BOOLEAN]
          /\ l.given /\ l.text = text /\ l.passed = FALSE
      BY <1>12, <3>1 DEF RunType
    <3>3. last = [st EXCEPT !.latest = l, !.decision = "blocked"]
      BY <1>12, <1>13, <2>1, <3>1 DEF Blocked, RunType
    <3>4. /\ last \in RunType /\ last.executed = st.executed /\ last.count = st.count
          /\ last.attempt = st.attempt /\ last.start = st.start /\ last.draft = st.draft
          /\ last.edited = st.edited /\ last.latest = l
      BY <1>12, <3>2, <3>3 DEF RunType
    <3>5. ~(count < MaxRewrites)
      BY <1>4, <2>1, Small
    <3> QED BY <1>12, <3>2, <3>4, <3>5
  <2>2. CASE ~(count >= MaxRewrites)
    <3>1. last = [st EXCEPT !.decision = "rewrite"]
      BY <1>13, <2>2
    <3> QED BY <1>12, <3>1 DEF RunType
  <2> QED BY <2>1, <2>2
<1>15. PICK v : v = IF count >= MaxRewrites THEN "blocked" ELSE "rewrite"
  OBVIOUS
<1>16. Follow(last, v)
  BY <1>5, <1>11, <1>13, <1>15
<1>17. PICK to : to = IF count >= MaxRewrites THEN LoopExit(conf) ELSE "loop_head"
  OBVIOUS
<1>18. Goto(conf, run.at, v, last.count, last.attempt) = to
  BY <1>1, <1>2, <1>4, <1>14, <1>15, <1>17, Types, EditEdges
<1>19. /\ to \in StepIds(conf) /\ to \in {"polish", "final_check", "loop_head"}
       /\ (to = "loop_head" <=> count < MaxRewrites)
  <2>1. LoopExit(conf) \in StepIds(conf) /\ LoopExit(conf) \in {"polish", "final_check"}
    BY <1>1, Types, Exit
  <2> QED BY <1>1, <1>4, <1>17, <2>1, Types, StepSet, Small
<1>20. /\ run' \in RunType
       /\ run'.at = to /\ run'.executed = run.executed + 1
       /\ run'.attempt = last.attempt /\ run'.start = last.start /\ run'.count = last.count
       /\ run'.draft = last.draft /\ run'.edited = last.edited
       /\ run'.decision = last.decision /\ run'.latest = last.latest
       /\ run'.skip = last.skip /\ run'.polished = last.polished
  BY <1>1, <1>14, <1>16, <1>18, <1>19, Followed DEF Steps
<1>21. /\ seen' \in [passed : SUBSET Texts, rejected : SUBSET TextOrNone,
                     reviewed : BOOLEAN, blank : BOOLEAN]
       /\ seen'.reviewed = seen.reviewed /\ seen'.blank = seen.blank
  BY <1>1, Remembered DEF TypeOK, Forget
<1>22. row' = r /\ db' = r
  BY <1>5, <1>9 DEF Commit
<1>23. TypeOK' /\ RowsSound'
  <2>1. TypeOK'
    BY <1>1, <1>10, <1>20, <1>21, <1>22 DEF TypeOK
  <2>2. RowsSound'
    BY <1>1, <1>2, <1>10, <1>22 DEF RowsSound, RowSound
  <2> QED BY <2>1, <2>2
<1>24. OnGraph' /\ StepKept' /\ Waiting' /\ DraftThere' /\ Carried' /\ Resumed' /\ Passed'
  BY <1>1, <1>2, <1>6, <1>10, <1>14, <1>19, <1>20, <1>21, <1>22, Small
     DEF IInv, WalkInv, OnGraph, StepKept, Waiting, DraftThere, Carried, Resumed, Passed,
         InLoop, Behind, Steps
<1>25. Synced'
  BY <1>1, <1>2, <1>10, <1>14, <1>19, <1>20, <1>21, <1>22 DEF Synced
<1>26. Converging'
  BY <1>1, <1>2, <1>3, <1>4, <1>14, <1>19, <1>20, Types, Small
     DEF IInv, WalkInv, Converging, Remaining
<1> QED BY <1>23, <1>24, <1>25, <1>26 DEF IInv, WalkInv

\* The result the final check judges by is about a text the row has.
LEMMA FinalText ==
    ASSUME IInv, run.at = "final_check", NEW result \in FinalResults
    PROVE  /\ result.text \in Texts
           /\ result.passed /\ run.latest.given => result.text \in seen.passed
           /\ result.passed /\ seen.blank => result.text = Current
<1>1. TypeOK
  BY DEF IInv
<1>2. /\ row.draft # NoText /\ row.draft = run.draft
      /\ row.edited = run.edited \/ (~conf.editor /\ row.content # NoText)
      /\ seen.blank => row.content = NoText
      /\ run.latest.given => run.latest.text # NoText
      /\ run.latest.given /\ run.latest.passed =>
           run.latest.text \in seen.passed /\ run.latest.text = Current
  BY DEF IInv, WalkInv, DraftThere, Synced, Passed, Behind, Steps
<1>3. CASE run.latest.given
  <2>1. result = run.latest
    BY <1>3 DEF FinalResults
  <2>2. run.latest.text \in TextOrNone
    BY <1>1, Types DEF RunType
  <2> QED BY <1>2, <1>3, <2>1, <2>2 DEF TextOrNone
<1>4. CASE ~run.latest.given
  <2>1. result.text = EffectiveContent(row)
    BY <1>4 DEF FinalResults, Judged
  <2>2. EffectiveContent(row) \in TextOrNone /\ EffectiveContent(row) # NoText
    BY <1>1, <1>2, Types DEF EffectiveContent, Or, RowType
  <2>3. seen.blank => EffectiveContent(row) = Current
    BY <1>2 DEF EffectiveContent, Or, Current
  <2> QED BY <1>4, <2>1, <2>2, <2>3 DEF TextOrNone
<1> QED BY <1>3, <1>4

\* What the validator leaves of a row that has a draft.
LEMMA CleanedRow ==
    ASSUME NEW r \in RowType, r.draft # NoText, NEW t \in Texts, NEW x, x = Cleaned(r, t)
    PROVE  /\ x \in RowType /\ x.draft = t
           /\ x.edited = IF r.edited = NoText THEN NoText ELSE t
           /\ x.status = r.status /\ x.content = r.content
           /\ x.count = r.count /\ x.pstep = r.pstep
<1>1. PICK e : e = IF r.edited = NoText THEN NoText ELSE t
  OBVIOUS
<1>2. e \in TextOrNone /\ t \in TextOrNone
  BY <1>1 DEF TextOrNone
<1>3. x = [r EXCEPT !.edited = e, !.draft = t]
  BY <1>1 DEF Cleaned, RowType
<1> QED BY <1>1, <1>2, <1>3 DEF RowType

LEMMA FinalCheckPassesKeeps ==
    ASSUME IInv, FinalCheckPasses
    PROVE  IInv'
<1>1. TypeOK /\ RowsSound /\ run.at = "final_check" /\ run.executed < MaxSteps
      /\ UNCHANGED << conf, retries >>
  BY DEF IInv, FinalCheckPasses, Starts, At
<1>2. /\ run.draft # NoText /\ row.draft # NoText
      /\ seen.blank => row.content = NoText
      /\ row.status # "pending_review" /\ db.status # "pending_review"
      /\ ~conf.editor /\ row.content = NoText => run.edited = NoText
      /\ run.latest.given => run.latest.text # NoText
  BY <1>1 DEF IInv, WalkInv, DraftThere, Synced, Waiting, Passed, Behind, Steps
<1>3. PICK a : a = [row EXCEPT !.pstep = "validating"]
  OBVIOUS
<1>4. /\ a \in RowType /\ a.status = row.status /\ a.draft = row.draft /\ a.edited = row.edited
      /\ a.content = row.content /\ a.count = row.count /\ a.pstep = "validating"
  BY <1>1, <1>3, Types, PSteps DEF RowType
<1>5. StartedRow("final_check") = a
  BY <1>3 DEF StartedRow, Checked, PipelineStepOf, JobAnchor
<1>6. job' = [job EXCEPT !.step = "validator"]
  BY DEF FinalCheckPasses, StartedJob, Checked, JobAnchor
<1>7. PICK result \in FinalResults :
        /\ result.passed
        /\ row' = Cleaned(a, result.text) /\ db' = a
        /\ Follow(run, IF result.block THEN "blocked" ELSE "ok")
        /\ NotePassed(result.text, ~run.latest.given)
  BY <1>5 DEF FinalCheckPasses
<1>8. PICK text : text = result.text
  OBVIOUS
<1>9. /\ text \in Texts /\ text # NoText
      /\ run.latest.given => text \in seen.passed
      /\ seen.blank => text = Current
  BY <1>1, <1>7, <1>8, FinalText, Small
<1>10. PICK r : r = Cleaned(a, text)
  OBVIOUS
<1>11. /\ r \in RowType /\ r.draft = text
       /\ r.edited = IF row.edited = NoText THEN NoText ELSE text
       /\ r.status = row.status /\ r.content = row.content
       /\ r.count = row.count /\ r.pstep = "validating"
  BY <1>2, <1>4, <1>9, <1>10, CleanedRow
<1>12. row' = r /\ db' = a
  BY <1>7, <1>8, <1>10
<1>13. PICK v : v = IF result.block THEN "blocked" ELSE "ok"
  OBVIOUS
<1>14. PICK to : to = IF v = "blocked" THEN "@pause:validator" ELSE "publish"
  OBVIOUS
<1>15. Goto(conf, run.at, v, run.count, run.attempt) = to
  BY <1>1, <1>13, <1>14, Types, EndEdges
<1>16. /\ to \in {"@pause:validator", "publish"} /\ "publish" \in StepIds(conf)
  BY <1>1, <1>14, Types, StepSet
<1>17. /\ run' \in RunType
       /\ run'.at = to /\ run'.executed = run.executed + 1
       /\ run'.attempt = run.attempt /\ run'.start = run.start /\ run'.count = run.count
       /\ run'.draft = run.draft /\ run'.edited = run.edited
       /\ run'.decision = run.decision /\ run'.latest = run.latest
       /\ run'.skip = run.skip /\ run'.polished = run.polished
  BY <1>1, <1>7, <1>13, <1>15, <1>16, Types, Followed DEF Steps
<1>18. PICK P : P = IF ~run.latest.given THEN seen.passed \cup {text} ELSE seen.passed
  OBVIOUS
<1>19. /\ seen' \in [passed : SUBSET Texts, rejected : SUBSET TextOrNone,
                     reviewed : BOOLEAN, blank : BOOLEAN]
       /\ seen'.passed = P \cap Held'
       /\ seen'.reviewed = seen.reviewed /\ seen'.blank = seen.blank
  <2>1. Remember(P, seen.rejected)
    BY <1>7, <1>8, <1>18 DEF NotePassed
  <2>2. P \in SUBSET Texts /\ seen.rejected \in SUBSET TextOrNone
    BY <1>1, <1>9, <1>18 DEF TypeOK
  <2> QED BY <1>1, <2>1, <2>2, Remembered
<1>20. TypeOK' /\ RowsSound'
  <2>1. TypeOK'
    BY <1>1, <1>4, <1>6, <1>11, <1>12, <1>17, <1>19 DEF TypeOK, Anchor
  <2>2. RowsSound'
    BY <1>1, <1>2, <1>4, <1>6, <1>9, <1>11, <1>12 DEF RowsSound, RowSound, TypeOK
  <2> QED BY <2>1, <2>2
<1>21. OnGraph' /\ StepKept' /\ Waiting' /\ DraftThere' /\ Carried' /\ Resumed'
  BY <1>1, <1>2, <1>4, <1>9, <1>11, <1>12, <1>16, <1>17, <1>19
     DEF IInv, WalkInv, OnGraph, StepKept, Waiting, DraftThere, Carried, Resumed,
         InLoop, Behind, Steps
<1>22. Synced'
  BY <1>1, <1>2, <1>11, <1>12, <1>16, <1>17, <1>19 DEF Synced
<1>23. Passed'
  <2>1. text \in seen'.passed
    <3>1. text \in P
      BY <1>9, <1>18
    <3>2. text \in Held'
      BY <1>11, <1>12, HeldNext
    <3> QED BY <1>19, <3>1, <3>2
  <2>2. Or(row'.edited, row'.draft) = text
    BY <1>9, <1>11, <1>12 DEF Or
  <2>3. Current' = Current
    BY <1>17 DEF Current
  <2> QED BY <1>2, <1>9, <1>16, <1>17, <1>19, <2>1, <2>2, <2>3 DEF Passed
<1>24. Converging'
  BY <1>1, <1>16, <1>17, Types, Small DEF IInv, WalkInv, Converging, Remaining
<1> QED BY <1>20, <1>21, <1>22, <1>23, <1>24 DEF IInv, WalkInv

LEMMA FinalCheckFailsKeeps ==
    ASSUME IInv, FinalCheckFails
    PROVE  IInv'
<1>1. TypeOK /\ RowsSound /\ run.at = "final_check" /\ run.executed < MaxSteps
      /\ UNCHANGED << conf, retries, seen >>
  BY DEF IInv, FinalCheckFails, Starts, At
<1>2. row.draft # NoText /\ (run.latest.given => run.latest.text # NoText)
  BY <1>1 DEF IInv, WalkInv, DraftThere, Passed, Behind
<1>3. PICK a : a = [row EXCEPT !.pstep = "validating"]
  OBVIOUS
<1>4. /\ a \in RowType /\ a.status = row.status /\ a.draft = row.draft /\ a.edited = row.edited
      /\ a.content = row.content /\ a.count = row.count /\ a.pstep = "validating"
  BY <1>1, <1>3, Types, PSteps DEF RowType
<1>5. StartedRow("final_check") = a
  BY <1>3 DEF StartedRow, Checked, PipelineStepOf, JobAnchor
<1>6. job' = [job EXCEPT !.step = "validator"]
  BY DEF FinalCheckFails, StartedJob, Checked, JobAnchor
<1>7. PICK result \in FinalResults :
        LET r == Cleaned(a, result.text)
        IN IF run.attempt >= 3
           THEN /\ Commit([r EXCEPT !.status = "draft"])
                /\ Follow(run, "blocked")
           ELSE /\ Commit([r EXCEPT !.status = "draft", !.pstep = "writing"])
                /\ Follow(run, IF result.block THEN "blocked" ELSE "fail")
  BY <1>5 DEF FinalCheckFails
<1>8. PICK text : text = result.text
  OBVIOUS
<1>9. text \in Texts /\ text # NoText
  BY <1>1, <1>7, <1>8, FinalText, Small
<1>10. PICK r : r = Cleaned(a, text)
  OBVIOUS
<1>11. /\ r \in RowType /\ r.draft = text
       /\ r.edited = IF row.edited = NoText THEN NoText ELSE text
       /\ r.status = row.status /\ r.content = row.content
       /\ r.count = row.count /\ r.pstep = "validating"
  BY <1>2, <1>4, <1>9, <1>10, CleanedRow
<1>12. PICK step : step = IF run.attempt >= 3 THEN "validating" ELSE "writing"
  OBVIOUS
<1>13. PICK x : x = [r EXCEPT !.status = "draft", !.pstep = step]
  OBVIOUS
<1>14. row' = x /\ db' = x
  <2>1. CASE run.attempt >= 3
    <3>1. [r EXCEPT !.status = "draft"] = x
      BY <1>11, <1>12, <1>13, <2>1 DEF RowType
    <3> QED BY <1>7, <1>8, <1>10, <2>1, <3>1 DEF Commit
  <2>2. CASE ~(run.attempt >= 3)
    BY <1>7, <1>8, <1>10, <1>12, <1>13, <2>2 DEF Commit
  <2> QED BY <2>1, <2>2
<1>15. /\ x \in RowType /\ x.draft = text /\ x.edited = r.edited
       /\ x.status = "draft" /\ x.content = row.content /\ x.count = row.count
  BY <1>11, <1>12, <1>13, PSteps DEF RowType, ChapterStatus
<1>16. PICK v : v = IF run.attempt >= 3 \/ result.block THEN "blocked" ELSE "fail"
  OBVIOUS
<1>17. Follow(run, v)
  BY <1>7, <1>16
<1>18. PICK to : to = IF v = "fail" THEN "@retry_chapter" ELSE "@pause:validator"
  OBVIOUS
<1>19. Goto(conf, run.at, v, run.count, run.attempt) = to
  BY <1>1, <1>16, <1>18, Types, EndEdges
<1>20. /\ to \in {"@pause:validator", "@retry_chapter"}
       /\ to = "@retry_chapter" => run.attempt < 3
  BY <1>1, <1>16, <1>18, Types
<1>21. /\ run' \in RunType
       /\ run'.at = to /\ run'.executed = run.executed + 1
       /\ run'.attempt = run.attempt /\ run'.start = run.start /\ run'.count = run.count
       /\ run'.draft = run.draft /\ run'.edited = run.edited
       /\ run'.decision = run.decision /\ run'.latest = run.latest
       /\ run'.skip = run.skip /\ run'.polished = run.polished
  BY <1>1, <1>17, <1>19, <1>20, Types, Followed
<1>22. TypeOK' /\ RowsSound'
  <2>1. TypeOK'
    BY <1>1, <1>6, <1>14, <1>15, <1>21 DEF TypeOK, Anchor
  <2>2. RowsSound'
    BY <1>1, <1>6, <1>9, <1>11, <1>14, <1>15 DEF RowsSound, RowSound, TypeOK
  <2> QED BY <2>1, <2>2
<1>23. OnGraph' /\ StepKept' /\ Waiting' /\ DraftThere' /\ Carried' /\ Resumed' /\ Synced'
       /\ Passed'
  BY <1>1, <1>2, <1>20, <1>21
     DEF IInv, WalkInv, OnGraph, StepKept, Waiting, DraftThere, Carried, Resumed, Synced,
         Passed, InLoop, Behind, Steps
<1>24. Converging'
  BY <1>1, <1>20, <1>21, Types, Small DEF IInv, WalkInv, Converging, Remaining
<1> QED BY <1>22, <1>23, <1>24 DEF IInv, WalkInv

LEMMA PublishKeeps ==
    ASSUME IInv, Publish
    PROVE  IInv'
<1>1. TypeOK /\ RowsSound /\ run.at = "publish" /\ run.executed < MaxSteps
      /\ UNCHANGED << conf, job, retries, seen >> /\ Follow(run, "ok")
  BY DEF IInv, Publish, At
<1>2. /\ row.draft # NoText /\ Or(row.edited, row.draft) \in seen.passed
      /\ run.latest.given => run.latest.text # NoText
  BY <1>1 DEF IInv, WalkInv, DraftThere, Passed, Behind
<1>3. PICK text : text = Or(row.edited, row.draft)
  OBVIOUS
<1>4. text \in Texts /\ text # NoText
  BY <1>1, <1>2, <1>3, Small DEF TypeOK
<1>5. PICK r : r = [row EXCEPT !.content = text, !.status = "validated", !.pstep = "validating"]
  OBVIOUS
<1>6. /\ r \in RowType /\ r.status = "validated" /\ r.draft = row.draft /\ r.edited = row.edited
      /\ r.content = text /\ r.count = row.count
  BY <1>1, <1>4, <1>5, Types, PSteps DEF RowType, TextOrNone, ChapterStatus
<1>7. row' = r /\ db' = r
  BY <1>3, <1>5 DEF Publish, Commit
<1>8. Goto(conf, run.at, "ok", run.count, run.attempt) = "post" /\ "post" \in StepIds(conf)
  BY <1>1, Types, EndEdges, StepSet
<1>9. /\ run' \in RunType
      /\ run'.at = "post" /\ run'.executed = run.executed + 1
      /\ run'.attempt = run.attempt /\ run'.start = run.start /\ run'.count = run.count
      /\ run'.draft = run.draft /\ run'.edited = run.edited
      /\ run'.decision = run.decision /\ run'.latest = run.latest
      /\ run'.skip = run.skip /\ run'.polished = run.polished
  BY <1>1, <1>8, Types, Followed DEF Steps
<1>10. TypeOK' /\ RowsSound'
  BY <1>1, <1>2, <1>4, <1>6, <1>7, <1>9 DEF TypeOK, RowsSound, RowSound
<1>11. OnGraph' /\ StepKept' /\ Waiting' /\ DraftThere' /\ Carried' /\ Resumed' /\ Synced'
       /\ Passed'
  BY <1>1, <1>2, <1>4, <1>6, <1>7, <1>8, <1>9
     DEF IInv, WalkInv, OnGraph, StepKept, Waiting, DraftThere, Carried, Resumed, Synced,
         Passed, InLoop, Behind, Steps
<1>12. Converging'
  BY <1>1, <1>9, Types, Small DEF IInv, WalkInv, Converging, Remaining
<1> QED BY <1>10, <1>11, <1>12 DEF IInv, WalkInv

JobType == [status : {"running", "paused", "failed", "completed"},
            step : Anchor \cup {"validating", "extracting"}]
SeenType == [passed : SUBSET Texts, rejected : SUBSET TextOrNone,
             reviewed : BOOLEAN, blank : BOOLEAN]

\* The row as a checked step leaves it when it begins, and the job.
LEMMA Started ==
    ASSUME IInv, NEW id \in CallsModel, run.at = id, NEW r, r = StartedRow(id),
           NEW j, j = StartedJob(id)
    PROVE  /\ r \in RowType /\ RowSound(conf, r) /\ r.status # "pending_review"
           /\ r.draft = row.draft /\ r.edited = row.edited /\ r.content = row.content
           /\ r.count = row.count
           /\ j \in JobType /\ j.status = job.status
           /\ j.step = "editor" => row.draft # NoText
<1>1. TypeOK /\ RowsSound /\ row.status # "pending_review" /\ id \in Steps
  BY DEF IInv, WalkInv, Waiting, Steps, CallsModel
<1>2. id = "review" => row.draft # NoText
  BY DEF IInv, WalkInv, DraftThere, Behind
<1>3. /\ j \in JobType /\ j.status = job.status
      /\ j.step = "editor" => row.draft # NoText
  BY <1>1, <1>2 DEF StartedJob, JobAnchor, Checked, TypeOK, JobType, Anchor, RowsSound
<1>4. PICK p : p = PipelineStepOf(JobAnchor(id))
  OBVIOUS
<1>5. p \in {"writing", "editing", "validating", "extracting"}
  BY <1>4 DEF PipelineStepOf, JobAnchor
<1>6. \/ r = [row EXCEPT !.status = "post_processing", !.pstep = "extracting"]
      \/ r = [row EXCEPT !.pstep = p]
      \/ r = row
  BY <1>4 DEF StartedRow
<1>7. /\ r \in RowType /\ r.status # "pending_review"
      /\ r.draft = row.draft /\ r.edited = row.edited /\ r.content = row.content
      /\ r.count = row.count
  BY <1>1, <1>5, <1>6, Types, PSteps DEF RowType, ChapterStatus
<1> QED BY <1>1, <1>3, <1>7 DEF RowsSound, RowSound

\* What a step that breaks has committed.
LEMMA Halfway ==
    ASSUME IInv, run.at \in Steps, NEW r \in Midway \cup {row}
    PROVE  /\ r \in RowType /\ RowSound(conf, r) /\ r.status # "pending_review"
           /\ r.draft = row.draft /\ r.content = row.content
<1>1. TypeOK /\ RowsSound /\ row.status # "pending_review"
  BY DEF IInv, WalkInv, Waiting
<1>2. run.at = "post_check" => conf.editor
  BY <1>1, Types, StepSet DEF IInv, WalkInv, OnGraph
<1>3. CASE r = row
  BY <1>1, <1>3, Types DEF RowsSound
<1>4. CASE run.at \in Checked /\ r = StartedRow(run.at)
  <2>1. run.at \in CallsModel
    BY <1>4 DEF Checked, CallsModel
  <2> QED BY <1>4, <2>1, Started
<1>5. CASE r = [row EXCEPT !.outline = "full"]
  <2>1. /\ r \in RowType /\ r.status = row.status /\ r.draft = row.draft
        /\ r.edited = row.edited /\ r.content = row.content /\ r.count = row.count
        /\ r.pstep = row.pstep
    BY <1>1, <1>5, Types DEF RowType
  <2> QED BY <1>1, <2>1 DEF RowsSound, RowSound
<1>6. CASE run.at = "post_check" /\ r = [row EXCEPT !.edited = NewText]
  <2>1. NewText \in TextOrNone
    BY NewTextThere DEF TextOrNone
  <2>2. /\ r \in RowType /\ r.status = row.status /\ r.draft = row.draft
        /\ r.content = row.content /\ r.count = row.count /\ r.pstep = row.pstep
    BY <1>1, <1>6, <2>1, Types DEF RowType
  <2> QED BY <1>1, <1>2, <1>6, <2>2 DEF RowsSound, RowSound
<1> QED BY <1>3, <1>4, <1>5, <1>6 DEF Midway

\* The walk ends, or begins again, with the row r committed.
LEMMA Restarted ==
    ASSUME IInv, conf' = conf, NEW r \in RowType, RowSound(conf, r), row' = r, db' = r,
           job' \in JobType, job'.step = "editor" => r.draft # NoText,
           NEW at \in {"idle", "enter", "@done"}, NEW n \in 1..3, run' = AtStep(at, n),
           retries' \in 0..4,
           retries' = 4 => at = "@done" \/ (at = "enter" /\ r.status = "pending_review"),
           seen' \in SeenType
    PROVE  IInv'
<1>1. TypeOK'
  BY IdleTyped DEF IInv, TypeOK, JobType, SeenType
<1>2. RowsSound'
  BY DEF RowsSound
<1> QED BY <1>1, <1>2, Stopped

LEMMA Ended ==
    ASSUME IInv, conf' = conf, NEW r \in RowType, RowSound(conf, r), row' = r, db' = r,
           job' \in JobType, job'.step = "editor" => r.draft # NoText, EndRun
    PROVE  IInv'
<1>1. run' = AtStep("idle", 1) /\ retries' = 0 /\ seen' = NothingSeen
  BY DEF EndRun, Idle
<1>2. seen' \in SeenType /\ retries' \in 0..4 /\ 1 \in 1..3
  BY <1>1, IdleTyped DEF SeenType
<1> QED BY <1>1, <1>2, Restarted

LEMMA FailedRun ==
    ASSUME IInv, conf' = conf, NEW j \in JobType, NEW r \in RowType, RowSound(conf, r),
           j.step = "editor" => r.draft # NoText, FailRun(j, r)
    PROVE  IInv'
<1>1. row' = r /\ db' = r /\ EndRun /\ job' = [j EXCEPT !.status = "failed"]
  BY DEF FailRun, Commit
<1>2. job' \in JobType /\ job'.step = j.step
  BY <1>1 DEF JobType
<1> QED BY <1>1, <1>2, Ended

LEMMA JobTyped == IInv => job \in JobType
BY DEF IInv, TypeOK, JobType

LEMMA PostKeeps ==
    ASSUME IInv, PostPublishes \/ PostNeedsReview
    PROVE  IInv'
<1>1. TypeOK /\ RowsSound /\ run.at = "post" /\ run.executed < MaxSteps
      /\ UNCHANGED << conf, retries, seen >> /\ Follow(run, "ok")
  BY DEF IInv, PostPublishes, PostNeedsReview, Starts, At
<1>2. PICK a : a = StartedRow("post")
  OBVIOUS
<1>3. PICK j : j = StartedJob("post")
  OBVIOUS
<1>4. /\ a \in RowType /\ RowSound(conf, a)
      /\ a.draft = row.draft /\ a.edited = row.edited /\ a.content = row.content
      /\ a.count = row.count
      /\ j \in JobType /\ j.step = "extractor"
      /\ a.pstep = "extracting"
  <2>1. "post" \in CallsModel
    BY DEF CallsModel
  <2>2. /\ a = [row EXCEPT !.status = "post_processing", !.pstep = "extracting"]
        /\ j = [job EXCEPT !.step = "extractor"]
    <3>1. a = [row EXCEPT !.status = "post_processing", !.pstep = "extracting"]
      BY <1>2 DEF StartedRow
    <3>2. JobAnchor("post") = "extractor" /\ "post" \in Checked
      BY DEF JobAnchor, Checked
    <3>3. j = [job EXCEPT !.step = "extractor"]
      BY <1>3, <3>2 DEF StartedJob
    <3> QED BY <3>1, <3>3
  <2>3. a.pstep = "extracting" /\ j.step = "extractor"
    BY <1>1, <2>2, Types, JobTyped DEF RowType, JobType
  <2> QED BY <1>1, <1>2, <1>3, <2>1, <2>3, Started
<1>5. PICK x : x \in {Published(a), PendingReview(a)} /\ row' = x /\ db' = x
  BY <1>2 DEF PostPublishes, PostNeedsReview, Commit
<1>6. /\ x \in RowType /\ x.draft = a.draft /\ x.edited = a.edited /\ x.content = a.content
      /\ x.count = a.count
      /\ x.status = "pending_review" => x.pstep = "extracting"
  BY <1>4, <1>5, PSteps DEF Published, PendingReview, RowType, ChapterStatus
<1>7. job' \in JobType /\ job'.step = "extractor"
  BY <1>3, <1>4 DEF PostPublishes, PostNeedsReview, JobType, Anchor
<1>8. Goto(conf, run.at, "ok", run.count, run.attempt) = "@done"
  BY <1>1, Types, EndEdges
<1>9. /\ run' \in RunType
      /\ run'.at = "@done" /\ run'.executed = run.executed + 1
      /\ run'.attempt = run.attempt /\ run'.start = run.start /\ run'.count = run.count
      /\ run'.draft = run.draft /\ run'.edited = run.edited
      /\ run'.decision = run.decision /\ run'.latest = run.latest
      /\ run'.skip = run.skip /\ run'.polished = run.polished
  BY <1>1, <1>8, Types, Followed
<1>10. TypeOK'
  BY <1>1, <1>5, <1>6, <1>7, <1>9 DEF TypeOK, JobType
<1>11. RowsSound'
  BY <1>1, <1>4, <1>5, <1>6, <1>7 DEF RowsSound, RowSound
<1>12. OnGraph' /\ StepKept' /\ Waiting' /\ DraftThere' /\ Carried' /\ Resumed' /\ Synced'
       /\ Passed'
  BY <1>1, <1>9
     DEF IInv, WalkInv, OnGraph, StepKept, Waiting, DraftThere, Carried, Resumed, Synced,
         Passed, InLoop, Behind, Steps
<1>13. Converging'
  BY <1>1, <1>9, Types, Small DEF IInv, WalkInv, Converging, Remaining
<1> QED BY <1>10, <1>11, <1>12, <1>13 DEF IInv, WalkInv

LEMMA PostTimesOutKeeps ==
    ASSUME IInv, PostTimesOut
    PROVE  IInv'
<1>1. run.at = "post" /\ conf' = conf /\ "post" \in CallsModel
  BY DEF PostTimesOut, Starts, At, CallsModel
<1>2. PICK a : a = StartedRow("post")
  OBVIOUS
<1>3. PICK j : j = StartedJob("post")
  OBVIOUS
<1>4. /\ a \in RowType /\ RowSound(conf, a) /\ a.draft = row.draft
      /\ j \in JobType /\ (j.step = "editor" => row.draft # NoText)
  BY <1>1, <1>2, <1>3, Started
<1>5. PICK r : r = [a EXCEPT !.status = "postprocess_failed"]
  OBVIOUS
<1>6. r \in RowType /\ RowSound(conf, r) /\ r.draft = row.draft
  BY <1>4, <1>5 DEF RowType, RowSound, ChapterStatus
<1>7. FailRun(j, r)
  BY <1>2, <1>3, <1>5 DEF PostTimesOut
<1> QED BY <1>1, <1>4, <1>6, <1>7, FailedRun

----------------------------------------------------------------------------
(* Entering and leaving the chapter.                                       *)

\* A chapter is prepared for a step it may start at.
LEMMA Prepared ==
    ASSUME IInv, row.status # "pending_review", NEW start, start = StartStep,
           NEW r, r = PreparedRow(start)
    PROVE  /\ start \in Anchor \cup {"validating", "extracting"}
           /\ start = "editor" => conf.editor /\ row.draft # NoText
           /\ r \in RowType /\ RowSound(conf, r) /\ r.status # "pending_review"
           /\ r.draft = row.draft /\ r.edited = row.edited /\ r.content = row.content
           /\ r.count = row.count
           /\ start = "planner" => r.pstep = "outline"
<1>1. TypeOK /\ RowsSound
  BY DEF IInv
<1>2. start = job.step \/ start \in {"validator", "writer"}
  BY DEF StartStep
<1>3. start = "editor" => conf.editor
  BY DEF StartStep
<1>4. start \in Anchor \cup {"validating", "extracting"}
      /\ (start = "editor" => conf.editor /\ row.draft # NoText)
  BY <1>1, <1>2, <1>3 DEF TypeOK, RowsSound, Anchor
<1>5. PICK entry : entry = IF start = "planner" THEN "outline" ELSE "writing"
  OBVIOUS
<1>6. \/ r = [row EXCEPT !.status = "draft", !.pstep = entry]
      \/ /\ start \in {"validator", "extractor"}
         /\ r = [row EXCEPT !.pstep = IF start = "validator" THEN "validating" ELSE "extracting"]
  BY <1>5 DEF PreparedRow, PipelineStepOf
<1>7. /\ r \in RowType /\ r.status # "pending_review"
      /\ r.draft = row.draft /\ r.edited = row.edited /\ r.content = row.content
      /\ r.count = row.count
      /\ start = "planner" => r.pstep = "outline"
  BY <1>1, <1>5, <1>6, Types, PSteps DEF RowType, ChapterStatus
<1> QED BY <1>1, <1>4, <1>7 DEF RowsSound, RowSound

LEMMA EnterChapterKeeps ==
    ASSUME IInv, EnterChapter
    PROVE  IInv'
<1>1. TypeOK /\ RowsSound /\ run.at = "enter" /\ row.status # "pending_review"
      /\ UNCHANGED << conf, retries >>
  BY DEF IInv, EnterChapter
<1>2. retries # 4
  BY <1>1 DEF IInv, WalkInv, Waiting
<1>3. PICK start : start = StartStep
  OBVIOUS
<1>4. PICK r : r = PreparedRow(start)
  OBVIOUS
<1>5. /\ start \in Anchor \cup {"validating", "extracting"}
      /\ start = "editor" => conf.editor /\ row.draft # NoText
      /\ r \in RowType /\ RowSound(conf, r) /\ r.status # "pending_review"
      /\ r.draft = row.draft /\ r.edited = row.edited /\ r.content = row.content
      /\ r.count = row.count
      /\ start = "planner" => r.pstep = "outline"
  BY <1>1, <1>3, <1>4, Prepared
<1>6. /\ job' = [job EXCEPT !.step = start] /\ row' = r /\ db' = r
      /\ seen' = [NothingSeen EXCEPT !.rejected = seen.rejected, !.blank = r.content = NoText]
      /\ run' = IF ResumesExtractor(start, r)
                THEN [AtStep("post", run.attempt) EXCEPT !.start = start]
                ELSE InitialPass(start, r)
  BY <1>3, <1>4 DEF EnterChapter, Commit
<1>7. seen' \in SeenType /\ seen'.blank = (r.content = NoText)
  BY <1>1, <1>6 DEF NothingSeen, SeenType, TypeOK
<1>8. job' \in JobType /\ job'.step = start
  BY <1>1, <1>5, <1>6 DEF JobType, TypeOK
<1>9. RowsSound'
  BY <1>1, <1>5, <1>6, <1>8 DEF RowsSound
<1>10. "plan" \in StepIds(conf) /\ "post" \in StepIds(conf)
  BY <1>1, Types, StepSet
<1>11. ~conf.editor /\ r.content = NoText => r.edited = NoText
  BY <1>5 DEF RowSound
<1>12. /\ 0 \in 0..MaxSteps /\ 0 \in 0..MaxRewrites
       /\ MaxRewrites \in 0..MaxRewrites /\ NoText \in TextOrNone
  BY Small DEF TextOrNone
<1>13. CASE ResumesExtractor(start, r)
  <2>1. PICK b : b = AtStep("post", run.attempt)
    OBVIOUS
  <2>2. run' = [b EXCEPT !.start = start]
    BY <1>6, <1>13, <2>1
  <2>3. /\ b \in RunType /\ b.at = "post" /\ b.executed = 0 /\ b.edited = NoText
        /\ b.latest.given = FALSE
    BY <1>1, <1>12, <2>1, Types DEF AtStep, NoResult, RunType, Anchor, CallsModel
  <2>4. /\ run' \in RunType /\ run'.at = "post" /\ run'.executed = 0 /\ run'.edited = NoText
        /\ run'.latest.given = FALSE /\ run'.start = start
    BY <1>5, <2>2, <2>3 DEF RunType
  <2>5. TypeOK'
    BY <1>1, <1>5, <1>6, <1>7, <1>8, <2>4 DEF TypeOK, JobType, SeenType
  <2>6. OnGraph' /\ StepKept' /\ Waiting' /\ DraftThere' /\ Carried' /\ Resumed' /\ Synced'
        /\ Passed'
    BY <1>1, <1>2, <1>5, <1>6, <1>10, <2>4
       DEF OnGraph, StepKept, Waiting, DraftThere, Carried, Resumed, Synced,
           Passed, InLoop, Behind, Steps
  <2>7. Converging'
    BY <2>4, Small DEF Converging, Remaining
  <2> QED BY <1>9, <2>5, <2>6, <2>7 DEF IInv, WalkInv
<1>14. CASE ~ResumesExtractor(start, r)
  <2>1. PICK skip \in BOOLEAN : skip = (start \in {"validator", "extractor"} /\ r.draft # NoText)
    OBVIOUS
  <2>2. PICK count : count = IF skip THEN MaxRewrites ELSE r.count
    OBVIOUS
  <2>3. PICK decision : decision = IF skip THEN "none"
                                   ELSE IF start = "editor" THEN "keep" ELSE "rewrite"
    OBVIOUS
  <2>4. PICK b : b = AtStep("plan", run.attempt)
    OBVIOUS
  <2>5. run' = [b EXCEPT !.start = start, !.skip = skip, !.draft = r.draft,
                         !.edited = r.edited, !.count = count, !.decision = decision]
    BY <1>6, <1>14, <2>1, <2>2, <2>3, <2>4 DEF InitialPass
  <2>6. /\ b \in RunType /\ b.at = "plan" /\ b.executed = 0 /\ b.latest.given = FALSE
    BY <1>1, <1>12, <2>4, Types DEF AtStep, NoResult, RunType, Anchor, CallsModel
  <2>7. count \in 0..MaxRewrites /\ r.draft \in TextOrNone /\ r.edited \in TextOrNone
    BY <1>5, <1>12, <2>2 DEF RowType
  <2>8. /\ run' \in RunType /\ run'.at = "plan" /\ run'.executed = 0
        /\ run'.latest = b.latest /\ run'.start = start /\ run'.skip = skip
        /\ run'.draft = r.draft /\ run'.edited = r.edited /\ run'.count = count
        /\ run'.decision = decision
    <3>1. decision \in {"none", "keep", "rewrite"}
      BY <2>3
    <3>2. PICK c : c = [b EXCEPT !.start = start, !.draft = r.draft, !.edited = r.edited,
                                 !.count = count, !.decision = decision]
      OBVIOUS
    <3>3. /\ c \in RunType /\ c.at = "plan" /\ c.executed = 0
          /\ c.latest = b.latest /\ c.start = start
          /\ c.draft = r.draft /\ c.edited = r.edited /\ c.count = count
          /\ c.decision = decision
      BY <1>5, <2>6, <2>7, <3>1, <3>2 DEF RunType
    <3>4. run' = [c EXCEPT !.skip = skip]
      BY <2>5, <2>6, <3>2 DEF RunType
    <3> QED BY <3>3, <3>4 DEF RunType
  <2>9. TypeOK'
    BY <1>1, <1>5, <1>6, <1>7, <1>8, <2>8 DEF TypeOK, JobType, SeenType
  <2>10. OnGraph' /\ StepKept' /\ Waiting' /\ DraftThere' /\ Resumed' /\ Passed'
    BY <1>1, <1>2, <1>5, <1>6, <1>10, <2>1, <2>3, <2>6, <2>8
       DEF OnGraph, StepKept, Waiting, DraftThere, Resumed, Passed, InLoop, Behind, Steps
  <2>11. Carried'
    <3>1. r.count > 0 => r.draft # NoText
      BY <1>5 DEF RowSound
    <3>2. count > 0 => r.draft # NoText
      BY <2>1, <2>2, <3>1
    <3> QED BY <1>5, <1>6, <2>1, <2>2, <2>3, <2>6, <2>8, <3>2 DEF Carried
  <2>12. Synced'
    BY <1>1, <1>6, <1>7, <1>11, <2>8 DEF Synced
  <2>13. Converging'
    BY <2>7, <2>8, Small DEF Converging, Remaining
  <2> QED BY <1>9, <2>9, <2>10, <2>11, <2>12, <2>13 DEF IInv, WalkInv
<1> QED BY <1>13, <1>14

LEMMA EnterPendingReviewKeeps ==
    ASSUME IInv, EnterPendingReview
    PROVE  IInv'
<1>1. TypeOK /\ RowsSound /\ row.status = "pending_review" /\ UNCHANGED << conf, row, db >>
      /\ job' = [status |-> "paused", step |-> row.pstep]
      /\ run' = AtStep("idle", 1) /\ retries' = 0 /\ seen' = NothingSeen
  BY DEF IInv, EnterPendingReview, EndRun, Idle
<1>2. row.pstep \in {"validating", "extracting"}
  BY <1>1 DEF RowsSound, RowSound
<1>3. TypeOK'
  BY <1>1, <1>2, IdleTyped DEF TypeOK
<1>4. RowsSound'
  BY <1>1, <1>2 DEF RowsSound
<1> QED BY <1>1, <1>3, <1>4, Stopped

LEMMA PauseAtAnchorKeeps ==
    ASSUME IInv, PauseAtAnchor
    PROVE  IInv'
<1>1. TypeOK /\ RowsSound /\ conf' = conf /\ row' = row /\ db' = row /\ EndRun
      /\ run.at \in {"@pause:planner", "@pause:editor", "@pause:validator"}
      /\ job' = [status |-> "paused", step |-> PauseAnchor[run.at]]
  BY DEF IInv, PauseAtAnchor, Commit, PauseAnchor
<1>2. /\ PauseAnchor[run.at] \in {"planner", "editor", "validator"}
      /\ PauseAnchor[run.at] = "editor" => run.at = "@pause:editor"
  BY <1>1 DEF PauseAnchor
<1>3. run.at = "@pause:editor" => row.draft # NoText
  BY DEF IInv, WalkInv, DraftThere, Behind
<1>4. /\ job' \in JobType /\ (job'.step = "editor" => row.draft # NoText)
      /\ row \in RowType /\ RowSound(conf, row)
  BY <1>1, <1>2, <1>3 DEF JobType, Anchor, TypeOK, RowsSound
<1> QED BY <1>1, <1>4, Ended

LEMMA RetryChapterKeeps ==
    ASSUME IInv, RetryChapter
    PROVE  IInv'
<1>1. TypeOK /\ RowsSound /\ UNCHANGED << conf, retries, seen >> /\ row' = row /\ db' = row
      /\ run.at = "@retry_chapter" /\ job' = [job EXCEPT !.step = "writer"]
      /\ run' = AtStep("enter", run.attempt + 1)
  BY DEF IInv, RetryChapter, Commit, Entering
<1>2. run.attempt + 1 \in 1..3 /\ retries' # 4 /\ retries' \in 0..4
  BY <1>1 DEF IInv, WalkInv, OnGraph, Waiting, TypeOK, RunType
<1>3. /\ job' \in JobType /\ job'.step = "writer" /\ seen' \in SeenType
      /\ row \in RowType /\ RowSound(conf, row)
  BY <1>1 DEF JobType, Anchor, TypeOK, RowsSound, SeenType
<1> QED BY <1>1, <1>2, <1>3, Restarted

LEMMA LeaveChapterKeeps ==
    ASSUME IInv, LeaveChapter
    PROVE  IInv'
<1>1. TypeOK /\ RowsSound /\ conf' = conf /\ row' = row /\ db' = row /\ EndRun
      /\ job' = IF Paused THEN job ELSE [status |-> "completed", step |-> "planner"]
  BY DEF IInv, LeaveChapter, Commit
<1>2. /\ job' \in JobType /\ (job'.step = "editor" => row.draft # NoText)
      /\ row \in RowType /\ RowSound(conf, row)
  BY <1>1 DEF JobType, Anchor, TypeOK, RowsSound
<1> QED BY <1>1, <1>2, Ended

LEMMA StopForPauseKeeps ==
    ASSUME IInv, StopForPause
    PROVE  IInv'
<1>1. TypeOK /\ RowsSound /\ conf' = conf /\ job' = job /\ EndRun /\ row' = db'
      /\ db' \in {db} \cup {StartedRow(id) : id \in {run.at} \cap {"post"}}
  BY DEF IInv, StopForPause
<1>2. db' = db \/ (run.at = "post" /\ db' = StartedRow("post"))
  BY <1>1
<1>3. PICK r : r = db'
  OBVIOUS
<1>4. /\ r \in RowType /\ RowSound(conf, r) /\ (r.draft = NoText <=> row.draft = NoText)
  <2>1. "post" \in CallsModel
    BY DEF CallsModel
  <2>2. CASE r = db
    BY <1>1, <2>2 DEF TypeOK, RowsSound
  <2>3. CASE run.at = "post" /\ r = StartedRow("post")
    BY <1>1, <2>1, <2>3, Started
  <2> QED BY <1>2, <1>3, <2>2, <2>3
<1>5. job' \in JobType /\ (job'.step = "editor" => r.draft # NoText)
  BY <1>1, <1>4, JobTyped DEF RowsSound
<1> QED BY <1>1, <1>3, <1>4, <1>5, Ended

----------------------------------------------------------------------------
(* Failures.                                                               *)

\* A step that breaks leaves a sound row, and a job that names the Editor
\* only if there is a draft.
LEMMA Unfinished ==
    ASSUME IInv, run.at \in CallsModel, NEW r \in Broken \cup Unanswered,
           NEW j, j = StartedJob(run.at)
    PROVE  /\ r \in RowType /\ RowSound(conf, r) /\ r.status # "pending_review"
           /\ r.draft = row.draft
           /\ j \in JobType /\ (j.step = "editor" => r.draft # NoText)
<1>1. r \in Midway \cup {row}
  BY DEF Broken, Unanswered
<1>2. run.at \in Steps
  BY DEF CallsModel, Steps
<1>3. /\ r \in RowType /\ RowSound(conf, r) /\ r.status # "pending_review"
      /\ r.draft = row.draft
  BY <1>1, <1>2, Halfway
<1>4. PICK x : x = StartedRow(run.at)
  OBVIOUS
<1>5. PICK id \in CallsModel : id = run.at
  OBVIOUS
<1>6. j \in JobType /\ (j.step = "editor" => row.draft # NoText)
  BY <1>4, <1>5, Started
<1> QED BY <1>3, <1>6

LEMMA StepFailsKeeps ==
    ASSUME IInv, StepFails
    PROVE  IInv'
<1>1. conf' = conf
  BY DEF StepFails
<1>2. CASE FailRun(job, row)
  <2>1. job \in JobType /\ row \in RowType /\ RowSound(conf, row)
        /\ (job.step = "editor" => row.draft # NoText)
    BY JobTyped DEF IInv, TypeOK, RowsSound
  <2> QED BY <1>1, <1>2, <2>1, FailedRun
<1>3. CASE ~FailRun(job, row)
  <2>1. run.at \in CallsModel
    BY <1>3 DEF StepFails
  <2>2. PICK r \in Broken : FailRun(StartedJob(run.at), r)
    BY <1>3 DEF StepFails
  <2>3. PICK j : j = StartedJob(run.at)
    OBVIOUS
  <2>4. /\ r \in RowType /\ RowSound(conf, r)
        /\ j \in JobType /\ (j.step = "editor" => r.draft # NoText)
    BY <2>1, <2>2, <2>3, Unfinished
  <2> QED BY <1>1, <2>2, <2>3, <2>4, FailedRun
<1> QED BY <1>2, <1>3

LEMMA CrashKeeps ==
    ASSUME IInv, Crash
    PROVE  IInv'
<1>1. TypeOK /\ RowsSound /\ conf' = conf /\ row' = db' /\ EndRun
  BY DEF IInv, Crash
<1>2. PICK point \in Points :
        /\ job' = IF Paused THEN point[1] ELSE [point[1] EXCEPT !.status = "failed"]
        /\ db' \in Swept(point[1], point[2])
  BY DEF Crash
<1>3. PICK j : j = point[1]
  OBVIOUS
<1>4. PICK r : r = point[2]
  OBVIOUS
<1>5. \/ j = job /\ r = db
      \/ j = StartedJob(run.at) /\ r \in Midway
      \/ j = job /\ r \in Midway
  BY <1>2, <1>3, <1>4 DEF Points
<1>6. /\ r \in RowType /\ RowSound(conf, r)
      /\ j \in JobType /\ (j.step = "editor" => r.draft # NoText)
  <2>1. CASE j = job /\ r = db
    BY <1>1, <2>1, JobTyped DEF TypeOK, RowsSound
  <2>2. CASE r \in Midway /\ (j = job \/ j = StartedJob(run.at))
    <3>1. run.at \in Steps /\ run.at \in CallsModel
      BY <2>2 DEF Midway, Checked, CallsModel, Steps
    <3>2. r \in RowType /\ RowSound(conf, r) /\ r.draft = row.draft
      BY <2>2, <3>1, Halfway
    <3>3. PICK x : x = StartedRow(run.at)
      OBVIOUS
    <3>4. PICK s : s = StartedJob(run.at)
      OBVIOUS
    <3>5. PICK id \in CallsModel : id = run.at
      BY <3>1
    <3>6. s \in JobType /\ (s.step = "editor" => row.draft # NoText)
      BY <3>3, <3>4, <3>5, Started
    <3>7. job \in JobType /\ (job.step = "editor" => row.draft # NoText)
      BY <1>1, JobTyped DEF RowsSound
    <3> QED BY <2>2, <3>2, <3>4, <3>6, <3>7
  <2> QED BY <1>5, <2>1, <2>2
<1>7. PICK x : x = db'
  OBVIOUS
<1>8. PICK swept : swept = [r EXCEPT !.status = "postprocess_failed"]
  OBVIOUS
<1>9. x \in {r, swept}
  BY <1>2, <1>3, <1>4, <1>7, <1>8 DEF Swept
<1>10. swept \in RowType /\ RowSound(conf, swept) /\ swept.draft = r.draft
  BY <1>6, <1>8 DEF RowType, RowSound, ChapterStatus
<1>11. x \in RowType /\ RowSound(conf, x) /\ x.draft = r.draft
  BY <1>6, <1>9, <1>10
<1>12. job' \in JobType /\ job'.step = j.step
  BY <1>2, <1>3, <1>6 DEF JobType
<1> QED BY <1>1, <1>6, <1>7, <1>11, <1>12, Ended

\* The step whose answer does not parse, and the row there is.
LEMMA JsonStep ==
    ASSUME IInv, JsonFails, NEW r \in Unanswered
    PROVE  /\ run.at \in CallsModel /\ retries \in 0..3
           /\ r \in RowType /\ RowSound(conf, r)
           /\ StartedJob(run.at) \in JobType
           /\ StartedJob(run.at).step = "editor" => r.draft # NoText
           /\ EditorJson => conf.editor
           /\ seen \in SeenType
<1>1. run.at \in CallsModel /\ run.at \in Steps
  BY DEF JsonFails, CallsModel, Steps
<1>2. retries \in 0..3
  BY <1>1 DEF IInv, TypeOK, WalkInv, Waiting, Steps
<1>3. EditorJson => conf.editor
  BY <1>1, Types, StepSet DEF IInv, WalkInv, OnGraph, EditorJson
<1>4. PICK j : j = StartedJob(run.at)
  OBVIOUS
<1>5. /\ r \in RowType /\ RowSound(conf, r)
      /\ j \in JobType /\ (j.step = "editor" => r.draft # NoText)
  BY <1>1, <1>4, Unfinished
<1>6. seen \in SeenType
  BY DEF IInv, TypeOK, SeenType
<1> QED BY <1>1, <1>2, <1>3, <1>4, <1>5, <1>6

LEMMA JsonRetryKeeps ==
    ASSUME IInv, JsonRetry
    PROVE  IInv'
<1>1. PICK r \in Unanswered :
        /\ JsonFails /\ retries < 2 /\ retries' = retries + 1
        /\ Commit([r EXCEPT !.status = "draft"])
        /\ job' = [status |-> "running", step |-> "planner"]
        /\ run' = Entering(1) /\ UNCHANGED << conf, seen >>
  BY DEF JsonRetry
<1>2. r \in RowType /\ RowSound(conf, r) /\ retries \in 0..3 /\ seen \in SeenType
  BY <1>1, JsonStep
<1>3. PICK x : x = [r EXCEPT !.status = "draft"]
  OBVIOUS
<1>4. x \in RowType /\ RowSound(conf, x) /\ row' = x /\ db' = x
  BY <1>1, <1>2, <1>3 DEF RowType, RowSound, ChapterStatus, Commit
<1>5. /\ job' \in JobType /\ job'.step # "editor" /\ run' = AtStep("enter", 1)
      /\ retries' \in 0..4 /\ retries' # 4 /\ seen' \in SeenType /\ 1 \in 1..3
  BY <1>1, <1>2 DEF JobType, Anchor, Entering
<1> QED BY <1>1, <1>4, <1>5, Restarted

LEMMA JsonEditorRewriteKeeps ==
    ASSUME IInv, JsonEditorRewrite
    PROVE  IInv'
<1>1. PICK r \in Unanswered :
        /\ JsonFails /\ retries = 2 /\ retries' = retries + 1
        /\ Commit([r EXCEPT !.status = "draft", !.edited = NoText, !.pstep = "writing"])
        /\ job' = [status |-> "running", step |-> "writer"]
        /\ run' = Entering(1) /\ UNCHANGED << conf, seen >>
  BY DEF JsonEditorRewrite
<1>2. r \in RowType /\ RowSound(conf, r) /\ seen \in SeenType
  BY <1>1, JsonStep
<1>3. PICK x : x = [r EXCEPT !.status = "draft", !.edited = NoText, !.pstep = "writing"]
  OBVIOUS
<1>4. NoText \in TextOrNone
  BY DEF TextOrNone
<1>5. x \in RowType /\ RowSound(conf, x) /\ row' = x /\ db' = x
  <2>1. row' = x /\ db' = x
    BY <1>1, <1>3 DEF Commit
  <2>2. /\ x \in RowType /\ x.status = "draft" /\ x.edited = NoText
        /\ x.count = r.count /\ x.draft = r.draft
    BY <1>2, <1>3, <1>4, PSteps DEF RowType, ChapterStatus
  <2> QED BY <1>2, <2>1, <2>2 DEF RowSound
<1>6. /\ job' \in JobType /\ job'.step # "editor" /\ run' = AtStep("enter", 1)
      /\ retries' \in 0..4 /\ retries' # 4 /\ seen' \in SeenType /\ 1 \in 1..3
  BY <1>1, <1>2 DEF JobType, Anchor, Entering
<1> QED BY <1>1, <1>5, <1>6, Restarted

\* The row with the text there is as its content.
LEMMA SavedRow ==
    ASSUME NEW r \in RowType, RowSound(conf, r), UsableText(r) # NoText,
           NEW x, x = ForceSaved(r)
    PROVE  /\ x \in RowType /\ RowSound(conf, x) /\ x.content # NoText
           /\ x.draft = r.draft /\ x.count = r.count /\ x.pstep = "validating"
<1>1. PICK text : text = UsableText(r)
  OBVIOUS
<1>2. text \in TextOrNone /\ text # NoText
  BY <1>1 DEF UsableText, Or, RowType
<1>3. x = [r EXCEPT !.content = text, !.status = "validated", !.pstep = "validating"]
  BY <1>1 DEF ForceSaved
<1>4. /\ x \in RowType /\ x.content = text /\ x.status = "validated"
      /\ x.draft = r.draft /\ x.count = r.count /\ x.pstep = "validating"
  BY <1>2, <1>3, PSteps DEF RowType, ChapterStatus
<1> QED BY <1>2, <1>4 DEF RowSound

LEMMA JsonForceSaveKeeps ==
    ASSUME IInv, JsonForceSave
    PROVE  IInv'
<1>1. conf' = conf
  BY DEF JsonForceSave
<1>2. PICK r \in Unanswered :
        /\ JsonFails /\ retries >= 2 /\ UsableText(r) # NoText
        /\ \/ /\ \/ Commit(Published(ForceSaved(r))) /\ run' = AtStep("@done", 1)
                 \/ Commit(PendingReview(ForceSaved(r))) /\ run' = Entering(1)
              /\ job' = [StartedJob(run.at) EXCEPT !.status = "running"]
              /\ retries' = retries + 1 /\ Forget
           \/ FailRun(StartedJob(run.at), ForceSaved(r))
  BY DEF JsonForceSave
<1>3. PICK j : j = StartedJob(run.at)
  OBVIOUS
<1>4. /\ r \in RowType /\ RowSound(conf, r) /\ retries \in 0..3
      /\ j \in JobType /\ (j.step = "editor" => r.draft # NoText)
  BY <1>2, <1>3, JsonStep
<1>5. PICK x : x = ForceSaved(r)
  OBVIOUS
<1>6. /\ x \in RowType /\ RowSound(conf, x) /\ x.content # NoText
      /\ x.draft = r.draft /\ x.count = r.count /\ x.pstep = "validating"
  BY <1>2, <1>4, <1>5, SavedRow
<1>7. CASE FailRun(j, x)
  BY <1>1, <1>4, <1>6, <1>7, FailedRun
<1>8. CASE ~FailRun(j, x)
  <2>1. /\ \/ Commit(Published(x)) /\ run' = AtStep("@done", 1)
           \/ Commit(PendingReview(x)) /\ run' = Entering(1)
        /\ job' = [j EXCEPT !.status = "running"]
        /\ retries' = retries + 1 /\ Forget
    BY <1>2, <1>3, <1>5, <1>8
  <2>2. job' \in JobType /\ job'.step = j.step
    BY <1>4, <2>1 DEF JobType
  <2>3. seen' \in SeenType
    <3>1. seen.passed \in SUBSET Texts /\ seen.rejected \in SUBSET TextOrNone /\ TypeOK
      BY DEF IInv, TypeOK
    <3>2. Remember(seen.passed, seen.rejected)
      BY <2>1 DEF Forget
    <3> QED BY <3>1, <3>2, Remembered DEF SeenType
  <2>4. retries' \in 0..4 /\ 1 \in 1..3
    BY <1>4, <2>1
  <2>5. CASE Commit(Published(x)) /\ run' = AtStep("@done", 1)
    <3>1. PICK y : y = Published(x)
      OBVIOUS
    <3>2. /\ y \in RowType /\ y.status = "published" /\ y.draft = r.draft
          /\ y.content = x.content /\ y.count = x.count
      BY <1>6, <3>1, PSteps DEF Published, RowType, ChapterStatus
    <3>3. RowSound(conf, y) /\ row' = y /\ db' = y
      BY <1>6, <2>5, <3>1, <3>2 DEF RowSound, Commit
    <3> QED BY <1>1, <1>4, <2>2, <2>3, <2>4, <2>5, <3>2, <3>3, Restarted
  <2>6. CASE Commit(PendingReview(x)) /\ run' = Entering(1)
    <3>1. PICK y : y = PendingReview(x)
      OBVIOUS
    <3>2. /\ y \in RowType /\ y.status = "pending_review" /\ y.draft = r.draft
          /\ y.content = x.content /\ y.count = x.count /\ y.pstep = "validating"
      BY <1>6, <3>1 DEF PendingReview, RowType, ChapterStatus
    <3>3. RowSound(conf, y) /\ row' = y /\ db' = y /\ run' = AtStep("enter", 1)
      BY <1>6, <2>6, <3>1, <3>2 DEF RowSound, Commit, Entering
    <3> QED BY <1>1, <1>4, <2>2, <2>3, <2>4, <3>2, <3>3, Restarted
  <2> QED BY <2>1, <2>5, <2>6
<1> QED BY <1>7, <1>8

LEMMA JsonGivesUpKeeps ==
    ASSUME IInv, JsonGivesUp
    PROVE  IInv'
<1>1. PICK r \in Unanswered :
        JsonFails /\ FailRun(StartedJob(run.at), GivenUp(r)) /\ conf' = conf
  BY DEF JsonGivesUp
<1>2. PICK j : j = StartedJob(run.at)
  OBVIOUS
<1>3. /\ r \in RowType /\ RowSound(conf, r)
      /\ j \in JobType /\ (j.step = "editor" => r.draft # NoText)
  BY <1>1, <1>2, JsonStep
<1>4. PICK x : x = GivenUp(r)
  OBVIOUS
<1>5. x \in RowType /\ RowSound(conf, x) /\ x.draft = r.draft
  BY <1>3, <1>4 DEF GivenUp, RowType, RowSound, ChapterStatus
<1> QED BY <1>1, <1>2, <1>3, <1>4, <1>5, FailedRun

----------------------------------------------------------------------------
(* The user.                                                               *)

LEMMA UserPausesKeeps ==
    ASSUME IInv, UserPauses
    PROVE  IInv'
<1>1. TypeOK /\ RowsSound /\ UNCHANGED << conf, row, db, run, retries, seen >>
      /\ job' = [job EXCEPT !.status = "paused"]
  BY DEF IInv, UserPauses
<1>2. job' \in JobType /\ job'.step = job.step
  BY <1>1, JobTyped DEF JobType
<1>3. TypeOK' /\ RowsSound'
  BY <1>1, <1>2 DEF TypeOK, JobType, RowsSound
<1>4. OnGraph' /\ StepKept' /\ Waiting' /\ DraftThere' /\ Carried' /\ Synced' /\ Resumed'
  BY <1>1 DEF IInv, WalkInv, OnGraph, StepKept, Waiting, DraftThere, Carried, Synced, Resumed
<1>5. Passed' /\ Converging'
  BY <1>1 DEF IInv, WalkInv, Passed, Current, Converging, Remaining
<1> QED BY <1>3, <1>4, <1>5 DEF IInv, WalkInv

LEMMA UserResumesKeeps ==
    ASSUME IInv, UserResumes
    PROVE  IInv'
<1>1. TypeOK /\ RowsSound /\ run.at = "idle" /\ UNCHANGED << conf, retries, seen >>
      /\ run' = AtStep("enter", 1)
  BY DEF IInv, UserResumes, Entering
<1>2. PICK blocked \in BOOLEAN : blocked <=> job.step = "validator"
  OBVIOUS
<1>3. PICK c : c = IF blocked /\ db.count > 0 THEN db.count - 1 ELSE db.count
  OBVIOUS
<1>4. PICK r : r = [db EXCEPT !.count = c]
  OBVIOUS
<1>5. row' = r /\ db' = r
  BY <1>2, <1>3, <1>4 DEF UserResumes, Commit
<1>6. /\ job' \in JobType /\ (job'.step = "editor" => job.step = "editor")
  BY <1>1, JobTyped DEF UserResumes, JobType, Anchor
<1>7. c \in 0..MaxRewrites /\ (c > 0 => db.count > 0)
  BY <1>1, <1>3, Types, Small DEF RowType
<1>8. r \in RowType /\ RowSound(conf, r) /\ r.draft = db.draft
  <2>1. /\ r \in RowType /\ r.draft = db.draft /\ r.edited = db.edited /\ r.count = c
        /\ r.content = db.content /\ r.status = db.status /\ r.pstep = db.pstep
    BY <1>1, <1>4, <1>7, Types DEF RowType
  <2> QED BY <1>1, <1>7, <2>1 DEF RowsSound, RowSound
<1>9. /\ retries' \in 0..4 /\ retries' # 4 /\ seen' \in SeenType /\ 1 \in 1..3
  BY <1>1 DEF IInv, WalkInv, Waiting, TypeOK, SeenType
<1>10. job'.step = "editor" => r.draft # NoText
  BY <1>1, <1>6, <1>8 DEF RowsSound
<1> QED BY <1>1, <1>5, <1>6, <1>8, <1>9, <1>10, Restarted

\* Between runs the committed row is the user's to write.
LEMMA Rewritten ==
    ASSUME IInv, run.at = "idle", UNCHANGED << conf, job, run, retries, seen >>,
           NEW r \in RowType, RowSound(conf, r), r.draft = db.draft, row' = r, db' = r
    PROVE  IInv'
<1>1. TypeOK' /\ RowsSound'
  BY DEF IInv, TypeOK, RowsSound
<1>2. OnGraph' /\ StepKept' /\ Waiting' /\ DraftThere' /\ Carried' /\ Synced' /\ Resumed'
  BY DEF IInv, WalkInv, OnGraph, StepKept, Waiting, DraftThere, Carried, Synced, Resumed,
         InLoop, Behind, Steps
<1>3. Passed' /\ Converging'
  BY DEF IInv, WalkInv, Passed, Converging, Remaining
<1> QED BY <1>1, <1>2, <1>3 DEF IInv, WalkInv

LEMMA UserEditsKeeps ==
    ASSUME IInv, UserEdits
    PROVE  IInv'
<1>1. TypeOK /\ RowsSound /\ run.at = "idle" /\ UNCHANGED << conf, job, run, retries, seen >>
  BY DEF IInv, UserEdits
<1>2. PICK text : text = NewText
  OBVIOUS
<1>3. PICK status \in {"validated", "audit_failed"} :
        Commit([db EXCEPT !.edited = text, !.content = text,
                          !.status = status, !.pstep = "validating"])
  BY <1>2 DEF UserEdits
<1>4. PICK r : r = [db EXCEPT !.edited = text, !.content = text,
                              !.status = status, !.pstep = "validating"]
  OBVIOUS
<1>5. text \in TextOrNone /\ text # NoText
  BY <1>2, NewTextThere, Small DEF TextOrNone
<1>6. /\ r \in RowType /\ r.draft = db.draft /\ r.count = db.count
      /\ r.content = text /\ r.status = status
  BY <1>1, <1>4, <1>5, Types, PSteps DEF RowType, ChapterStatus
<1>7. RowSound(conf, r) /\ row' = r /\ db' = r
  BY <1>1, <1>3, <1>4, <1>5, <1>6 DEF RowsSound, RowSound, Commit
<1> QED BY <1>1, <1>6, <1>7, Rewritten

LEMMA UserPublishesReviewedKeeps ==
    ASSUME IInv, UserPublishesReviewed
    PROVE  IInv'
<1>1. TypeOK /\ RowsSound /\ run.at = "idle" /\ UNCHANGED << conf, job, run, retries, seen >>
  BY DEF IInv, UserPublishesReviewed
<1>2. PICK text : text = EffectiveContent(db)
  OBVIOUS
<1>3. PICK r : r = [db EXCEPT !.content = text, !.status = "published", !.pstep = "published"]
  OBVIOUS
<1>4. text \in TextOrNone /\ (text = NoText => db.edited = NoText)
  BY <1>1, <1>2, Types DEF EffectiveContent, Or, RowType
<1>5. row' = r /\ db' = r
  <2>1. PICK x : x = [db EXCEPT !.content = text]
    OBVIOUS
  <2>2. row' = Published(x) /\ db' = Published(x)
    BY <1>2, <2>1 DEF UserPublishesReviewed, Commit
  <2> QED BY <1>1, <1>3, <2>1, <2>2, Types DEF Published, RowType
<1>6. /\ r \in RowType /\ r.draft = db.draft /\ r.count = db.count /\ r.edited = db.edited
      /\ r.content = text /\ r.status = "published"
  BY <1>1, <1>3, <1>4, Types, PSteps DEF RowType, ChapterStatus
<1>7. RowSound(conf, r)
  BY <1>1, <1>4, <1>6 DEF RowsSound, RowSound
<1> QED BY <1>1, <1>5, <1>6, <1>7, Rewritten

----------------------------------------------------------------------------
(* The specification.                                                      *)

LEMMA InitIInv == Init => IInv
<1> SUFFICES ASSUME Init PROVE IInv
  OBVIOUS
<1>1. /\ conf \in Configs /\ job = [status |-> "running", step |-> "planner"]
      /\ row = NoRow /\ db = NoRow /\ run = AtStep("enter", 1) /\ retries = 0
      /\ seen = NothingSeen
  BY DEF Init, Entering
<1>2. NoRow \in RowType
  BY PSteps, Small DEF NoRow, RowType, ChapterStatus, TextOrNone
<1>3. TypeOK
  BY <1>1, <1>2, IdleTyped DEF TypeOK, Anchor
<1>4. RowsSound
  BY <1>1 DEF RowsSound, RowSound, NoRow
<1>5. run.at = "enter" /\ run.executed = 0 /\ run.start = "planner" /\ ~run.latest.given
  BY <1>1 DEF AtStep, NoResult
<1>6. OnGraph /\ StepKept /\ Waiting /\ DraftThere /\ Carried /\ Synced /\ Passed /\ Resumed
  BY <1>1, <1>5 DEF OnGraph, StepKept, Waiting, DraftThere, Carried, Synced, Passed, Resumed,
                    InLoop, Behind, Steps
<1>7. Converging
  BY <1>5, Small DEF Converging, Remaining
<1> QED BY <1>3, <1>4, <1>6, <1>7 DEF IInv, WalkInv

LEMMA NextKeeps == IInv /\ [Next]_vars => IInv'
<1> SUFFICES ASSUME IInv, [Next]_vars PROVE IInv'
  OBVIOUS
<1>1. CASE Enter
  BY <1>1, EnterChapterKeeps, EnterPendingReviewKeeps DEF Enter
<1>2. CASE Write
  BY <1>2, PlanKeeps, PlanEmptyKeeps, LoopHeadKeeps, DraftKeeps DEF Write
<1>3. CASE Edit
  BY <1>3, PreCheckKeeps, ReviewKeeps, ForceFixDisabledKeeps, ForceFixKeeps, PolishKeeps,
     PolishSkippedKeeps DEF Edit
<1>4. CASE Check
  BY <1>4, PostCheckPassesKeeps, PostCheckFailsKeeps, FinalCheckPassesKeeps,
     FinalCheckFailsKeeps DEF Check
<1>5. CASE Settle
  BY <1>5, PublishKeeps, PostKeeps, PostTimesOutKeeps DEF Settle
<1>6. CASE Leave
  BY <1>6, PauseAtAnchorKeeps, RetryChapterKeeps, LeaveChapterKeeps, StopForPauseKeeps
     DEF Leave
<1>7. CASE Failure
  BY <1>7, StepFailsKeeps, CrashKeeps, JsonRetryKeeps, JsonEditorRewriteKeeps,
     JsonForceSaveKeeps, JsonGivesUpKeeps DEF Failure
<1>8. CASE User
  BY <1>8, UserPausesKeeps, UserResumesKeeps, UserEditsKeeps, UserPublishesReviewedKeeps
     DEF User
<1>9. CASE UNCHANGED vars
  <2>1. UNCHANGED << conf, job, row, db, run, retries, seen >>
    BY <1>9 DEF vars
  <2>2. TypeOK' /\ RowsSound'
    BY <2>1 DEF IInv, TypeOK, RowsSound
  <2>3. OnGraph' /\ StepKept' /\ Waiting' /\ DraftThere' /\ Carried' /\ Synced' /\ Resumed'
    BY <2>1 DEF IInv, WalkInv, OnGraph, StepKept, Waiting, DraftThere, Carried, Synced, Resumed
  <2>4. Passed' /\ Converging'
    BY <2>1 DEF IInv, WalkInv, Passed, Current, Converging, Remaining
  <2> QED BY <2>2, <2>3, <2>4 DEF IInv, WalkInv
<1> QED BY <1>1, <1>2, <1>3, <1>4, <1>5, <1>6, <1>7, <1>8, <1>9 DEF Next, RunStep

\* The invariant of every walk, whatever the workflow, the verdicts, the
\* failures and the moments at which the user pauses, resumes or edits.
THEOREM InvariantHolds == Spec => []IInv
<1> QED BY InitIInv, NextKeeps, PTL DEF Spec

\* The job, the chapter's row and the blackboard stay within their types: no
\* rewrite is counted beyond max_rewrites, no chapter attempted a fourth time
\* (mark_editor_rewrite, handle_validator_final_outcome).
THEOREM TypeCorrect == Spec => []TypeOK
<1>1. IInv => TypeOK
  BY DEF IInv
<1> QED BY <1>1, InvariantHolds, PTL

\* set_job_step never refuses a step that the graph leads to, whatever step a
\* restart, a retry or an edit has left the chapter's row at.
THEOREM StepsNeverRefused == Spec => []NeverStepsBack
<1>1. IInv => NeverStepsBack
  BY PSteps DEF IInv, WalkInv, StepKept, NeverStepsBack, Refused, InLoop
<1> QED BY <1>1, InvariantHolds, PTL

\* Every walk of the default graph ends within five steps for each rewrite and
\* five more: where the step limit allows that many, run_chapter_graph never
\* raises for a graph that does not converge.
THEOREM Converges ==
    ASSUME MaxSteps >= 5 * MaxRewrites + 5
    PROVE  Spec => []ConvergesWithinLimit
<1>1. IInv => ConvergesWithinLimit
  <2> SUFFICES ASSUME IInv, OutOfSteps PROVE FALSE
    BY DEF ConvergesWithinLimit
  <2>1. run.at \in Steps /\ run.executed >= MaxSteps
    <3>1. conf \in ConfigType /\ run.at \in StepIds(conf) /\ run.executed >= MaxSteps
      BY Types DEF IInv, OutOfSteps
    <3> QED BY <3>1, StepSet DEF Steps
  <2>2. run.count \in Nat /\ run.count <= MaxRewrites /\ run.executed \in Nat
    BY Types DEF IInv
  <2>3. Remaining \in Int /\ Remaining >= 1
    <3>1. PICK k : k = MaxRewrites - run.count
      OBVIOUS
    <3>2. k \in Nat
      BY <2>2, <3>1, Small
    <3>3. run.at = "post_check" => k >= 1
      BY <2>2, <3>1, Small DEF IInv, WalkInv, OnGraph, InLoop
    <3> QED BY <2>1, <3>1, <3>2, <3>3 DEF Remaining, Steps
  <2>4. run.executed + Remaining <= 5 * MaxRewrites + 5
    BY DEF IInv, WalkInv, Converging
  <2> HIDE DEF Remaining
  <2> QED BY <2>1, <2>2, <2>3, <2>4, Small
<1> QED BY <1>1, InvariantHolds, PTL

\* What run_publish makes the content has passed a comprehensive validation as
\* it is: run_final never answers for a text with the verdict on another.
THEOREM ValidatedTextPublished == Spec => PublishedTextPassed
<1>1. IInv => (Publish => row'.content \in seen.passed)
  <2> SUFFICES ASSUME IInv, Publish PROVE row'.content \in seen.passed
    OBVIOUS
  <2>1. run.at = "publish" /\ row \in RowType
    BY Types DEF IInv, Publish, At
  <2>2. row'.content = Or(row.edited, row.draft)
    BY <2>1 DEF Publish, Commit, RowType
  <2> QED BY <2>1, <2>2 DEF IInv, WalkInv, Passed
<1> QED BY <1>1, InvariantHolds, PTL DEF PublishedTextPassed

\* On a chapter without content, what run_publish makes the content is the
\* newest text of the run, never one of an earlier stage.
THEOREM NewestPublished == Spec => NewestTextPublished
<1>1. IInv => (Publish /\ seen.blank => row'.content = Current)
  <2> SUFFICES ASSUME IInv, Publish, seen.blank PROVE row'.content = Current
    OBVIOUS
  <2>1. run.at = "publish" /\ row \in RowType
    BY Types DEF IInv, Publish, At
  <2>2. row'.content = Or(row.edited, row.draft)
    BY <2>1 DEF Publish, Commit, RowType
  <2> QED BY <2>1, <2>2 DEF IInv, WalkInv, Passed
<1> QED BY <1>1, InvariantHolds, PTL DEF NewestTextPublished

\* A run that restarts at the Editor never reaches the Writer with its draft
\* before the Editor has read it (initial_generation_loop_state, run_outline).
THEOREM EditorReadsFirst == Spec => ResumedDraftReviewed
<1>1. IInv => (Draft /\ run.start = "editor" /\ run.draft # NoText => seen.reviewed)
  BY DEF IInv, WalkInv, Resumed, Draft, Starts, At
<1> QED BY <1>1, InvariantHolds, PTL DEF ResumedDraftReviewed
=============================================================================
