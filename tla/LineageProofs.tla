---------------------------- MODULE LineageProofs ----------------------------
(***************************************************************************)
(* Proofs about Lineage, for every graph and any number of checkpoints.     *)
(* The invariant says how a checkpoint came about from its parent (Grown);  *)
(* the rest is about walks up the parents: each rung of a line is the       *)
(* parent of the one before, so the line goes down in age and what the      *)
(* reconstructions leave out lies between two rungs.                        *)
(***************************************************************************)
EXTENDS Lineage, SubsequenceProofs

\* What a step can lead to is made of nodes, and chosen by routers.
LEMMA FrontierTyped ==
  ASSUME NEW ran \in SUBSET (Nodes \cup {START}), NEW f \in Frontiers(ran)
  PROVE  f.next \in SUBSET (Nodes \cup {START}) /\ f.chose \in SUBSET (Routers \X (Nodes \cup {END}))
<1>1. PICK g \in RouterChoices(ran) :
        f = [next |-> (UNION {TargetsOf(n, g) : n \in ran}) \ {END},
             chose |-> {<<n, g[n]>> : n \in ran \cap Routers}]
  BY DEF Frontiers
<1>2. ASSUME NEW n \in ran
      PROVE  TargetsOf(n, g) \subseteq Nodes \cup {END}
  <2>1. CASE n \in Routers
    BY <2>1 DEF RouterChoices, TargetsOf
  <2>2. CASE n \notin Routers
    <3>1. Targets[n] \in SUBSET (Nodes \cup {END})
      BY LineageAssumption
    <3>. QED
      BY <2>2, <3>1 DEF TargetsOf
  <2>. QED
    BY <2>1, <2>2
<1>. DEFINE led == UNION {TargetsOf(n, g) : n \in ran}
            choice == {<<n, g[n]>> : n \in ran \cap Routers}
<1>3. \A y \in led : y \in Nodes \cup {END}
  BY <1>2
<1>4. choice \subseteq Routers \X (Nodes \cup {END})
  BY DEF RouterChoices
<1>5. f = [next |-> led \ {END}, chose |-> choice]
  BY <1>1
<1>. HIDE DEF led, choice
<1>. QED
  BY <1>3, <1>4, <1>5

LEMMA NothingTyped == Nothing \in [Channels -> Values \cup {Absent}]
BY DEF Nothing

\* What inputs and START commit is well formed.
LEMMA InputTyped ==
  ASSUME NEW i \in Inputs, NEW p \in Nat, NEW values \in [Channels -> Values \cup {Absent}]
  PROVE  /\ InputTo(p, values, i) \in Checkpoint /\ InputTo(p, values, i).parent = p
         /\ Nothing \in [Channels -> Values \cup {Absent}]
  BY LineageAssumption DEF InputTo, Checkpoint, Nothing

LEMMA StartTyped ==
  ASSUME NEW c \in Nat, NEW ckpt \in Checkpoint
  PROVE  StartOf(c, ckpt) \in Checkpoint /\ StartOf(c, ckpt).parent = c
<1>1. Targets[START] \in SUBSET (Nodes \cup {END})
  BY LineageAssumption
<1>2. /\ ckpt.values \in [Channels -> Values \cup {Absent}]
      /\ ckpt.input \in [Channels -> Values \cup {Absent}]
  BY DEF Checkpoint
<1>3. Written(ckpt.values, ckpt.input) \in [Channels -> Values \cup {Absent}]
  BY <1>2 DEF Written
<1>4. Nothing \in [Channels -> Values \cup {Absent}]
  BY DEF Nothing
<1>. QED
  BY <1>1, <1>3, <1>4 DEF StartOf, Checkpoint

\* A commit keeps the thread typed when the new checkpoint is, and has a parent.
LEMMA CommitTyped ==
  ASSUME TypeOK, NEW ckpt \in Checkpoint, ckpt.parent \in Ids, Commit(ckpt)
  PROVE  TypeOK'
<1>1. ckpts' = Append(ckpts, ckpt) /\ ckpts' \in Seq(Checkpoint) /\ Len(ckpts') = Len(ckpts) + 1
  BY DEF TypeOK, Commit
<1>2. Len(ckpts) \in Nat /\ MaxCheckpoints \in Nat /\ Len(ckpts) < MaxCheckpoints
  BY LineageAssumption DEF TypeOK, Commit, Newest
<1>3. Newest' \in 2 .. MaxCheckpoints + 2
  BY <1>1, <1>2 DEF TypeOK, Newest
<1>4. ASSUME NEW c \in Ids'
      PROVE  ckpts'[c].parent < c
  <2>1. CASE c = Len(ckpts) + 1
    BY <1>1, <1>2, <2>1 DEF Ids
  <2>2. CASE c # Len(ckpts) + 1
    BY <1>1, <1>2, <1>4, <2>2 DEF Ids, TypeOK
  <2>. QED
    BY <2>1, <2>2
<1>. QED
  BY <1>1, <1>3, <1>4 DEF TypeOK

\* Every checkpoint is well formed and its parent is older, so the walks up a lineage
\* (_checkpoint_history, _branch_decisions, _state_timeline) end.
THEOREM ParentsOlder == Spec => []TypeOK
<1>1. Init => TypeOK
  <2>. SUFFICES ASSUME Init PROVE TypeOK
    OBVIOUS
  <2>0. PICK i \in Inputs : ckpts = <<InputTo(0, Nothing, i), StartOf(1, InputTo(0, Nothing, i))>>
    BY DEF Init
  <2>. DEFINE root == InputTo(0, Nothing, i)
              entry == StartOf(1, root)
  <2>1. ckpts = <<root, entry>>
    BY <2>0
  <2>2. root \in Checkpoint /\ root.parent = 0
    <3>1. Nothing \in [Channels -> Values \cup {Absent}]
      BY DEF Nothing
    <3>. QED
      BY <3>1, InputTyped
  <2>3. entry \in Checkpoint /\ entry.parent = 1
    <3>. HIDE DEF root
    <3>. QED
      BY <2>2, StartTyped
  <2>4. root.parent = 0 /\ entry.parent = 1
    BY <2>2, <2>3
  <2>. HIDE DEF root, entry
  <2>5. ckpts \in Seq(Checkpoint) /\ Len(ckpts) = 2 /\ ckpts[1] = root /\ ckpts[2] = entry
    BY <2>1, <2>2, <2>3
  <2>. QED
    BY <2>4, <2>5, LineageAssumption DEF TypeOK, Newest, Ids
<1>2. TypeOK /\ [Next]_ckpts => TypeOK'
  <2>. SUFFICES ASSUME TypeOK, Next PROVE TypeOK'
    BY DEF TypeOK, Newest, Ids
  <2>. Newest \in Ids /\ \A c \in Ids : ckpts[c] \in Checkpoint /\ c \in Nat
    BY DEF TypeOK, Newest, Ids
  <2>1. CASE SuperStep
    <3>1. PICK f \in Frontiers(ckpts[Newest].next), ch \in Channels, v \in Values :
            Commit([parent |-> Newest, next |-> f.next,
                    values |-> [ckpts[Newest].values EXCEPT ![ch] = v],
                    input |-> Nothing, made |-> "step", by |-> ckpts[Newest].next, chose |-> f.chose])
      BY <2>1 DEF SuperStep
    <3>2. [parent |-> Newest, next |-> f.next, values |-> [ckpts[Newest].values EXCEPT ![ch] = v],
           input |-> Nothing, made |-> "step", by |-> ckpts[Newest].next, chose |-> f.chose] \in Checkpoint
      BY FrontierTyped, NothingTyped DEF Checkpoint
    <3>. QED
      BY <3>1, <3>2, CommitTyped
  <2>2. CASE StartRuns
    <3>1. StartOf(Newest, ckpts[Newest]) \in Checkpoint /\ StartOf(Newest, ckpts[Newest]).parent = Newest
      BY StartTyped
    <3>2. Commit(StartOf(Newest, ckpts[Newest]))
      BY <2>2 DEF StartRuns
    <3>. QED
      BY <3>1, <3>2, CommitTyped
  <2>5. CASE AnotherInput
    <3>1. PICK i \in Inputs : Commit(InputTo(Newest, ckpts[Newest].values, i))
      BY <2>5 DEF AnotherInput
    <3>2. ckpts[Newest].values \in [Channels -> Values \cup {Absent}]
      BY DEF Checkpoint
    <3>3. /\ InputTo(Newest, ckpts[Newest].values, i) \in Checkpoint
          /\ InputTo(Newest, ckpts[Newest].values, i).parent = Newest
      BY <3>2, InputTyped
    <3>. QED
      BY <3>1, <3>3, CommitTyped
  <2>3. ASSUME NEW c \in Ids, Fork(c)
        PROVE  TypeOK'
    <3>1. [ckpts[c] EXCEPT !.parent = c, !.made = "copy", !.chose = {}] \in Checkpoint
      BY DEF Checkpoint
    <3>. QED
      BY <2>3, <3>1, CommitTyped DEF Fork, Checkpoint
  <2>4. ASSUME NEW c \in Ids, ForkWithOverride(c)
        PROVE  TypeOK'
    <3>1. PICK f \in Frontiers(ckpts[c].by), ch \in Channels, v \in Values :
            Commit([parent |-> c, next |-> f.next, values |-> [ckpts[c].values EXCEPT ![ch] = v],
                    input |-> Nothing, made |-> "update", by |-> ckpts[c].by, chose |-> f.chose])
      BY <2>4 DEF ForkWithOverride
    <3>2. [parent |-> c, next |-> f.next, values |-> [ckpts[c].values EXCEPT ![ch] = v],
           input |-> Nothing, made |-> "update", by |-> ckpts[c].by, chose |-> f.chose] \in Checkpoint
      BY FrontierTyped, NothingTyped DEF Checkpoint
    <3>. QED
      BY <3>1, <3>2, CommitTyped
  <2>. QED
    BY <2>1, <2>2, <2>3, <2>4, <2>5 DEF Next
<1>. QED
  BY <1>1, <1>2, PTL DEF Spec

-----------------------------------------------------------------------------
(* How a checkpoint comes to be.                                           *)

\* k is a checkpoint that the framework can commit as a child of p.
Born(k, p) ==
  /\ k.made \in {"input", "step", "update", "copy"}
  /\ k.made = "input" => k.next = {START} /\ k.values = p.values /\ k.chose = {}
  /\ k.made = "step" => /\ p.next # {} /\ k.by = p.next
                        /\ [next |-> k.next, chose |-> k.chose] \in Frontiers(p.next)
  /\ k.made = "copy" => k.next = p.next /\ k.values = p.values /\ k.chose = {}

Rooted ==
  /\ ckpts[1].parent = 0 /\ ckpts[1].next = {START} /\ ckpts[1].made = "input"
  /\ ckpts[1].chose = {}

Grown ==
  /\ Rooted
  /\ \A c \in Ids \ {1} : ckpts[c].parent \in Ids /\ Born(ckpts[c], ckpts[ckpts[c].parent])
  /\ \A c \in Ids : START \in ckpts[c].next => ckpts[c].next = {START}

\* START alone leads where its edges lead.
LEMMA StartFrontier ==
  [next |-> Targets[START] \ {END}, chose |-> {}] \in Frontiers({START})
<1>1. START \notin Routers /\ {START} \cap Routers = {}
  BY LineageAssumption
<1>. DEFINE g == [n \in {} |-> END]
<1>2. g \in RouterChoices({START})
  BY <1>1 DEF RouterChoices
<1>3. TargetsOf(START, g) = Targets[START]
  BY <1>1 DEF TargetsOf
<1>4. UNION {TargetsOf(n, g) : n \in {START}} = Targets[START]
  BY <1>3
<1>5. {<<n, g[n]>> : n \in {START} \cap Routers} = {}
  BY <1>1
<1>6. [next |-> (UNION {TargetsOf(n, g) : n \in {START}}) \ {END},
       chose |-> {<<n, g[n]>> : n \in {START} \cap Routers}]
        = [next |-> Targets[START] \ {END}, chose |-> {}]
  BY <1>4, <1>5
<1>. HIDE DEF g
<1>. QED
  BY <1>2, <1>6 DEF Frontiers

\* START is never led to.
LEMMA FrontierWithin ==
  ASSUME NEW ran \in SUBSET (Nodes \cup {START}), NEW f \in Frontiers(ran)
  PROVE  START \notin f.next /\ f = [next |-> f.next, chose |-> f.chose]
<1>1. PICK g \in RouterChoices(ran) :
        f = [next |-> (UNION {TargetsOf(n, g) : n \in ran}) \ {END},
             chose |-> {<<n, g[n]>> : n \in ran \cap Routers}]
  BY DEF Frontiers
<1>2. ASSUME NEW n \in ran
      PROVE  START \notin TargetsOf(n, g) \/ START = END
  <2>1. CASE n \in Routers
    <3>1. TargetsOf(n, g) = {g[n]} /\ g[n] \in Nodes \cup {END}
      BY <2>1 DEF TargetsOf, RouterChoices
    <3>. QED
      BY <3>1, LineageAssumption
  <2>2. CASE n \notin Routers
    <3>1. TargetsOf(n, g) \in SUBSET (Nodes \cup {END})
      BY <2>2, LineageAssumption DEF TargetsOf
    <3>. QED
      BY <3>1, LineageAssumption
  <2>. QED
    BY <2>1, <2>2
<1>. DEFINE led == (UNION {TargetsOf(n, g) : n \in ran}) \ {END}
            choice == {<<n, g[n]>> : n \in ran \cap Routers}
<1>3. START \notin led
  BY <1>2
<1>4. f = [next |-> led, chose |-> choice]
  BY <1>1
<1>. HIDE DEF led, choice
<1>. QED
  BY <1>3, <1>4

\* A commit of a child that is born of its parent keeps the thread grown.
LEMMA CommitGrown ==
  ASSUME TypeOK, Grown, NEW ckpt \in Checkpoint, ckpt.parent \in Ids, Commit(ckpt),
         Born(ckpt, ckpts[ckpt.parent]), START \in ckpt.next => ckpt.next = {START}
  PROVE  Grown'
<1>1. /\ ckpts' = Append(ckpts, ckpt) /\ Len(ckpts') = Len(ckpts) + 1 /\ Len(ckpts) \in Nat
      /\ Len(ckpts) >= 2 /\ ckpts \in Seq(Checkpoint)
  BY DEF TypeOK, Commit, Newest
<1>2. ckpts'[Len(ckpts) + 1] = ckpt /\ \A c \in Ids : ckpts'[c] = ckpts[c] /\ c \in Ids'
  BY <1>1 DEF Ids
<1>3. \A c \in Ids' : c \in Ids \/ c = Len(ckpts) + 1
  BY <1>1 DEF Ids
<1>4. 1 \in Ids
  BY <1>1 DEF Ids
<1>5. Rooted'
  BY <1>2, <1>4 DEF Grown, Rooted
<1>6. ASSUME NEW c \in Ids' \ {1}
      PROVE  (ckpts[c].parent \in Ids)' /\ Born(ckpts[c], ckpts[ckpts[c].parent])'
  <2>1. CASE c \in Ids
    <3>1. ckpts[c].parent \in Ids /\ Born(ckpts[c], ckpts[ckpts[c].parent])
      BY <1>6, <2>1 DEF Grown
    <3>2. ckpts'[c] = ckpts[c] /\ ckpts'[ckpts[c].parent] = ckpts[ckpts[c].parent] /\ ckpts[c].parent \in Ids'
      BY <1>2, <2>1, <3>1
    <3>. QED
      BY <3>1, <3>2 DEF Born
  <2>2. CASE c = Len(ckpts) + 1
    <3>1. ckpts'[c] = ckpt /\ ckpts'[ckpt.parent] = ckpts[ckpt.parent] /\ ckpt.parent \in Ids'
      BY <1>2, <2>2
    <3>. QED
      BY <3>1 DEF Born
  <2>. QED
    BY <1>3, <1>6, <2>1, <2>2
<1>7. ASSUME NEW c \in Ids', START \in ckpts'[c].next
      PROVE  ckpts'[c].next = {START}
  <2>1. CASE c \in Ids
    BY <1>2, <1>7, <2>1 DEF Grown
  <2>2. CASE c = Len(ckpts) + 1
    BY <1>2, <1>7, <2>2
  <2>. QED
    BY <1>3, <1>7, <2>1, <2>2
<1>. QED
  BY <1>5, <1>6, <1>7 DEF Grown

\* Every checkpoint but the input is a child born of its parent.
LEMMA ThreadGrows == Spec => [](TypeOK /\ Grown)
<1>1. Init => Grown
  <2>. SUFFICES ASSUME Init PROVE Grown
    OBVIOUS
  <2>0. PICK i \in Inputs : ckpts = <<InputTo(0, Nothing, i), StartOf(1, InputTo(0, Nothing, i))>>
    BY DEF Init
  <2>. DEFINE root == InputTo(0, Nothing, i)
              entry == StartOf(1, root)
  <2>1. ckpts = <<root, entry>>
    BY <2>0
  <2>2. START \notin Targets[START] \ {END}
    BY StartFrontier, FrontierWithin
  <2>3. Len(ckpts) = 2 /\ ckpts[1] = root /\ ckpts[2] = entry /\ Ids = {1, 2}
    BY <2>1 DEF Ids
  <2>6. /\ root.parent = 0 /\ root.next = {START} /\ root.made = "input" /\ root.chose = {}
        /\ entry.next = Targets[START] \ {END} /\ entry.parent = 1
    BY DEF InputTo, StartOf
  <2>4. Born(entry, root)
    BY <2>6, StartFrontier DEF Born, StartOf
  <2>5. Rooted
    BY <2>3, <2>6 DEF Rooted
  <2>. HIDE DEF root, entry
  <2>. QED
    BY <2>2, <2>3, <2>4, <2>5, <2>6 DEF Grown
<1>2. TypeOK /\ Grown /\ [Next]_ckpts => Grown'
  <2>1. CASE UNCHANGED ckpts
    BY <2>1 DEF Grown, Rooted, Ids, Born
  <2>. SUFFICES ASSUME TypeOK, Grown, Next PROVE Grown'
    BY <2>1
  <2>. Newest \in Ids /\ \A c \in Ids : ckpts[c] \in Checkpoint /\ c \in Nat
    BY DEF TypeOK, Newest, Ids
  <2>2. CASE SuperStep
    <3>. DEFINE p == ckpts[Newest]
    <3>1. PICK f \in Frontiers(p.next), ch \in Channels, v \in Values :
            Commit([parent |-> Newest, next |-> f.next, values |-> [p.values EXCEPT ![ch] = v],
                    input |-> Nothing, made |-> "step", by |-> p.next, chose |-> f.chose])
      BY <2>2 DEF SuperStep
    <3>. DEFINE k == [parent |-> Newest, next |-> f.next, values |-> [p.values EXCEPT ![ch] = v],
                      input |-> Nothing, made |-> "step", by |-> p.next, chose |-> f.chose]
    <3>2. k \in Checkpoint /\ k.parent = Newest /\ k.next = f.next
      BY FrontierTyped, NothingTyped DEF Checkpoint
    <3>3. p.next \in SUBSET (Nodes \cup {START}) /\ p.next # {}
      BY <2>2 DEF SuperStep, AtPause, Checkpoint
    <3>4. START \notin f.next /\ f = [next |-> f.next, chose |-> f.chose]
      BY <3>3, FrontierWithin
    <3>5. Born(k, p)
      BY <3>3, <3>4 DEF Born
    <3>6. Commit(k)
      BY <3>1
    <3>. HIDE DEF k
    <3>. QED
      BY <3>2, <3>4, <3>5, <3>6, CommitGrown
  <2>3. CASE StartRuns
    <3>. DEFINE k == StartOf(Newest, ckpts[Newest])
    <3>1. k \in Checkpoint /\ k.parent = Newest /\ k.next = Targets[START] \ {END}
      BY StartTyped DEF StartOf
    <3>2. ckpts[Newest].next = {START} /\ START \notin Targets[START] \ {END}
      BY <2>3, StartFrontier, FrontierWithin DEF StartRuns, Grown
    <3>3. Born(k, ckpts[Newest])
      BY <3>2, StartFrontier DEF Born, StartOf
    <3>4. Commit(k)
      BY <2>3 DEF StartRuns
    <3>. HIDE DEF k
    <3>. QED
      BY <3>1, <3>2, <3>3, <3>4, CommitGrown
  <2>6. CASE AnotherInput
    <3>1. PICK i \in Inputs : Commit(InputTo(Newest, ckpts[Newest].values, i))
      BY <2>6 DEF AnotherInput
    <3>. DEFINE k == InputTo(Newest, ckpts[Newest].values, i)
    <3>2. ckpts[Newest].values \in [Channels -> Values \cup {Absent}]
      BY DEF Checkpoint
    <3>3. k \in Checkpoint /\ k.parent = Newest
      BY <3>2, InputTyped
    <3>4. Born(k, ckpts[Newest]) /\ k.next = {START}
      BY DEF Born, InputTo
    <3>5. Commit(k)
      BY <3>1
    <3>. HIDE DEF k
    <3>. QED
      BY <3>3, <3>4, <3>5, CommitGrown
  <2>4. ASSUME NEW c \in Ids, Fork(c)
        PROVE  Grown'
    <3>. DEFINE k == [ckpts[c] EXCEPT !.parent = c, !.made = "copy", !.chose = {}]
    <3>1. k \in Checkpoint /\ k.parent = c /\ k.next = ckpts[c].next /\ k.values = ckpts[c].values
          /\ k.made = "copy" /\ k.chose = {}
      BY DEF Checkpoint
    <3>2. Commit(k)
      BY <2>4 DEF Fork
    <3>. HIDE DEF k
    <3>3. Born(k, ckpts[c]) /\ (START \in k.next => k.next = {START})
      BY <3>1 DEF Born, Grown
    <3>. QED
      BY <3>1, <3>2, <3>3, CommitGrown
  <2>5. ASSUME NEW c \in Ids, ForkWithOverride(c)
        PROVE  Grown'
    <3>1. PICK f \in Frontiers(ckpts[c].by), ch \in Channels, v \in Values :
            Commit([parent |-> c, next |-> f.next, values |-> [ckpts[c].values EXCEPT ![ch] = v],
                    input |-> Nothing, made |-> "update", by |-> ckpts[c].by, chose |-> f.chose])
      BY <2>5 DEF ForkWithOverride
    <3>. DEFINE k == [parent |-> c, next |-> f.next, values |-> [ckpts[c].values EXCEPT ![ch] = v],
                      input |-> Nothing, made |-> "update", by |-> ckpts[c].by, chose |-> f.chose]
    <3>2. k \in Checkpoint /\ k.parent = c /\ k.next = f.next /\ k.made = "update"
      BY FrontierTyped, NothingTyped DEF Checkpoint
    <3>3. START \notin f.next
      BY FrontierWithin DEF Checkpoint
    <3>4. Commit(k)
      BY <3>1
    <3>. HIDE DEF k
    <3>5. Born(k, ckpts[c])
      BY <3>2, <3>3 DEF Born
    <3>. QED
      BY <3>2, <3>3, <3>4, <3>5, CommitGrown
  <2>. QED
    BY <2>2, <2>3, <2>4, <2>5, <2>6 DEF Next
<1>. QED
  BY <1>1, <1>2, ParentsOlder, PTL DEF Spec

-----------------------------------------------------------------------------
(* The walk up the lineage.                                                *)

Rung(f, d) == IF d = 0 THEN <<>> ELSE <<d>> \o f[ckpts[d].parent]
IsUp(f) == f = [d \in 0 .. Newest |-> Rung(f, d)]

LEMMA UpExists == ASSUME TypeOK, Grown PROVE \E f : IsUp(f)
<1>. DEFINE Ds == 0 .. Newest
            Upto(f, n) == \A d \in Ds : d <= n => f[d] = Rung(f, d)
            S == {n \in Nat : \E f : Upto(f, n)}
<1>0. Newest \in Nat /\ \A d \in Ds : d = 0 \/ (d \in Ids /\ ckpts[d].parent \in Ds /\ ckpts[d].parent < d)
  <2>1. Newest \in Nat /\ Newest >= 2 /\ \A d \in Ds : d = 0 \/ d = 1 \/ d \in Ids \ {1}
    BY DEF TypeOK, Newest, Ids
  <2>2. \A d \in Ids : d \in Ds
    BY <2>1 DEF Newest, Ids
  <2>3. 1 \in Ids /\ ckpts[1].parent \in Ds
    BY <2>1 DEF Newest, Ids, Grown, Rooted
  <2>4. \A d \in Ids \ {1} : ckpts[d].parent \in Ds
    BY <2>2 DEF Grown
  <2>. QED
    BY <2>1, <2>3, <2>4 DEF TypeOK
<1>1. 0 \in S
  <2>. DEFINE f == [d \in Ds |-> <<>>]
  <2>1. Upto(f, 0)
    BY <1>0 DEF Rung
  <2>. HIDE DEF Upto
  <2>. QED
    BY <2>1
<1>2. ASSUME NEW n \in Nat, n \in S
      PROVE  n + 1 \in S
  <2>1. PICK f : Upto(f, n)
    BY <1>2
  <2>. DEFINE g == [d \in Ds |-> IF d <= n THEN f[d] ELSE Rung(f, d)]
  <2>2. \A d \in Ds : g[d] = IF d <= n THEN f[d] ELSE Rung(f, d)
    OBVIOUS
  <2>. HIDE DEF g
  <2>3. ASSUME NEW d \in Ds, d <= n + 1
        PROVE  g[d] = Rung(g, d)
    <3>1. CASE d = 0
      BY <2>1, <2>2, <3>1 DEF Rung
    <3>2. CASE d # 0
      <4>1. ckpts[d].parent \in Ds /\ ckpts[d].parent <= n
        BY <1>0, <2>3, <3>2
      <4>2. g[ckpts[d].parent] = f[ckpts[d].parent]
        BY <2>2, <4>1
      <4>3. Rung(g, d) = Rung(f, d)
        BY <4>2 DEF Rung
      <4>. QED
        BY <2>1, <2>2, <4>3
    <3>. QED
      BY <3>1, <3>2
  <2>4. Upto(g, n + 1)
    BY <2>3
  <2>. HIDE DEF Upto
  <2>. QED
    BY <2>4
<1>3. Newest \in S
  <2>. HIDE DEF S
  <2>1. \A n \in Nat : n \in S
    BY <1>1, <1>2, SetInduction
  <2>. QED
    BY <1>0, <2>1
<1>4. PICK f : Upto(f, Newest)
  BY <1>3
<1>. DEFINE g == [d \in Ds |-> f[d]]
<1>5. ASSUME NEW d \in Ds
      PROVE  g[d] = Rung(g, d)
  <2>1. f[d] = Rung(f, d)
    BY <1>0, <1>4
  <2>2. CASE d = 0
    BY <2>1, <2>2 DEF Rung
  <2>3. CASE d # 0
    <3>1. g[ckpts[d].parent] = f[ckpts[d].parent]
      BY <1>0, <2>3
    <3>. QED
      BY <2>1, <3>1 DEF Rung
  <2>. QED
    BY <2>2, <2>3
<1>6. g = [d \in Ds |-> Rung(g, d)]
  <2>1. g = [d \in Ds |-> g[d]]
    OBVIOUS
  <2>. HIDE DEF g
  <2>. QED
    BY <1>5, <2>1
<1>. QED
  BY <1>6 DEF IsUp

LEMMA PathSteps ==
  ASSUME TypeOK, Grown
  PROVE  /\ PathTo(0) = <<>>
         /\ \A d \in Ids : PathTo(d) = <<d>> \o PathTo(ckpts[d].parent)
<1>. DEFINE up == CHOOSE f : IsUp(f)
<1>1. \A c : PathTo(c) = up[c]
  BY DEF PathTo, IsUp, Rung
<1>2. up = [d \in 0 .. Newest |-> Rung(up, d)]
  <2>1. IsUp(up)
    BY UpExists
  <2>. HIDE DEF up
  <2>. QED
    BY <2>1 DEF IsUp
<1>. HIDE DEF up
<1>3. \A d \in 0 .. Newest : up[d] = Rung(up, d)
  BY <1>2
<1>4. 0 \in 0 .. Newest /\ \A d \in Ids : d \in 0 .. Newest /\ d # 0
  BY DEF TypeOK, Newest, Ids
<1>. QED
  BY <1>1, <1>3, <1>4 DEF Rung

\* A sequence that climbs from d to the input, each time to the parent.
Ladder(L, d) ==
  /\ L \in Seq(Ids) /\ Len(L) \in Nat \ {0} /\ L[1] = d /\ L[Len(L)] = 1
  /\ \A k \in 1 .. Len(L) - 1 : L[k] # 1 /\ L[k + 1] = ckpts[L[k]].parent

LEMMA PathClimbs ==
  ASSUME TypeOK, Grown, NEW d \in Ids
  PROVE  Ladder(PathTo(d), d)
<1>. DEFINE S == {n \in Nat : \A c \in Ids : c <= n => Ladder(PathTo(c), c)}
<1>0. \A c \in Ids : c \in Nat \ {0} /\ (c # 1 => ckpts[c].parent \in Ids /\ ckpts[c].parent < c)
  BY DEF TypeOK, Newest, Ids, Grown
<1>1. 0 \in S
  BY <1>0
<1>2. ASSUME NEW n \in Nat, n \in S
      PROVE  n + 1 \in S
  <2>1. ASSUME NEW c \in Ids, c <= n + 1
        PROVE  Ladder(PathTo(c), c)
    <3>1. CASE c = 1
      <4>1. PathTo(c) = <<1>>
        <5>1. PathTo(c) = <<1>> \o <<>>
          BY <3>1, PathSteps DEF Grown, Rooted
        <5>2. <<1>> \in Seq(Nat) /\ <<1>> \o <<>> = <<1>>
          OBVIOUS
        <5>. QED
          BY <5>1, <5>2
      <4>. DEFINE L == <<1>>
      <4>2. L \in Seq(Ids) /\ Len(L) = 1 /\ L[1] = 1
        BY <3>1
      <4>. HIDE DEF L
      <4>3. Ladder(L, c)
        BY <3>1, <4>2 DEF Ladder
      <4>. QED
        BY <4>1, <4>3 DEF L
    <3>2. CASE c # 1
      <4>. DEFINE p == ckpts[c].parent
                  L == PathTo(p)
                  M == PathTo(c)
      <4>1. p \in Ids /\ p <= n
        BY <1>0, <2>1, <3>2
      <4>2. Ladder(L, p)
        BY <1>2, <4>1
      <4>3. M = <<c>> \o L
        BY PathSteps
      <4>. HIDE DEF L, M
      <4>4. /\ M \in Seq(Ids) /\ Len(M) = Len(L) + 1 /\ M[1] = c
            /\ \A k \in 1 .. Len(L) : M[k + 1] = L[k]
        BY <4>2, <4>3 DEF Ladder
      <4>5. Len(L) \in Nat \ {0} /\ L[1] = p /\ L[Len(L)] = 1
        BY <4>2 DEF Ladder
      <4>6. M[Len(M)] = 1
        BY <4>4, <4>5
      <4>7. ASSUME NEW k \in 1 .. Len(M) - 1
            PROVE  M[k] # 1 /\ M[k + 1] = ckpts[M[k]].parent
        <5>1. CASE k = 1
          BY <3>2, <4>4, <4>5, <5>1
        <5>2. CASE k # 1
          <6>. DEFINE j == k - 1
          <6>1. j \in 1 .. Len(L) - 1 /\ j \in 1 .. Len(L) /\ j + 1 \in 1 .. Len(L) /\ j + 1 = k
            BY <4>4, <4>5, <4>7, <5>2
          <6>. HIDE DEF j
          <6>2. M[k] = L[j] /\ M[k + 1] = L[j + 1]
            BY <4>4, <6>1
          <6>. QED
            BY <4>2, <6>1, <6>2 DEF Ladder
        <5>. QED
          BY <5>1, <5>2
      <4>8. Len(M) \in Nat \ {0}
        BY <4>4, <4>5
      <4>9. Ladder(M, c)
        BY <4>4, <4>6, <4>7, <4>8 DEF Ladder
      <4>. QED
        BY <4>9 DEF M
    <3>. QED
      BY <3>1, <3>2
  <2>. QED
    BY <2>1
<1>3. d \in S
  <2>. HIDE DEF S
  <2>1. \A n \in Nat : n \in S
    BY <1>1, <1>2, SetInduction
  <2>. QED
    BY <1>0, <2>1
<1>. QED
  BY <1>0, <1>3

\* The live path, newest first.
Line == PathTo(Newest)

\* The live path climbs from the newest checkpoint to the input, to ever older ones.
LEMMA LineClimbs ==
  ASSUME TypeOK, Grown
  PROVE  /\ Ladder(Line, Newest) /\ Len(Line) >= 2 /\ OnLineage = {Line[k] : k \in 1 .. Len(Line)}
         /\ \A j, k \in 1 .. Len(Line) : j < k => Line[k] < Line[j]
<1>1. Newest \in Ids /\ Newest # 1 /\ \A c \in Ids : c \in Nat
  BY DEF TypeOK, Newest, Ids
<1>2. Ladder(Line, Newest)
  BY <1>1, PathClimbs DEF Line
<1>. DEFINE n == Len(Line)
<1>3. n \in Nat \ {0} /\ Line \in Seq(Ids) /\ DOMAIN Line = 1 .. n
  BY <1>2 DEF Ladder
<1>4. n # 1
  BY <1>1, <1>2 DEF Ladder
<1>5. OnLineage = {Line[k] : k \in 1 .. n}
  BY <1>3 DEF OnLineage, ToSet, Line
<1>. DEFINE S == {m \in Nat : \A k \in 1 .. n : k + m + 1 <= n => Line[k + m + 1] < Line[k]}
<1>6. ASSUME NEW k \in 1 .. n - 1
      PROVE  Line[k + 1] < Line[k]
  <2>1. k \in 1 .. n
    BY <1>3
  <2>2. Line[k] \in Ids /\ Line[k] # 1 /\ Line[k + 1] = ckpts[Line[k]].parent
    BY <1>2, <1>3, <2>1 DEF Ladder
  <2>. QED
    BY <2>2 DEF TypeOK
<1>7. 0 \in S
  BY <1>3, <1>6
<1>8. ASSUME NEW m \in Nat, m \in S
      PROVE  m + 1 \in S
  <2>1. ASSUME NEW k \in 1 .. n, k + m + 2 <= n
        PROVE  Line[k + m + 2] < Line[k]
    <3>. DEFINE j == k + m + 1
    <3>1. j \in 1 .. n - 1 /\ j \in 1 .. n /\ j + 1 = k + m + 2 /\ j + 1 \in 1 .. n /\ k + m + 1 <= n
      BY <1>3, <2>1
    <3>2. Line[j] < Line[k]
      BY <1>8, <3>1
    <3>. HIDE DEF j
    <3>3. Line[j + 1] < Line[j]
      BY <1>6, <3>1
    <3>4. Line[k] \in Nat /\ Line[j] \in Nat /\ Line[j + 1] \in Nat
      BY <1>1, <1>3, <3>1
    <3>. QED
      BY <3>1, <3>2, <3>3, <3>4
  <2>2. \A k \in 1 .. n : k + (m + 1) + 1 = k + m + 2
    BY <1>3
  <2>. HIDE DEF n
  <2>. QED
    BY <2>1, <2>2
<1>9. ASSUME NEW j \in 1 .. n, NEW k \in 1 .. n, j < k
      PROVE  Line[k] < Line[j]
  <2>. DEFINE m == k - j - 1
  <2>1. m \in Nat /\ j + m + 1 = k
    BY <1>3, <1>9
  <2>. HIDE DEF m
  <2>2. m \in S
    <3>. HIDE DEF S
    <3>1. \A x \in Nat : x \in S
      BY <1>7, <1>8, SetInduction
    <3>. QED
      BY <2>1, <3>1
  <2>3. j + m + 1 <= n => Line[j + m + 1] < Line[j]
    BY <2>2
  <2>. QED
    BY <1>3, <2>1, <2>3
<1>. QED
  BY <1>2, <1>3, <1>4, <1>5, <1>9

-----------------------------------------------------------------------------
(* The rewind timeline.                                                    *)

\* The elements of a part are the ones at its positions.
LEMMA AtElements ==
  ASSUME NEW s, NEW m \in Nat, NEW I \in SUBSET (1 .. m)
  PROVE  ToSet(At(s, I)) = {s[p] : p \in I}
<1>. DEFINE A == At(s, I)
            S == {s[p] : p \in I}
<1>1. /\ A \in Seq(S) /\ Len(A) = Cardinality(I) /\ Cardinality(I) \in Nat
      /\ \A n \in 1 .. Cardinality(I) : \E p \in I : A[n] = s[p]
  <2>1. \A p \in I : s[p] \in S
    OBVIOUS
  <2>2. Cardinality(I) \in Nat
    BY Finite
  <2>. HIDE DEF S
  <2>3. A \in Seq(S) /\ Len(A) = Cardinality(I)
    BY <2>1, AtTyped
  <2>4. ASSUME NEW n \in 1 .. Cardinality(I)
        PROVE  \E p \in I : A[n] = s[p]
    <3>1. PICK p \in I : Before(I, p) = n - 1
      BY PositionExists
    <3>2. At(s, I)[n] = s[p]
      BY <3>1, AtPosition
    <3>. QED
      BY <3>2
  <2>. HIDE DEF A
  <2>. QED
    BY <2>2, <2>3, <2>4
<1>2. DOMAIN A = 1 .. Cardinality(I)
  BY <1>1
<1>3. ASSUME NEW p \in I
      PROVE  \E n \in DOMAIN A : A[n] = s[p]
  BY <1>2, PositionUsed
<1>. HIDE DEF A
<1>4. ToSet(A) \subseteq S
  BY <1>1, <1>2 DEF ToSet
<1>5. S \subseteq ToSet(A)
  BY <1>3 DEF ToSet
<1>. QED
  BY <1>4, <1>5 DEF A

\* What the limit leaves.
LEMMA CappedTyped ==
  ASSUME NEW n \in Nat
  PROVE  /\ Capped(n) \in Nat /\ Capped(n) <= n /\ (n <= HistoryLimit => Capped(n) = n)
         /\ (n # 0 => Capped(n) # 0)
  BY LineageAssumption DEF Capped

LEMMA HistoryHolds == ASSUME TypeOK, Grown PROVE HistoryCoversPath
<1>. DEFINE L == Line
            s == [k \in DOMAIN L |-> [id |-> L[k], node |-> FirstNext(L[k])]]
            I == {k \in DOMAIN L : Kept(L, k)}
            A == At(s, I)
            H == SubSeq(A, 1, Capped(Len(A)))
            Refs == {s[p] : p \in I}
<1>1. /\ L \in Seq(Ids) /\ Len(L) \in Nat /\ DOMAIN L = 1 .. Len(L)
      /\ OnLineage = {L[k] : k \in 1 .. Len(L)}
      /\ \A j, k \in 1 .. Len(L) : j < k => L[k] < L[j]
      /\ \A k \in 1 .. Len(L) : L[k] \in Nat
  <2>1. \A c \in Ids : c \in Nat
    BY DEF TypeOK, Newest, Ids
  <2>. QED
    BY <2>1, LineClimbs DEF Ladder
<1>2. CheckpointHistory = H
  BY DEF CheckpointHistory, Line
<1>3. /\ I \in SUBSET (1 .. Len(L)) /\ Cardinality(I) \in Nat /\ Cardinality(I) <= Len(L)
  <2>1. I \in SUBSET (1 .. Len(L))
    BY <1>1
  <2>2. IsFiniteSet(1 .. Len(L)) /\ Cardinality(1 .. Len(L)) = Len(L)
    <3>1. 1 \in Int /\ Len(L) \in Int
      BY <1>1
    <3>2. Cardinality(1 .. Len(L)) = IF 1 > Len(L) THEN 0 ELSE Len(L) - 1 + 1
      BY <3>1, FS_Interval
    <3>. QED
      BY <1>1, <3>1, <3>2, FS_Interval
  <2>. DEFINE J == 1 .. Len(L)
  <2>3. I \in SUBSET J /\ IsFiniteSet(J) /\ Cardinality(J) = Len(L)
    BY <2>1, <2>2
  <2>. HIDE DEF I, J
  <2>4. Cardinality(I) <= Cardinality(J)
    BY <2>3, FS_Subset
  <2>. HIDE DEF L
  <2>5. Cardinality(I) \in Nat
    BY <1>1, <2>1, Finite
  <2>. QED
    BY <2>1, <2>3, <2>4, <2>5
<1>4. A \in Seq(Refs) /\ Len(A) = Cardinality(I) /\ ToSet(A) = Refs
  <2>1. \A p \in I : s[p] \in Refs
    OBVIOUS
  <2>. HIDE DEF L, s, I, Refs
  <2>2. A \in Seq(Refs) /\ Len(A) = Cardinality(I)
    BY <1>1, <1>3, <2>1, AtTyped
  <2>3. ToSet(A) = {s[p] : p \in I}
    BY <1>1, <1>3, AtElements
  <2>. QED
    BY <2>2, <2>3 DEF Refs
<1>5. /\ ToSet(H) \subseteq Refs /\ (Complete => ToSet(H) = Refs)
  <2>. DEFINE n == Capped(Len(A))
  <2>. HIDE DEF L, s, I, Refs, A
  <2>1. Len(A) \in Nat /\ n \in Nat /\ n <= Len(A) /\ (Complete => n = Len(A))
    <3>1. Len(A) \in Nat
      BY <1>4
    <3>2. Capped(Len(A)) \in Nat /\ Capped(Len(A)) <= Len(A) /\ (Len(A) <= HistoryLimit => Capped(Len(A)) = Len(A))
      BY <3>1, CappedTyped
    <3>3. Complete => Len(A) <= HistoryLimit
      BY <1>1, <1>3, <1>4, <3>1, LineageAssumption DEF Complete, Line, L
    <3>. QED
      BY <3>1, <3>2, <3>3
  <2>. HIDE DEF n
  <2>2. DOMAIN H = 1 .. n /\ \A k \in 1 .. n : H[k] = A[k] /\ k \in DOMAIN A
    BY <1>4, <2>1 DEF n
  <2>3. Complete => DOMAIN A = DOMAIN H
    BY <1>4, <2>1, <2>2
  <2>. HIDE DEF H
  <2>4. ToSet(H) \subseteq ToSet(A)
    BY <2>2 DEF ToSet
  <2>5. Complete => ToSet(H) = ToSet(A)
    BY <2>2, <2>3 DEF ToSet
  <2>. QED
    BY <1>4, <2>4, <2>5
<1>6. ASSUME NEW r \in ToSet(H)
      PROVE  r.id \in OnLineage
  <2>1. r \in Refs
    BY <1>5, <1>6
  <2>2. PICK p \in I : r = s[p]
    BY <2>1
  <2>3. p \in 1 .. Len(L) /\ s[p] = [id |-> L[p], node |-> FirstNext(L[p])]
    BY <1>3, <1>1
  <2>4. r.id = L[p]
    BY <2>2, <2>3
  <2>. HIDE DEF L, H, s, I
  <2>. QED
    BY <1>1, <2>3, <2>4
<1>7. ASSUME NEW j \in 1 .. Len(L)
      PROVE  \E r \in Refs :
               /\ r.id >= L[j]
               /\ \A d \in OnLineage : L[j] <= d /\ d <= r.id => FirstNext(d) = r.node
  <2>. DEFINE S == {k \in 1 .. j : \A i \in k .. j : FirstNext(L[i]) = FirstNext(L[j])}
  <2>1. j \in Nat \ {0} /\ j <= Len(L)
    BY <1>1
  <2>2. \A i \in j .. j : i = j
    BY <2>1
  <2>3. j \in S
    BY <2>1, <2>2
  <2>4. PICK k \in S : \A i \in S : k <= i
    <3>1. \A k \in 1 .. j : k \in Nat
      BY <2>1
    <3>2. S \subseteq 1 .. j /\ S # {}
      BY <2>3
    <3>. HIDE DEF S
    <3>3. S \subseteq Nat
      BY <3>1, <3>2
    <3>. QED
      BY <3>2, <3>3, LeastNatural
  <2>5. /\ k \in 1 .. j /\ k \in 1 .. Len(L) /\ k \in k .. j
        /\ \A i \in k .. j : FirstNext(L[i]) = FirstNext(L[j])
    BY <2>1
  <2>6. Kept(L, k)
    <3>. SUFFICES ASSUME k # 1, FirstNext(L[k]) = FirstNext(L[k - 1]) PROVE FALSE
      BY DEF Kept
    <3>. DEFINE m == k - 1
    <3>1. m \in 1 .. j /\ m + 1 = k /\ ~(k <= m) /\ \A i \in m .. j : i = m \/ i \in k .. j
      BY <2>1, <2>5
    <3>2. FirstNext(L[m]) = FirstNext(L[j])
      BY <2>5
    <3>. HIDE DEF m, L
    <3>3. m \in S
      BY <2>5, <3>1, <3>2
    <3>. HIDE DEF S
    <3>. QED
      BY <2>4, <3>1, <3>3
  <2>7. k \in I /\ s[k] = [id |-> L[k], node |-> FirstNext(L[k])]
    BY <1>1, <2>5, <2>6
  <2>8. s[k] \in Refs /\ s[k].id = L[k] /\ s[k].node = FirstNext(L[j])
    BY <2>5, <2>7
  <2>9. L[k] >= L[j]
    <3>1. k = j \/ k < j
      BY <2>1, <2>5
    <3>. HIDE DEF L
    <3>. QED
      BY <1>1, <1>7, <2>5, <3>1
  <2>10. ASSUME NEW d \in OnLineage, L[j] <= d, d <= L[k]
         PROVE  FirstNext(d) = FirstNext(L[j])
    <3>. HIDE DEF L
    <3>1. PICK i \in 1 .. Len(L) : d = L[i]
      BY <1>1
    <3>2. L[i] \in Nat /\ L[j] \in Nat /\ L[k] \in Nat /\ i \in Nat
      BY <1>1, <1>7, <2>5
    <3>3. ~(j < i)
      BY <1>1, <1>7, <2>10, <3>1, <3>2
    <3>4. ~(i < k)
      BY <1>1, <2>5, <2>10, <3>1, <3>2
    <3>5. i \in k .. j
      BY <2>1, <2>5, <3>2, <3>3, <3>4
    <3>. QED
      BY <2>5, <3>1, <3>5
  <2>. HIDE DEF L, s, Refs
  <2>. QED
    BY <2>8, <2>9, <2>10
<1>8. ASSUME NEW c \in OnLineage
      PROVE  \E r \in Refs :
               /\ r.id >= c
               /\ \A d \in OnLineage : c <= d /\ d <= r.id => FirstNext(d) = r.node
  <2>. HIDE DEF L, Refs
  <2>1. PICK j \in 1 .. Len(L) : c = L[j]
    BY <1>1
  <2>. QED
    BY <1>7, <2>1
<1>. HIDE DEF L, H, Refs
<1>. QED
  BY <1>2, <1>5, <1>6, <1>8 DEF HistoryCoversPath

\* For every graph and however the thread was forked: the rewind timeline
\* (_checkpoint_history) lists only checkpoints of the live path, and misses no position of
\* it unless the limit cuts it.
THEOREM RewindCoversPath == Spec => []HistoryCoversPath
<1>1. TypeOK /\ Grown => HistoryCoversPath
  BY HistoryHolds
<1>. QED
  BY <1>1, ThreadGrows, PTL

-----------------------------------------------------------------------------
(* The steps of the walk, and what the two other reconstructions make of    *)
(* them.                                                                    *)

\* state.next[0] is one of state.next, and nothing if that is empty.
LEMMA FirstNextIn ==
  ASSUME TypeOK, NEW c \in Ids
  PROVE  /\ ckpts[c].next # {} => FirstNext(c) \in ckpts[c].next
         /\ ckpts[c].next = {} => FirstNext(c) = NoNode
<1>1. ckpts[c].next = {} => FirstNext(c) = NoNode
  BY DEF FirstNext
<1>2. ASSUME ckpts[c].next # {}
      PROVE  FirstNext(c) \in ckpts[c].next
  <2>. DEFINE N == ckpts[c].next
              Is(n) == n = START \/ \A m \in N : Rank[n] <= Rank[m]
  <2>1. \E n \in N : Is(n)
    <3>1. CASE START \in N
      BY <3>1
    <3>2. CASE START \notin N
      <4>1. N \subseteq Nodes
        <5>1. ckpts[c] \in Checkpoint
          BY DEF TypeOK, Ids
        <5>. QED
          BY <3>2, <5>1 DEF Checkpoint
      <4>. DEFINE R == {Rank[n] : n \in N}
      <4>2. \A n \in N : Rank[n] \in Nat
        BY <4>1, LineageAssumption
      <4>3. R \subseteq Nat /\ R # {}
        BY <1>2, <4>2
      <4>4. PICK x \in R : \A y \in R : x <= y
        <5>. HIDE DEF R
        <5>. QED
          BY <4>3, LeastNatural
      <4>5. PICK n \in N : x = Rank[n]
        BY <4>4
      <4>6. \A m \in N : Rank[n] <= Rank[m]
        BY <4>4, <4>5
      <4>. QED
        BY <4>6
    <3>. QED
      BY <3>1, <3>2
  <2>2. FirstNext(c) = CHOOSE n \in N : Is(n)
    BY <1>2 DEF FirstNext
  <2>. HIDE DEF Is, N
  <2>3. FirstNext(c) \in N
    BY <2>1, <2>2
  <2>. QED
    BY <2>3 DEF N
<1>. QED
  BY <1>1, <1>2

\* How many steps the limit leaves of the walk.
Walked == Capped(Len(Line) - 1)

\* The ith step of the live path, from the newest on.
LEMMA LineStep ==
  ASSUME TypeOK, Grown, NEW i \in 1 .. Len(Line) - 1
  PROVE  /\ Line[i] \in Ids /\ Line[i + 1] \in Ids /\ Line[i] \in OnLineage /\ Line[i + 1] \in OnLineage
         /\ Born(ckpts[Line[i]], ckpts[Line[i + 1]])
<1>1. Ladder(Line, Newest) /\ OnLineage = {Line[k] : k \in 1 .. Len(Line)}
  BY LineClimbs
<1>2. Line \in Seq(Ids) /\ Len(Line) \in Nat
  BY <1>1 DEF Ladder
<1>3. i \in 1 .. Len(Line) /\ i + 1 \in 1 .. Len(Line)
  BY <1>2
<1>4. Line[i] \in Ids \ {1} /\ Line[i + 1] = ckpts[Line[i]].parent /\ Line[i + 1] \in Ids
  BY <1>1, <1>2, <1>3 DEF Ladder
<1>5. Born(ckpts[Line[i]], ckpts[ckpts[Line[i]].parent])
  BY <1>4 DEF Grown
<1>6. Line[i] \in OnLineage /\ Line[i + 1] \in OnLineage
  BY <1>1, <1>3
<1>. QED
  BY <1>4, <1>5, <1>6

LEMMA WalkSteps ==
  ASSUME TypeOK, Grown
  PROVE  /\ Walked \in Nat \ {0} /\ Walked <= Len(Line) - 1 /\ Len(Line) \in Nat
         /\ Complete => Walked = Len(Line) - 1
         /\ DOMAIN Walk = 1 .. Walked
         /\ \A k \in 1 .. Walked : Walk[k] = <<Line[Walked - k + 2], Line[Walked - k + 1]>>
<1>1. Len(Line) \in Nat /\ Len(Line) >= 2
  BY LineClimbs DEF Ladder
<1>2. Len(Line) - 1 \in Nat \ {0}
  <2>1. \A n \in Nat : n >= 2 => n - 1 \in Nat \ {0}
    OBVIOUS
  <2>. QED
    BY <1>1, <2>1
<1>3. Walked \in Nat \ {0} /\ Walked <= Len(Line) - 1
  BY <1>2, CappedTyped DEF Walked
<1>4. Complete => Walked = Len(Line) - 1
  <2>1. Complete => Len(Line) - 1 <= HistoryLimit
    BY <1>1, LineageAssumption DEF Complete, Line
  <2>. QED
    BY <1>2, <2>1, CappedTyped DEF Walked
<1>. DEFINE f == [k \in 1 .. Walked |-> <<Line[k + 1], Line[k]>>]
<1>5. Walk = Reverse(f)
  BY DEF Walk, Walked, Line
<1>6. Len(f) = Walked
  <2>. DEFINE S == {<<Line[k + 1], Line[k]>> : k \in 1 .. Walked}
  <2>1. \A k \in 1 .. Walked : <<Line[k + 1], Line[k]>> \in S
    OBVIOUS
  <2>. HIDE DEF S
  <2>2. f \in [1 .. Walked -> S]
    BY <2>1
  <2>. HIDE DEF f
  <2>. QED
    BY <1>3, <2>2
<1>7. \A k \in 1 .. Walked : Walked - k + 1 \in 1 .. Walked /\ (Walked - k + 1) + 1 = Walked - k + 2
  BY <1>3
<1>8. \A k \in 1 .. Walked : f[Walked - k + 1] = <<Line[Walked - k + 2], Line[Walked - k + 1]>>
  BY <1>7
<1>. HIDE DEF f
<1>9. DOMAIN Walk = 1 .. Walked /\ \A k \in 1 .. Walked : Walk[k] = f[Walked - k + 1]
  BY <1>5, <1>6, <1>7 DEF Reverse
<1>. QED
  BY <1>1, <1>3, <1>4, <1>8, <1>9

\* The kth step of the walk is one of the live path.
LEMMA WalkStep ==
  ASSUME TypeOK, Grown, NEW k \in DOMAIN Walk
  PROVE  \E i \in 1 .. Len(Line) - 1 : i = Walked - k + 1 /\ Walk[k] = <<Line[i + 1], Line[i]>>
<1>. DEFINE i == Walked - k + 1
<1>1. k \in 1 .. Walked /\ Walked \in Nat \ {0} /\ Walked <= Len(Line) - 1 /\ Len(Line) \in Nat
  BY WalkSteps
<1>2. i \in 1 .. Len(Line) - 1 /\ i + 1 = Walked - k + 2
  BY <1>1
<1>3. Walk[k] = <<Line[Walked - k + 2], Line[Walked - k + 1]>>
  BY <1>1, WalkSteps
<1>4. Walk[k] = <<Line[i + 1], Line[i]>>
  BY <1>2, <1>3
<1>. HIDE DEF i
<1>. QED
  BY <1>2, <1>4 DEF i

\* What _state_timeline makes of a step of the walk.
Told(k) == [id |-> Walk[k][2], node |-> StepNode(Walk[k]),
            diff |-> Diff(ckpts[Walk[k][1]].values, ckpts[Walk[k][2]].values)]
ShownSteps == {k \in DOMAIN Walk : Shown(Walk[k])}

LEMMA TimelineIs ==
  ASSUME TypeOK, Grown
  PROVE  /\ StateTimeline = At([k \in DOMAIN Walk |-> Told(k)], ShownSteps)
         /\ ShownSteps \in SUBSET (1 .. Walked) /\ Walked \in Nat
         /\ ToSet(StateTimeline) = {Told(k) : k \in ShownSteps}
<1>. DEFINE s == [k \in DOMAIN Walk |-> Told(k)]
<1>1. StateTimeline = At(s, ShownSteps)
  BY DEF StateTimeline, Told, ShownSteps
<1>2. ShownSteps \in SUBSET (1 .. Walked) /\ Walked \in Nat
  BY WalkSteps DEF ShownSteps
<1>3. \A k \in ShownSteps : s[k] = Told(k)
  BY DEF ShownSteps
<1>. HIDE DEF s
<1>4. ToSet(At(s, ShownSteps)) = {s[k] : k \in ShownSteps}
  BY <1>2, AtElements
<1>5. {s[k] : k \in ShownSteps} = {Told(k) : k \in ShownSteps}
  BY <1>3
<1>. QED
  BY <1>1, <1>2, <1>4, <1>5 DEF s

LEMMA NamesHold == ASSUME TypeOK, Grown PROVE TimelineNamesRan
<1>. SUFFICES ASSUME ~Edited, NEW step \in ToSet(StateTimeline), step.diff # {}
              PROVE  step.node \in Ran(step.id)
  BY DEF TimelineNamesRan, Misnamed
<1>1. PICK k \in ShownSteps : step = Told(k)
  BY TimelineIs
<1>2. PICK i \in 1 .. Len(Line) - 1 : Walk[k] = <<Line[i + 1], Line[i]>>
  BY WalkStep DEF ShownSteps
<1>. DEFINE p == Line[i + 1]
            c == Line[i]
<1>3. /\ c \in Ids /\ p \in Ids /\ c \in OnLineage /\ Born(ckpts[c], ckpts[p])
      /\ Walk[k][1] = p /\ Walk[k][2] = c
  BY <1>2, LineStep
<1>. HIDE DEF p, c
<1>4. step.id = c /\ step.node = FirstNext(p) /\ step.diff = Diff(ckpts[p].values, ckpts[c].values)
  BY <1>1, <1>3 DEF Told, StepNode
<1>5. ckpts[c].made # "update"
  BY <1>3 DEF Edited
<1>6. CASE ckpts[c].made = "copy"
  <2>1. ckpts[c].values = ckpts[p].values
    BY <1>3, <1>6 DEF Born
  <2>2. Diff(ckpts[p].values, ckpts[c].values) = {}
    BY <2>1 DEF Diff
  <2>. QED
    BY <1>4, <2>2
<1>8. CASE ckpts[c].made = "input"
  <2>1. ckpts[c].values = ckpts[p].values
    BY <1>3, <1>8 DEF Born
  <2>2. Diff(ckpts[p].values, ckpts[c].values) = {}
    BY <2>1 DEF Diff
  <2>. QED
    BY <1>4, <2>2
<1>7. CASE ckpts[c].made = "step"
  <2>1. ckpts[p].next # {} /\ Ran(c) = ckpts[p].next
    BY <1>3, <1>7 DEF Born, Ran
  <2>. QED
    BY <1>3, <1>4, <2>1, FirstNextIn
<1>. QED
  BY <1>3, <1>5, <1>6, <1>7, <1>8 DEF Born

\* For every graph: without an override on the live path, the node that _state_timeline
\* names for a change ran in the very step that made it.
THEOREM NamedNodesRan == Spec => []TimelineNamesRan
<1>1. TypeOK /\ Grown => TimelineNamesRan
  BY NamesHold
<1>. QED
  BY <1>1, ThreadGrows, PTL

\* Where one node can lead, and what it chooses.
LEMMA LoneFrontier ==
  ASSUME NEW r \in Nodes \cup {START}, NEW next, NEW chose,
         [next |-> next, chose |-> chose] \in Frontiers({r})
  PROVE  /\ r \notin Routers => chose = {}
         /\ r \in Routers => \E t \in Targets[r] : next = {t} \ {END} /\ chose = {<<r, t>>}
<1>1. PICK g \in RouterChoices({r}) :
        [next |-> next, chose |-> chose]
          = [next |-> (UNION {TargetsOf(n, g) : n \in {r}}) \ {END},
             chose |-> {<<n, g[n]>> : n \in {r} \cap Routers}]
  BY DEF Frontiers
<1>. DEFINE led == (UNION {TargetsOf(n, g) : n \in {r}}) \ {END}
            choice == {<<n, g[n]>> : n \in {r} \cap Routers}
<1>2. next = led /\ chose = choice
  <2>1. [next |-> next, chose |-> chose] = [next |-> led, chose |-> choice]
    BY <1>1
  <2>. HIDE DEF led, choice
  <2>. QED
    BY <2>1
<1>3. CASE r \notin Routers
  <2>1. {r} \cap Routers = {}
    BY <1>3
  <2>2. choice = {}
    BY <2>1
  <2>. QED
    BY <1>2, <1>3, <2>2
<1>4. CASE r \in Routers
  <2>1. {r} \cap Routers = {r}
    BY <1>4
  <2>2. g[r] \in Targets[r]
    BY <2>1 DEF RouterChoices
  <2>3. TargetsOf(r, g) = {g[r]}
    BY <1>4 DEF TargetsOf
  <2>4. led = {g[r]} \ {END}
    BY <2>3
  <2>5. choice = {<<r, g[r]>>}
    BY <2>1
  <2>. HIDE DEF led, choice
  <2>. QED
    BY <1>2, <1>4, <2>2, <2>4, <2>5
<1>. QED
  BY <1>3, <1>4

\* What _branch_decisions makes of a step of the walk.
Decision(k) == [id |-> Walk[k][2], source |-> StepNode(Walk[k]), target |-> StepTarget(Walk[k])]
DecidedSteps == {k \in DOMAIN Walk : Decided(Walk[k])}

LEMMA DecisionsAre ==
  ASSUME TypeOK, Grown
  PROVE  ToSet(BranchDecisions) = {Decision(k) : k \in DecidedSteps}
<1>. DEFINE s == [k \in DOMAIN Walk |-> Decision(k)]
<1>1. BranchDecisions = At(s, DecidedSteps)
  BY DEF BranchDecisions, Decision, DecidedSteps
<1>2. DecidedSteps \in SUBSET (1 .. Walked) /\ Walked \in Nat
  BY WalkSteps DEF DecidedSteps
<1>3. \A k \in DecidedSteps : s[k] = Decision(k)
  BY DEF DecidedSteps
<1>. HIDE DEF s
<1>4. ToSet(At(s, DecidedSteps)) = {s[k] : k \in DecidedSteps}
  BY <1>2, AtElements
<1>. QED
  BY <1>1, <1>3, <1>4

\* A step of the live path that only one node ran in: where a router chose t, the step leads
\* to t, and a step that is no copy and chose nothing was no router's.
LEMMA StepChoice ==
  ASSUME TypeOK, Grown, Sequential, NEW c \in Ids, NEW p \in Ids, p \in OnLineage, c \in OnLineage,
         Born(ckpts[c], ckpts[p]), ckpts[c].made = "step"
  PROVE  LET r == FirstNext(p) IN
         /\ r \notin Routers => ckpts[c].chose = {}
         /\ r \in Routers => /\ \E t \in Targets[r] : ckpts[c].chose = {<<r, t>>}
                             /\ \A s : s[2] = c => ckpts[c].chose = {<<r, StepTarget(s)>>}
<1>. DEFINE r == FirstNext(p)
<1>1. ckpts[p].next # {} /\ [next |-> ckpts[c].next, chose |-> ckpts[c].chose] \in Frontiers(ckpts[p].next)
  BY DEF Born
<1>2. r \in ckpts[p].next
  BY <1>1, FirstNextIn
<1>3. ckpts[p].next = {r}
  BY <1>2 DEF Sequential
<1>4. r \in Nodes \cup {START}
  <2>1. ckpts[p] \in Checkpoint
    BY DEF TypeOK, Ids
  <2>. HIDE DEF r
  <2>. QED
    BY <1>2, <2>1 DEF Checkpoint
<1>. HIDE DEF r
<1>5. /\ r \notin Routers => ckpts[c].chose = {}
      /\ r \in Routers => \E t \in Targets[r] : ckpts[c].next = {t} \ {END} /\ ckpts[c].chose = {<<r, t>>}
  <2>1. [next |-> ckpts[c].next, chose |-> ckpts[c].chose] \in Frontiers({r})
    BY <1>1, <1>3
  <2>. QED
    BY <1>4, <2>1, LoneFrontier
<1>6. ASSUME r \in Routers, NEW s, s[2] = c
      PROVE  ckpts[c].chose = {<<r, StepTarget(s)>>}
  <2>1. PICK t \in Targets[r] : ckpts[c].next = {t} \ {END} /\ ckpts[c].chose = {<<r, t>>}
    BY <1>5, <1>6
  <2>2. CASE t = END
    <3>1. ckpts[c].next = {}
      BY <2>1, <2>2
    <3>2. StepTarget(s) = END
      BY <1>6, <3>1 DEF StepTarget
    <3>. QED
      BY <2>1, <2>2, <3>2
  <2>3. CASE t # END
    <3>1. ckpts[c].next = {t}
      BY <2>1, <2>3
    <3>2. FirstNext(c) = t
      BY <3>1, FirstNextIn
    <3>3. StepTarget(s) = t
      BY <1>6, <3>1, <3>2 DEF StepTarget
    <3>. QED
      BY <2>1, <3>3
  <2>. QED
    BY <2>2, <2>3
<1>7. r \in Routers => \E t \in Targets[r] : ckpts[c].chose = {<<r, t>>}
  BY <1>5
<1>8. r \in Routers => \A s : s[2] = c => ckpts[c].chose = {<<r, StepTarget(s)>>}
  BY <1>6
<1>. QED
  BY <1>5, <1>7, <1>8 DEF r

LEMMA DecisionsHold == ASSUME TypeOK, Grown PROVE DecisionsMatch
<1>. SUFFICES ASSUME Sequential, ~Edited
              PROVE  /\ \A d \in ToSet(BranchDecisions) :
                          <<d.source, d.target>> \in ckpts[d.id].chose \/ CopyChosen(d)
                     /\ Complete =>
                          \A c \in OnLineage : \A t \in ckpts[c].chose :
                            [id |-> c, source |-> t[1], target |-> t[2]] \in ToSet(BranchDecisions)
  BY DEF DecisionsMatch
<1>0. Routers \subseteq Nodes /\ NoNode \notin Nodes
  BY LineageAssumption
<1>1. ASSUME NEW d \in ToSet(BranchDecisions)
      PROVE  <<d.source, d.target>> \in ckpts[d.id].chose \/ CopyChosen(d)
  <2>1. PICK k \in DecidedSteps : d = Decision(k)
    BY DecisionsAre
  <2>2. PICK i \in 1 .. Len(Line) - 1 : Walk[k] = <<Line[i + 1], Line[i]>>
    BY WalkStep DEF DecidedSteps
  <2>. DEFINE p == Line[i + 1]
              c == Line[i]
  <2>3. /\ c \in Ids /\ p \in Ids /\ c \in OnLineage /\ p \in OnLineage /\ Born(ckpts[c], ckpts[p])
        /\ Walk[k][1] = p /\ Walk[k][2] = c
    BY <2>2, LineStep
  <2>. HIDE DEF p, c
  <2>4. d.id = c /\ d.source = FirstNext(p) /\ d.target = StepTarget(Walk[k])
    BY <2>1, <2>3 DEF Decision, StepNode
  <2>5. FirstNext(p) \in Routers
    BY <2>3 DEF DecidedSteps, Decided, StepNode
  <2>6. ckpts[c].made # "update"
    BY <2>3 DEF Edited
  <2>7. CASE ckpts[c].made = "step"
    <3>1. ckpts[c].chose = {<<FirstNext(p), StepTarget(Walk[k])>>}
      BY <2>3, <2>5, <2>7, StepChoice
    <3>. QED
      BY <2>4, <3>1
  <2>8. CASE ckpts[c].made = "copy"
    <3>1. ckpts[c].next = ckpts[p].next
      BY <2>3, <2>8 DEF Born
    <3>2. ckpts[p].next # {} /\ FirstNext(p) \in ckpts[p].next
      BY <1>0, <2>3, <2>5, FirstNextIn
    <3>3. FirstNext(c) = FirstNext(p)
      BY <2>3, <3>1, <3>2, FirstNextIn DEF Sequential
    <3>4. StepTarget(Walk[k]) = FirstNext(p)
      BY <2>3, <3>1, <3>2, <3>3 DEF StepTarget
    <3>. QED
      BY <2>4, <2>8, <3>4 DEF CopyChosen
  <2>9. ckpts[c].made # "input"
    <3>. SUFFICES ASSUME ckpts[c].made = "input" PROVE FALSE
      OBVIOUS
    <3>1. ckpts[c].next = {START}
      BY <2>3 DEF Born
    <3>2. StepTarget(Walk[k]) = START
      BY <2>3, <3>1, FirstNextIn DEF StepTarget
    <3>3. START \in Targets[FirstNext(p)]
      BY <2>3, <3>2 DEF DecidedSteps, Decided, StepNode
    <3>4. Targets[FirstNext(p)] \in SUBSET (Nodes \cup {END})
      BY <1>0, <2>5, LineageAssumption
    <3>. QED
      BY <3>3, <3>4, LineageAssumption
  <2>. QED
    BY <2>3, <2>6, <2>7, <2>8, <2>9 DEF Born
<1>2. ASSUME Complete, NEW c \in OnLineage, NEW t \in ckpts[c].chose
      PROVE  [id |-> c, source |-> t[1], target |-> t[2]] \in ToSet(BranchDecisions)
  <2>1. PICK j \in 1 .. Len(Line) : c = Line[j]
    BY LineClimbs
  <2>2. j # Len(Line)
    <3>1. Line[Len(Line)] = 1
      BY LineClimbs DEF Ladder
    <3>. QED
      BY <1>2, <2>1, <3>1 DEF Grown, Rooted
  <2>3. /\ Walked \in Nat \ {0} /\ Walked = Len(Line) - 1 /\ Len(Line) \in Nat
        /\ DOMAIN Walk = 1 .. Walked
        /\ \A k \in 1 .. Walked : Walk[k] = <<Line[Walked - k + 2], Line[Walked - k + 1]>>
    BY <1>2, WalkSteps
  <2>. DEFINE k == Walked - j + 1
  <2>4. k \in 1 .. Walked /\ Walked - k + 1 = j /\ Walked - k + 2 = j + 1 /\ j \in 1 .. Len(Line) - 1
    BY <2>2, <2>3
  <2>. HIDE DEF k
  <2>. DEFINE p == Line[j + 1]
  <2>5. Walk[k] = <<p, c>>
    BY <2>1, <2>3, <2>4
  <2>6. c \in Ids /\ p \in Ids /\ p \in OnLineage /\ Born(ckpts[c], ckpts[p])
    BY <2>1, <2>4, LineStep
  <2>. HIDE DEF p
  <2>7. Walk[k][1] = p /\ Walk[k][2] = c
    BY <2>5
  <2>8. ckpts[c].made = "step"
    BY <1>2, <2>6 DEF Born, Edited
  <2>. DEFINE r == FirstNext(p)
              x == StepTarget(Walk[k])
  <2>9. r \in Routers
    BY <1>2, <2>6, <2>8, StepChoice
  <2>10. \E y \in Targets[r] : ckpts[c].chose = {<<r, y>>}
    BY <2>6, <2>8, <2>9, StepChoice
  <2>11. ckpts[c].chose = {<<r, x>>}
    BY <2>6, <2>7, <2>8, <2>9, StepChoice
  <2>12. StepNode(Walk[k]) = r
    BY <2>7 DEF StepNode
  <2>. HIDE DEF r, x
  <2>13. t = <<r, x>> /\ x \in Targets[r]
    BY <1>2, <2>10, <2>11
  <2>14. k \in DecidedSteps
    BY <2>3, <2>4, <2>9, <2>12, <2>13 DEF DecidedSteps, Decided, x
  <2>15. Decision(k) = [id |-> c, source |-> t[1], target |-> t[2]]
    BY <2>7, <2>12, <2>13 DEF Decision, x
  <2>. QED
    BY <2>14, <2>15, DecisionsAre
<1>. QED
  BY <1>1, <1>2

\* For every graph: on a live path of one node at a time without an override, the decisions
\* that _branch_decisions reports are those the routers made, and none is missing unless
\* the limit cut it; but for a router with an edge to itself, which a rewind makes seem to
\* have taken it.
THEOREM DecisionsAreChoices == Spec => []DecisionsMatch
<1>1. TypeOK /\ Grown => DecisionsMatch
  BY DecisionsHold
<1>. QED
  BY <1>1, ThreadGrows, PTL

-----------------------------------------------------------------------------
(* The state timeline accounts for the state.                              *)

\* A value that no step changes is the same at both ends.
LEMMA Telescope ==
  ASSUME NEW V, NEW b \in Nat \ {0}, \A i \in Nat : 1 <= i /\ i < b => V[i + 1] = V[i]
  PROVE  V[b] = V[1]
<1>. DEFINE S == {n \in Nat : n + 1 <= b => V[n + 1] = V[1]}
<1>1. 0 \in S
  OBVIOUS
<1>2. ASSUME NEW n \in Nat, n \in S
      PROVE  n + 1 \in S
  <2>. DEFINE i == n + 1
  <2>1. i \in Nat /\ 1 <= i /\ (i + 1 <= b => i <= b /\ i < b)
    OBVIOUS
  <2>2. i <= b => V[i] = V[1]
    BY <1>2
  <2>. HIDE DEF i
  <2>3. i + 1 <= b => V[i + 1] = V[1]
    BY <2>1, <2>2
  <2>. QED
    BY <2>1, <2>3 DEF i
<1>. DEFINE m == b - 1
<1>3. m \in Nat /\ m + 1 = b
  OBVIOUS
<1>4. m \in S
  <2>. HIDE DEF S, m
  <2>1. \A n \in Nat : n \in S
    BY <1>1, <1>2, SetInduction
  <2>. QED
    BY <1>3, <2>1
<1>. HIDE DEF m
<1>. QED
  BY <1>3, <1>4

\* A timeline entry shows a channel exactly if the step changed it, with its new value.
LEMMA DiffShows ==
  ASSUME NEW prev, NEW cur, NEW d \in Diff(prev, cur)
  PROVE  prev[d.channel] # cur[d.channel] /\ d.after = cur[d.channel]
<1>1. PICK x \in {c \in Channels : prev[c] # cur[c]} :
        d = [channel |-> x, before |-> prev[x], after |-> cur[x]]
  BY DEF Diff
<1>2. d.channel = x /\ d.after = cur[x]
  BY <1>1
<1>. QED
  BY <1>1, <1>2

LEMMA DiffHas ==
  ASSUME NEW prev, NEW cur, NEW ch \in Channels, prev[ch] # cur[ch]
  PROVE  \E d \in Diff(prev, cur) : d.channel = ch
<1>. DEFINE d == [channel |-> ch, before |-> prev[ch], after |-> cur[ch]]
<1>1. ch \in {c \in Channels : prev[c] # cur[c]}
  OBVIOUS
<1>2. d \in Diff(prev, cur)
  BY <1>1 DEF Diff
<1>3. d.channel = ch
  OBVIOUS
<1>. HIDE DEF d
<1>. QED
  BY <1>2, <1>3

\* The value of a channel at the ith checkpoint of the live path.
Held(i, ch) == ckpts[Line[i]].values[ch]

Changing(k, ch) == \E d \in Told(k).diff : d.channel = ch

\* A step of the walk, on the live path.
LEMMA ToldStep ==
  ASSUME TypeOK, Grown, NEW i \in 1 .. Walked
  PROVE  LET k == Walked - i + 1 IN
         /\ k \in DOMAIN Walk
         /\ (k \in ShownSteps <=> FirstNext(Line[i + 1]) # START)
         /\ Told(k).id = Line[i] /\ Line[i] \in OnLineage
         /\ \A ch \in Channels :
              /\ Changing(k, ch) <=> Held(i + 1, ch) # Held(i, ch)
              /\ \A d \in Told(k).diff : d.channel = ch => d.after = Held(i, ch)
<1>. DEFINE k == Walked - i + 1
<1>1. Walked \in Nat \ {0} /\ Walked <= Len(Line) - 1 /\ Len(Line) \in Nat /\ DOMAIN Walk = 1 .. Walked
  BY WalkSteps
<1>2. k \in 1 .. Walked /\ Walked - k + 1 = i /\ i \in 1 .. Len(Line) - 1
  BY <1>1
<1>. HIDE DEF k
<1>3. Walk[k] = <<Line[i + 1], Line[i]>>
  BY <1>1, <1>2, WalkStep
<1>4. Walk[k][1] = Line[i + 1] /\ Walk[k][2] = Line[i]
  BY <1>3
<1>5. Told(k).id = Line[i] /\ Told(k).diff = Diff(ckpts[Line[i + 1]].values, ckpts[Line[i]].values)
  BY <1>4 DEF Told
<1>6. k \in ShownSteps <=> FirstNext(Line[i + 1]) # START
  BY <1>1, <1>2, <1>4 DEF ShownSteps, Shown, StepNode
<1>7. ASSUME NEW ch \in Channels
      PROVE  /\ Changing(k, ch) <=> Held(i + 1, ch) # Held(i, ch)
             /\ \A d \in Told(k).diff : d.channel = ch => d.after = Held(i, ch)
  <2>. DEFINE prev == ckpts[Line[i + 1]].values
              cur == ckpts[Line[i]].values
  <2>1. Held(i + 1, ch) = prev[ch] /\ Held(i, ch) = cur[ch] /\ Told(k).diff = Diff(prev, cur)
    BY <1>5 DEF Held
  <2>. HIDE DEF prev, cur
  <2>2. ASSUME NEW d \in Diff(prev, cur), d.channel = ch
        PROVE  prev[ch] # cur[ch] /\ d.after = cur[ch]
    BY <2>2, DiffShows
  <2>3. prev[ch] # cur[ch] => \E d \in Diff(prev, cur) : d.channel = ch
    BY DiffHas
  <2>. QED
    BY <2>1, <2>2, <2>3 DEF Changing
<1>8. Line[i] \in OnLineage
  BY <1>2, LineStep
<1>. QED
  BY <1>1, <1>2, <1>5, <1>6, <1>7, <1>8 DEF k

\* The entries of the timeline, and the steps they tell.
LEMMA ToldAt ==
  ASSUME TypeOK, Grown
  PROVE  /\ DOMAIN StateTimeline \subseteq Nat
         /\ \A n \in DOMAIN StateTimeline :
              \E k \in ShownSteps : Before(ShownSteps, k) = n - 1 /\ StateTimeline[n] = Told(k)
         /\ \A k \in ShownSteps : /\ Before(ShownSteps, k) + 1 \in DOMAIN StateTimeline
                                  /\ StateTimeline[Before(ShownSteps, k) + 1] = Told(k)
<1>. DEFINE I == ShownSteps
            s == [k \in DOMAIN Walk |-> Told(k)]
<1>1. StateTimeline = At(s, I) /\ I \in SUBSET (1 .. Walked) /\ Walked \in Nat
  BY TimelineIs
<1>2. \A k \in I : s[k] = Told(k)
  BY DEF ShownSteps
<1>. HIDE DEF I, s
<1>3. Cardinality(I) \in Nat
  BY <1>1, Finite
<1>4. DOMAIN StateTimeline = 1 .. Cardinality(I)
  BY <1>1 DEF At
<1>5. ASSUME NEW n \in 1 .. Cardinality(I)
      PROVE  \E k \in I : Before(I, k) = n - 1 /\ StateTimeline[n] = Told(k)
  <2>1. PICK k \in I : Before(I, k) = n - 1
    BY <1>1, PositionExists
  <2>2. At(s, I)[n] = s[k]
    BY <1>1, <2>1, AtPosition
  <2>. QED
    BY <1>1, <1>2, <2>1, <2>2
<1>6. ASSUME NEW k \in I
      PROVE  /\ Before(I, k) + 1 \in 1 .. Cardinality(I)
             /\ StateTimeline[Before(I, k) + 1] = Told(k)
  <2>1. Before(I, k) + 1 \in 1 .. Cardinality(I) /\ At(s, I)[Before(I, k) + 1] = s[k]
    BY <1>1, PositionUsed
  <2>. QED
    BY <1>1, <1>2, <2>1
<1>7. DOMAIN StateTimeline \subseteq Nat
  BY <1>3, <1>4
<1>. QED
  BY <1>4, <1>5, <1>6, <1>7 DEF I

\* Where the timeline begins is on the live path and within the walk, and START does not run
\* from there on.
LEMMA BeginningIs ==
  ASSUME TypeOK, Grown, START \notin ckpts[Newest].next
  PROVE  \E b \in 1 .. Walked + 1 : Beginning = Line[b] /\ \A j \in 1 .. b : FirstNext(Line[j]) # START
<1>. DEFINE first == Walk[1][1]
            told == {c \in OnLineage : c >= first /\ \A d \in OnLineage : d >= c => FirstNext(d) # START}
<1>1. /\ Line \in Seq(Ids) /\ Len(Line) \in Nat /\ Line[1] = Newest
      /\ OnLineage = {Line[k] : k \in 1 .. Len(Line)}
      /\ \A j, k \in 1 .. Len(Line) : j < k => Line[k] < Line[j]
      /\ \A k \in 1 .. Len(Line) : Line[k] \in Nat
  <2>1. \A c \in Ids : c \in Nat
    BY DEF TypeOK, Newest, Ids
  <2>. QED
    BY <2>1, LineClimbs DEF Ladder
<1>2. /\ Walked \in Nat \ {0} /\ Walked <= Len(Line) - 1
      /\ Walk[1] = <<Line[Walked - 1 + 2], Line[Walked - 1 + 1]>>
  BY WalkSteps
<1>3. first = Line[Walked + 1] /\ Walked + 1 \in 1 .. Len(Line) /\ 1 \in 1 .. Len(Line)
  <2>1. Walked - 1 + 2 = Walked + 1
    BY <1>2
  <2>2. Walk[1] = <<Line[Walked + 1], Line[Walked - 1 + 1]>>
    BY <1>2, <2>1
  <2>. QED
    BY <1>1, <1>2, <2>2
<1>. HIDE DEF first
<1>4. Newest \in told
  <2>1. Newest \in OnLineage /\ Newest \in Ids /\ Newest \in Nat
    BY <1>1, <1>3
  <2>2. FirstNext(Newest) # START
    <3>1. NoNode # START
      BY LineageAssumption
    <3>. QED
      BY <2>1, <3>1, FirstNextIn
  <2>3. Newest >= first
    <3>1. 1 < Walked + 1
      BY <1>2
    <3>2. Line[Walked + 1] < Line[1]
      BY <1>1, <1>3, <3>1
    <3>. QED
      BY <1>1, <1>3, <3>2
  <2>4. ASSUME NEW d \in OnLineage, d >= Newest PROVE d = Newest
    <3>1. PICK k \in 1 .. Len(Line) : d = Line[k]
      BY <1>1
    <3>2. k = 1 \/ 1 < k
      BY <1>1
    <3>3. 1 < k => Line[k] < Line[1]
      BY <1>1, <1>3
    <3>. QED
      BY <1>1, <1>3, <2>4, <3>1, <3>2, <3>3
  <2>. QED
    BY <2>1, <2>2, <2>3, <2>4
<1>5. PICK x \in told : \A d \in told : x <= d
  <2>1. told \subseteq Nat /\ told # {}
    BY <1>1, <1>4
  <2>. HIDE DEF told
  <2>. QED
    BY <2>1, LeastNatural
<1>6. Beginning \in told
  <2>1. Beginning = CHOOSE c \in told : \A d \in told : c <= d
    BY DEF Beginning, first
  <2>. HIDE DEF told
  <2>. QED
    BY <1>5, <2>1
<1>7. PICK b \in 1 .. Len(Line) : Beginning = Line[b]
  BY <1>1, <1>6
<1>8. Line[b] >= Line[Walked + 1] /\ \A d \in OnLineage : d >= Line[b] => FirstNext(d) # START
  BY <1>3, <1>6, <1>7
<1>9. b <= Walked + 1
  <2>. SUFFICES ASSUME Walked + 1 < b PROVE FALSE
    BY <1>1, <1>2, <1>7
  <2>1. Line[b] < Line[Walked + 1]
    BY <1>1, <1>3, <1>7
  <2>2. Line[b] \in Nat /\ Line[Walked + 1] \in Nat
    BY <1>1, <1>3, <1>7
  <2>. QED
    BY <1>8, <2>1, <2>2
<1>10. b \in 1 .. Walked + 1
  BY <1>1, <1>2, <1>7, <1>9
<1>11. ASSUME NEW j \in 1 .. b PROVE FirstNext(Line[j]) # START
  <2>1. j \in 1 .. Len(Line) /\ (j = b \/ j < b)
    BY <1>1, <1>7
  <2>2. Line[j] >= Line[b]
    <3>1. j < b => Line[b] < Line[j]
      BY <1>1, <1>7, <2>1
    <3>2. Line[j] \in Nat /\ Line[b] \in Nat
      BY <1>1, <1>7, <2>1
    <3>. QED
      BY <2>1, <3>1, <3>2
  <2>3. Line[j] \in OnLineage
    BY <1>1, <2>1
  <2>. QED
    BY <1>8, <2>2, <2>3
<1>. QED
  BY <1>7, <1>10, <1>11

\* From where START does not run any more, a channel that no later entry changes keeps its value.
LEMMA HeldOn ==
  ASSUME TypeOK, Grown, NEW ch \in Channels, NEW b \in 1 .. Walked + 1,
         \A j \in 1 .. b : FirstNext(Line[j]) # START,
         \A k \in ShownSteps : Changing(k, ch) => k <= Walked - b + 1
  PROVE  Held(b, ch) = ckpts[Newest].values[ch]
<1>1. Walked \in Nat \ {0} /\ Walked <= Len(Line) - 1 /\ Len(Line) \in Nat /\ b \in Nat \ {0}
  BY WalkSteps
<1>. DEFINE V == [i \in 1 .. Walked + 1 |-> Held(i, ch)]
<1>2. ASSUME NEW i \in Nat, 1 <= i, i < b
      PROVE  V[i + 1] = V[i]
  <2>. DEFINE k == Walked - i + 1
  <2>1. /\ i \in 1 .. Walked /\ i \in 1 .. Walked + 1 /\ i + 1 \in 1 .. Walked + 1
        /\ i + 1 \in 1 .. b
        /\ ~(k <= Walked - b + 1)
    BY <1>1, <1>2
  <2>2. FirstNext(Line[i + 1]) # START
    BY <2>1
  <2>3. k \in ShownSteps /\ (Changing(k, ch) <=> Held(i + 1, ch) # Held(i, ch))
    BY <2>1, <2>2, ToldStep
  <2>. HIDE DEF k
  <2>4. Held(i + 1, ch) = Held(i, ch)
    BY <2>1, <2>3
  <2>. QED
    BY <2>1, <2>4
<1>3. V[b] = V[1]
  <2>. HIDE DEF V
  <2>. QED
    BY <1>1, <1>2, Telescope
<1>4. V[b] = Held(b, ch) /\ V[1] = Held(1, ch)
  BY <1>1
<1>5. Line[1] = Newest
  BY LineClimbs DEF Ladder
<1>. QED
  BY <1>3, <1>4, <1>5 DEF Held

LEMMA AccountsHold == ASSUME TypeOK, Grown PROVE TimelineAccounts
<1>. DEFINE told == StateTimeline
            Changes(ch) == {k \in DOMAIN told : /\ told[k].id > Beginning
                                                /\ \E d \in told[k].diff : d.channel = ch}
            Accounted(ch) ==
              IF Changes(ch) = {} THEN ckpts[Newest].values[ch] = ckpts[Beginning].values[ch]
              ELSE \E k \in Changes(ch) :
                     /\ \A j \in Changes(ch) : j <= k
                     /\ \E d \in told[k].diff : d.channel = ch /\ d.after = ckpts[Newest].values[ch]
<1>1. /\ Walked \in Nat \ {0} /\ Walked <= Len(Line) - 1 /\ Len(Line) \in Nat
      /\ ShownSteps \in SUBSET (1 .. Walked)
  BY WalkSteps DEF ShownSteps
<1>2. \A k \in 1 .. Walked : Walked - k + 1 \in 1 .. Walked /\ Walked - (Walked - k + 1) + 1 = k
  BY <1>1
<1>3. ASSUME NEW n \in DOMAIN told
      PROVE  told[n].id \in OnLineage
  <2>1. PICK k \in ShownSteps : told[n] = Told(k)
    BY <1>3, ToldAt
  <2>. DEFINE i == Walked - k + 1
  <2>2. i \in 1 .. Walked /\ Walked - i + 1 = k
    BY <1>1, <1>2
  <2>. HIDE DEF i
  <2>3. Told(k).id = Line[i] /\ Line[i] \in OnLineage
    BY <2>2, ToldStep
  <2>. QED
    BY <2>1, <2>3
<1>4. ASSUME START \notin ckpts[Newest].next, NEW ch \in Channels
      PROVE  Accounted(ch)
  <2>0. PICK b \in 1 .. Walked + 1 :
          Beginning = Line[b] /\ \A j \in 1 .. b : FirstNext(Line[j]) # START
    BY <1>4, BeginningIs
  <2>. DEFINE C == {k \in ShownSteps : Changing(k, ch) /\ Told(k).id > Beginning}
  <2>3. ASSUME NEW k \in ShownSteps PROVE Told(k).id > Beginning <=> k > Walked - b + 1
    <3>. DEFINE i == Walked - k + 1
    <3>1. /\ i \in 1 .. Walked /\ Walked - i + 1 = k /\ i \in 1 .. Len(Line) /\ b \in 1 .. Len(Line)
          /\ (i < b <=> k > Walked - b + 1) /\ (i < b \/ i = b \/ b < i)
      BY <1>1, <1>2
    <3>. HIDE DEF i
    <3>2. Told(k).id = Line[i]
      BY <3>1, ToldStep
    <3>3. /\ i < b => Line[b] < Line[i]
          /\ b < i => Line[i] < Line[b]
          /\ Line[i] \in Nat /\ Line[b] \in Nat
      <4>1. Line \in Seq(Ids) /\ \A c \in Ids : c \in Nat
        BY LineClimbs DEF Ladder, TypeOK, Newest, Ids
      <4>. QED
        BY <3>1, <4>1, LineClimbs
    <3>. QED
      BY <2>0, <3>1, <3>2, <3>3
  <2>1. CASE C = {}
    <3>1. \A k \in ShownSteps : Changing(k, ch) => k <= Walked - b + 1
      <4>1. \A k \in ShownSteps : k \in Nat /\ Walked - b + 1 \in Int
        BY <1>1
      <4>. QED
        BY <2>1, <2>3, <4>1
    <3>2. Held(b, ch) = ckpts[Newest].values[ch]
      BY <2>0, <3>1, HeldOn
    <3>3. Changes(ch) = {}
      <4>. SUFFICES ASSUME NEW n \in DOMAIN told, told[n].id > Beginning,
                           \E d \in told[n].diff : d.channel = ch
                    PROVE  FALSE
        OBVIOUS
      <4>1. PICK k \in ShownSteps : told[n] = Told(k)
        BY ToldAt
      <4>2. Changing(k, ch)
        BY <4>1 DEF Changing
      <4>3. Told(k).id > Beginning
        BY <4>1
      <4>. QED
        BY <2>1, <4>2, <4>3
    <3>. QED
      BY <2>0, <3>2, <3>3 DEF Held
  <2>2. CASE C # {}
    <3>. DEFINE R == {Walked - k : k \in C}
    <3>1. R \subseteq Nat /\ R # {}
      <4>1. \A k \in 1 .. Walked : Walked - k \in Nat
        BY <1>1
      <4>. QED
        BY <1>1, <2>2, <4>1
    <3>2. PICK x \in R : \A y \in R : x <= y
      <4>. HIDE DEF R
      <4>. QED
        BY <3>1, LeastNatural
    <3>3. PICK k \in C : x = Walked - k
      BY <3>2
    <3>4. \A j \in C : j <= k
      <4>1. \A j \in C : Walked - k <= Walked - j /\ j \in 1 .. Walked /\ k \in 1 .. Walked
        BY <1>1, <3>2, <3>3
      <4>. HIDE DEF C
      <4>. QED
        BY <1>1, <4>1
    <3>. DEFINE i == Walked - k + 1
    <3>5. /\ k \in ShownSteps /\ Changing(k, ch) /\ i \in 1 .. Walked /\ Walked - i + 1 = k
          /\ i \in 1 .. Walked + 1 /\ Told(k).id > Beginning /\ k \in C
      BY <1>1, <1>2
    <3>. HIDE DEF R, i
    <3>6. \A d \in Told(k).diff : d.channel = ch => d.after = Held(i, ch)
      BY <3>5, ToldStep
    <3>7. i < b
      <4>1. k > Walked - b + 1
        BY <2>3, <3>5
      <4>. QED
        BY <1>1, <3>5, <4>1
    <3>8. Held(i, ch) = ckpts[Newest].values[ch]
      <4>1. \A j \in 1 .. i : j \in 1 .. b
        BY <1>1, <3>5, <3>7
      <4>2. \A j \in 1 .. i : FirstNext(Line[j]) # START
        BY <2>0, <4>1
      <4>3. ASSUME NEW j \in ShownSteps, Changing(j, ch) PROVE j <= Walked - i + 1
        <5>1. CASE j \in C
          BY <3>4, <3>5, <5>1
        <5>2. CASE j \notin C
          <6>1. ~(j > Walked - b + 1) /\ k > Walked - b + 1
            BY <2>3, <3>5, <4>3, <5>2
          <6>. QED
            BY <1>1, <3>5, <6>1
        <5>. QED
          BY <5>1, <5>2
      <4>. QED
        BY <3>5, <4>2, <4>3, HeldOn
    <3>. DEFINE n == Before(ShownSteps, k) + 1
    <3>9. n \in DOMAIN told /\ told[n] = Told(k)
      BY <3>5, ToldAt
    <3>10. Before(ShownSteps, k) \in Nat
      <4>1. k \in Nat
        BY <1>1, <3>5
      <4>2. \A p \in Nat : Before(ShownSteps, p) \in Nat
        BY <1>1, Finite
      <4>. QED
        BY <4>1, <4>2
    <3>11. ASSUME NEW m \in Changes(ch)
           PROVE  m <= n
      <4>1. PICK j \in ShownSteps : Before(ShownSteps, j) = m - 1 /\ told[m] = Told(j)
        BY <3>11, ToldAt
      <4>2. j \in C
        BY <3>11, <4>1 DEF Changing
      <4>3. j <= k /\ j \in Nat /\ k \in Nat
        BY <1>1, <3>4, <3>5, <4>1, <4>2
      <4>4. m \in Nat
        BY <3>11, ToldAt
      <4>5. CASE j = k
        BY <3>10, <4>1, <4>4, <4>5
      <4>6. CASE j # k
        <5>1. j < k
          BY <4>3, <4>6
        <5>2. Before(ShownSteps, j) < Before(ShownSteps, k)
          BY <1>1, <3>5, <5>1, BeforeGrows
        <5>. QED
          BY <3>10, <4>1, <4>4, <5>2
      <4>. QED
        BY <4>5, <4>6
    <3>. HIDE DEF n, C
    <3>12. PICK d \in told[n].diff : d.channel = ch
      BY <3>5, <3>9 DEF Changing
    <3>13. n \in Changes(ch)
      BY <3>5, <3>9, <3>12
    <3>14. d.after = ckpts[Newest].values[ch]
      BY <3>6, <3>8, <3>9, <3>12
    <3>. QED
      BY <3>11, <3>12, <3>13, <3>14
  <2>. QED
    BY <2>1, <2>2
<1>. HIDE DEF Accounted
<1>5. /\ \A k \in DOMAIN told : told[k].id \in OnLineage
      /\ START \notin ckpts[Newest].next => \A ch \in Channels : Accounted(ch)
  BY <1>3, <1>4
<1>. QED
  BY <1>5 DEF TimelineAccounts, Accounted

\* For every graph, whatever was forked or overridden: the state timeline
\* (_state_timeline) tells of the live path only, and the last entry since the last input
\* that changed a channel gives the value the newest checkpoint has, the beginning's if none
\* did.
THEOREM TimelineExplains == Spec => []TimelineAccounts
<1>1. TypeOK /\ Grown => TimelineAccounts
  BY AccountsHold
<1>. QED
  BY <1>1, ThreadGrows, PTL
=============================================================================
