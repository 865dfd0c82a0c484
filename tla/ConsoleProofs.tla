---------------------------- MODULE ConsoleProofs ----------------------------
(***************************************************************************)
(* Proofs about Console, for any nodes and any number of posts and node     *)
(* runs.  What recorder and panel will be is what they become when they     *)
(* have taken the events under way, one after another; the invariants tie   *)
(* this to the run the worker is in and to those that have finished.        *)
(***************************************************************************)
EXTENDS Console, SubsequenceProofs

-----------------------------------------------------------------------------
(* Taking events one after another.  A step relation is a set of triples    *)
(* <<before, event, after>>.                                                *)

\* The events take the steps of T from a to b.
Reaches(T, a, events, b) ==
  \E c : /\ c[0] = a /\ c[Len(events)] = b
         /\ \A k \in 1 .. Len(events) : <<c[k - 1], events[k], c[k]>> \in T

LEMMA ReachesNone == ASSUME NEW T, NEW a PROVE Reaches(T, a, <<>>, a)
<1>. DEFINE c == [k \in {0} |-> a]
<1>1. c[0] = a /\ c[Len(<<>>)] = a /\ \A k \in 1 .. Len(<<>>) : <<c[k - 1], <<>>[k], c[k]>> \in T
  OBVIOUS
<1>. HIDE DEF c
<1>. QED
  BY <1>1 DEF Reaches

LEMMA NowhereElse == ASSUME NEW T, NEW a, NEW b, Reaches(T, a, <<>>, b) PROVE a = b
<1>1. PICK c : c[0] = a /\ c[Len(<<>>)] = b
  BY DEF Reaches
<1>2. Len(<<>>) = 0
  OBVIOUS
<1>. QED
  BY <1>1, <1>2

LEMMA ReachesOneMore ==
  ASSUME NEW T, NEW S, NEW events \in Seq(S), NEW a, NEW b, Reaches(T, a, events, b),
         NEW e \in S, NEW d, <<b, e, d>> \in T
  PROVE  Reaches(T, a, Append(events, e), d)
<1>. DEFINE n == Len(events)
            more == Append(events, e)
<1>1. PICK c : /\ c[0] = a /\ c[Len(events)] = b
               /\ \A k \in 1 .. Len(events) : <<c[k - 1], events[k], c[k]>> \in T
  BY DEF Reaches
<1>. DEFINE g == [k \in 0 .. n + 1 |-> IF k <= n THEN c[k] ELSE d]
<1>2. /\ n \in Nat /\ Len(more) = n + 1 /\ more[n + 1] = e
      /\ \A k \in 1 .. n : more[k] = events[k]
  OBVIOUS
<1>3. /\ g[0] = a /\ g[n] = b /\ g[n + 1] = d
      /\ \A k \in 1 .. n : g[k - 1] = c[k - 1] /\ g[k] = c[k]
  BY <1>1, <1>2
<1>. HIDE DEF g, more
<1>4. ASSUME NEW k \in 1 .. n + 1
      PROVE  <<g[k - 1], more[k], g[k]>> \in T
  <2>1. CASE k \in 1 .. n
    BY <1>1, <1>2, <1>3, <2>1
  <2>2. CASE k = n + 1
    <3>1. k - 1 = n
      BY <1>2, <2>2
    <3>. QED
      BY <1>2, <1>3, <2>2, <3>1
  <2>. QED
    BY <1>2, <2>1, <2>2
<1>5. Reaches(T, a, more, d)
  BY <1>2, <1>3, <1>4 DEF Reaches
<1>. QED
  BY <1>5 DEF more

LEMMA ReachesRest ==
  ASSUME NEW T, NEW S, NEW events \in Seq(S), events # <<>>, NEW a, NEW b, Reaches(T, a, events, b)
  PROVE  \E d : <<a, Head(events), d>> \in T /\ Reaches(T, d, Tail(events), b)
<1>. DEFINE n == Len(events)
            rest == Tail(events)
<1>1. PICK c : /\ c[0] = a /\ c[Len(events)] = b
               /\ \A k \in 1 .. Len(events) : <<c[k - 1], events[k], c[k]>> \in T
  BY DEF Reaches
<1>. DEFINE g == [k \in 0 .. n - 1 |-> c[k + 1]]
<1>2. /\ n \in Nat \ {0} /\ Len(rest) = n - 1 /\ Head(events) = events[1]
      /\ \A k \in 1 .. n - 1 : rest[k] = events[k + 1]
  OBVIOUS
<1>3. <<a, Head(events), c[1]>> \in T
  <2>1. 1 \in 1 .. n /\ 1 - 1 = 0
    BY <1>2
  <2>. QED
    BY <1>1, <1>2, <2>1
<1>4. g[0] = c[1] /\ g[n - 1] = b /\ \A k \in 1 .. n - 1 : g[k - 1] = c[k] /\ g[k] = c[k + 1]
  BY <1>1, <1>2
<1>. HIDE DEF g, rest
<1>5. ASSUME NEW k \in 1 .. n - 1
      PROVE  <<g[k - 1], rest[k], g[k]>> \in T
  <2>1. k + 1 \in 1 .. n /\ (k + 1) - 1 = k
    BY <1>2
  <2>. QED
    BY <1>1, <1>2, <1>4, <2>1
<1>6. Reaches(T, c[1], rest, b)
  BY <1>2, <1>4, <1>5 DEF Reaches
<1>. QED
  BY <1>3, <1>6 DEF rest

\* What every step on some events keeps, they keep together.
LEMMA ReachesKeeps ==
  ASSUME NEW T, NEW S, NEW events \in Seq(S), NEW a, NEW b, Reaches(T, a, events, b),
         NEW A, a \in A, \A x \in A, e \in S : \A y : <<x, e, y>> \in T => y \in A
  PROVE  b \in A
<1>1. PICK c : /\ c[0] = a /\ c[Len(events)] = b
               /\ \A k \in 1 .. Len(events) : <<c[k - 1], events[k], c[k]>> \in T
  BY DEF Reaches
<1>. DEFINE N == {n \in Nat : n <= Len(events) => c[n] \in A}
<1>2. 0 \in N
  BY <1>1
<1>3. ASSUME NEW n \in Nat, n \in N
      PROVE  n + 1 \in N
  <2>1. SUFFICES ASSUME n + 1 <= Len(events) PROVE c[n + 1] \in A
    OBVIOUS
  <2>2. n + 1 \in 1 .. Len(events) /\ (n + 1) - 1 = n /\ c[n] \in A /\ events[n + 1] \in S
    BY <1>3, <2>1
  <2>. QED
    BY <1>1, <2>2
<1>4. \A n \in Nat : n \in N
  <2>. HIDE DEF N
  <2>. QED
    BY <1>2, <1>3, SetInduction
<1>. QED
  BY <1>1, <1>4

\* The first of some events reach what the rest go on from.
LEMMA ReachesFirst ==
  ASSUME NEW T, NEW S, NEW events \in Seq(S), NEW a, NEW b, Reaches(T, a, events, b),
         NEW m \in 0 .. Len(events)
  PROVE  \E d : /\ Reaches(T, a, SubSeq(events, 1, m), d)
               /\ \E rest \in Seq(S) : Reaches(T, d, rest, b)
<1>. DEFINE n == Len(events)
            first == SubSeq(events, 1, m)
            rest == SubSeq(events, m + 1, n)
<1>1. PICK c : /\ c[0] = a /\ c[Len(events)] = b
               /\ \A k \in 1 .. Len(events) : <<c[k - 1], events[k], c[k]>> \in T
  BY DEF Reaches
<1>2. /\ n \in Nat /\ m \in Nat /\ m <= n
      /\ first \in Seq(S) /\ Len(first) = m /\ \A k \in 1 .. m : first[k] = events[k]
  OBVIOUS
<1>3. /\ rest \in Seq(S) /\ Len(rest) = n - m
      /\ \A k \in 1 .. n - m : rest[k] = events[m + k]
  OBVIOUS
<1>4. Reaches(T, a, first, c[m])
  <2>. HIDE DEF first
  <2>1. \A k \in 1 .. m : k \in 1 .. n
    BY <1>2
  <2>2. c[Len(first)] = c[m] /\ \A k \in 1 .. Len(first) : <<c[k - 1], first[k], c[k]>> \in T
    BY <1>1, <1>2, <2>1
  <2>. QED
    BY <1>1, <2>2 DEF Reaches
<1>. DEFINE g == [k \in 0 .. n - m |-> c[m + k]]
<1>5. /\ g[0] = c[m] /\ g[n - m] = b
      /\ \A k \in 1 .. n - m : g[k - 1] = c[(m + k) - 1] /\ g[k] = c[m + k]
  <2>1. m + 0 = m /\ m + (n - m) = n /\ 0 \in 0 .. n - m /\ n - m \in 0 .. n - m
    BY <1>2
  <2>2. ASSUME NEW k \in 1 .. n - m
        PROVE  k - 1 \in 0 .. n - m /\ k \in 0 .. n - m /\ m + (k - 1) = (m + k) - 1
    BY <1>2
  <2>3. \A k \in 0 .. n - m : g[k] = c[m + k]
    OBVIOUS
  <2>. HIDE DEF g
  <2>4. g[0] = c[m] /\ g[n - m] = b
    BY <1>1, <2>1, <2>3
  <2>5. ASSUME NEW k \in 1 .. n - m
        PROVE  g[k - 1] = c[(m + k) - 1] /\ g[k] = c[m + k]
    BY <2>2, <2>3
  <2>. QED
    BY <2>4, <2>5
<1>. HIDE DEF g, first, rest
<1>6. ASSUME NEW k \in 1 .. n - m
      PROVE  <<g[k - 1], rest[k], g[k]>> \in T
  <2>1. m + k \in 1 .. n
    BY <1>2
  <2>2. <<c[(m + k) - 1], events[m + k], c[m + k]>> \in T
    BY <1>1, <2>1
  <2>. QED
    BY <1>3, <1>5, <2>2
<1>7. Reaches(T, c[m], rest, b)
  BY <1>3, <1>5, <1>6 DEF Reaches
<1>. QED
  BY <1>3, <1>4, <1>7 DEF first

\* What maps every step on some events to a step maps what they reach.
LEMMA ReachesMapped ==
  ASSUME NEW T, NEW S, NEW events \in Seq(S), NEW a, NEW b, Reaches(T, a, events, b),
         NEW f, \A e \in S : \A x, y : <<x, e, y>> \in T => <<f[x], e, f[y]>> \in T
  PROVE  Reaches(T, f[a], events, f[b])
<1>. DEFINE n == Len(events)
<1>1. PICK c : /\ c[0] = a /\ c[Len(events)] = b
               /\ \A k \in 1 .. Len(events) : <<c[k - 1], events[k], c[k]>> \in T
  BY DEF Reaches
<1>. DEFINE g == [k \in 0 .. n |-> f[c[k]]]
<1>2. n \in Nat /\ 0 \in 0 .. n /\ n \in 0 .. n
      /\ \A k \in 1 .. n : k \in 0 .. n /\ k - 1 \in 0 .. n /\ events[k] \in S
  OBVIOUS
<1>4. /\ g[0] = f[a] /\ g[n] = f[b]
      /\ \A k \in 1 .. n : g[k - 1] = f[c[k - 1]] /\ g[k] = f[c[k]]
  <2>1. \A k \in 0 .. n : g[k] = f[c[k]]
    OBVIOUS
  <2>. HIDE DEF g
  <2>2. g[0] = f[a] /\ g[n] = f[b]
    BY <1>1, <1>2, <2>1
  <2>3. ASSUME NEW k \in 1 .. n
        PROVE  g[k - 1] = f[c[k - 1]] /\ g[k] = f[c[k]]
    BY <1>2, <2>1
  <2>. QED
    BY <2>2, <2>3
<1>. HIDE DEF g
<1>3. ASSUME NEW k \in 1 .. n
      PROVE  <<g[k - 1], events[k], g[k]>> \in T
  <2>1. <<c[k - 1], events[k], c[k]>> \in T
    BY <1>1
  <2>2. <<f[c[k - 1]], events[k], f[c[k]]>> \in T
    BY <1>2, <2>1
  <2>. QED
    BY <1>4, <2>2
<1>. QED
  BY <1>3, <1>4 DEF Reaches

-----------------------------------------------------------------------------
(* What is under way, and what each step of the worker adds to it.          *)

Event == {e \in [ev : Carried, node : Nodes \cup {Nowhere}] : e.ev = "node_start" => e.node \in Nodes}
Command == [cmd : {"start_run"}, input : Inputs] \cup [cmd : {"step", "fork", "resume", "cancel"}]
Panel == [running : BOOLEAN, paused : BOOLEAN, pending : BOOLEAN, timeline : BOOLEAN]
Recorder == [pendingInput : Inputs, open : BOOLEAN, input : Inputs, nodePath : Seq(Nodes)]
Record == [input : Inputs, nodePath : Seq(Nodes), status : FinishedEvents]
Run == [input : Inputs, path : Seq(Nodes), status : Statuses]

Typed ==
  /\ panel \in Panel /\ posts \in Inputs /\ queue \in Seq(Command)
  /\ phase \in {"idle", "running", "manual", "breakpoint"}
  /\ flag \in BOOLEAN /\ at \in Nodes \cup {Nowhere} /\ due \in {"any", "another", "again"}
  /\ ran \in Nat /\ alive \in BOOLEAN /\ cut \in BOOLEAN
  /\ crossed \in BOOLEAN /\ refused \in BOOLEAN
  /\ up \in Seq(Event) /\ shows \in Seq(Event)
  /\ rec \in Recorder /\ saved \in Seq(Record) /\ runs \in Seq(Run)

LEMMA EmitsNone == ASSUME Typed, Emits, out' = <<>> PROVE up' = up
<1>1. {k \in DOMAIN out' : out'[k] \in Carried} = {}
  OBVIOUS
<1>2. up' = up \o [k \in DOMAIN <<>> |-> [ev |-> <<>>[k], node |-> at']]
  BY <1>1, AtNone DEF Emits
<1>3. [k \in DOMAIN <<>> |-> [ev |-> <<>>[k], node |-> at']] = <<>>
  OBVIOUS
<1>. QED
  BY <1>2, <1>3 DEF Typed

LEMMA EmitsOne ==
  ASSUME Typed, Emits, NEW p \in Nat \ {0}, p \in DOMAIN out', out'[p] \in Carried,
         \A k \in DOMAIN out' : out'[k] \in Carried => k = p
  PROVE  up' = Append(up, [ev |-> out'[p], node |-> at'])
<1>. DEFINE e == [ev |-> out'[p], node |-> at']
<1>1. {k \in DOMAIN out' : out'[k] \in Carried} = {} \cup {p} /\ {} \in SUBSET (1 .. p)
  OBVIOUS
<1>2. At(out', {} \cup {p}) = Append(<<>>, out'[p])
  BY <1>1, AtNone, AtAppend
<1>3. Append(<<>>, out'[p]) = <<out'[p]>>
  OBVIOUS
<1>4. up' = up \o [k \in DOMAIN <<out'[p]>> |-> [ev |-> <<out'[p]>>[k], node |-> at']]
  BY <1>1, <1>2, <1>3 DEF Emits
<1>5. [k \in DOMAIN <<out'[p]>> |-> [ev |-> <<out'[p]>>[k], node |-> at']] = <<e>>
  OBVIOUS
<1>6. up' = up \o <<e>>
  BY <1>4, <1>5
<1>. HIDE DEF e
<1>7. up' = Append(up, e)
  BY <1>6 DEF Typed
<1>. QED
  BY <1>7 DEF e

LEMMA JoinsTwo ==
  ASSUME NEW S, NEW s \in Seq(S), NEW t \in Seq(S), Len(t) = 2
  PROVE  s \o t = Append(Append(s, t[1]), t[2])
<1>. DEFINE n == Len(s)
            x == t[1]
            y == t[2]
            u == s \o t
            v == Append(s, x)
            w == Append(v, y)
<1>1. n \in Nat /\ x \in S /\ y \in S
  OBVIOUS
<1>2. /\ u \in Seq(S) /\ Len(u) = n + 2 /\ u[n + 1] = x /\ u[n + 2] = y
      /\ \A k \in 1 .. n : u[k] = s[k]
  <2>1. /\ u \in Seq(S) /\ Len(u) = Len(s) + Len(t)
        /\ \A i \in 1 .. Len(s) + Len(t) : u[i] = IF i <= Len(s) THEN s[i] ELSE t[i - Len(s)]
    BY ConcatProperties, Zenon
  <2>. HIDE DEF u
  <2>2. (n + 1) - n = 1 /\ (n + 2) - n = 2 /\ n + 1 \in 1 .. n + 2 /\ n + 2 \in 1 .. n + 2
    BY <1>1
  <2>. HIDE DEF n
  <2>3. Len(u) = n + 2 /\ \A i \in 1 .. n + 2 : u[i] = IF i <= n THEN s[i] ELSE t[i - n]
    BY <2>1 DEF n
  <2>. QED
    BY <1>1, <2>1, <2>2, <2>3
<1>. HIDE DEF x, y, u
<1>3. /\ v \in Seq(S) /\ Len(v) = n + 1 /\ v[n + 1] = x
      /\ \A k \in 1 .. n : v[k] = s[k]
  BY <1>1
<1>. HIDE DEF v
<1>4. /\ w \in Seq(S) /\ Len(w) = n + 2 /\ w[n + 2] = y
      /\ \A k \in 1 .. n + 1 : w[k] = v[k]
  BY <1>1, <1>3
<1>. HIDE DEF w, n
<1>5. \A k \in 1 .. n + 2 : k \in 1 .. n \/ k = n + 1 \/ k = n + 2
  BY <1>1
<1>6. \A k \in 1 .. n + 2 : u[k] = w[k]
  BY <1>1, <1>2, <1>3, <1>4, <1>5
<1>7. u = w
  BY <1>2, <1>4, <1>6
<1>. QED
  BY <1>7 DEF u, v, w, x, y

LEMMA Two == ASSUME NEW x, NEW y PROVE Append(Append(<<>>, x), y) = <<x, y>>
<1>1. Append(<<>>, x) = <<x>> /\ <<x>> \in Seq({x, y})
  OBVIOUS
<1>. DEFINE v == Append(<<x>>, y)
<1>2. v \in Seq({x, y}) /\ Len(v) = 2 /\ v[1] = x /\ v[2] = y
  OBVIOUS
<1>. HIDE DEF v
<1>3. v = <<x, y>>
  BY <1>2
<1>. QED
  BY <1>1, <1>3 DEF v

LEMMA EmitsTwo ==
  ASSUME Typed, Emits, NEW p \in Nat \ {0}, p \in DOMAIN out', out'[p] \in Carried,
         NEW q \in Nat \ {0}, q \in DOMAIN out', out'[q] \in Carried, p < q,
         \A k \in DOMAIN out' : out'[k] \in Carried => k = p \/ k = q
  PROVE  up' = Append(Append(up, [ev |-> out'[p], node |-> at']), [ev |-> out'[q], node |-> at'])
<1>. DEFINE e == [ev |-> out'[p], node |-> at']
            f == [ev |-> out'[q], node |-> at']
<1>1. /\ {k \in DOMAIN out' : out'[k] \in Carried} = ({} \cup {p}) \cup {q}
      /\ {} \in SUBSET (1 .. p) /\ {} \cup {p} \in SUBSET (1 .. q) /\ q \notin {} \cup {p}
  OBVIOUS
<1>2. At(out', {} \cup {p}) = Append(<<>>, out'[p])
  BY <1>1, AtNone, AtAppend
<1>3. At(out', ({} \cup {p}) \cup {q}) = Append(Append(<<>>, out'[p]), out'[q])
  BY <1>1, <1>2, AtAppend
<1>4. Append(Append(<<>>, out'[p]), out'[q]) = <<out'[p], out'[q]>>
  BY Two
<1>5. up' = up \o [k \in DOMAIN <<out'[p], out'[q]>> |-> [ev |-> <<out'[p], out'[q]>>[k], node |-> at']]
  BY <1>1, <1>3, <1>4 DEF Emits
<1>. DEFINE g == [k \in 1 .. 2 |-> [ev |-> <<out'[p], out'[q]>>[k], node |-> at']]
<1>6. up' = up \o g
  <2>1. DOMAIN <<out'[p], out'[q]>> = 1 .. 2
    OBVIOUS
  <2>. QED
    BY <1>5, <2>1
<1>7. g[1] = e /\ g[2] = f
  OBVIOUS
<1>8. up' = Append(Append(up, e), f)
  <2>1. DOMAIN g = 1 .. 2 /\ g = [k \in 1 .. 2 |-> g[k]]
    OBVIOUS
  <2>. HIDE DEF e, f, g
  <2>2. \A k \in 1 .. 2 : g[k] \in {e, f}
    BY <1>7
  <2>3. g \in Seq({e, f}) /\ Len(g) = 2
    BY <2>1, <2>2
  <2>4. up \in Seq(Event \cup {e, f}) /\ g \in Seq(Event \cup {e, f})
    BY <2>2, <2>3 DEF Typed
  <2>. QED
    BY <1>6, <1>7, <2>3, <2>4, JoinsTwo
<1>. QED
  BY <1>8 DEF e, f

\* An event of the moment.
Now(ev) == [ev |-> ev, node |-> at']

LEMMA EmitsTakesRun == ASSUME Typed, TakesRun PROVE up' = Append(up, Now("run_started"))
<1>1. Emits /\ out' = <<"run_started">>
  BY DEF TakesRun, WorkerOnly, Proto!Starts, Proto!Moves
<1>. QED
  BY <1>1, EmitsOne DEF Now, Carried

LEMMA EmitsNodeRuns == ASSUME Typed, NodeRuns PROVE up' = Append(up, Now("node_start"))
<1>1. Emits /\ out' = <<"node_start">>
  BY DEF NodeRuns, WorkerOnly
<1>. QED
  BY <1>1, EmitsOne DEF Now, Carried

LEMMA EmitsPausesManually ==
  ASSUME Typed, PausesManually
  PROVE  up' = Append(Append(up, Now("manual_inference_required")), Now("checkpoint_history"))
<1>1. Emits /\ out' = <<"manual_inference_required">> \o Proto!Timeline
  BY DEF PausesManually, WorkerOnly, Proto!PausesForAnswer, Proto!Moves
<1>2. /\ DOMAIN out' = 1 .. 4 /\ out'[1] = "manual_inference_required"
      /\ out'[2] = "checkpoint_history" /\ out'[3] = "branch_decisions" /\ out'[4] = "state_timeline"
  BY <1>1 DEF Proto!Timeline
<1>3. /\ 1 \in DOMAIN out' /\ 2 \in DOMAIN out' /\ out'[1] \in Carried /\ out'[2] \in Carried
      /\ \A k \in DOMAIN out' : out'[k] \in Carried => k = 1 \/ k = 2
  BY <1>2 DEF Carried
<1>. QED
  BY <1>1, <1>2, <1>3, EmitsTwo DEF Now

LEMMA EmitsPausesAtBreakpoint ==
  ASSUME Typed, PausesAtBreakpoint
  PROVE  up' = Append(Append(up, Now("breakpoint_hit")), Now("checkpoint_history"))
<1>1. Emits /\ out' = <<"breakpoint_hit", "state_snapshot">> \o Proto!Timeline
  BY DEF PausesAtBreakpoint, WorkerOnly, Proto!PausesAtNode, Proto!Moves
<1>2. /\ DOMAIN out' = 1 .. 5 /\ out'[1] = "breakpoint_hit" /\ out'[2] = "state_snapshot"
      /\ out'[3] = "checkpoint_history" /\ out'[4] = "branch_decisions" /\ out'[5] = "state_timeline"
  BY <1>1 DEF Proto!Timeline
<1>3. /\ 1 \in DOMAIN out' /\ 3 \in DOMAIN out' /\ out'[1] \in Carried /\ out'[3] \in Carried
      /\ \A k \in DOMAIN out' : out'[k] \in Carried => k = 1 \/ k = 3
  BY <1>2 DEF Carried
<1>. QED
  BY <1>1, <1>2, <1>3, EmitsTwo DEF Now

LEMMA EmitsCompletes ==
  ASSUME Typed, Completes PROVE up' = Append(up, Now("run_finished(completed)"))
<1>1. Emits /\ out' = <<"branch_decisions", "state_timeline", "state_snapshot">>
                        \o <<"run_finished(completed)">>
  BY DEF Completes, WorkerOnly, Proto!Completes, Proto!Moves
<1>2. /\ DOMAIN out' = 1 .. 4 /\ out'[1] = "branch_decisions" /\ out'[2] = "state_timeline"
      /\ out'[3] = "state_snapshot" /\ out'[4] = "run_finished(completed)"
  BY <1>1
<1>. QED
  BY <1>1, <1>2, EmitsOne DEF Now, Carried

LEMMA EmitsAborts ==
  ASSUME Typed, AbortsStream \/ AbortsPause PROVE up' = Append(up, Now("run_finished(aborted)"))
<1>1. Emits /\ out' = <<"run_finished(aborted)">>
  BY DEF AbortsStream, AbortsPause, WorkerOnly, Proto!Aborts, Proto!Moves
<1>. QED
  BY <1>1, EmitsOne DEF Now, Carried

LEMMA EmitsError ==
  ASSUME Typed, Fails \/ Refuses \/ ForkRaises PROVE up' = Append(up, Now("error"))
<1>1. Emits /\ out' = <<"error">>
  BY DEF Fails, Refuses, ForkRaises, WorkerOnly, Proto!Fails, Proto!Refuses, Proto!Moves
<1>. QED
  BY <1>1, EmitsOne DEF Now, Carried

LEMMA EmitsForks == ASSUME Typed, Forks PROVE up' = Append(up, Now("run_started"))
<1>1. Emits /\ out' = <<"run_started">>
  BY DEF Forks, WorkerOnly
<1>. QED
  BY <1>1, EmitsOne DEF Now, Carried

LEMMA EmitsNothing == ASSUME Typed, Advances \/ Drops PROVE up' = up
<1>1. Emits /\ out' = <<>>
  BY DEF Advances, Drops, WorkerOnly, Proto!Quiet
<1>. QED
  BY <1>1, EmitsNone

-----------------------------------------------------------------------------
(* The shape of a state: types, the current run, how many nodes may run.    *)

\* A live worker has a current run, the last one, and only that is live.
Current ==
  /\ Live => runs # <<>>
  /\ \A k \in DOMAIN runs : runs[k].status = "live" <=> Live /\ k = Len(runs)

\* A resumed stream begins with one node more than MaxNodes allows: the command that
\* resumes it has been taken off the queue by then.
Pace ==
  /\ Len(queue) <= posts
  /\ phase \in {"manual", "breakpoint"} => due # "any"
  /\ ran + Len(queue) <= MaxNodes + posts
  /\ phase = "running" /\ due # "any" => ran + Len(queue) + 1 <= MaxNodes + posts

\* The path of the current run ends with the node last reported.
Trail ==
  Live /\ runs[Len(runs)].path # <<>> =>
    runs[Len(runs)].path[Len(runs[Len(runs)].path)] = at

\* Only a dead worker's relay breaks.
Whole == alive => ~cut

Shape == Typed /\ Current /\ Pace /\ Trail /\ Whole

LEMMA EndsTyped ==
  ASSUME runs \in Seq(Run), runs # <<>>, NEW status \in Statuses
  PROVE  /\ Ends(status) \in Seq(Run) /\ Len(Ends(status)) = Len(runs)
         /\ Len(runs) \in Nat \ {0}
         /\ \A k \in 1 .. Len(runs) : k # Len(runs) => Ends(status)[k] = runs[k]
         /\ Ends(status)[Len(runs)] = [runs[Len(runs)] EXCEPT !.status = status]
<1>. DEFINE n == Len(runs)
            s == Ends(status)
<1>1. n \in Nat \ {0} /\ n \in 1 .. n /\ DOMAIN runs = 1 .. n /\ \A k \in 1 .. n : runs[k] \in Run
  OBVIOUS
<1>2. DOMAIN s = 1 .. n /\ s = [k \in 1 .. n |-> s[k]]
  BY <1>1 DEF Ends
<1>3. \A k \in 1 .. n : k # n => s[k] = runs[k]
  BY <1>1 DEF Ends
<1>4. s[n] = [runs[n] EXCEPT !.status = status]
  BY <1>1 DEF Ends
<1>. HIDE DEF s, n
<1>5. [runs[n] EXCEPT !.status = status] \in Run
  BY <1>1 DEF Run
<1>6. \A k \in 1 .. n : s[k] \in Run
  BY <1>1, <1>3, <1>4, <1>5
<1>7. s \in Seq(Run) /\ Len(s) = n
  BY <1>1, <1>2, <1>6
<1>. QED
  BY <1>1, <1>3, <1>4, <1>7 DEF s, n

LEMMA BegunTyped ==
  ASSUME NEW sofar \in Seq(Run), NEW input \in Inputs
  PROVE  /\ Begun(sofar, input) \in Seq(Run) /\ Len(Begun(sofar, input)) = Len(sofar) + 1
         /\ Begun(sofar, input) # <<>>
         /\ \A k \in 1 .. Len(sofar) : Begun(sofar, input)[k] = sofar[k]
         /\ Begun(sofar, input)[Len(sofar) + 1] = [input |-> input, path |-> <<>>, status |-> "live"]
<1>1. [input |-> input, path |-> <<>>, status |-> "live"] \in Run
  BY DEF Run, Statuses
<1>. QED
  BY <1>1 DEF Begun

\* The user's clicks are posts.
LEMMA Clicks == ASSUME Typed, User PROVE \E cmd \in Command : Post(cmd)
<1>1. CASE ClickRun
  <2>1. [cmd |-> "start_run", input |-> posts + 1] \in Command /\ Post([cmd |-> "start_run", input |-> posts + 1])
    BY <1>1, BoundsAssumption DEF ClickRun, Post, Command, Typed, Inputs
  <2>. QED
    BY <2>1
<1>2. CASE ClickContinue
  <2>1. [cmd |-> "start_run", input |-> 0] \in Command /\ Post([cmd |-> "start_run", input |-> 0])
    BY <1>2, BoundsAssumption DEF ClickContinue, Command, Inputs
  <2>. QED
    BY <2>1
<1>3. CASE ClickStep
  <2>1. [cmd |-> "step"] \in Command /\ Post([cmd |-> "step"])
    BY <1>3 DEF ClickStep, Command
  <2>. QED
    BY <2>1
<1>4. CASE ClickFork
  <2>1. [cmd |-> "fork"] \in Command /\ Post([cmd |-> "fork"])
    BY <1>4 DEF ClickFork, Command
  <2>. QED
    BY <2>1
<1>5. CASE ClickAnswer
  <2>1. [cmd |-> "resume"] \in Command /\ Post([cmd |-> "resume"])
    BY <1>5 DEF ClickAnswer, Command
  <2>. QED
    BY <2>1
<1>6. CASE ClickStop
  <2>1. [cmd |-> "cancel"] \in Command /\ Post([cmd |-> "cancel"])
    BY <1>6 DEF ClickStop, Command
  <2>. QED
    BY <2>1
<1>. QED
  BY <1>1, <1>2, <1>3, <1>4, <1>5, <1>6 DEF User

LEMMA NowTyped ==
  ASSUME at' \in Nodes \cup {Nowhere}, NEW ev \in Carried, ev = "node_start" => at' \in Nodes
  PROVE  Now(ev) \in Event
BY DEF Now, Event

LEMMA TakenTyped ==
  ASSUME Typed, NEW cmds, Takes(cmds)
  PROVE  /\ queue' \in Seq(Command) /\ Len(queue) \in Nat /\ Len(queue') + 1 = Len(queue)
         /\ Head(queue) \in Command /\ Head(queue).cmd \in cmds
         /\ \A k \in 1 .. Len(queue') : queue'[k] = queue[k + 1]
         /\ Head(queue) = queue[1]
<1>1. queue \in Seq(Command) /\ queue # <<>> /\ queue' = Tail(queue) /\ Head(queue).cmd \in cmds
  BY DEF Typed, Takes
<1>2. /\ Tail(queue) \in Seq(Command) /\ Len(Tail(queue)) = Len(queue) - 1 /\ Len(queue) \in Nat \ {0}
      /\ Head(queue) \in Command /\ Head(queue) = queue[1]
      /\ \A k \in 1 .. Len(Tail(queue)) : Tail(queue)[k] = queue[k + 1]
  BY <1>1
<1>. QED
  BY <1>1, <1>2

\* What a step of the worker leaves alone.
LEMMA WorkerKeeps ==
  ASSUME Typed, Worker
  PROVE  /\ alive /\ alive' = alive /\ panel' = panel /\ posts' = posts /\ shows' = shows
         /\ rec' = rec /\ saved' = saved /\ crossed' = crossed /\ cut' = cut
BY DEF Worker, TakesRun, NodeRuns, PausesManually, PausesAtBreakpoint, Completes, AbortsStream,
       AbortsPause, Fails, Advances, Forks, Refuses, ForkRaises, Drops, WorkerOnly

LEMMA UpTyped ==
  ASSUME Typed, Worker, at' \in Nodes \cup {Nowhere}, NodeRuns => at' \in Nodes
  PROVE  up' \in Seq(Event)
<1>1. \A ev \in Carried \ {"node_start"} : Now(ev) \in Event
  BY NowTyped
<1>2. /\ Now("run_started") \in Event /\ Now("error") \in Event /\ Now("checkpoint_history") \in Event
      /\ Now("manual_inference_required") \in Event /\ Now("breakpoint_hit") \in Event
      /\ Now("run_finished(completed)") \in Event /\ Now("run_finished(aborted)") \in Event
  BY <1>1 DEF Carried
<1>3. NodeRuns => Now("node_start") \in Event
  BY NowTyped DEF Carried
<1>4. up \in Seq(Event)
  BY DEF Typed
<1>5. \A x, y \in Event : Append(up, x) \in Seq(Event) /\ Append(Append(up, x), y) \in Seq(Event)
  BY <1>4
<1>. QED
  BY <1>2, <1>3, <1>4, <1>5, EmitsTakesRun, EmitsNodeRuns, EmitsPausesManually,
     EmitsPausesAtBreakpoint, EmitsCompletes, EmitsAborts, EmitsError, EmitsForks, EmitsNothing
  DEF Worker

\* What a post leaves of the events under way.
LEMMA PostUp ==
  ASSUME Typed, NEW cmd, Post(cmd)
  PROVE  /\ up' \in Seq(Event) /\ cut' \in BOOLEAN /\ (alive => up' = up /\ cut' = cut)
         /\ ~cut' => up' = up /\ ~cut
         /\ \E k \in 0 .. Len(up) : up' = SubSeq(up, 1, k)
<1>1. CASE alive
  <2>1. up' = up /\ cut' = cut /\ up \in Seq(Event) /\ cut \in BOOLEAN
    BY <1>1 DEF Post, Typed
  <2>2. Len(up) \in 0 .. Len(up) /\ SubSeq(up, 1, Len(up)) = up
    BY <2>1
  <2>. QED
    BY <2>1, <2>2
<1>2. CASE ~alive
  <2>1. PICK k \in 0 .. Len(up) : up' = SubSeq(up, 1, k) /\ cut' = (cut \/ k < Len(up))
    BY <1>2 DEF Post, RelayBreaks
  <2>2. up \in Seq(Event) /\ cut \in BOOLEAN
    BY DEF Typed
  <2>3. SubSeq(up, 1, k) \in Seq(Event) /\ (k = Len(up) => SubSeq(up, 1, k) = up)
    BY <2>2
  <2>4. ~cut' => k = Len(up) /\ ~cut
    <3>1. ~cut' => ~(k < Len(up)) /\ ~cut
      BY <2>1, Zenon
    <3>2. k < Len(up) \/ k = Len(up)
      BY <2>2
    <3>. QED
      BY <3>1, <3>2
  <2>. DEFINE c == k < Len(up)
  <2>5. cut' \in BOOLEAN
    <3>1. cut' = (cut \/ c)
      BY <2>1
    <3>. HIDE DEF c
    <3>. QED
      BY <2>2, <3>1
  <2>. QED
    BY <1>2, <2>1, <2>3, <2>4, <2>5
<1>. QED
  BY <1>1, <1>2

LEMMA PostShape == ASSUME Shape, NEW cmd \in Command, Post(cmd) PROVE Shape'
<1>1. /\ Typed /\ phase' = phase /\ runs' = runs /\ at' = at /\ due' = due /\ ran' = ran
      /\ posts' = posts + 1 /\ posts < MaxPosts /\ posts \in Nat /\ MaxPosts \in Nat
  BY BoundsAssumption DEF Shape, Post, Typed, Inputs
<1>2. /\ queue' \in Seq(Command) /\ Len(queue) \in Nat
      /\ Len(queue') = Len(queue) \/ Len(queue') = Len(queue) + 1
  BY <1>1 DEF Post, Typed
<1>3. rec' \in Recorder
  BY <1>1 DEF Post, Typed, Recorder, Command
<1>7. up' \in Seq(Event) /\ cut' \in BOOLEAN /\ (alive => cut' = cut)
  BY <1>1, PostUp
<1>4. Typed'
  BY <1>1, <1>2, <1>3, <1>7 DEF Post, Typed, Inputs
<1>8. Whole'
  BY <1>7 DEF Shape, Whole, Post
<1>5. Current' /\ Trail'
  BY <1>1 DEF Shape, Current, Trail, Live
<1>6. Pace'
  BY <1>1, <1>2, BoundsAssumption DEF Shape, Pace, Typed
<1>. QED
  BY <1>4, <1>5, <1>6, <1>8 DEF Shape

\* The worker's steps do not touch the relay.
LEMMA WorkerWhole == ASSUME Shape, Worker PROVE Whole'
BY WorkerKeeps DEF Shape, Whole

LEMMA TakesRunShape == ASSUME Shape, TakesRun PROVE Shape'
<1>1. /\ Typed /\ phase = "idle" /\ phase' = "running" /\ at' = at /\ due' = "any" /\ ran' = ran
      /\ flag' = FALSE /\ refused' = refused /\ Takes({"start_run"}) /\ posts' = posts
      /\ runs' = Begun(runs, Head(queue).input)
  BY DEF Shape, TakesRun, WorkerOnly, Proto!Starts, Proto!Moves
<1>2. /\ queue' \in Seq(Command) /\ Len(queue) \in Nat /\ Len(queue') + 1 = Len(queue)
      /\ Head(queue).input \in Inputs
  BY <1>1, TakenTyped DEF Command
<1>3. /\ runs' \in Seq(Run) /\ Len(runs') = Len(runs) + 1 /\ runs' # <<>> /\ Len(runs) \in Nat
      /\ \A k \in 1 .. Len(runs) : runs'[k] = runs[k]
      /\ runs'[Len(runs')] = [input |-> Head(queue).input, path |-> <<>>, status |-> "live"]
  BY <1>1, <1>2, BegunTyped DEF Typed
<1>4. up' \in Seq(Event)
  BY <1>1, UpTyped DEF Worker, Typed, NodeRuns, Proto!NodeEvent, Proto!Moves
<1>5. Typed'
  BY <1>1, <1>2, <1>3, <1>4, WorkerKeeps DEF Worker, Typed
<1>6. Current'
  <2>1. \A k \in 1 .. Len(runs) : runs'[k].status # "live"
    BY <1>1, <1>3 DEF Shape, Current, Live, Typed
  <2>2. runs'[Len(runs')].status = "live" /\ DOMAIN runs' = 1 .. Len(runs) + 1
    BY <1>3
  <2>. QED
    BY <1>1, <1>3, <2>1, <2>2 DEF Current, Live
<1>7. Pace'
  BY <1>1, <1>2, BoundsAssumption DEF Shape, Pace, Typed, Inputs
<1>8. Trail'
  BY <1>1, <1>3 DEF Trail
<1>. QED
  BY <1>5, <1>6, <1>7, <1>8, WorkerWhole DEF Shape, Worker

\* The current run, after a node.
LEMMA NodeRunsPath ==
  ASSUME Shape, NodeRuns
  PROVE  /\ phase = "running" /\ phase' = "running" /\ due' = "any" /\ at' \in Nodes
         /\ queue' = queue /\ posts' = posts /\ refused' = refused /\ flag' = flag
         /\ ran' = ran + 1 /\ (due = "any" => ran < MaxNodes)
         /\ runs' \in Seq(Run) /\ Len(runs') = Len(runs) /\ Len(runs) \in Nat \ {0}
         /\ \A k \in 1 .. Len(runs) : k # Len(runs) => runs'[k] = runs[k]
         /\ runs'[Len(runs)].status = runs[Len(runs)].status
         /\ runs'[Len(runs)].input = runs[Len(runs)].input
         /\ runs'[Len(runs)].path = Append(runs[Len(runs)].path, at')
<1>1. /\ phase = "running" /\ phase' = "running" /\ due' = "any" /\ queue' = queue /\ posts' = posts
      /\ refused' = refused /\ flag' = flag /\ ran' = ran + 1 /\ (due = "any" => ran < MaxNodes)
  BY DEF NodeRuns, WorkerOnly, Proto!NodeEvent, Proto!Moves
<1>2. PICK n \in Nodes : at' = n /\ runs' = [runs EXCEPT ![Len(runs)].path = Append(@, n)]
  BY DEF NodeRuns
<1>. DEFINE m == Len(runs)
<1>3. runs \in Seq(Run) /\ m \in Nat \ {0} /\ m \in 1 .. m /\ DOMAIN runs = 1 .. m
      /\ \A k \in 1 .. m : runs[k] \in Run
  BY <1>1 DEF Shape, Typed, Current, Live
<1>4. /\ DOMAIN runs' = 1 .. m /\ runs' = [k \in 1 .. m |-> runs'[k]]
      /\ \A k \in 1 .. m : k # m => runs'[k] = runs[k]
      /\ runs'[m] = [runs[m] EXCEPT !.path = Append(@, n)]
  BY <1>2, <1>3
<1>5. runs'[m] \in Run
  <2>1. runs[m].path \in Seq(Nodes) /\ Append(runs[m].path, n) \in Seq(Nodes)
    BY <1>3 DEF Run
  <2>2. runs[m] \in Run /\ runs'[m] = [runs[m] EXCEPT !.path = Append(runs[m].path, n)]
    BY <1>3, <1>4
  <2>. QED
    BY <2>1, <2>2 DEF Run
<1>. HIDE DEF m
<1>6. \A k \in 1 .. m : runs'[k] \in Run
  BY <1>3, <1>4, <1>5
<1>7. runs' \in Seq(Run) /\ Len(runs') = m
  BY <1>3, <1>4, <1>6
<1>8. /\ runs'[m].status = runs[m].status /\ runs'[m].input = runs[m].input
      /\ runs'[m].path = Append(runs[m].path, n)
  BY <1>3, <1>4 DEF Run
<1>. QED
  BY <1>1, <1>2, <1>3, <1>4, <1>7, <1>8 DEF m

LEMMA NodeRunsShape == ASSUME Shape, NodeRuns PROVE Shape'
<1>. USE NodeRunsPath
<1>1. up' \in Seq(Event)
  BY UpTyped DEF Shape, Worker
<1>2. Typed'
  BY <1>1, WorkerKeeps DEF Shape, Worker, Typed
<1>3. Current'
  <2>1. \A k \in 1 .. Len(runs) : runs'[k].status = runs[k].status
    OBVIOUS
  <2>2. runs \in Seq(Run) /\ DOMAIN runs = 1 .. Len(runs) /\ DOMAIN runs' = 1 .. Len(runs)
    BY DEF Shape, Typed
  <2>3. Live /\ Live' /\ runs' # <<>>
    BY DEF Live
  <2>. QED
    BY <2>1, <2>2, <2>3 DEF Shape, Current
<1>4. Pace'
  BY BoundsAssumption DEF Shape, Pace, Typed, Inputs
<1>5. Trail'
  <2>1. runs \in Seq(Run) /\ Len(runs) \in 1 .. Len(runs) /\ runs[Len(runs)] \in Run
    BY DEF Shape, Typed
  <2>2. runs[Len(runs)].path \in Seq(Nodes) /\ runs'[Len(runs)].path = Append(runs[Len(runs)].path, at')
    BY <2>1 DEF Run
  <2>. DEFINE path == runs[Len(runs)].path
  <2>3. Append(path, at')[Len(Append(path, at'))] = at' /\ Len(runs') = Len(runs)
    BY <2>2
  <2>. QED
    BY <2>2, <2>3 DEF Trail
<1>. QED
  BY <1>2, <1>3, <1>4, <1>5, WorkerWhole DEF Shape, Worker

LEMMA PausesShape == ASSUME Shape, PausesManually \/ PausesAtBreakpoint PROVE Shape'
<1>1. /\ Typed /\ phase = "running" /\ phase' \in {"manual", "breakpoint"} /\ at' = at
      /\ ran' = ran /\ flag' = flag /\ refused' = refused /\ posts' = posts /\ queue' = queue
      /\ runs' = runs /\ due' \in {"another", "again"}
  BY DEF Shape, PausesManually, PausesAtBreakpoint, WorkerOnly, Proto!PausesForAnswer,
         Proto!PausesAtNode, Proto!Moves
<1>2. up' \in Seq(Event)
  BY <1>1, UpTyped DEF Worker, Typed, NodeRuns, Proto!NodeEvent, Proto!Moves
<1>3. Typed'
  BY <1>1, <1>2, WorkerKeeps DEF Worker, Typed
<1>4. Current' /\ Pace' /\ Trail'
  BY <1>1 DEF Shape, Current, Pace, Trail, Live
<1>. QED
  BY <1>3, <1>4, WorkerWhole DEF Shape, Worker

\* A step that ends the current run, or leaves it behind.
Leaves(status) == /\ Live /\ phase' = "idle" /\ runs' = Ends(status)
                  /\ at' = at /\ due' = due /\ ran' = ran /\ posts' = posts
                  /\ flag' \in BOOLEAN /\ refused' \in BOOLEAN

LEMMA LeavesShape ==
  ASSUME Shape, Worker, NEW status \in Statuses \ {"live"}, Leaves(status),
         queue' = queue \/ \E cmds : Takes(cmds), up' \in Seq(Event)
  PROVE  Shape'
<1>1. runs \in Seq(Run) /\ runs # <<>> /\ Typed
  BY DEF Shape, Typed, Current, Leaves
<1>2. /\ runs' \in Seq(Run) /\ Len(runs') = Len(runs) /\ Len(runs) \in Nat \ {0}
      /\ \A k \in 1 .. Len(runs) : k # Len(runs) => runs'[k] = runs[k]
      /\ runs'[Len(runs)] = [runs[Len(runs)] EXCEPT !.status = status]
  BY <1>1, EndsTyped DEF Leaves
<1>3. queue' \in Seq(Command) /\ Len(queue') <= Len(queue) /\ Len(queue) \in Nat /\ Len(queue') \in Nat
  BY <1>1, TakenTyped DEF Typed
<1>4. Typed'
  BY <1>1, <1>2, <1>3, WorkerKeeps DEF Typed, Leaves
<1>5. Current'
  <2>1. runs[Len(runs)] \in Run
    BY <1>1, <1>2
  <2>2. runs'[Len(runs)].status # "live"
    BY <1>2, <2>1 DEF Run
  <2>3. ~Live' /\ Live
    BY DEF Leaves, Live
  <2>4. \A k \in 1 .. Len(runs) : k # Len(runs) => runs[k].status # "live"
    BY <1>1, <2>3 DEF Shape, Current
  <2>5. DOMAIN runs' = 1 .. Len(runs)
    BY <1>2
  <2>. QED
    BY <1>2, <2>2, <2>3, <2>4, <2>5 DEF Current
<1>6. Pace' /\ Trail'
  BY <1>3, BoundsAssumption DEF Shape, Pace, Trail, Live, Leaves, Typed, Inputs
<1>. QED
  BY <1>4, <1>5, <1>6, WorkerWhole DEF Shape

LEMMA EndingsLeave ==
  ASSUME Shape
  PROVE  /\ Completes => Leaves("run_finished(completed)") /\ queue' = queue
         /\ AbortsStream => Leaves("run_finished(aborted)") /\ queue' = queue
         /\ AbortsPause => Leaves("run_finished(aborted)") /\ Takes({"cancel"})
         /\ Fails => Leaves("error") /\ queue' = queue
         /\ ForkRaises => Leaves("error") /\ Takes({"fork"})
BY DEF Shape, Typed, Leaves, Live, Completes, AbortsStream, AbortsPause, Fails, ForkRaises, WorkerOnly,
       Proto!Completes, Proto!Aborts, Proto!Fails, Proto!Moves

LEMMA EndingsShape ==
  ASSUME Shape, Completes \/ AbortsStream \/ AbortsPause \/ Fails \/ ForkRaises PROVE Shape'
<1>1. at' = at /\ at \in Nodes \cup {Nowhere} /\ Typed
  BY EndingsLeave DEF Leaves, Shape, Typed
<1>2. Worker
  BY DEF Worker
<1>3. up' \in Seq(Event)
  BY <1>1, <1>2, EndingsLeave, UpTyped DEF Leaves, NodeRuns, Proto!NodeEvent, Proto!Moves
<1>4. /\ "run_finished(completed)" \in Statuses \ {"live"}
      /\ "run_finished(aborted)" \in Statuses \ {"live"} /\ "error" \in Statuses \ {"live"}
  BY DEF Statuses, FinishedEvents
<1>. QED
  BY <1>2, <1>3, <1>4, EndingsLeave, LeavesShape

LEMMA QuietShape == ASSUME Shape, Advances \/ Refuses \/ Drops PROVE Shape'
<1>1. /\ Typed /\ at' = at /\ due' = due /\ ran' = ran /\ posts' = posts /\ flag' = flag
      /\ refused' \in BOOLEAN /\ runs' = runs /\ \E cmds : Takes(cmds)
      /\ \/ phase' = phase /\ phase # "running"
         \/ phase \in {"manual", "breakpoint"} /\ phase' = "running"
  BY DEF Shape, Typed, Advances, Refuses, Drops, WorkerOnly, Proto!Continues, Proto!Refuses,
         Proto!Quiet, Proto!Moves
<1>2. queue' \in Seq(Command) /\ Len(queue') + 1 = Len(queue) /\ Len(queue) \in Nat /\ Len(queue') \in Nat
  BY <1>1, TakenTyped
<1>3. up' \in Seq(Event)
  BY <1>1, UpTyped DEF Worker, Typed, NodeRuns, Proto!NodeEvent, Proto!Moves
<1>4. Worker
  BY DEF Worker
<1>5. Typed'
  BY <1>1, <1>2, <1>3, <1>4, WorkerKeeps DEF Typed
<1>6. Live' = Live
  BY <1>1 DEF Live
<1>7. Current' /\ Trail'
  BY <1>1, <1>6 DEF Shape, Current, Trail
<1>8. Pace'
  BY <1>1, <1>2, BoundsAssumption DEF Shape, Pace, Typed, Inputs
<1>. QED
  BY <1>4, <1>5, <1>7, <1>8, WorkerWhole DEF Shape

LEMMA ForksRuns ==
  ASSUME Shape, Forks
  PROVE  /\ phase \in {"manual", "breakpoint"} /\ phase' = "running" /\ due' \in {"another", "any"}
         /\ at' = at /\ ran' = ran /\ flag' = flag /\ refused' = refused /\ posts' = posts
         /\ Takes({"fork"}) /\ Len(runs) \in Nat \ {0}
         /\ runs' \in Seq(Run) /\ Len(runs') = Len(runs) + 1 /\ runs' # <<>>
         /\ \A k \in 1 .. Len(runs) : k # Len(runs) => runs'[k] = runs[k]
         /\ runs'[Len(runs)].status = "forked"
         /\ runs'[Len(runs) + 1] = [input |-> 0, path |-> <<>>, status |-> "live"]
<1>1. /\ phase \in {"manual", "breakpoint"} /\ phase' = "running" /\ due' \in {"another", "any"}
      /\ at' = at /\ ran' = ran /\ flag' = flag /\ refused' = refused /\ posts' = posts
      /\ Takes({"fork"}) /\ runs' = Begun(Ends("forked"), 0)
  BY DEF Forks, WorkerOnly, Proto!Continues, Proto!Moves
<1>2. runs \in Seq(Run) /\ runs # <<>> /\ "forked" \in Statuses /\ 0 \in Inputs
  BY <1>1, BoundsAssumption DEF Shape, Typed, Current, Live, Statuses, Inputs
<1>. DEFINE past == Ends("forked")
<1>3. /\ past \in Seq(Run) /\ Len(past) = Len(runs) /\ Len(runs) \in Nat \ {0}
      /\ \A k \in 1 .. Len(runs) : k # Len(runs) => past[k] = runs[k]
      /\ past[Len(runs)] = [runs[Len(runs)] EXCEPT !.status = "forked"]
  BY <1>2, EndsTyped
<1>4. past[Len(runs)].status = "forked"
  <2>1. runs[Len(runs)] \in Run
    BY <1>2, <1>3
  <2>. HIDE DEF past
  <2>. QED
    BY <1>3, <2>1 DEF Run
<1>. HIDE DEF past
<1>5. /\ Begun(past, 0) \in Seq(Run) /\ Len(Begun(past, 0)) = Len(past) + 1 /\ Begun(past, 0) # <<>>
      /\ \A k \in 1 .. Len(past) : Begun(past, 0)[k] = past[k]
      /\ Begun(past, 0)[Len(past) + 1] = [input |-> 0, path |-> <<>>, status |-> "live"]
  BY <1>2, <1>3, BegunTyped
<1>6. runs' = Begun(past, 0)
  BY <1>1 DEF past
<1>7. \A k \in 1 .. Len(runs) : runs'[k] = past[k]
  BY <1>3, <1>5, <1>6
<1>8. /\ runs' \in Seq(Run) /\ Len(runs') = Len(runs) + 1 /\ runs' # <<>>
      /\ runs'[Len(runs) + 1] = [input |-> 0, path |-> <<>>, status |-> "live"]
  BY <1>3, <1>5, <1>6
<1>9. /\ \A k \in 1 .. Len(runs) : k # Len(runs) => runs'[k] = runs[k]
      /\ runs'[Len(runs)].status = "forked"
  <2>1. Len(runs) \in 1 .. Len(runs)
    BY <1>3
  <2>. QED
    BY <1>3, <1>4, <1>7, <2>1
<1>. QED
  BY <1>1, <1>3, <1>8, <1>9

LEMMA ForksShape == ASSUME Shape, Forks PROVE Shape'
<1>. USE ForksRuns
<1>1. /\ queue' \in Seq(Command) /\ Len(queue') + 1 = Len(queue) /\ Len(queue) \in Nat /\ Len(queue') \in Nat
  BY TakenTyped DEF Shape
<1>2. up' \in Seq(Event)
  BY UpTyped DEF Shape, Worker, Typed, NodeRuns, Proto!NodeEvent, Proto!Moves
<1>3. Typed'
  BY <1>1, <1>2, WorkerKeeps DEF Shape, Worker, Typed
<1>4. Current'
  <2>1. runs'[Len(runs')].status = "live" /\ runs'[Len(runs)].status # "live" /\ Len(runs') = Len(runs) + 1
    OBVIOUS
  <2>2. \A k \in 1 .. Len(runs) : k # Len(runs) => runs'[k].status # "live"
    BY DEF Shape, Typed, Current, Live
  <2>3. DOMAIN runs' = 1 .. Len(runs) + 1
    OBVIOUS
  <2>. QED
    BY <2>1, <2>2, <2>3 DEF Current, Live
<1>5. Pace'
  BY <1>1, BoundsAssumption DEF Shape, Pace, Typed, Inputs
<1>6. Trail'
  BY DEF Trail
<1>. QED
  BY <1>3, <1>4, <1>5, <1>6, WorkerWhole DEF Shape, Worker

\* What the recorder keeps and returns, and what the panel becomes.
LEMMA OnEventTyped ==
  ASSUME NEW r \in Recorder, NEW e \in Event
  PROVE  /\ OnEvent(r, e) \in Recorder
         /\ Finished(r, e) \in Seq(Record) /\ Len(Finished(r, e)) <= 1
<1>1. /\ r.pendingInput \in Inputs /\ r.open \in BOOLEAN /\ r.input \in Inputs
      /\ r.nodePath \in Seq(Nodes) /\ 0 \in Inputs
  BY BoundsAssumption DEF Recorder, Inputs
<1>2. CASE e.ev = "run_started"
  BY <1>1, <1>2 DEF OnEvent, Finished, FinishedEvents, Opened, Recorder
<1>3. CASE e.ev = "node_start"
  <2>1. e.node \in Nodes /\ Append(r.nodePath, e.node) \in Seq(Nodes)
    BY <1>1, <1>3 DEF Event
  <2>2. Visited(r, e.node) \in Recorder
    BY <1>1, <2>1 DEF Visited, Recorder
  <2>3. OnEvent(r, e) \in {r, Visited(r, e.node)}
    BY <1>3 DEF OnEvent, FinishedEvents
  <2>. QED
    BY <1>3, <2>2, <2>3 DEF Finished, FinishedEvents
<1>4. CASE e.ev \in FinishedEvents
  <2>1. OnEvent(r, e) = [r EXCEPT !.open = FALSE]
    BY <1>4 DEF OnEvent, FinishedEvents
  <2>2. [input |-> r.input, nodePath |-> r.nodePath, status |-> e.ev] \in Record
    BY <1>1, <1>4 DEF Record
  <2>3. OnEvent(r, e) \in Recorder
    BY <2>1 DEF Recorder
  <2>. DEFINE x == [input |-> r.input, nodePath |-> r.nodePath, status |-> e.ev]
  <2>4. Finished(r, e) = IF r.open THEN <<x>> ELSE <<>>
    BY <1>4 DEF Finished
  <2>. HIDE DEF x
  <2>5. <<x>> \in Seq({x}) /\ Len(<<x>>) = 1 /\ Len(<<>>) = 0 /\ <<>> \in Seq(Record)
    OBVIOUS
  <2>6. x \in Record
    BY <2>2 DEF x
  <2>7. <<x>> \in Seq(Record)
    BY <2>6
  <2>. QED
    BY <2>3, <2>4, <2>5, <2>7
<1>5. CASE e.ev \notin {"run_started", "node_start"} \cup FinishedEvents
  BY <1>5 DEF OnEvent, Finished, FinishedEvents
<1>. QED
  BY <1>2, <1>3, <1>4, <1>5

LEMMA RecordsTyped ==
  ASSUME Typed, Records
  PROVE  /\ rec' \in Recorder /\ saved' \in Seq(Record)
         /\ up' \in Seq(Event) /\ shows' \in Seq(Event) /\ Head(up) \in Event
<1>1. up \in Seq(Event) /\ up # <<>> /\ Head(up) \in Event /\ Tail(up) \in Seq(Event)
  BY DEF Typed, Records
<1>2. OnEvent(rec, Head(up)) \in Recorder /\ Finished(rec, Head(up)) \in Seq(Record)
  BY <1>1, OnEventTyped DEF Typed
<1>3. saved \o Finished(rec, Head(up)) \in Seq(Record)
  BY <1>2, ConcatProperties DEF Typed
<1>. QED
  BY <1>1, <1>2, <1>3 DEF Records, Typed

LEMMA ReduceTyped == ASSUME NEW p \in Panel, NEW ev \in Carried PROVE Reduce(p, ev) \in Panel
BY DEF Reduce, Panel, Carried, FinishedEvents

LEMMA OthersShape == ASSUME Shape, WorkerDies \/ Records \/ Shows \/ UNCHANGED vars PROVE Shape'
<1>1. CASE WorkerDies
  <2>. USE DEF WorkerDies
  <2>3. queue' \in Seq(Command) /\ alive' \in BOOLEAN
    <3>1. queue' = <<>> /\ alive' = FALSE
      BY <1>1
    <3>2. <<>> \in Seq(Command)
      OBVIOUS
    <3>. QED
      BY <3>1, <3>2
  <2>4. /\ panel' = panel /\ posts' = posts /\ phase' = phase /\ flag' = flag /\ at' = at /\ due' = due
        /\ ran' = ran /\ runs' = runs /\ refused' = refused /\ up' = up /\ shows' = shows /\ rec' = rec
        /\ saved' = saved /\ crossed' = crossed /\ cut' = cut
    BY <1>1
  <2>1. Typed'
    BY <2>3, <2>4 DEF Shape, Typed
  <2>2. Current' /\ Trail' /\ Pace' /\ Whole'
    BY <1>1, BoundsAssumption DEF WorkerDies, Shape, Current, Trail, Pace, Whole, Live, Typed, Inputs
  <2>. QED
    BY <2>1, <2>2 DEF Shape
<1>2. CASE Records
  <2>1. Typed'
    BY <1>2, RecordsTyped DEF Records, worker, Shape, Typed
  <2>2. Current' /\ Trail' /\ Pace' /\ Whole'
    BY <1>2 DEF Records, worker, Shape, Current, Trail, Pace, Whole, Live
  <2>. QED
    BY <2>1, <2>2 DEF Shape
<1>3. CASE Shows
  <2>1. Head(shows) \in Event /\ Tail(shows) \in Seq(Event) /\ Typed
    BY <1>3 DEF Shows, Shape, Typed
  <2>2. panel' \in Panel
    <3>1. panel \in Panel /\ panel' = Reduce(panel, Head(shows).ev) /\ Head(shows).ev \in Carried
      BY <1>3, <2>1 DEF Shows, Typed, Event
    <3>. QED
      BY <3>1, ReduceTyped
  <2>3. Typed'
    BY <1>3, <2>1, <2>2 DEF Shows, worker, Typed
  <2>4. Current' /\ Trail' /\ Pace' /\ Whole'
    BY <1>3 DEF Shows, worker, Shape, Current, Trail, Pace, Whole, Live
  <2>. QED
    BY <2>3, <2>4 DEF Shape
<1>4. CASE UNCHANGED vars
  BY <1>4 DEF vars, worker, Shape, Typed, Current, Pace, Trail, Whole, Live
<1>. QED
  BY <1>1, <1>2, <1>3, <1>4

LEMMA ShapeHolds == Spec => []Shape
<1>1. Init => Shape
  <2>. SUFFICES ASSUME Init PROVE Shape
    OBVIOUS
  <2>3. panel \in Panel /\ 0 \in Inputs /\ Nowhere \in Nodes \cup {Nowhere}
    BY BoundsAssumption DEF Init, Panel, Inputs
  <2>4. rec \in Recorder
    BY <2>3 DEF Init, Recorder
  <2>5. <<>> \in Seq(Command) /\ <<>> \in Seq(Event) /\ <<>> \in Seq(Record) /\ <<>> \in Seq(Run)
    OBVIOUS
  <2>6. /\ posts = 0 /\ queue = <<>> /\ phase = "idle" /\ flag = FALSE /\ at = Nowhere /\ due = "any"
        /\ ran = 0 /\ alive = TRUE /\ cut = FALSE /\ up = <<>> /\ shows = <<>> /\ saved = <<>> /\ runs = <<>>
        /\ crossed = FALSE /\ refused = FALSE
    BY DEF Init, Proto!Init
  <2>1. Typed
    BY <2>3, <2>4, <2>5, <2>6 DEF Typed
  <2>2. Current /\ Pace /\ Trail /\ Whole
    BY BoundsAssumption DEF Init, Proto!Init, Current, Pace, Trail, Whole, Live
  <2>. QED
    BY <2>1, <2>2 DEF Shape
<1>2. Shape /\ [Next]_vars => Shape'
  <2>. SUFFICES ASSUME Shape, [Next]_vars PROVE Shape'
    OBVIOUS
  <2>1. CASE User
    BY <2>1, Clicks, PostShape DEF Shape
  <2>2. CASE Worker
    BY <2>2, TakesRunShape, NodeRunsShape, PausesShape, EndingsShape, QuietShape, ForksShape DEF Worker
  <2>3. CASE WorkerDies \/ Records \/ Shows \/ UNCHANGED vars
    BY <2>3, OthersShape
  <2>. QED
    BY <2>1, <2>2, <2>3 DEF Next
<1>. QED
  BY <1>1, <1>2, PTL DEF Spec

-----------------------------------------------------------------------------
(* Steerable: the panel, once it has taken what is under way, suits what    *)
(* the worker is doing.                                                     *)

LEMMA JoinsAppend ==
  ASSUME NEW S, NEW s \in Seq(S), NEW t \in Seq(S), NEW e \in S
  PROVE  s \o Append(t, e) = Append(s \o t, e)
<1>1. /\ Append(t, e) = t \o <<e>> /\ <<e>> \in Seq(S)
      /\ Append(s \o t, e) = (s \o t) \o <<e>>
  BY ConcatProperties, AppendIsConcat
<1>2. (s \o t) \o <<e>> = s \o (t \o <<e>>)
  BY <1>1, ConcatAssociative
<1>. QED
  BY <1>1, <1>2

LEMMA JoinsHead ==
  ASSUME NEW S, NEW s \in Seq(S), NEW t \in Seq(S), t # <<>>
  PROVE  Append(s, Head(t)) \o Tail(t) = s \o t
<1>. DEFINE h == <<Head(t)>>
            r == Tail(t)
<1>1. h \in Seq(S) /\ r \in Seq(S) /\ Append(s, Head(t)) = s \o h
  BY AppendIsConcat
<1>2. (s \o h) \o r = s \o (h \o r)
  BY <1>1, ConcatAssociative
<1>3. h \o r = t
  <2>1. /\ h \o r \in Seq(S) /\ Len(h \o r) = Len(h) + Len(r)
        /\ \A i \in 1 .. Len(h) + Len(r) : (h \o r)[i] = IF i <= Len(h) THEN h[i] ELSE r[i - Len(h)]
    BY <1>1, ConcatProperties, Zenon
  <2>2. Len(h) = 1 /\ h[1] = t[1] /\ Len(t) \in Nat \ {0} /\ Len(r) = Len(t) - 1
        /\ \A i \in 1 .. Len(r) : r[i] = t[i + 1]
    OBVIOUS
  <2>. DEFINE u == h \o r
  <2>. HIDE DEF u, h, r
  <2>3. u \in Seq(S) /\ Len(u) = Len(t)
    BY <2>1, <2>2 DEF u
  <2>4. ASSUME NEW i \in 1 .. Len(t)
        PROVE  u[i] = t[i]
    <3>1. CASE i = 1
      BY <2>1, <2>2, <3>1 DEF u
    <3>2. CASE i # 1
      <4>1. i - 1 \in 1 .. Len(r) /\ (i - 1) + 1 = i /\ ~(i <= 1) /\ i \in 1 .. 1 + Len(r)
        BY <2>2, <3>2
      <4>2. u[i] = r[i - 1]
        BY <2>1, <2>2, <4>1 DEF u
      <4>. QED
        BY <2>2, <4>1, <4>2
    <3>. QED
      BY <3>1, <3>2
  <2>5. u = t
    BY <2>3, <2>4
  <2>. QED
    BY <2>5 DEF u
<1>. QED
  BY <1>1, <1>2, <1>3

LEMMA JoinsRest ==
  ASSUME NEW S, NEW s \in Seq(S), s # <<>>, NEW t \in Seq(S)
  PROVE  /\ s \o t \in Seq(S) /\ s \o t # <<>>
         /\ Head(s \o t) = Head(s) /\ Tail(s \o t) = Tail(s) \o t
<1>. DEFINE u == s \o t
            r == Tail(s) \o t
<1>1. /\ u \in Seq(S) /\ Len(u) = Len(s) + Len(t) /\ Len(s) \in Nat \ {0} /\ Len(t) \in Nat
      /\ \A i \in 1 .. Len(s) + Len(t) : u[i] = IF i <= Len(s) THEN s[i] ELSE t[i - Len(s)]
  BY ConcatProperties
<1>2. /\ Tail(s) \in Seq(S) /\ Len(Tail(s)) = Len(s) - 1
      /\ \A i \in 1 .. Len(s) - 1 : Tail(s)[i] = s[i + 1]
  BY HeadTailProperties
<1>3. /\ r \in Seq(S) /\ Len(r) = Len(Tail(s)) + Len(t)
      /\ \A i \in 1 .. Len(Tail(s)) + Len(t) :
           r[i] = IF i <= Len(Tail(s)) THEN Tail(s)[i] ELSE t[i - Len(Tail(s))]
  BY <1>2, ConcatProperties
<1>. HIDE DEF u, r
<1>4. u # <<>> /\ Head(u) = s[1] /\ Head(s) = s[1]
  BY <1>1
<1>5. /\ Tail(u) \in Seq(S) /\ Len(Tail(u)) = Len(u) - 1
      /\ \A i \in 1 .. Len(u) - 1 : Tail(u)[i] = u[i + 1]
  BY <1>1, <1>4, HeadTailProperties
<1>6. Len(Tail(u)) = Len(r) /\ Len(r) = Len(s) + Len(t) - 1
  BY <1>1, <1>2, <1>3, <1>5
<1>7. ASSUME NEW i \in 1 .. Len(s) + Len(t) - 1
      PROVE  Tail(u)[i] = r[i]
  <2>1. Tail(u)[i] = IF i + 1 <= Len(s) THEN s[i + 1] ELSE t[(i + 1) - Len(s)]
    BY <1>1, <1>5
  <2>2. r[i] = IF i <= Len(s) - 1 THEN s[i + 1] ELSE t[i - (Len(s) - 1)]
    BY <1>1, <1>2, <1>3
  <2>3. (i + 1) - Len(s) = i - (Len(s) - 1) /\ (i + 1 <= Len(s) <=> i <= Len(s) - 1)
    BY <1>1
  <2>4. CASE i <= Len(s) - 1
    BY <2>1, <2>2, <2>3, <2>4
  <2>5. CASE ~(i <= Len(s) - 1)
    <3>1. Tail(u)[i] = t[(i + 1) - Len(s)]
      BY <2>1, <2>3, <2>5
    <3>2. r[i] = t[i - (Len(s) - 1)]
      BY <2>2, <2>5
    <3>. QED
      BY <2>3, <3>1, <3>2
  <2>. QED
    BY <2>4, <2>5
<1>8. Tail(u) = r
  BY <1>3, <1>5, <1>6, <1>7
<1>. QED
  BY <1>1, <1>4, <1>8 DEF u, r

Showing == {<<p, e, Reduce(p, e.ev)>> : p \in Panel, e \in Event}

\* No node of the current run has started.
Unstarted == runs[Len(runs)].path = <<>>

Suits(p) ==
  /\ Live => p.running
  /\ phase = "idle" => ~p.running /\ ~p.paused /\ ~p.pending
  /\ phase = "breakpoint" => p.paused /\ p.timeline /\ (p.pending => Unstarted)
  /\ phase = "manual" => p.pending /\ ~p.paused /\ p.timeline
  /\ phase = "running" /\ due = "any" => ~p.paused /\ (p.pending => Unstarted)

Shown(p) == p \in Panel /\ Reaches(Showing, panel, shows \o up, p)

PanelFollows == alive => \E p : Shown(p) /\ (refused \/ Suits(p))

\* An event more is one that the panel takes last.
LEMMA ShowsMore ==
  ASSUME Typed, NEW p, Shown(p), NEW e \in Event, panel' = panel, shows' = shows, up' = Append(up, e)
  PROVE  Shown(Reduce(p, e.ev))'
<1>1. shows' \o up' = Append(shows \o up, e) /\ shows \o up \in Seq(Event)
  BY JoinsAppend, ConcatProperties DEF Typed
<1>2. <<p, e, Reduce(p, e.ev)>> \in Showing
  BY DEF Showing, Shown
<1>3. Reaches(Showing, panel', shows' \o up', Reduce(p, e.ev))
  BY <1>1, <1>2, ReachesOneMore DEF Shown
<1>4. Reduce(p, e.ev) \in Panel
  BY ReduceTyped DEF Shown, Event
<1>. QED
  BY <1>3, <1>4 DEF Shown

LEMMA ShowsTwoMore ==
  ASSUME Typed, NEW p, Shown(p), NEW e \in Event, NEW f \in Event,
         panel' = panel, shows' = shows, up' = Append(Append(up, e), f)
  PROVE  Shown(Reduce(Reduce(p, e.ev), f.ev))'
<1>1. /\ shows \o up \in Seq(Event) /\ Append(shows \o up, e) \in Seq(Event)
      /\ shows' \o up' = Append(Append(shows \o up, e), f)
  <2>1. up \in Seq(Event) /\ shows \in Seq(Event) /\ Append(up, e) \in Seq(Event)
    BY AppendProperties DEF Typed
  <2>2. shows \o up \in Seq(Event) /\ Append(shows \o up, e) \in Seq(Event)
    BY <2>1, ConcatProperties, AppendProperties
  <2>3. shows \o Append(up, e) = Append(shows \o up, e)
    BY <2>1, JoinsAppend
  <2>4. shows \o Append(Append(up, e), f) = Append(shows \o Append(up, e), f)
    BY <2>1, JoinsAppend
  <2>. QED
    BY <2>2, <2>3, <2>4
<1>2. Reduce(p, e.ev) \in Panel /\ Reduce(Reduce(p, e.ev), f.ev) \in Panel
  BY ReduceTyped DEF Shown, Event
<1>3. /\ <<p, e, Reduce(p, e.ev)>> \in Showing
      /\ <<Reduce(p, e.ev), f, Reduce(Reduce(p, e.ev), f.ev)>> \in Showing
  BY <1>2 DEF Showing, Shown
<1>4. Reaches(Showing, panel, Append(shows \o up, e), Reduce(p, e.ev))
  BY <1>1, <1>3, ReachesOneMore DEF Shown
<1>5. Reaches(Showing, panel', shows' \o up', Reduce(Reduce(p, e.ev), f.ev))
  BY <1>1, <1>3, <1>4, ReachesOneMore
<1>. QED
  BY <1>2, <1>5 DEF Shown

LEMMA PanelWorker == ASSUME Shape, PanelFollows, Worker PROVE PanelFollows'
<1>1. PICK p : Shown(p) /\ (refused \/ Suits(p))
  BY WorkerKeeps DEF PanelFollows, Shape
<1>2. /\ Typed /\ p \in Panel /\ panel' = panel /\ shows' = shows
      /\ at' \in Nodes \cup {Nowhere}
  BY <1>1, WorkerKeeps, TakesRunShape, NodeRunsShape, PausesShape, EndingsShape, QuietShape,
     ForksShape DEF Worker, Shape, Typed, Shown
<1>3. \A ev \in Carried \ {"node_start"} : Now(ev) \in Event /\ Now(ev).ev = ev
  BY <1>2, NowTyped DEF Now
<1>4. /\ p.running \in BOOLEAN /\ p.paused \in BOOLEAN /\ p.pending \in BOOLEAN /\ p.timeline \in BOOLEAN
  BY <1>2 DEF Panel
<1>5. CASE TakesRun
  <2>. DEFINE q == Reduce(p, "run_started")
  <2>1. Shown(q)'
    BY <1>1, <1>2, <1>3, <1>5, EmitsTakesRun, ShowsMore DEF Carried
  <2>2. /\ phase = "idle" /\ phase' = "running" /\ due' = "any" /\ refused' = refused
    BY <1>5 DEF TakesRun, Proto!Starts, Proto!Moves
  <2>3. q = [p EXCEPT !.running = TRUE, !.paused = FALSE, !.timeline = FALSE]
    BY DEF Reduce, FinishedEvents
  <2>4. refused \/ Suits(q)'
    BY <1>1, <1>2, <1>4, <2>2, <2>3 DEF Suits, Live, Panel
  <2>. HIDE DEF q
  <2>. QED
    BY <2>1, <2>2, <2>4 DEF PanelFollows
<1>6. CASE NodeRuns
  <2>. DEFINE q == Reduce(p, "node_start")
  <2>1. Now("node_start") \in Event /\ Now("node_start").ev = "node_start"
    BY <1>2, <1>6, NodeRunsPath, NowTyped DEF Now, Carried
  <2>2. Shown(q)'
    BY <1>1, <1>2, <1>6, <2>1, EmitsNodeRuns, ShowsMore
  <2>3. /\ phase = "running" /\ phase' = "running" /\ refused' = refused
    BY <1>6, NodeRunsPath
  <2>4. q = [p EXCEPT !.pending = FALSE, !.paused = FALSE]
    BY DEF Reduce, FinishedEvents
  <2>5. refused \/ Suits(q)'
    BY <1>1, <1>2, <2>3, <2>4 DEF Suits, Live, Panel
  <2>. HIDE DEF q
  <2>. QED
    BY <2>2, <2>3, <2>5 DEF PanelFollows
<1>7. CASE PausesManually
  <2>. DEFINE q == Reduce(Reduce(p, "manual_inference_required"), "checkpoint_history")
  <2>1. Shown(q)'
    BY <1>1, <1>2, <1>3, <1>7, EmitsPausesManually, ShowsTwoMore DEF Carried
  <2>2. /\ phase = "running" /\ phase' = "manual" /\ due = "any" /\ refused' = refused
    BY <1>7 DEF PausesManually, Proto!PausesForAnswer, Proto!Moves
  <2>3. q = [[p EXCEPT !.pending = TRUE] EXCEPT !.timeline = TRUE]
    BY DEF Reduce, FinishedEvents
  <2>4. refused \/ Suits(q)'
    BY <1>1, <1>2, <2>2, <2>3 DEF Suits, Live, Panel
  <2>. HIDE DEF q
  <2>. QED
    BY <2>1, <2>2, <2>4 DEF PanelFollows
<1>8. CASE PausesAtBreakpoint
  <2>. DEFINE q == Reduce(Reduce(p, "breakpoint_hit"), "checkpoint_history")
  <2>1. Shown(q)'
    BY <1>1, <1>2, <1>3, <1>8, EmitsPausesAtBreakpoint, ShowsTwoMore DEF Carried
  <2>2. /\ phase = "running" /\ phase' = "breakpoint" /\ due = "any" /\ refused' = refused
        /\ runs' = runs
    BY <1>8 DEF PausesAtBreakpoint, Proto!PausesAtNode, Proto!Moves
  <2>3. q = [[p EXCEPT !.paused = TRUE] EXCEPT !.timeline = TRUE]
    BY DEF Reduce, FinishedEvents
  <2>4. refused \/ Suits(q)'
    BY <1>1, <1>2, <2>2, <2>3 DEF Suits, Live, Panel, Unstarted
  <2>. HIDE DEF q
  <2>. QED
    BY <2>1, <2>2, <2>4 DEF PanelFollows
<1>9. CASE Completes \/ AbortsStream \/ AbortsPause
  <2>1. PICK ev \in FinishedEvents : up' = Append(up, Now(ev))
    BY <1>2, <1>9, EmitsCompletes, EmitsAborts DEF FinishedEvents
  <2>. DEFINE q == Reduce(p, ev)
  <2>2. Now(ev) \in Event /\ Now(ev).ev = ev
    BY <1>3 DEF Carried, FinishedEvents
  <2>3. Shown(q)'
    BY <1>1, <1>2, <2>1, <2>2, ShowsMore
  <2>4. phase' = "idle"
    BY <1>9, EndingsLeave DEF Leaves
  <2>5. q = [p EXCEPT !.running = FALSE, !.pending = FALSE, !.paused = FALSE]
    BY DEF Reduce, FinishedEvents
  <2>6. Suits(q)'
    BY <1>2, <2>4, <2>5 DEF Suits, Live, Panel
  <2>. HIDE DEF q
  <2>. QED
    BY <2>3, <2>6 DEF PanelFollows
<1>10. CASE Fails \/ Refuses \/ ForkRaises
  <2>. DEFINE q == Reduce(p, "error")
  <2>1. Shown(q)'
    BY <1>1, <1>2, <1>3, <1>10, EmitsError, ShowsMore DEF Carried
  <2>2. CASE Fails
    <3>1. phase = "running" /\ phase' = "idle" /\ refused' = (refused \/ due # "any" \/ Unstarted)
      BY <2>2 DEF Fails, Proto!Fails, Proto!Moves, Unstarted
    <3>2. q = [p EXCEPT !.running = FALSE]
      BY DEF Reduce, FinishedEvents
    <3>3. refused' \/ Suits(q)'
      BY <1>1, <1>2, <3>1, <3>2 DEF Suits, Live, Panel
    <3>. HIDE DEF q
    <3>. QED
      BY <2>1, <3>3 DEF PanelFollows
  <2>3. CASE Refuses \/ ForkRaises
    <3>1. refused'
      BY <2>3 DEF Refuses, ForkRaises
    <3>. HIDE DEF q
    <3>. QED
      BY <2>1, <3>1 DEF PanelFollows
  <2>. QED
    BY <1>10, <2>2, <2>3
<1>11. CASE Forks
  <2>. DEFINE q == Reduce(p, "run_started")
  <2>1. Shown(q)'
    BY <1>1, <1>2, <1>3, <1>11, EmitsForks, ShowsMore DEF Carried
  <2>2. phase' = "running" /\ refused' = refused /\ Unstarted'
    BY <1>11, ForksRuns DEF Unstarted
  <2>3. q = [p EXCEPT !.running = TRUE, !.paused = FALSE, !.timeline = FALSE]
    BY DEF Reduce, FinishedEvents
  <2>4. Suits(q)'
    BY <1>2, <2>2, <2>3 DEF Suits, Live, Panel
  <2>. HIDE DEF q
  <2>. QED
    BY <2>1, <2>4 DEF PanelFollows
<1>12. CASE Advances \/ Drops
  <2>1. Shown(p)'
    BY <1>1, <1>2, <1>12, EmitsNothing DEF Shown
  <2>2. /\ refused' = refused /\ due' = due /\ runs' = runs
        /\ \/ phase' = phase
           \/ phase \in {"manual", "breakpoint"} /\ phase' = "running"
    BY <1>12 DEF Advances, Drops, Proto!Continues, Proto!Quiet, Proto!Moves
  <2>3. refused \/ Suits(p)'
    BY <1>1, <2>2 DEF Shape, Pace, Suits, Live, Unstarted
  <2>. QED
    BY <2>1, <2>2, <2>3 DEF PanelFollows
<1>. QED
  BY <1>5, <1>6, <1>7, <1>8, <1>9, <1>10, <1>11, <1>12 DEF Worker

LEMMA PanelOthers ==
  ASSUME Shape, PanelFollows, User \/ WorkerDies \/ Records \/ Shows \/ UNCHANGED vars
  PROVE  PanelFollows'
<1>. SUFFICES ASSUME alive' PROVE PanelFollows'
  BY DEF PanelFollows
<1>2. Typed
  BY DEF Shape
<1>6. alive /\ ~WorkerDies
  BY <1>2, Clicks DEF Post, WorkerDies, Records, Shows, vars, worker
<1>1. PICK p : Shown(p) /\ (refused \/ Suits(p))
  BY <1>6 DEF PanelFollows
<1>3. phase' = phase /\ due' = due /\ refused' = refused /\ runs' = runs
  BY <1>2, Clicks DEF Post, WorkerDies, Records, Shows, vars, worker
<1>4. Suits(p) => Suits(p)'
  BY <1>3 DEF Suits, Live, Unstarted
<1>5. Shown(p)'
  <2>1. CASE User \/ UNCHANGED vars
    <3>1. panel' = panel /\ shows' = shows /\ up' = up
      BY <1>2, <1>6, <2>1, Clicks DEF Post, vars
    <3>. QED
      BY <1>1, <3>1 DEF Shown
  <2>2. CASE Records
    <3>1. panel' = panel /\ shows' \o up' = shows \o up
      BY <1>2, <2>2, JoinsHead DEF Records, Typed
    <3>. QED
      BY <1>1, <3>1 DEF Shown
  <2>3. CASE Shows
    <3>1. /\ shows \in Seq(Event) /\ shows # <<>> /\ up \in Seq(Event)
          /\ shows' = Tail(shows) /\ up' = up /\ panel' = Reduce(panel, Head(shows).ev)
      BY <1>2, <2>3 DEF Shows, Typed
    <3>2. /\ shows \o up \in Seq(Event) /\ shows \o up # <<>>
          /\ Head(shows \o up) = Head(shows) /\ Tail(shows \o up) = shows' \o up'
      BY <3>1, JoinsRest
    <3>3. PICK d : <<panel, Head(shows), d>> \in Showing /\ Reaches(Showing, d, shows' \o up', p)
      BY <1>1, <3>2, ReachesRest DEF Shown
    <3>4. d = panel'
      BY <3>1, <3>3 DEF Showing
    <3>. QED
      BY <1>1, <3>3, <3>4 DEF Shown
  <2>. QED
    BY <1>6, <2>1, <2>2, <2>3
<1>. QED
  BY <1>1, <1>3, <1>4, <1>5 DEF PanelFollows

\* The panel offers what the worker is waiting for, whatever delays there were, once
\* everything has arrived: at a pause what that pause needs, and nothing of an earlier one
\* once a node of the run has started; in a run no second one, in no run nothing to stop
\* (model.ts reduce, worker.py's pauses and forks).
THEOREM PanelSuitsWorker == Spec => []Steerable
<1>1. Init => PanelFollows
  <2>. SUFFICES ASSUME Init PROVE PanelFollows
    OBVIOUS
  <2>1. /\ panel = [running |-> FALSE, paused |-> FALSE, pending |-> FALSE, timeline |-> FALSE]
        /\ shows = <<>> /\ up = <<>> /\ phase = "idle"
    BY DEF Init, Proto!Init
  <2>2. shows \o up = <<>> /\ panel \in Panel
    BY <2>1 DEF Panel
  <2>3. Shown(panel)
    BY <2>2, ReachesNone DEF Shown
  <2>4. Suits(panel)
    BY <2>1 DEF Suits, Live
  <2>. QED
    BY <2>3, <2>4 DEF PanelFollows
<1>2. Shape /\ PanelFollows /\ [Next]_vars => PanelFollows'
  BY PanelWorker, PanelOthers DEF Next
<1>3. PanelFollows => Steerable
  <2>. SUFFICES ASSUME PanelFollows, Delivered, alive, ~refused
                PROVE  /\ Live => panel.running
                       /\ phase = "breakpoint" =>
                            panel.paused /\ panel.timeline /\ (panel.pending => Unstarted)
                       /\ phase = "manual" => panel.pending /\ ~panel.paused /\ panel.timeline
                       /\ phase = "idle" => ~StopOffered
    BY DEF Steerable, Unstarted
  <2>1. PICK p : Shown(p) /\ Suits(p)
    BY DEF PanelFollows
  <2>2. shows \o up = <<>>
    BY DEF Delivered
  <2>3. panel = p
    BY <2>1, <2>2, NowhereElse DEF Shown
  <2>. QED
    BY <2>1, <2>3 DEF Suits, StopOffered
<1>. QED
  BY <1>1, <1>2, <1>3, ShapeHolds, PTL DEF Spec

-----------------------------------------------------------------------------
(* HistoryTrue: what the recorder will have told when it has taken the      *)
(* events under way is what ran.                                            *)

\* What a recording tells of a run, apart from its input.
Account == [nodePath : Seq(Nodes), status : FinishedEvents]
Told == [open : BOOLEAN, path : Seq(Nodes), kept : Seq(Account)]

Tell(t, e) ==
  CASE e.ev = "run_started" -> [t EXCEPT !.open = TRUE, !.path = <<>>]
    [] e.ev = "node_start" /\ t.open ->
         IF t.path # <<>> /\ t.path[Len(t.path)] = e.node THEN t
         ELSE [t EXCEPT !.path = Append(@, e.node)]
    [] e.ev \in FinishedEvents ->
         IF t.open THEN [t EXCEPT !.open = FALSE,
                                  !.kept = Append(@, [nodePath |-> t.path, status |-> e.ev])]
         ELSE t
    [] OTHER -> t

Telling == {<<t, e, Tell(t, e)>> : t \in Told, e \in Event}

Accounts(s) == [k \in DOMAIN s |-> [nodePath |-> s[k].nodePath, status |-> s[k].status]]
TellsOf(r, s) == [open |-> r.open, path |-> r.nodePath, kept |-> Accounts(s)]

RanAt == {k \in DOMAIN runs : runs[k].status \in FinishedEvents}

Tells(t) == t \in Told /\ Reaches(Telling, TellsOf(rec, saved), up, t)

\* What it tells of the runs that finished, and of the current one.
TrueOfPast(t) ==
  /\ Len(t.kept) <= Len(Ran)
  /\ ~cut => Len(t.kept) = Len(Ran)
  /\ \A k \in 1 .. Len(t.kept) :
       t.kept[k].status = Ran[k].status /\ t.kept[k].nodePath = Collapsed(Ran[k].path)

TrueOfCurrent(t) ==
  Live /\ ~cut =>
    /\ t.open /\ t.path = Collapsed(runs[Len(runs)].path)
    /\ t.path = <<>> <=> runs[Len(runs)].path = <<>>
    /\ t.path # <<>> => t.path[Len(t.path)] = at

RecorderFollows == \E t : Tells(t) /\ TrueOfPast(t) /\ TrueOfCurrent(t)

LEMMA TellTyped == ASSUME NEW t \in Told, NEW e \in Event PROVE Tell(t, e) \in Told
<1>1. t.open \in BOOLEAN /\ t.path \in Seq(Nodes) /\ t.kept \in Seq(Account)
  BY DEF Told
<1>2. CASE e.ev = "run_started"
  <2>1. Tell(t, e) = [t EXCEPT !.open = TRUE, !.path = <<>>] /\ <<>> \in Seq(Nodes)
    BY <1>2 DEF Tell, FinishedEvents
  <2>. QED
    BY <1>1, <2>1 DEF Told
<1>3. CASE e.ev = "node_start"
  <2>1. Append(t.path, e.node) \in Seq(Nodes)
    BY <1>1, <1>3 DEF Event
  <2>2. [t EXCEPT !.path = Append(@, e.node)] \in Told
    BY <1>1, <2>1 DEF Told
  <2>. QED
    BY <1>3, <2>2 DEF Tell, FinishedEvents
<1>4. CASE e.ev \in FinishedEvents
  <2>. DEFINE x == [nodePath |-> t.path, status |-> e.ev]
  <2>1. x \in Account
    BY <1>1, <1>4 DEF Account
  <2>2. Tell(t, e) = IF t.open THEN [t EXCEPT !.open = FALSE, !.kept = Append(@, x)] ELSE t
    BY <1>4 DEF Tell, FinishedEvents
  <2>. HIDE DEF x
  <2>3. Append(t.kept, x) \in Seq(Account)
    BY <1>1, <2>1
  <2>4. [t EXCEPT !.open = FALSE, !.kept = Append(@, x)] \in Told
    BY <1>1, <2>3 DEF Told
  <2>. QED
    BY <2>2, <2>4
<1>5. CASE e.ev \notin {"run_started", "node_start"} \cup FinishedEvents
  BY <1>5 DEF Tell, FinishedEvents
<1>. QED
  BY <1>2, <1>3, <1>4, <1>5

LEMMA AccountsTyped ==
  ASSUME NEW s \in Seq(Record)
  PROVE  /\ Accounts(s) \in Seq(Account) /\ Len(Accounts(s)) = Len(s)
         /\ \A k \in 1 .. Len(s) : Accounts(s)[k] = [nodePath |-> s[k].nodePath, status |-> s[k].status]
<1>. DEFINE a == Accounts(s)
<1>1. Len(s) \in Nat /\ DOMAIN s = 1 .. Len(s) /\ \A k \in 1 .. Len(s) : s[k] \in Record
  OBVIOUS
<1>2. a = [k \in 1 .. Len(s) |-> [nodePath |-> s[k].nodePath, status |-> s[k].status]]
  BY <1>1 DEF Accounts
<1>3. \A k \in 1 .. Len(s) : [nodePath |-> s[k].nodePath, status |-> s[k].status] \in Account
  BY <1>1 DEF Record, Account
<1>4. \A k \in 1 .. Len(s) : a[k] = [nodePath |-> s[k].nodePath, status |-> s[k].status]
  BY <1>2
<1>5. DOMAIN a = 1 .. Len(s) /\ a = [k \in 1 .. Len(s) |-> a[k]]
  BY <1>2
<1>. HIDE DEF a
<1>6. a \in Seq(Account) /\ Len(a) = Len(s)
  BY <1>1, <1>3, <1>4, <1>5
<1>. QED
  BY <1>4, <1>6 DEF a

LEMMA AccountsAppend ==
  ASSUME NEW s \in Seq(Record), NEW x \in Record
  PROVE  Accounts(Append(s, x)) = Append(Accounts(s), [nodePath |-> x.nodePath, status |-> x.status])
<1>. DEFINE n == Len(s)
            y == [nodePath |-> x.nodePath, status |-> x.status]
            a == Accounts(Append(s, x))
            b == Append(Accounts(s), y)
<1>1. /\ n \in Nat /\ Append(s, x) \in Seq(Record) /\ Len(Append(s, x)) = n + 1
      /\ Append(s, x)[n + 1] = x /\ \A k \in 1 .. n : Append(s, x)[k] = s[k]
  OBVIOUS
<1>2. y \in Account
  BY DEF Record, Account
<1>3. /\ a \in Seq(Account) /\ Len(a) = n + 1
      /\ \A k \in 1 .. n + 1 : a[k] = [nodePath |-> Append(s, x)[k].nodePath, status |-> Append(s, x)[k].status]
  BY <1>1, AccountsTyped
<1>4. a[n + 1] = y /\ \A k \in 1 .. n : a[k] = [nodePath |-> s[k].nodePath, status |-> s[k].status]
  <2>1. n + 1 \in 1 .. n + 1 /\ \A k \in 1 .. n : k \in 1 .. n + 1
    BY <1>1
  <2>. QED
    BY <1>1, <1>3, <2>1
<1>5. /\ Accounts(s) \in Seq(Account) /\ Len(Accounts(s)) = n
      /\ \A k \in 1 .. n : Accounts(s)[k] = [nodePath |-> s[k].nodePath, status |-> s[k].status]
  BY AccountsTyped
<1>. HIDE DEF y, a
<1>6. /\ b \in Seq(Account) /\ Len(b) = n + 1 /\ b[n + 1] = y
      /\ \A k \in 1 .. n : b[k] = Accounts(s)[k]
  BY <1>2, <1>5
<1>. HIDE DEF b, n
<1>7. \A k \in 1 .. n + 1 : a[k] = b[k]
  <2>1. \A k \in 1 .. n + 1 : k \in 1 .. n \/ k = n + 1
    BY <1>1
  <2>. QED
    BY <1>4, <1>5, <1>6, <2>1
<1>8. a = b
  BY <1>1, <1>3, <1>6, <1>7
<1>. QED
  BY <1>8 DEF a, b, y

\* The recorder does what Tell says.
LEMMA OnEventTells ==
  ASSUME NEW r \in Recorder, NEW s \in Seq(Record), NEW e \in Event
  PROVE  /\ TellsOf(r, s) \in Told
         /\ TellsOf(OnEvent(r, e), s \o Finished(r, e)) = Tell(TellsOf(r, s), e)
<1>. DEFINE t == TellsOf(r, s)
            x == [input |-> r.input, nodePath |-> r.nodePath, status |-> e.ev]
            y == [nodePath |-> r.nodePath, status |-> e.ev]
<1>1. /\ r.pendingInput \in Inputs /\ r.open \in BOOLEAN /\ r.input \in Inputs /\ r.nodePath \in Seq(Nodes)
      /\ r = [pendingInput |-> r.pendingInput, open |-> r.open, input |-> r.input, nodePath |-> r.nodePath]
  BY DEF Recorder
<1>2. t = [open |-> r.open, path |-> r.nodePath, kept |-> Accounts(s)] /\ Accounts(s) \in Seq(Account)
  BY AccountsTyped DEF TellsOf
<1>3. t \in Told
  BY <1>1, <1>2 DEF Told
<1>4. Finished(r, e) = <<>> => s \o Finished(r, e) = s
  BY ConcatEmptySeq
<1>5. CASE e.ev = "run_started"
  <2>1. Finished(r, e) = <<>> /\ OnEvent(r, e).open = TRUE /\ OnEvent(r, e).nodePath = <<>>
    BY <1>5 DEF Finished, FinishedEvents, OnEvent, Opened
  <2>2. Tell(t, e) = [t EXCEPT !.open = TRUE, !.path = <<>>]
    BY <1>5 DEF Tell, FinishedEvents
  <2>. QED
    BY <1>2, <1>3, <1>4, <2>1, <2>2 DEF TellsOf
<1>6. CASE e.ev = "node_start"
  <2>1. Finished(r, e) = <<>>
    BY <1>6 DEF Finished, FinishedEvents
  <2>2. OnEvent(r, e) = IF r.open THEN Visited(r, e.node) ELSE r
    BY <1>6 DEF OnEvent, FinishedEvents
  <2>3. Tell(t, e) = IF t.open
                     THEN IF t.path # <<>> /\ t.path[Len(t.path)] = e.node THEN t
                          ELSE [t EXCEPT !.path = Append(@, e.node)]
                     ELSE t
    BY <1>6 DEF Tell, FinishedEvents
  <2>4. t.open = r.open /\ t.path = r.nodePath
    BY <1>2
  <2>5. Last(r.nodePath) = r.nodePath[Len(r.nodePath)]
    BY DEF Last
  <2>6. CASE r.open /\ ~(r.nodePath # <<>> /\ r.nodePath[Len(r.nodePath)] = e.node)
    <3>1. OnEvent(r, e) = [r EXCEPT !.nodePath = Append(@, e.node)]
      BY <2>2, <2>5, <2>6 DEF Visited
    <3>2. Tell(t, e) = [t EXCEPT !.path = Append(@, e.node)]
      BY <2>3, <2>4, <2>6
    <3>. QED
      BY <1>1, <1>2, <1>3, <1>4, <2>1, <3>1, <3>2 DEF TellsOf
  <2>7. CASE ~(r.open /\ ~(r.nodePath # <<>> /\ r.nodePath[Len(r.nodePath)] = e.node))
    <3>1. OnEvent(r, e) = r
      BY <2>2, <2>5, <2>7 DEF Visited
    <3>2. Tell(t, e) = t
      BY <2>3, <2>4, <2>7
    <3>. QED
      BY <1>3, <1>4, <2>1, <3>1, <3>2
  <2>. QED
    BY <2>6, <2>7
<1>7. CASE e.ev \in FinishedEvents
  <2>1. OnEvent(r, e) = [r EXCEPT !.open = FALSE] /\ Finished(r, e) = IF r.open THEN <<x>> ELSE <<>>
    BY <1>7 DEF OnEvent, Finished, FinishedEvents
  <2>2. Tell(t, e) = IF t.open THEN [t EXCEPT !.open = FALSE, !.kept = Append(@, [nodePath |-> t.path, status |-> e.ev])]
                     ELSE t
    BY <1>7 DEF Tell, FinishedEvents
  <2>3. CASE r.open
    <3>1. x \in Record /\ y = [nodePath |-> x.nodePath, status |-> x.status]
      BY <1>1, <1>7 DEF Record
    <3>2. s \o Finished(r, e) = Append(s, x)
      BY <2>1, <2>3, <3>1, AppendIsConcat
    <3>3. Accounts(s \o Finished(r, e)) = Append(Accounts(s), y)
      BY <3>1, <3>2, AccountsAppend
    <3>4. Tell(t, e) = [t EXCEPT !.open = FALSE, !.kept = Append(@, y)]
      BY <1>2, <2>2, <2>3
    <3>. HIDE DEF x, y
    <3>5. OnEvent(r, e).open = FALSE /\ OnEvent(r, e).nodePath = r.nodePath
      BY <1>1, <2>1
    <3>. QED
      BY <1>2, <1>3, <3>3, <3>4, <3>5 DEF TellsOf
  <2>4. CASE ~r.open
    <3>1. OnEvent(r, e) = r
      BY <1>1, <2>1, <2>4
    <3>2. Tell(t, e) = t
      BY <1>2, <2>2, <2>4
    <3>. QED
      BY <1>3, <1>4, <2>1, <2>4, <3>1, <3>2
  <2>. QED
    BY <2>3, <2>4
<1>8. CASE e.ev \notin {"run_started", "node_start"} \cup FinishedEvents
  <2>1. OnEvent(r, e) = r /\ Finished(r, e) = <<>> /\ Tell(t, e) = t
    BY <1>8 DEF OnEvent, Finished, Tell, FinishedEvents
  <2>. QED
    BY <1>3, <1>4, <2>1
<1>. QED
  BY <1>5, <1>6, <1>7, <1>8

\* The runs that finished.
LEMMA RanTyped ==
  ASSUME runs \in Seq(Run)
  PROVE  /\ Ran = At(runs, RanAt) /\ RanAt \in SUBSET (1 .. Len(runs)) /\ Len(runs) \in Nat
         /\ Ran \in Seq(Run) /\ Len(Ran) \in Nat
         /\ \A k \in 1 .. Len(Ran) : Ran[k].status \in FinishedEvents /\ Ran[k] \in Run
<1>. DEFINE m == Len(runs)
            S == {r \in Run : r.status \in FinishedEvents}
<1>1. Ran = At(runs, RanAt)
  BY DEF Ran, RanAt
<1>2. m \in Nat /\ RanAt \in SUBSET (1 .. m) /\ \A p \in RanAt : runs[p] \in S
  BY DEF RanAt
<1>. HIDE DEF m, S
<1>3. At(runs, RanAt) \in Seq(S)
  BY <1>2, AtTyped
<1>4. Ran \in Seq(S) /\ Len(Ran) \in Nat
  BY <1>1, <1>3
<1>5. \A k \in 1 .. Len(Ran) : Ran[k] \in S
  BY <1>4
<1>6. \A k \in 1 .. Len(Ran) : Ran[k].status \in FinishedEvents /\ Ran[k] \in Run
  BY <1>5 DEF S
<1>7. Ran \in Seq(Run)
  BY <1>4 DEF S
<1>. QED
  BY <1>1, <1>2, <1>4, <1>6, <1>7 DEF m

LEMMA RanSame ==
  ASSUME runs \in Seq(Run), runs' \in Seq(Run), Len(runs) <= Len(runs'),
         \A k \in 1 .. Len(runs) :
           /\ runs'[k].status \in FinishedEvents <=> runs[k].status \in FinishedEvents
           /\ runs[k].status \in FinishedEvents => runs'[k] = runs[k],
         \A k \in 1 .. Len(runs') : k > Len(runs) => runs'[k].status \notin FinishedEvents
  PROVE  Ran' = Ran
<1>1. RanAt' = RanAt
  BY DEF RanAt
<1>2. /\ Ran = At(runs, RanAt) /\ Ran' = At(runs', RanAt') /\ RanAt \in SUBSET (1 .. Len(runs))
      /\ Len(runs) \in Nat
  BY DEF Ran, RanAt
<1>3. \A p \in RanAt : runs[p] = runs'[p]
  BY DEF RanAt
<1>4. At(runs, RanAt) = At(runs', RanAt)
  BY <1>2, <1>3, AtAgrees
<1>. QED
  BY <1>1, <1>2, <1>4

LEMMA RanMore ==
  ASSUME runs \in Seq(Run), runs # <<>>, runs[Len(runs)].status \notin FinishedEvents,
         runs' \in Seq(Run), Len(runs') = Len(runs),
         \A k \in 1 .. Len(runs) : k # Len(runs) => runs'[k] = runs[k],
         runs'[Len(runs)].status \in FinishedEvents
  PROVE  Ran' = Append(Ran, runs'[Len(runs)])
<1>. DEFINE n == Len(runs)
<1>1. n \in Nat \ {0} /\ DOMAIN runs = 1 .. n /\ DOMAIN runs' = 1 .. n
  OBVIOUS
<1>2. RanAt' = RanAt \cup {n} /\ n \notin RanAt /\ RanAt \in SUBSET (1 .. n)
  <2>1. n \notin RanAt /\ n \in RanAt'
    <3>1. n \in DOMAIN runs' /\ runs'[n].status \in FinishedEvents
      <4>1. runs'[n].status \in FinishedEvents
        OBVIOUS
      <4>. HIDE DEF n
      <4>. QED
        BY <1>1, <4>1
    <3>2. runs[n].status \notin FinishedEvents
      OBVIOUS
    <3>. HIDE DEF n
    <3>. QED
      BY <3>1, <3>2 DEF RanAt
  <2>3. RanAt \in SUBSET (1 .. n) /\ RanAt' \in SUBSET (1 .. n)
    BY <1>1 DEF RanAt
  <2>2. \A k \in 1 .. n : k # n => (k \in RanAt' <=> k \in RanAt)
    BY <1>1 DEF RanAt
  <2>. HIDE DEF n
  <2>. QED
    BY <2>1, <2>2, <2>3
<1>3. Ran = At(runs, RanAt) /\ Ran' = At(runs', RanAt')
  BY DEF Ran, RanAt
<1>4. At(runs', RanAt \cup {n}) = Append(At(runs', RanAt), runs'[n])
  BY <1>1, <1>2, AtAppend
<1>5. \A p \in RanAt : runs'[p] = runs[p]
  BY <1>1, <1>2
<1>6. At(runs', RanAt) = At(runs, RanAt)
  BY <1>1, <1>2, <1>5, AtAgrees
<1>. QED
  BY <1>2, <1>3, <1>4, <1>6

LEMMA CollapsedNone == Collapsed(<<>>) = <<>>
<1>1. {k \in DOMAIN <<>> : k = 1 \/ <<>>[k] # <<>>[k - 1]} = {}
  OBVIOUS
<1>. QED
  BY <1>1, AtNone DEF Collapsed

LEMMA CollapsedAppend ==
  ASSUME NEW path \in Seq(Nodes), NEW n \in Nodes
  PROVE  /\ Collapsed(path) \in Seq(Nodes)
         /\ Collapsed(Append(path, n)) = IF path # <<>> /\ path[Len(path)] = n THEN Collapsed(path)
                                         ELSE Append(Collapsed(path), n)
<1>. DEFINE m == Len(path)
            I == {k \in DOMAIN path : k = 1 \/ path[k] # path[k - 1]}
            more == Append(path, n)
            J == {k \in DOMAIN more : k = 1 \/ more[k] # more[k - 1]}
<1>1. /\ m \in Nat /\ DOMAIN path = 1 .. m /\ DOMAIN more = 1 .. m + 1 /\ more[m + 1] = n
      /\ \A k \in 1 .. m : more[k] = path[k]
      /\ \A k \in 1 .. m : path[k] \in Nodes
      /\ (path = <<>> <=> m = 0)
  OBVIOUS
<1>2. I \in SUBSET (1 .. m) /\ I \in SUBSET (1 .. m + 1) /\ m + 1 \notin I /\ m + 1 \in Nat \ {0}
  BY <1>1
<1>3. Collapsed(path) = At(path, I) /\ Collapsed(more) = At(more, J)
  BY DEF Collapsed
<1>4. At(path, I) \in Seq(Nodes)
  <2>1. \A p \in I : path[p] \in Nodes
    BY <1>1, <1>2
  <2>. HIDE DEF I
  <2>. QED
    BY <1>1, <1>2, <2>1, AtTyped
<1>5. At(more, I) = At(path, I)
  <2>1. \A p \in I : more[p] = path[p]
    BY <1>1, <1>2
  <2>. HIDE DEF I, more, m
  <2>. QED
    BY <1>1, <1>2, <2>1, AtAgrees
<1>6. ASSUME NEW k \in 1 .. m
      PROVE  k \in J <=> k \in I
  <2>1. k = 1 \/ k - 1 \in 1 .. m
    BY <1>1
  <2>2. more[k] = path[k] /\ (k # 1 => more[k - 1] = path[k - 1])
    BY <1>1, <2>1
  <2>3. k \in DOMAIN path /\ k \in DOMAIN more
    BY <1>1
  <2>. HIDE DEF more
  <2>. QED
    BY <2>2, <2>3
<1>7. m + 1 \in J <=> (m = 0 \/ path[m] # n)
  <2>1. m + 1 \in DOMAIN more /\ (m + 1) - 1 = m /\ more[m + 1] = n /\ (m + 1 = 1 <=> m = 0)
    BY <1>1
  <2>2. m # 0 => more[m] = path[m]
    <3>1. m # 0 => m \in 1 .. m
      BY <1>1
    <3>. QED
      BY <1>1, <3>1
  <2>. HIDE DEF more, m
  <2>. QED
    BY <2>1, <2>2
<1>8. \A k \in J : k \in 1 .. m \/ k = m + 1
  BY <1>1
<1>9. CASE path # <<>> /\ path[m] = n
  <2>1. J = I
    <3>. HIDE DEF I, J, more, m
    <3>. QED
      BY <1>1, <1>2, <1>6, <1>7, <1>8, <1>9
  <2>. HIDE DEF I, J, more
  <2>. QED
    BY <1>3, <1>4, <1>5, <1>9, <2>1 DEF more
<1>10. CASE ~(path # <<>> /\ path[m] = n)
  <2>1. J = I \cup {m + 1}
    <3>. HIDE DEF I, J, more, m
    <3>. QED
      BY <1>1, <1>2, <1>6, <1>7, <1>8, <1>10
  <2>. HIDE DEF I, J, more
  <2>2. At(more, I \cup {m + 1}) = Append(At(more, I), more[m + 1])
    BY <1>2, AtAppend
  <2>3. Collapsed(more) = Append(Collapsed(path), n)
    BY <1>1, <1>3, <1>5, <2>1, <2>2
  <2>. QED
    BY <1>3, <1>4, <1>10, <2>3 DEF more
<1>. QED
  BY <1>9, <1>10

LEMMA TellsMore ==
  ASSUME Typed, NEW t, Tells(t), NEW e \in Event, rec' = rec, saved' = saved, up' = Append(up, e)
  PROVE  Tells(Tell(t, e))'
<1>1. <<t, e, Tell(t, e)>> \in Telling /\ Tell(t, e) \in Told /\ TellsOf(rec', saved') = TellsOf(rec, saved)
  BY TellTyped DEF Telling, Tells
<1>2. Reaches(Telling, TellsOf(rec', saved'), Append(up, e), Tell(t, e))
  BY <1>1, ReachesOneMore DEF Tells, Typed
<1>. QED
  BY <1>1, <1>2 DEF Tells

LEMMA TellsTwoMore ==
  ASSUME Typed, NEW t, Tells(t), NEW e \in Event, NEW f \in Event,
         rec' = rec, saved' = saved, up' = Append(Append(up, e), f),
         Tell(t, e) = t, Tell(t, f) = t
  PROVE  Tells(t)'
<1>1. <<t, e, t>> \in Telling /\ <<t, f, t>> \in Telling /\ TellsOf(rec', saved') = TellsOf(rec, saved)
  BY DEF Telling, Tells
<1>2. up \in Seq(Event) /\ Append(up, e) \in Seq(Event)
  BY AppendProperties DEF Typed
<1>3. Reaches(Telling, TellsOf(rec, saved), Append(up, e), t)
  BY <1>1, <1>2, ReachesOneMore DEF Tells
<1>4. Reaches(Telling, TellsOf(rec', saved'), Append(Append(up, e), f), t)
  BY <1>1, <1>2, <1>3, ReachesOneMore
<1>. QED
  BY <1>4 DEF Tells

\* What is told of the past stays true with the runs that finished.
LEMMA PastSame ==
  ASSUME NEW t, TrueOfPast(t), NEW u, u.kept = t.kept, Ran' = Ran, cut' = cut
  PROVE  TrueOfPast(u)'
BY DEF TrueOfPast

\* The runs after the first step of one.
LEMMA TakesRunBegins ==
  ASSUME Shape, TakesRun
  PROVE  /\ phase = "idle" /\ phase' = "running" /\ at' = at /\ Takes({"start_run"})
         /\ Head(queue) \in Command /\ Head(queue).cmd = "start_run" /\ Head(queue).input \in Inputs
         /\ runs \in Seq(Run) /\ runs' \in Seq(Run) /\ Len(runs) \in Nat
         /\ Len(runs') = Len(runs) + 1 /\ runs' # <<>>
         /\ \A k \in 1 .. Len(runs) : runs'[k] = runs[k]
         /\ runs'[Len(runs')] = [input |-> Head(queue).input, path |-> <<>>, status |-> "live"]
<1>1. /\ Typed /\ phase = "idle" /\ phase' = "running" /\ at' = at /\ Takes({"start_run"})
      /\ runs' = Begun(runs, Head(queue).input)
  BY DEF Shape, TakesRun, Proto!Starts, Proto!Moves
<1>2. Head(queue) \in Command /\ Head(queue).cmd = "start_run" /\ Head(queue).input \in Inputs
  BY <1>1, TakenTyped DEF Command
<1>. QED
  BY <1>1, <1>2, BegunTyped DEF Typed

\* The current run ends otherwise, and perhaps another begins.
LEMMA RanSameButLast ==
  ASSUME runs \in Seq(Run), runs' \in Seq(Run), NEW n \in Nat \ {0}, n = Len(runs),
         Len(runs') = n \/ Len(runs') = n + 1,
         \A k \in 1 .. n : k # n => runs'[k] = runs[k],
         runs[n].status \notin FinishedEvents, runs'[n].status \notin FinishedEvents,
         Len(runs') = n + 1 => runs'[n + 1].status \notin FinishedEvents
  PROVE  Ran' = Ran
<1>1. \A k \in 1 .. Len(runs) :
        /\ runs'[k].status \in FinishedEvents <=> runs[k].status \in FinishedEvents
        /\ runs[k].status \in FinishedEvents => runs'[k] = runs[k]
  <2>1. ASSUME NEW k \in 1 .. n
        PROVE  /\ runs'[k].status \in FinishedEvents <=> runs[k].status \in FinishedEvents
               /\ runs[k].status \in FinishedEvents => runs'[k] = runs[k]
    <3>1. CASE k = n
      BY <3>1
    <3>2. CASE k # n
      BY <3>2
    <3>. QED
      BY <3>1, <3>2
  <2>. QED
    BY <2>1
<1>2. \A k \in 1 .. Len(runs') : k > Len(runs) => runs'[k].status \notin FinishedEvents
  <2>1. \A k \in 1 .. Len(runs') : k > n => k = n + 1 /\ Len(runs') = n + 1
    OBVIOUS
  <2>. QED
    BY <2>1
<1>3. Len(runs) <= Len(runs')
  OBVIOUS
<1>. QED
  BY <1>1, <1>2, <1>3, RanSame

\* The runs that finished do not change with a step that finishes none.
LEMMA RanStays ==
  ASSUME Shape,
         \/ TakesRun \/ NodeRuns \/ PausesManually \/ PausesAtBreakpoint \/ Fails
         \/ Advances \/ Forks \/ Refuses \/ ForkRaises \/ Drops
  PROVE  Ran' = Ran
<1>1. runs \in Seq(Run) /\ DOMAIN runs = 1 .. Len(runs) /\ Len(runs) \in Nat
  BY DEF Shape, Typed
<1>2. Live => runs[Len(runs)].status \notin FinishedEvents
  <2>1. Live => runs[Len(runs)].status = "live"
    BY <1>1 DEF Shape, Current
  <2>. QED
    BY <2>1 DEF FinishedEvents
<1>3. CASE PausesManually \/ PausesAtBreakpoint \/ Advances \/ Refuses \/ Drops
  <2>1. runs' = runs
    BY <1>3 DEF PausesManually, PausesAtBreakpoint, Advances, Refuses, Drops
  <2>. QED
    BY <2>1 DEF Ran
<1>4. CASE TakesRun
  <2>1. /\ runs' \in Seq(Run) /\ Len(runs') = Len(runs) + 1
        /\ \A k \in 1 .. Len(runs) : runs'[k] = runs[k]
        /\ runs'[Len(runs) + 1].status = "live"
    BY <1>4, TakesRunBegins
  <2>2. \A k \in 1 .. Len(runs') : k > Len(runs) => runs'[k].status \notin FinishedEvents
    BY <1>1, <2>1 DEF FinishedEvents
  <2>. QED
    BY <1>1, <2>1, <2>2, RanSame
<1>5. CASE NodeRuns
  <2>1. /\ Live /\ runs' \in Seq(Run) /\ Len(runs') = Len(runs)
        /\ \A k \in 1 .. Len(runs) : k # Len(runs) => runs'[k] = runs[k]
        /\ runs'[Len(runs)].status = runs[Len(runs)].status
    BY <1>5, NodeRunsPath DEF Live
  <2>2. Len(runs) \in Nat \ {0}
    BY <1>5, NodeRunsPath
  <2>3. runs[Len(runs)].status \notin FinishedEvents /\ runs'[Len(runs)].status \notin FinishedEvents
    BY <1>2, <2>1
  <2>. QED
    BY <1>1, <2>1, <2>2, <2>3, RanSameButLast
<1>6. CASE Fails \/ ForkRaises
  <2>1. Leaves("error") /\ runs # <<>> /\ "error" \in Statuses
    BY <1>6, EndingsLeave DEF Shape, Current, Leaves, Statuses
  <2>2. /\ runs' \in Seq(Run) /\ Len(runs') = Len(runs) /\ Len(runs) \in Nat \ {0}
        /\ \A k \in 1 .. Len(runs) : k # Len(runs) => runs'[k] = runs[k]
        /\ runs'[Len(runs)] = [runs[Len(runs)] EXCEPT !.status = "error"]
    BY <1>1, <2>1, EndsTyped DEF Leaves
  <2>3. runs'[Len(runs)].status \notin FinishedEvents
    <3>1. runs[Len(runs)] \in Run
      BY <1>1, <2>1
    <3>. QED
      BY <2>2, <3>1 DEF Run, FinishedEvents
  <2>4. runs[Len(runs)].status \notin FinishedEvents
    BY <1>2, <2>1 DEF Leaves
  <2>. QED
    BY <1>1, <2>2, <2>3, <2>4, RanSameButLast
<1>7. CASE Forks
  <2>1. /\ Live /\ runs' \in Seq(Run) /\ Len(runs') = Len(runs) + 1 /\ Len(runs) \in Nat \ {0}
        /\ \A k \in 1 .. Len(runs) : k # Len(runs) => runs'[k] = runs[k]
        /\ runs'[Len(runs)].status = "forked" /\ runs'[Len(runs) + 1].status = "live"
    BY <1>7, ForksRuns DEF Live
  <2>2. "forked" \notin FinishedEvents /\ "live" \notin FinishedEvents
    BY DEF FinishedEvents
  <2>3. /\ runs[Len(runs)].status \notin FinishedEvents
        /\ runs'[Len(runs)].status \notin FinishedEvents
        /\ runs'[Len(runs) + 1].status \notin FinishedEvents
    BY <1>2, <2>1, <2>2
  <2>. QED
    BY <1>1, <2>1, <2>3, RanSameButLast
<1>. QED
  BY <1>3, <1>4, <1>5, <1>6, <1>7

\* A run that finishes is one more that finished.
LEMMA RanGrows ==
  ASSUME Shape, NEW ev \in FinishedEvents, Leaves(ev)
  PROVE  /\ Len(runs) \in Nat \ {0} /\ runs[Len(runs)] \in Run
         /\ Ran' = Append(Ran, [runs[Len(runs)] EXCEPT !.status = ev])
<1>1. /\ runs \in Seq(Run) /\ runs # <<>> /\ ev \in Statuses
      /\ Len(runs) \in Nat \ {0} /\ runs[Len(runs)] \in Run /\ Len(runs) \in DOMAIN runs
  BY DEF Shape, Typed, Current, Leaves, Statuses
<1>2. runs[Len(runs)].status \notin FinishedEvents
  BY <1>1 DEF Shape, Current, Leaves, FinishedEvents
<1>3. /\ runs' \in Seq(Run) /\ Len(runs') = Len(runs)
      /\ \A k \in 1 .. Len(runs) : k # Len(runs) => runs'[k] = runs[k]
      /\ runs'[Len(runs)] = [runs[Len(runs)] EXCEPT !.status = ev]
  BY <1>1, EndsTyped DEF Leaves
<1>4. runs'[Len(runs)].status \in FinishedEvents
  BY <1>1, <1>3 DEF Run
<1>. QED
  BY <1>1, <1>2, <1>3, <1>4, RanMore

LEMMA RecorderWorker == ASSUME Shape, RecorderFollows, Worker PROVE RecorderFollows'
<1>. PICK here : here = at'
  OBVIOUS
<1>. DEFINE E(ev) == [ev |-> ev, node |-> here]
<1>0. \A ev : Now(ev) = E(ev)
  BY DEF Now
<1>1. PICK t : Tells(t) /\ TrueOfPast(t) /\ TrueOfCurrent(t)
  BY DEF RecorderFollows
<1>11. ~cut /\ cut' = cut
  BY WorkerKeeps DEF Shape, Whole
<1>2. /\ Typed /\ rec' = rec /\ saved' = saved /\ at' \in Nodes \cup {Nowhere}
      /\ t \in Told /\ t.open \in BOOLEAN /\ t.path \in Seq(Nodes) /\ t.kept \in Seq(Account)
  BY <1>1, WorkerKeeps, TakesRunShape, NodeRunsShape, PausesShape, EndingsShape, QuietShape,
     ForksShape DEF Worker, Shape, Typed, Tells, Told
<1>3. \A ev \in Carried \ {"node_start"} : E(ev) \in Event /\ E(ev).ev = ev
  BY <1>2, <1>0, NowTyped
<1>4. CASE TakesRun \/ Forks
  <2>1. /\ up' = Append(up, E("run_started")) /\ Ran' = Ran /\ E("run_started") \in Event
        /\ E("run_started").ev = "run_started"
    BY <1>0, <1>2, <1>3, <1>4, EmitsTakesRun, EmitsForks, RanStays DEF Carried
  <2>2. runs'[Len(runs')].path = <<>>
    BY <1>4, TakesRunBegins, ForksRuns
  <2>. DEFINE u == Tell(t, E("run_started"))
  <2>3. Tells(u)'
    BY <1>1, <1>2, <2>1, TellsMore
  <2>4. u = [t EXCEPT !.open = TRUE, !.path = <<>>]
    BY <2>1 DEF Tell, FinishedEvents
  <2>5. u.open = TRUE /\ u.path = <<>> /\ u.kept = t.kept
    BY <1>2, <2>4 DEF Told
  <2>. HIDE DEF u
  <2>6. TrueOfPast(u)'
    BY <1>1, <1>11, <2>1, <2>5, PastSame
  <2>7. TrueOfCurrent(u)'
    BY <2>2, <2>5, CollapsedNone DEF TrueOfCurrent
  <2>. QED
    BY <2>3, <2>6, <2>7 DEF RecorderFollows
<1>5. CASE NodeRuns
  <2>. DEFINE u == Tell(t, E("node_start"))
              path == runs[Len(runs)].path
  <2>1. /\ E("node_start") \in Event /\ E("node_start").ev = "node_start"
        /\ E("node_start").node = at' /\ at' \in Nodes
    BY <1>2, <1>5, <1>0, NodeRunsPath, NowTyped DEF Carried
  <2>2. up' = Append(up, E("node_start")) /\ Ran' = Ran
    BY <1>0, <1>2, <1>5, EmitsNodeRuns, RanStays
  <2>3. Tells(u)'
    BY <1>1, <1>2, <2>1, <2>2, TellsMore
  <2>4. /\ t.open /\ t.path = Collapsed(path) /\ (t.path = <<>> <=> path = <<>>)
        /\ (t.path # <<>> => t.path[Len(t.path)] = at) /\ (path # <<>> => path[Len(path)] = at)
        /\ path \in Seq(Nodes)
    <3>1. Live /\ runs \in Seq(Run) /\ Len(runs) \in 1 .. Len(runs)
      BY <1>5, NodeRunsPath DEF Live, Shape, Typed
    <3>2. runs[Len(runs)] \in Run
      BY <3>1
    <3>3. path \in Seq(Nodes)
      BY <3>2 DEF Run
    <3>. QED
      BY <1>1, <1>11, <3>1, <3>3 DEF TrueOfCurrent, Shape, Trail
  <2>5. u = IF t.path # <<>> /\ t.path[Len(t.path)] = at' THEN t ELSE [t EXCEPT !.path = Append(@, at')]
    BY <2>1, <2>4 DEF Tell, FinishedEvents
  <2>. DEFINE after == runs'[Len(runs')].path
  <2>6. after = Append(path, at')
    BY <1>5, NodeRunsPath
  <2>. HIDE DEF u, path, after
  <2>7. u.kept = t.kept /\ u.open /\ u.path = Collapsed(after) /\ u.path # <<>> /\ after # <<>>
        /\ u.path[Len(u.path)] = at'
    <3>1. CASE t.path # <<>> /\ t.path[Len(t.path)] = at'
      <4>1. u = t /\ path # <<>> /\ path[Len(path)] = at'
        BY <2>4, <2>5, <3>1
      <4>2. Collapsed(Append(path, at')) = Collapsed(path) /\ Append(path, at') # <<>>
        BY <2>1, <2>4, <4>1, CollapsedAppend
      <4>3. Collapsed(after) = Collapsed(path) /\ after # <<>>
        BY <2>6, <4>1, <4>2
      <4>. QED
        BY <2>4, <3>1, <4>1, <4>3
    <3>2. CASE ~(t.path # <<>> /\ t.path[Len(t.path)] = at')
      <4>1. /\ u = [t EXCEPT !.path = Append(@, at')]
            /\ ~(path # <<>> /\ path[Len(path)] = at')
        BY <2>4, <2>5, <3>2
      <4>5. /\ Append(path, at') # <<>>
            /\ Collapsed(Append(path, at')) = Append(Collapsed(path), at')
        <5>1. Collapsed(Append(path, at')) = IF path # <<>> /\ path[Len(path)] = at' THEN Collapsed(path)
                                             ELSE Append(Collapsed(path), at')
          BY <2>1, <2>4, CollapsedAppend
        <5>2. Append(path, at') # <<>>
          BY <2>1, <2>4
        <5>. QED
          BY <4>1, <5>1, <5>2
      <4>2. after = Append(path, at') /\ after # <<>> /\ Collapsed(after) = Append(t.path, at')
        BY <2>4, <2>6, <4>1, <4>5
      <4>3. u.kept = t.kept /\ u.open = t.open /\ u.path = Append(t.path, at')
        BY <1>2, <4>1 DEF Told
      <4>4. Append(t.path, at') # <<>> /\ Append(t.path, at')[Len(Append(t.path, at'))] = at'
        BY <1>2, <2>1
      <4>. QED
        BY <2>4, <4>2, <4>3, <4>4
    <3>. QED
      BY <3>1, <3>2
  <2>8. TrueOfPast(u)'
    BY <1>1, <1>11, <2>2, <2>7, PastSame
  <2>9. TrueOfCurrent(u)'
    BY <2>7 DEF TrueOfCurrent, after
  <2>. QED
    BY <2>3, <2>8, <2>9 DEF RecorderFollows
<1>6. CASE Completes \/ AbortsStream \/ AbortsPause
  <2>1. PICK ev \in FinishedEvents : Leaves(ev) /\ up' = Append(up, E(ev))
    BY <1>0, <1>2, <1>6, EmitsCompletes, EmitsAborts, EndingsLeave DEF FinishedEvents
  <2>. DEFINE u == Tell(t, E(ev))
              cur == runs[Len(runs)]
              x == [nodePath |-> t.path, status |-> ev]
              done == [cur EXCEPT !.status = ev]
  <2>2. E(ev) \in Event /\ E(ev).ev = ev
    BY <1>3 DEF Carried, FinishedEvents
  <2>3. Tells(u)'
    BY <1>1, <1>2, <2>1, <2>2, TellsMore
  <2>4. Ran' = Append(Ran, done) /\ cur \in Run
    BY <2>1, RanGrows
  <2>5. t.open /\ t.path = Collapsed(cur.path)
    BY <1>1, <1>11, <2>1 DEF TrueOfCurrent, Leaves
  <2>6. u = [t EXCEPT !.open = FALSE, !.kept = Append(@, x)]
    BY <2>2, <2>5 DEF Tell, FinishedEvents
  <2>7. done.status = ev /\ done.path = cur.path /\ done \in Run
    BY <2>4 DEF Run, Statuses
  <2>8. x.status = ev /\ x.nodePath = Collapsed(cur.path) /\ x \in Account
    BY <1>2, <2>5 DEF Account
  <2>. HIDE DEF u, x, done
  <2>9. u.kept = Append(t.kept, x)
    BY <1>2, <2>6 DEF Told
  <2>10. TrueOfPast(u)'
    <3>. DEFINE n == Len(Ran)
    <3>1. n \in Nat /\ Ran \in Seq(Run)
      BY <1>2, RanTyped DEF Typed
    <3>2. Len(t.kept) = n /\ \A k \in 1 .. n :
             t.kept[k].status = Ran[k].status /\ t.kept[k].nodePath = Collapsed(Ran[k].path)
      BY <1>1, <1>11 DEF TrueOfPast
    <3>3. Len(u.kept) = n + 1 /\ u.kept[n + 1] = x /\ \A k \in 1 .. n : u.kept[k] = t.kept[k]
      BY <1>2, <2>8, <2>9, <3>1, <3>2
    <3>4. Len(Ran') = n + 1 /\ Ran'[n + 1] = done /\ \A k \in 1 .. n : Ran'[k] = Ran[k]
      BY <2>4, <2>7, <3>1
    <3>. HIDE DEF n
    <3>5. \A k \in 1 .. n + 1 : k \in 1 .. n \/ k = n + 1
      BY <3>1
    <3>6. \A k \in 1 .. n + 1 :
             u.kept[k].status = Ran'[k].status /\ u.kept[k].nodePath = Collapsed(Ran'[k].path)
      BY <2>7, <2>8, <3>2, <3>3, <3>4, <3>5
    <3>7. Len(u.kept) = Len(Ran') /\ \A k \in 1 .. Len(Ran') :
             u.kept[k].status = Ran'[k].status /\ u.kept[k].nodePath = Collapsed(Ran'[k].path)
      BY <3>3, <3>4, <3>6
    <3>. QED
      BY <3>1, <3>4, <3>7 DEF TrueOfPast
  <2>11. TrueOfCurrent(u)'
    BY <2>1 DEF TrueOfCurrent, Leaves, Live
  <2>. QED
    BY <2>3, <2>10, <2>11 DEF RecorderFollows
<1>7. CASE PausesManually \/ PausesAtBreakpoint \/ Advances \/ Drops \/ Fails \/ Refuses \/ ForkRaises
  <2>1. \A ev \in {"manual_inference_required", "breakpoint_hit", "checkpoint_history", "error"} :
           E(ev) \in Event /\ Tell(t, E(ev)) = t
    BY <1>3 DEF Tell, FinishedEvents, Carried
  <2>2. Tells(t)'
    <3>1. CASE PausesManually
      BY <1>1, <1>2, <2>1, <3>1, <1>0, EmitsPausesManually, TellsTwoMore
    <3>2. CASE PausesAtBreakpoint
      BY <1>1, <1>2, <2>1, <3>2, <1>0, EmitsPausesAtBreakpoint, TellsTwoMore
    <3>3. CASE Advances \/ Drops
      BY <1>1, <1>2, <3>3, EmitsNothing DEF Tells
    <3>4. CASE Fails \/ Refuses \/ ForkRaises
      <4>1. up' = Append(up, E("error")) /\ E("error") \in Event /\ Tell(t, E("error")) = t
        BY <1>0, <1>2, <2>1, <3>4, EmitsError
      <4>2. Tells(Tell(t, E("error")))'
        BY <1>1, <1>2, <4>1, TellsMore
      <4>. QED
        BY <4>1, <4>2
    <3>. QED
      BY <1>7, <3>1, <3>2, <3>3, <3>4
  <2>3. TrueOfPast(t)'
    BY <1>1, <1>7, <1>11, RanStays, PastSame
  <2>4. ~Live' \/ (Live /\ runs' = runs /\ at' = at)
    <3>1. CASE Fails \/ ForkRaises
      BY <3>1, EndingsLeave DEF Leaves, Live
    <3>2. CASE PausesManually \/ PausesAtBreakpoint \/ Advances \/ Drops \/ Refuses
      BY <3>2 DEF PausesManually, PausesAtBreakpoint, Advances, Drops, Refuses, Live, Proto!Continues,
                  Proto!Refuses, Proto!Quiet, Proto!PausesForAnswer, Proto!PausesAtNode, Proto!Moves
    <3>. QED
      BY <1>7, <3>1, <3>2
  <2>5. TrueOfCurrent(t)'
    BY <1>1, <1>11, <2>4 DEF TrueOfCurrent
  <2>. QED
    BY <2>2, <2>3, <2>5 DEF RecorderFollows
<1>. QED
  BY <1>4, <1>5, <1>6, <1>7 DEF Worker

\* What has been told stays told.
Keeps(u, t) == Len(u.kept) <= Len(t.kept) /\ \A k \in 1 .. Len(u.kept) : t.kept[k] = u.kept[k]

LEMMA ToldIsKept ==
  ASSUME NEW u \in Told, NEW events \in Seq(Event), NEW t, Reaches(Telling, u, events, t)
  PROVE  t \in Told /\ Keeps(u, t)
<1>. DEFINE n == Len(u.kept)
            A == {x \in Told : Len(x.kept) >= n /\ \A k \in 1 .. n : x.kept[k] = u.kept[k]}
<1>1. n \in Nat
  BY DEF Told
<1>2. u \in A
  BY <1>1
<1>3. ASSUME NEW x \in A, NEW e \in Event
      PROVE  Tell(x, e) \in A
  <2>1. /\ x \in Told /\ Len(x.kept) >= n /\ x.kept \in Seq(Account)
        /\ \A k \in 1 .. n : x.kept[k] = u.kept[k]
    BY DEF Told
  <2>2. Tell(x, e) \in Told
    BY <2>1, TellTyped
  <2>3. PICK y : Tell(x, e).kept = x.kept \/ Tell(x, e).kept = Append(x.kept, y)
    <3>1. CASE e.ev \in FinishedEvents /\ x.open
      BY <2>1, <3>1 DEF Tell, FinishedEvents, Told
    <3>2. CASE ~(e.ev \in FinishedEvents /\ x.open)
      BY <2>1, <3>2 DEF Tell, FinishedEvents, Told
    <3>. QED
      BY <3>1, <3>2
  <2>. HIDE DEF n
  <2>4. CASE Tell(x, e).kept = x.kept
    BY <2>1, <2>2, <2>4
  <2>5. CASE Tell(x, e).kept = Append(x.kept, y)
    <3>1. Len(Append(x.kept, y)) >= n /\ \A k \in 1 .. n : Append(x.kept, y)[k] = x.kept[k]
      BY <1>1, <2>1
    <3>. QED
      BY <2>1, <2>2, <2>5, <3>1
  <2>. QED
    BY <2>3, <2>4, <2>5
<1>4. \A x \in A, e \in Event : \A y : <<x, e, y>> \in Telling => y \in A
  <2>1. \A x \in A, e \in Event : \A y : <<x, e, y>> \in Telling => y = Tell(x, e)
    BY DEF Telling
  <2>. HIDE DEF A
  <2>. QED
    BY <1>3, <2>1
<1>5. t \in A
  <2>. HIDE DEF A
  <2>. QED
    BY <1>2, <1>4, ReachesKeeps
<1>6. t \in Told /\ t.kept \in Seq(Account)
  BY <1>5 DEF Told
<1>. QED
  BY <1>1, <1>5, <1>6 DEF Keeps

\* What the recorder tells from is typed.
LEMMA TellsOfTyped == ASSUME Typed PROVE TellsOf(rec, saved) \in Told
<1>1. rec.open \in BOOLEAN /\ rec.nodePath \in Seq(Nodes) /\ saved \in Seq(Record)
  BY DEF Typed, Recorder
<1>. QED
  BY <1>1, AccountsTyped DEF TellsOf, Told

\* A command for a dead worker may cut what will be told.
LEMMA RecorderPost ==
  ASSUME Shape, RecorderFollows, NEW cmd \in Command, Post(cmd) PROVE RecorderFollows'
<1>1. PICK t : Tells(t) /\ TrueOfPast(t) /\ TrueOfCurrent(t)
  BY DEF RecorderFollows
<1>2. Typed /\ up \in Seq(Event)
  BY DEF Shape, Typed
<1>3. phase' = phase /\ runs' = runs /\ at' = at /\ saved' = saved
  BY DEF Post
<1>4. TellsOf(rec', saved') = TellsOf(rec, saved)
  <2>1. rec'.open = rec.open /\ rec'.nodePath = rec.nodePath
    BY <1>2 DEF Post, Typed, Recorder
  <2>. QED
    BY <1>3, <2>1 DEF TellsOf
<1>5. /\ ~cut' => up' = up /\ ~cut
      /\ \E k \in 0 .. Len(up) : up' = SubSeq(up, 1, k)
  BY <1>2, PostUp
<1>6. CASE ~cut'
  <2>1. Tells(t)'
    BY <1>1, <1>4, <1>5, <1>6 DEF Tells
  <2>2. TrueOfPast(t)' /\ TrueOfCurrent(t)'
    BY <1>1, <1>3, <1>5, <1>6 DEF TrueOfPast, TrueOfCurrent, Ran, Live
  <2>. QED
    BY <2>1, <2>2 DEF RecorderFollows
<1>7. CASE cut'
  <2>1. PICK k \in 0 .. Len(up) : up' = SubSeq(up, 1, k)
    BY <1>5
  <2>2. PICK u : /\ Reaches(Telling, TellsOf(rec, saved), up', u)
                 /\ \E rest \in Seq(Event) : Reaches(Telling, u, rest, t)
    BY <1>1, <1>2, <2>1, ReachesFirst DEF Tells
  <2>3. up' \in Seq(Event)
    BY <1>2, PostUp
  <2>4. u \in Told
    BY <1>2, <2>2, <2>3, TellsOfTyped, ToldIsKept
  <2>5. Keeps(u, t)
    BY <2>2, <2>4, ToldIsKept
  <2>6. Tells(u)'
    BY <1>4, <2>2, <2>4 DEF Tells
  <2>7. Ran' = Ran /\ Len(Ran) \in Nat /\ Len(u.kept) \in Nat /\ Len(t.kept) \in Nat
    BY <1>1, <1>2, <1>3, <2>4, RanTyped DEF Ran, Told, Tells, Typed
  <2>8. Len(u.kept) <= Len(Ran')
    BY <1>1, <2>5, <2>7 DEF TrueOfPast, Keeps
  <2>9. ASSUME NEW i \in 1 .. Len(u.kept)
        PROVE  u.kept[i].status = Ran'[i].status /\ u.kept[i].nodePath = Collapsed(Ran'[i].path)
    <3>1. i \in 1 .. Len(t.kept) /\ t.kept[i] = u.kept[i]
      BY <2>5, <2>7 DEF Keeps
    <3>. QED
      BY <1>1, <2>7, <3>1 DEF TrueOfPast
  <2>10. TrueOfPast(u)' /\ TrueOfCurrent(u)'
    BY <1>7, <2>8, <2>9 DEF TrueOfPast, TrueOfCurrent
  <2>. QED
    BY <2>6, <2>10 DEF RecorderFollows
<1>. QED
  BY <1>6, <1>7

LEMMA RecorderOthers ==
  ASSUME Shape, RecorderFollows, WorkerDies \/ Records \/ Shows \/ UNCHANGED vars
  PROVE  RecorderFollows'
<1>1. PICK t : Tells(t) /\ TrueOfPast(t) /\ TrueOfCurrent(t)
  BY DEF RecorderFollows
<1>2. Typed
  BY DEF Shape
<1>3. phase' = phase /\ runs' = runs /\ at' = at /\ cut' = cut
  BY DEF WorkerDies, Records, Shows, vars, worker
<1>4. TrueOfPast(t)' /\ TrueOfCurrent(t)'
  BY <1>1, <1>3 DEF TrueOfPast, TrueOfCurrent, Ran, Live
<1>5. Tells(t)'
  <2>1. CASE WorkerDies \/ Shows \/ UNCHANGED vars
    <3>1. saved' = saved /\ up' = up /\ rec' = rec
      BY <2>1 DEF WorkerDies, Shows, vars
    <3>. QED
      BY <1>1, <3>1 DEF Tells
  <2>2. CASE Records
    <3>1. /\ up \in Seq(Event) /\ up # <<>> /\ Head(up) \in Event /\ up' = Tail(up)
          /\ rec' = OnEvent(rec, Head(up)) /\ saved' = saved \o Finished(rec, Head(up))
      BY <1>2, <2>2 DEF Records, Typed
    <3>2. TellsOf(rec', saved') = Tell(TellsOf(rec, saved), Head(up))
      BY <1>2, <3>1, OnEventTells DEF Typed
    <3>3. PICK d : <<TellsOf(rec, saved), Head(up), d>> \in Telling /\ Reaches(Telling, d, up', t)
      BY <1>1, <3>1, ReachesRest DEF Tells
    <3>4. d = TellsOf(rec', saved')
      BY <3>2, <3>3 DEF Telling
    <3>. QED
      BY <1>1, <3>3, <3>4 DEF Tells
  <2>. QED
    BY <2>1, <2>2
<1>. QED
  BY <1>4, <1>5 DEF RecorderFollows

LEMMA RecorderFollowsAlways == Spec => []RecorderFollows
<1>1. Init => RecorderFollows
  <2>. SUFFICES ASSUME Init PROVE RecorderFollows
    OBVIOUS
  <2>1. /\ up = <<>> /\ saved = <<>> /\ runs = <<>> /\ phase = "idle"
        /\ rec = [pendingInput |-> 0, open |-> FALSE, input |-> 0, nodePath |-> <<>>]
    BY DEF Init, Proto!Init
  <2>. DEFINE t == TellsOf(rec, saved)
  <2>2. rec \in Recorder /\ saved \in Seq(Record)
    BY <2>1, BoundsAssumption DEF Recorder, Inputs
  <2>3. Accounts(saved) = <<>>
    <3>1. Accounts(saved) \in Seq(Account) /\ Len(Accounts(saved)) = 0
      BY <2>1, <2>2, AccountsTyped
    <3>. QED
      BY <3>1
  <2>4. t = [open |-> FALSE, path |-> <<>>, kept |-> <<>>] /\ t \in Told
    <3>1. t = [open |-> FALSE, path |-> <<>>, kept |-> <<>>]
      BY <2>1, <2>3 DEF TellsOf
    <3>2. <<>> \in Seq(Nodes) /\ <<>> \in Seq(Account)
      OBVIOUS
    <3>3. [open |-> FALSE, path |-> <<>>, kept |-> <<>>] \in Told
      BY <3>2 DEF Told
    <3>. HIDE DEF t
    <3>. QED
      BY <3>1, <3>3
  <2>5. Tells(t)
    BY <2>1, <2>4, ReachesNone DEF Tells
  <2>6. Ran = <<>>
    <3>1. {k \in DOMAIN runs : runs[k].status \in FinishedEvents} = {}
      BY <2>1
    <3>. QED
      BY <3>1, AtNone DEF Ran
  <2>7. TrueOfPast(t) /\ TrueOfCurrent(t)
    BY <2>1, <2>4, <2>6 DEF TrueOfPast, TrueOfCurrent, Live
  <2>. HIDE DEF t
  <2>. QED
    BY <2>5, <2>7 DEF RecorderFollows
<1>2. Shape /\ RecorderFollows /\ [Next]_vars => RecorderFollows'
  BY Clicks, RecorderWorker, RecorderPost, RecorderOthers DEF Next, Shape
<1>. QED
  BY <1>1, <1>2, ShapeHolds, PTL DEF Spec

\* What has been appended to the history stays in it.
LEMMA SavedIsKept ==
  ASSUME Typed, NEW t, Tells(t)
  PROVE  /\ Len(saved) <= Len(t.kept)
         /\ \A k \in 1 .. Len(saved) :
              t.kept[k].status = saved[k].status /\ t.kept[k].nodePath = saved[k].nodePath
<1>1. /\ saved \in Seq(Record) /\ up \in Seq(Event) /\ TellsOf(rec, saved) \in Told
      /\ TellsOf(rec, saved).kept = Accounts(saved)
  BY TellsOfTyped DEF Typed, TellsOf
<1>2. Keeps(TellsOf(rec, saved), t)
  BY <1>1, ToldIsKept DEF Tells
<1>3. /\ Len(Accounts(saved)) = Len(saved)
      /\ \A k \in 1 .. Len(saved) :
           Accounts(saved)[k] = [nodePath |-> saved[k].nodePath, status |-> saved[k].status]
  BY <1>1, AccountsTyped
<1>4. Len(saved) <= Len(t.kept)
  BY <1>1, <1>2, <1>3 DEF Keeps
<1>5. ASSUME NEW k \in 1 .. Len(saved)
      PROVE  t.kept[k].status = saved[k].status /\ t.kept[k].nodePath = saved[k].nodePath
  <2>1. t.kept[k] = Accounts(saved)[k]
    BY <1>1, <1>2, <1>3 DEF Keeps
  <2>2. t.kept[k] = [nodePath |-> saved[k].nodePath, status |-> saved[k].status]
    BY <1>3, <2>1
  <2>. QED
    BY <2>2
<1>. QED
  BY <1>4, <1>5

\* The history tells the runs that finished, each once, in order and with the nodes that
\* started in it, whatever pauses, answers, forks and failures there were; no record is
\* missing once every event has arrived, unless a dead worker's relay broke before it
\* (runRecorder.ts onEvent, extension.ts onServerEvent, server.py's pump).
THEOREM HistoryTellsRuns == Spec => []HistoryTrue
<1>1. Shape /\ RecorderFollows => HistoryTrue
  <2>. SUFFICES ASSUME Typed, RecorderFollows PROVE HistoryTrue
    BY DEF Shape
  <2>1. PICK t : Tells(t) /\ TrueOfPast(t)
    BY DEF RecorderFollows
  <2>2. /\ Len(saved) <= Len(t.kept)
        /\ \A k \in 1 .. Len(saved) :
             t.kept[k].status = saved[k].status /\ t.kept[k].nodePath = saved[k].nodePath
    BY <2>1, SavedIsKept
  <2>3. /\ Len(t.kept) <= Len(Ran) /\ (~cut => Len(t.kept) = Len(Ran))
        /\ Len(Ran) \in Nat /\ Len(saved) \in Nat /\ Len(t.kept) \in Nat
        /\ DOMAIN saved = 1 .. Len(saved)
    BY <2>1, RanTyped DEF TrueOfPast, Typed, Tells, Told
  <2>4. \A k \in DOMAIN saved :
           saved[k].status = Ran[k].status /\ saved[k].nodePath = Collapsed(Ran[k].path)
    BY <2>1, <2>2, <2>3 DEF TrueOfPast
  <2>5. up = <<>> /\ ~cut => Len(saved) = Len(Ran)
    <3>. SUFFICES ASSUME up = <<>>, ~cut PROVE Len(saved) = Len(Ran)
      OBVIOUS
    <3>1. t = TellsOf(rec, saved)
      BY <2>1, NowhereElse DEF Tells
    <3>2. t.kept = Accounts(saved)
      BY <3>1 DEF TellsOf
    <3>. QED
      BY <2>3, <3>2, AccountsTyped DEF Typed
  <2>. QED
    BY <2>2, <2>3, <2>4, <2>5 DEF HistoryTrue
<1>. QED
  BY <1>1, ShapeHolds, RecorderFollowsAlways, PTL

-----------------------------------------------------------------------------
(* InputRecorded: the same for the inputs, while no start_run is posted     *)
(* before the one under way has been answered.                              *)

Noted == [pending : Inputs, open : BOOLEAN, input : Inputs, inputs : Seq(Inputs)]

Note(x, e) ==
  CASE e.ev = "run_started" -> [x EXCEPT !.pending = 0, !.open = TRUE, !.input = x.pending]
    [] e.ev \in FinishedEvents ->
         IF x.open THEN [x EXCEPT !.open = FALSE, !.inputs = Append(@, x.input)] ELSE x
    [] OTHER -> x

Noting == {<<x, e, Note(x, e)>> : x \in Noted, e \in Event}

InputsIn(s) == [k \in DOMAIN s |-> s[k].input]
NotesOf(r, s) == [pending |-> r.pendingInput, open |-> r.open, input |-> r.input, inputs |-> InputsIn(s)]

Notes(x) == x \in Noted /\ Reaches(Noting, NotesOf(rec, saved), up, x)

TrueInputs(x) ==
  /\ Len(x.inputs) <= Len(Ran) /\ \A k \in 1 .. Len(x.inputs) : x.inputs[k] = Ran[k].input
  /\ ~cut => Len(x.inputs) = Len(Ran)
  /\ Live /\ ~cut => x.open /\ x.input = runs[Len(runs)].input

\* The start_run under way, and its run_started.
Starting(k) == k \in DOMAIN queue /\ queue[k].cmd = "start_run"
Announced == \E k \in DOMAIN up : up[k].ev = "run_started"

\* The pending input, now and when the events under way have been taken, is that of the
\* start_run under way; with an input it was posted to an idle worker.
OneStart ==
  /\ \A j, k \in DOMAIN queue : Starting(j) /\ Starting(k) => j = k
  /\ \A k \in DOMAIN queue : Starting(k) =>
       /\ queue[k].input = rec.pendingInput
       /\ rec.pendingInput # 0 => phase = "idle" /\ ~Announced
  /\ rec.pendingInput # 0 /\ (\A k \in DOMAIN queue : ~Starting(k)) => Announced

Awaits(x) ==
  /\ \A k \in DOMAIN queue : Starting(k) => queue[k].input = x.pending
  /\ (\A k \in DOMAIN queue : ~Starting(k)) => x.pending = 0

InputsFollow ==
  ~crossed => /\ alive => OneStart
              /\ \E x : Notes(x) /\ TrueInputs(x) /\ (alive => Awaits(x))

LEMMA NoteTyped == ASSUME NEW x \in Noted, NEW e \in Event PROVE Note(x, e) \in Noted
<1>1. /\ x.pending \in Inputs /\ x.open \in BOOLEAN /\ x.input \in Inputs /\ x.inputs \in Seq(Inputs)
      /\ 0 \in Inputs
  BY BoundsAssumption DEF Noted, Inputs
<1>2. CASE e.ev = "run_started"
  BY <1>1, <1>2 DEF Note, FinishedEvents, Noted
<1>3. CASE e.ev \in FinishedEvents
  <2>1. Append(x.inputs, x.input) \in Seq(Inputs)
    BY <1>1
  <2>2. Note(x, e) = IF x.open THEN [x EXCEPT !.open = FALSE, !.inputs = Append(@, x.input)] ELSE x
    BY <1>3 DEF Note, FinishedEvents
  <2>. QED
    BY <1>1, <2>1, <2>2 DEF Noted
<1>4. CASE e.ev \notin {"run_started"} \cup FinishedEvents
  BY <1>4 DEF Note, FinishedEvents
<1>. QED
  BY <1>2, <1>3, <1>4

LEMMA InputsTyped ==
  ASSUME NEW s \in Seq(Record)
  PROVE  /\ InputsIn(s) \in Seq(Inputs) /\ Len(InputsIn(s)) = Len(s)
         /\ \A k \in 1 .. Len(s) : InputsIn(s)[k] = s[k].input
<1>. DEFINE a == InputsIn(s)
<1>1. Len(s) \in Nat /\ DOMAIN s = 1 .. Len(s) /\ \A k \in 1 .. Len(s) : s[k] \in Record
  OBVIOUS
<1>2. a = [k \in 1 .. Len(s) |-> s[k].input]
  BY <1>1 DEF InputsIn
<1>3. \A k \in 1 .. Len(s) : s[k].input \in Inputs
  BY <1>1 DEF Record
<1>4. \A k \in 1 .. Len(s) : a[k] = s[k].input
  BY <1>2
<1>5. DOMAIN a = 1 .. Len(s) /\ a = [k \in 1 .. Len(s) |-> a[k]]
  BY <1>2
<1>. HIDE DEF a
<1>6. a \in Seq(Inputs) /\ Len(a) = Len(s)
  BY <1>1, <1>3, <1>4, <1>5
<1>. QED
  BY <1>4, <1>6 DEF a

LEMMA InputsAppend ==
  ASSUME NEW s \in Seq(Record), NEW x \in Record
  PROVE  InputsIn(Append(s, x)) = Append(InputsIn(s), x.input)
<1>. DEFINE n == Len(s)
            y == x.input
            a == InputsIn(Append(s, x))
            b == Append(InputsIn(s), y)
<1>1. /\ n \in Nat /\ Append(s, x) \in Seq(Record) /\ Len(Append(s, x)) = n + 1
      /\ Append(s, x)[n + 1] = x /\ \A k \in 1 .. n : Append(s, x)[k] = s[k]
  OBVIOUS
<1>2. y \in Inputs
  BY DEF Record
<1>3. /\ a \in Seq(Inputs) /\ Len(a) = n + 1
      /\ \A k \in 1 .. n + 1 : a[k] = Append(s, x)[k].input
  BY <1>1, InputsTyped
<1>4. a[n + 1] = y /\ \A k \in 1 .. n : a[k] = s[k].input
  <2>1. n + 1 \in 1 .. n + 1 /\ \A k \in 1 .. n : k \in 1 .. n + 1
    BY <1>1
  <2>. QED
    BY <1>1, <1>3, <2>1
<1>5. /\ InputsIn(s) \in Seq(Inputs) /\ Len(InputsIn(s)) = n
      /\ \A k \in 1 .. n : InputsIn(s)[k] = s[k].input
  BY InputsTyped
<1>. HIDE DEF y, a
<1>6. /\ b \in Seq(Inputs) /\ Len(b) = n + 1 /\ b[n + 1] = y
      /\ \A k \in 1 .. n : b[k] = InputsIn(s)[k]
  BY <1>2, <1>5
<1>. HIDE DEF b, n
<1>7. \A k \in 1 .. n + 1 : a[k] = b[k]
  <2>1. \A k \in 1 .. n + 1 : k \in 1 .. n \/ k = n + 1
    BY <1>1
  <2>. QED
    BY <1>4, <1>5, <1>6, <2>1
<1>8. a = b
  BY <1>1, <1>3, <1>6, <1>7
<1>. QED
  BY <1>8 DEF a, b, y

\* The recorder does what Note says.
LEMMA OnEventNotes ==
  ASSUME NEW r \in Recorder, NEW s \in Seq(Record), NEW e \in Event
  PROVE  /\ NotesOf(r, s) \in Noted
         /\ NotesOf(OnEvent(r, e), s \o Finished(r, e)) = Note(NotesOf(r, s), e)
<1>. DEFINE t == NotesOf(r, s)
            x == [input |-> r.input, nodePath |-> r.nodePath, status |-> e.ev]
<1>1. /\ r.pendingInput \in Inputs /\ r.open \in BOOLEAN /\ r.input \in Inputs /\ r.nodePath \in Seq(Nodes)
      /\ r = [pendingInput |-> r.pendingInput, open |-> r.open, input |-> r.input, nodePath |-> r.nodePath]
  BY DEF Recorder
<1>2. /\ t = [pending |-> r.pendingInput, open |-> r.open, input |-> r.input, inputs |-> InputsIn(s)]
      /\ InputsIn(s) \in Seq(Inputs)
  BY InputsTyped DEF NotesOf
<1>3. t \in Noted
  BY <1>1, <1>2 DEF Noted
<1>4. Finished(r, e) = <<>> => s \o Finished(r, e) = s
  BY ConcatEmptySeq
<1>5. CASE e.ev = "run_started"
  <2>1. /\ Finished(r, e) = <<>>
        /\ OnEvent(r, e).pendingInput = 0 /\ OnEvent(r, e).open = TRUE
        /\ OnEvent(r, e).input = r.pendingInput
    BY <1>5 DEF Finished, FinishedEvents, OnEvent, Opened
  <2>2. Note(t, e) = [t EXCEPT !.pending = 0, !.open = TRUE, !.input = t.pending]
    BY <1>5 DEF Note, FinishedEvents
  <2>3. Note(t, e) = [pending |-> 0, open |-> TRUE, input |-> r.pendingInput, inputs |-> InputsIn(s)]
    <3>. HIDE DEF t
    <3>. QED
      BY <1>2, <2>2
  <2>4. s \o Finished(r, e) = s
    BY <1>4, <2>1
  <2>. QED
    BY <1>3, <2>1, <2>3, <2>4 DEF NotesOf
<1>6. CASE e.ev \in FinishedEvents
  <2>1. OnEvent(r, e) = [r EXCEPT !.open = FALSE] /\ Finished(r, e) = IF r.open THEN <<x>> ELSE <<>>
    BY <1>6 DEF OnEvent, Finished, FinishedEvents
  <2>2. Note(t, e) = IF t.open THEN [t EXCEPT !.open = FALSE, !.inputs = Append(@, t.input)] ELSE t
    BY <1>6 DEF Note, FinishedEvents
  <2>3. CASE r.open
    <3>1. x \in Record /\ x.input = r.input
      BY <1>1, <1>6 DEF Record
    <3>2. s \o Finished(r, e) = Append(s, x)
      BY <2>1, <2>3, <3>1, AppendIsConcat
    <3>3. InputsIn(s \o Finished(r, e)) = Append(InputsIn(s), r.input)
      BY <3>1, <3>2, InputsAppend
    <3>4. Note(t, e) = [t EXCEPT !.open = FALSE, !.inputs = Append(@, r.input)]
      BY <1>2, <2>2, <2>3
    <3>. HIDE DEF x
    <3>5. /\ OnEvent(r, e).open = FALSE /\ OnEvent(r, e).pendingInput = r.pendingInput
          /\ OnEvent(r, e).input = r.input
      BY <1>1, <2>1
    <3>. QED
      BY <1>2, <1>3, <3>3, <3>4, <3>5 DEF NotesOf
  <2>4. CASE ~r.open
    <3>1. OnEvent(r, e) = r
      BY <1>1, <2>1, <2>4
    <3>2. Note(t, e) = t
      BY <1>2, <2>2, <2>4
    <3>. QED
      BY <1>3, <1>4, <2>1, <2>4, <3>1, <3>2
  <2>. QED
    BY <2>3, <2>4
<1>7. CASE e.ev \notin {"run_started"} \cup FinishedEvents
  <2>1. Finished(r, e) = <<>> /\ Note(t, e) = t
    BY <1>7 DEF Finished, Note, FinishedEvents
  <2>2. OnEvent(r, e) = r \/ OnEvent(r, e) = [r EXCEPT !.nodePath = Append(@, e.node)]
    BY <1>7 DEF OnEvent, Visited, FinishedEvents
  <2>3. /\ OnEvent(r, e).open = r.open /\ OnEvent(r, e).pendingInput = r.pendingInput
        /\ OnEvent(r, e).input = r.input
    BY <1>1, <2>2
  <2>. QED
    BY <1>3, <1>4, <2>1, <2>3 DEF NotesOf
<1>. QED
  BY <1>5, <1>6, <1>7

LEMMA NotesMore ==
  ASSUME Typed, NEW x, Notes(x), NEW e \in Event, rec' = rec, saved' = saved, up' = Append(up, e)
  PROVE  Notes(Note(x, e))'
<1>1. <<x, e, Note(x, e)>> \in Noting /\ Note(x, e) \in Noted /\ NotesOf(rec', saved') = NotesOf(rec, saved)
  BY NoteTyped DEF Noting, Notes
<1>2. Reaches(Noting, NotesOf(rec', saved'), Append(up, e), Note(x, e))
  BY <1>1, ReachesOneMore DEF Notes, Typed
<1>. QED
  BY <1>1, <1>2 DEF Notes

LEMMA NotesTwoMore ==
  ASSUME Typed, NEW x, Notes(x), NEW e \in Event, NEW f \in Event,
         rec' = rec, saved' = saved, up' = Append(Append(up, e), f),
         Note(x, e) = x, Note(x, f) = x
  PROVE  Notes(x)'
<1>1. <<x, e, x>> \in Noting /\ <<x, f, x>> \in Noting /\ NotesOf(rec', saved') = NotesOf(rec, saved)
  BY DEF Noting, Notes
<1>2. up \in Seq(Event) /\ Append(up, e) \in Seq(Event)
  BY AppendProperties DEF Typed
<1>3. Reaches(Noting, NotesOf(rec, saved), Append(up, e), x)
  BY <1>1, <1>2, ReachesOneMore DEF Notes
<1>4. Reaches(Noting, NotesOf(rec', saved'), Append(Append(up, e), f), x)
  BY <1>1, <1>2, <1>3, ReachesOneMore
<1>. QED
  BY <1>4 DEF Notes

\* What the worker's steps do to the commands and the events under way.
LEMMA WorkerTakes ==
  ASSUME Shape, Worker, ~TakesRun
  PROVE  /\ Len(queue) \in Nat /\ Len(queue') \in Nat
         /\ \A k \in DOMAIN up : k \in DOMAIN up' /\ up'[k] = up[k]
         /\ \/ queue' = queue
            \/ Len(queue') + 1 = Len(queue) /\ \A k \in 1 .. Len(queue') : queue'[k] = queue[k + 1]
         /\ phase = "idle" =>
              /\ phase' = "idle" /\ up' = up /\ runs' = runs
              /\ Len(queue') + 1 = Len(queue) /\ queue[1].cmd # "start_run"
<1>1. Typed /\ up \in Seq(Event) /\ queue \in Seq(Command) /\ Len(queue) \in Nat
  BY DEF Shape, Typed
<1>2. \A k \in DOMAIN up : k \in DOMAIN up' /\ up'[k] = up[k]
  <2>1. \/ up' = up
        \/ \E e : up' = Append(up, e)
        \/ \E e, f : up' = Append(Append(up, e), f)
    BY <1>1, EmitsNodeRuns, EmitsPausesManually, EmitsPausesAtBreakpoint, EmitsCompletes,
       EmitsAborts, EmitsError, EmitsForks, EmitsNothing DEF Worker
  <2>2. \A e : \A k \in DOMAIN up : k \in DOMAIN Append(up, e) /\ Append(up, e)[k] = up[k]
    BY <1>1
  <2>3. \A e, f : \A k \in DOMAIN up :
           k \in DOMAIN Append(Append(up, e), f) /\ Append(Append(up, e), f)[k] = up[k]
    <3>1. ASSUME NEW e, NEW f, NEW k \in DOMAIN up
          PROVE  k \in DOMAIN Append(Append(up, e), f) /\ Append(Append(up, e), f)[k] = up[k]
      <4>. DEFINE s == Append(up, e)
                  S == Event \cup {e, f}
      <4>1. s \in Seq(S) /\ k \in DOMAIN s /\ s[k] = up[k]
        <5>1. up \in Seq(S) /\ e \in S
          BY <1>1
        <5>. HIDE DEF S
        <5>. QED
          BY <5>1
      <4>. HIDE DEF s, S
      <4>2. k \in DOMAIN Append(s, f) /\ Append(s, f)[k] = up[k]
        BY <4>1
      <4>. QED
        BY <4>2 DEF s
    <3>. QED
      BY <3>1
  <2>. QED
    BY <2>1, <2>2, <2>3
<1>3. \/ queue' = queue
      \/ \E cmds : Takes(cmds)
  BY DEF Worker, NodeRuns, PausesManually, PausesAtBreakpoint, Completes, AbortsStream,
         AbortsPause, Fails, Advances, Forks, Refuses, ForkRaises, Drops
<1>4. /\ \/ queue' = queue
         \/ Len(queue') + 1 = Len(queue) /\ \A k \in 1 .. Len(queue') : queue'[k] = queue[k + 1]
      /\ Len(queue') \in Nat
  BY <1>1, <1>3, TakenTyped
<1>5. phase = "idle" =>
        /\ phase' = "idle" /\ up' = up /\ runs' = runs
        /\ Len(queue') + 1 = Len(queue) /\ queue[1].cmd # "start_run"
  <2>. SUFFICES ASSUME phase = "idle"
                PROVE  /\ phase' = "idle" /\ up' = up /\ runs' = runs
                       /\ Len(queue') + 1 = Len(queue) /\ queue[1].cmd # "start_run"
    OBVIOUS
  <2>1. Drops
    BY DEF Worker, NodeRuns, PausesManually, PausesAtBreakpoint, Completes, AbortsStream,
           AbortsPause, Fails, Advances, Forks, Refuses, ForkRaises, Proto!NodeEvent,
           Proto!PausesForAnswer, Proto!PausesAtNode, Proto!Completes, Proto!Aborts, Proto!Fails,
           Proto!Continues, Proto!Refuses, Proto!Moves
  <2>2. /\ phase' = "idle" /\ runs' = runs /\ Takes({"step", "fork", "resume", "cancel"})
    BY <2>1 DEF Drops, Proto!Quiet
  <2>3. Head(queue).cmd # "start_run" /\ Head(queue) = queue[1] /\ Len(queue') + 1 = Len(queue)
    BY <1>1, <2>2, TakenTyped, SMTT(40)
  <2>. QED
    BY <1>1, <2>1, <2>2, <2>3, EmitsNothing
<1>. QED
  BY <1>1, <1>2, <1>4, <1>5

LEMMA OneStartWorker ==
  ASSUME Shape, OneStart, Worker
  PROVE  /\ OneStart'
         /\ \A x : Awaits(x) /\ ~TakesRun =>
              /\ phase = "idle" => Awaits(x)'
              /\ phase # "idle" => x.pending = 0 /\ Awaits(x)'
<1>1. /\ rec' = rec /\ Typed /\ queue \in Seq(Command) /\ queue' \in Seq(Command)
      /\ DOMAIN queue = 1 .. Len(queue) /\ DOMAIN queue' = 1 .. Len(queue')
      /\ Len(queue) \in Nat /\ Len(queue') \in Nat
  BY WorkerKeeps, TakesRunShape, NodeRunsShape, PausesShape, EndingsShape, QuietShape,
     ForksShape DEF Worker, Shape, Typed
<1>2. CASE TakesRun
  <2>1. /\ Len(queue') + 1 = Len(queue) /\ queue[1].cmd = "start_run"
        /\ \A k \in 1 .. Len(queue') : queue'[k] = queue[k + 1]
    BY <1>1, <1>2, TakesRunBegins, TakenTyped
  <2>2. Starting(1) /\ 1 \in DOMAIN queue
    BY <1>1, <2>1 DEF Starting
  <2>3. ASSUME NEW k \in DOMAIN queue', Starting(k)' PROVE FALSE
    <3>1. k + 1 \in DOMAIN queue /\ queue[k + 1].cmd = "start_run" /\ k + 1 # 1
      BY <1>1, <2>1, <2>3 DEF Starting
    <3>2. Starting(k + 1)
      BY <3>1 DEF Starting
    <3>. QED
      BY <2>2, <3>1, <3>2 DEF OneStart
  <2>4. Announced'
    <3>1. up' = Append(up, Now("run_started")) /\ up \in Seq(Event)
      BY <1>1, <1>2, EmitsTakesRun DEF Typed
    <3>. DEFINE e == Now("run_started")
    <3>2. e.ev = "run_started"
      BY DEF Now
    <3>. HIDE DEF e
    <3>3. Len(up) + 1 \in DOMAIN Append(up, e) /\ Append(up, e)[Len(up) + 1] = e
      BY <3>1
    <3>. QED
      BY <3>1, <3>2, <3>3 DEF Announced, e
  <2>. QED
    BY <1>2, <2>3, <2>4 DEF OneStart
<1>3. CASE ~TakesRun
  <2>1. /\ \A k \in DOMAIN up : k \in DOMAIN up' /\ up'[k] = up[k]
        /\ \/ queue' = queue
           \/ Len(queue') + 1 = Len(queue) /\ \A k \in 1 .. Len(queue') : queue'[k] = queue[k + 1]
        /\ phase = "idle" =>
             /\ phase' = "idle" /\ up' = up
             /\ Len(queue') + 1 = Len(queue) /\ queue[1].cmd # "start_run"
    BY <1>3, WorkerTakes
  <2>2. Announced => Announced'
    BY <2>1 DEF Announced
  <2>3. PICK d \in {0, 1} : /\ Len(queue') + d = Len(queue)
                            /\ \A k \in 1 .. Len(queue') : queue'[k] = queue[k + d]
                            /\ phase = "idle" => d = 1
    <3>1. CASE queue' = queue
      <4>1. /\ Len(queue') + 0 = Len(queue) /\ \A k \in 1 .. Len(queue') : queue'[k] = queue[k + 0]
        BY <1>1, <3>1
      <4>2. phase # "idle"
        <5>1. Len(queue') = Len(queue)
          BY <3>1, Zenon
        <5>2. \A n \in Nat : n + 1 # n
          OBVIOUS
        <5>. QED
          BY <1>1, <2>1, <5>1, <5>2
      <4>. QED
        BY <4>1, <4>2
    <3>2. CASE queue' # queue
      BY <2>1, <3>2
    <3>. QED
      BY <3>1, <3>2
  <2>4. \A k \in DOMAIN queue' :
           /\ k + d \in DOMAIN queue /\ queue'[k] = queue[k + d]
           /\ Starting(k)' <=> Starting(k + d)
    BY <1>1, <2>3 DEF Starting
  <2>5. \A j, k \in DOMAIN queue' : Starting(j)' /\ Starting(k)' => j = k
    <3>1. ASSUME NEW j \in DOMAIN queue', NEW k \in DOMAIN queue', Starting(j)', Starting(k)'
          PROVE  j = k
      <4>1. j + d = k + d
        BY <2>4, <3>1 DEF OneStart
      <4>. QED
        BY <1>1, <4>1
    <3>. QED
      BY <3>1
  <2>6. CASE phase = "idle"
    <3>1. phase' = "idle" /\ up' = up /\ d = 1 /\ queue[1].cmd # "start_run"
      BY <2>1, <2>3, <2>6
    <3>2. Announced' <=> Announced
      BY <3>1 DEF Announced
    <3>3. ASSUME NEW k \in DOMAIN queue, Starting(k)
          PROVE  k - 1 \in DOMAIN queue' /\ (k - 1) + 1 = k
      BY <1>1, <2>3, <3>1, <3>3 DEF Starting
    <3>4. (\A k \in DOMAIN queue' : ~Starting(k)') => \A k \in DOMAIN queue : ~Starting(k)
      BY <2>4, <3>1, <3>3
    <3>5. \A k \in DOMAIN queue' : Starting(k)' =>
             /\ queue'[k].input = rec'.pendingInput
             /\ rec'.pendingInput # 0 => phase' = "idle" /\ ~Announced'
      BY <1>1, <2>4, <3>1, <3>2 DEF OneStart
    <3>6. rec'.pendingInput # 0 /\ (\A k \in DOMAIN queue' : ~Starting(k)') => Announced'
      BY <1>1, <3>2, <3>4 DEF OneStart
    <3>7. \A x : Awaits(x) => Awaits(x)'
      BY <2>4, <3>4 DEF Awaits
    <3>. QED
      BY <1>3, <2>5, <2>6, <3>5, <3>6, <3>7 DEF OneStart
  <2>7. CASE phase # "idle"
    <3>1. \A k \in DOMAIN queue : Starting(k) => queue[k].input = 0 /\ rec.pendingInput = 0
      BY <2>7 DEF OneStart
    <3>2. \A k \in DOMAIN queue' : Starting(k)' => queue'[k].input = 0 /\ rec'.pendingInput = 0
      BY <1>1, <2>4, <3>1
    <3>3. rec'.pendingInput # 0 => Announced'
      BY <1>1, <2>2, <3>1 DEF OneStart
    <3>4. OneStart'
      BY <2>5, <3>2, <3>3 DEF OneStart
    <3>5. ASSUME NEW x, Awaits(x)
          PROVE  x.pending = 0 /\ Awaits(x)'
      <4>1. x.pending = 0
        <5>1. CASE \E k \in DOMAIN queue : Starting(k)
          BY <3>1, <3>5, <5>1 DEF Awaits
        <5>2. CASE \A k \in DOMAIN queue : ~Starting(k)
          BY <3>5, <5>2 DEF Awaits
        <5>. QED
          BY <5>1, <5>2
      <4>. QED
        BY <3>2, <4>1 DEF Awaits
    <3>. QED
      BY <2>7, <3>4, <3>5
  <2>. QED
    BY <2>6, <2>7
<1>. QED
  BY <1>2, <1>3

LEMMA InputsWorker == ASSUME Shape, InputsFollow, Worker PROVE InputsFollow'
<1>. SUFFICES ASSUME ~crossed' PROVE InputsFollow'
  BY DEF InputsFollow
<1>1. /\ alive /\ alive' /\ ~crossed /\ rec' = rec /\ saved' = saved /\ Typed /\ ~cut /\ ~cut'
  BY WorkerKeeps DEF Shape, Whole
<1>2. OneStart /\ OneStart'
  BY <1>1, OneStartWorker DEF InputsFollow
<1>. PICK x : Notes(x) /\ TrueInputs(x) /\ Awaits(x)
  BY <1>1 DEF InputsFollow
<1>3. ~TakesRun => /\ Awaits(x)'
                   /\ phase # "idle" => x.pending = 0
  BY <1>2, OneStartWorker
<1>. PICK here : here = at'
  OBVIOUS
<1>. DEFINE E(ev) == [ev |-> ev, node |-> here]
<1>4. /\ \A ev : Now(ev) = E(ev)
      /\ x \in Noted /\ x.pending \in Inputs /\ x.open \in BOOLEAN /\ x.inputs \in Seq(Inputs)
      /\ at' \in Nodes \cup {Nowhere}
  BY TakesRunShape, NodeRunsShape, PausesShape, EndingsShape, QuietShape, ForksShape
  DEF Worker, Shape, Typed, Now, Notes, Noted
<1>5. \A ev \in Carried \ {"node_start"} : E(ev) \in Event /\ E(ev).ev = ev
  BY <1>4, NowTyped
<1>6. CASE TakesRun \/ Forks
  <2>. DEFINE u == Note(x, E("run_started"))
  <2>1. up' = Append(up, E("run_started")) /\ Ran' = Ran /\ E("run_started") \in Event
    BY <1>1, <1>4, <1>5, <1>6, EmitsTakesRun, EmitsForks, RanStays DEF Carried
  <2>2. Notes(u)'
    BY <1>1, <2>1, NotesMore
  <2>3. u = [x EXCEPT !.pending = 0, !.open = TRUE, !.input = x.pending]
    BY DEF Note, FinishedEvents
  <2>4. u.pending = 0 /\ u.open = TRUE /\ u.input = x.pending /\ u.inputs = x.inputs
    <3>. HIDE DEF u
    <3>. QED
      BY <1>4, <2>3 DEF Noted
  <2>. HIDE DEF u
  <2>5. runs'[Len(runs')].input = x.pending /\ Awaits(u)'
    <3>1. CASE TakesRun
      <4>1. /\ runs'[Len(runs')].input = queue[1].input /\ queue[1].cmd = "start_run"
            /\ queue \in Seq(Command) /\ queue # <<>> /\ queue' = Tail(queue)
        BY <1>1, <3>1, TakesRunBegins DEF Takes, Typed
      <4>2. Starting(1) /\ 1 \in DOMAIN queue
        BY <4>1 DEF Starting
      <4>3. \A k \in DOMAIN queue' : ~Starting(k)'
        <5>1. ASSUME NEW k \in DOMAIN queue', Starting(k)' PROVE FALSE
          <6>1. k + 1 \in DOMAIN queue /\ queue[k + 1].cmd = "start_run" /\ k + 1 # 1
            BY <4>1, <5>1 DEF Starting
          <6>2. Starting(k + 1)
            BY <6>1 DEF Starting
          <6>. QED
            BY <1>2, <4>2, <6>1, <6>2 DEF OneStart
        <5>. QED
          BY <5>1
      <4>. QED
        BY <2>4, <4>1, <4>2, <4>3 DEF Awaits
    <3>2. CASE Forks
      <4>1. ~TakesRun /\ phase # "idle"
        BY <3>2, ForksRuns DEF TakesRun, Proto!Starts, Proto!Moves
      <4>2. x.pending = 0 /\ Awaits(x)'
        BY <1>3, <4>1
      <4>3. runs'[Len(runs')].input = 0
        BY <3>2, ForksRuns
      <4>. QED
        BY <2>4, <4>2, <4>3 DEF Awaits
    <3>. QED
      BY <1>6, <3>1, <3>2
  <2>6. TrueInputs(u)'
    BY <1>1, <2>1, <2>4, <2>5 DEF TrueInputs
  <2>. QED
    BY <1>2, <2>2, <2>5, <2>6 DEF InputsFollow
<1>7. CASE Completes \/ AbortsStream \/ AbortsPause
  <2>1. PICK ev \in FinishedEvents : Leaves(ev) /\ up' = Append(up, E(ev))
    BY <1>1, <1>4, <1>7, EmitsCompletes, EmitsAborts, EndingsLeave DEF FinishedEvents
  <2>. DEFINE u == Note(x, E(ev))
              cur == runs[Len(runs)]
              done == [cur EXCEPT !.status = ev]
  <2>2. E(ev) \in Event /\ E(ev).ev = ev
    BY <1>5 DEF Carried, FinishedEvents
  <2>3. Notes(u)'
    BY <1>1, <2>1, <2>2, NotesMore
  <2>4. Ran' = Append(Ran, done) /\ cur \in Run
    BY <2>1, RanGrows
  <2>5. x.open /\ x.input = cur.input
    BY <1>1, <2>1 DEF TrueInputs, Leaves
  <2>6. u = [x EXCEPT !.open = FALSE, !.inputs = Append(@, x.input)]
    BY <2>2, <2>5 DEF Note, FinishedEvents
  <2>7. done.input = cur.input /\ done \in Run
    BY <2>4 DEF Run, Statuses
  <2>. HIDE DEF u, done
  <2>8. u.inputs = Append(x.inputs, x.input) /\ u.pending = x.pending
    BY <1>4, <2>6 DEF Noted
  <2>9. TrueInputs(u)'
    <3>. DEFINE n == Len(Ran)
    <3>1. n \in Nat /\ Ran \in Seq(Run)
      BY <1>1, RanTyped DEF Typed
    <3>2. Len(x.inputs) = n /\ \A k \in 1 .. n : x.inputs[k] = Ran[k].input
      BY <1>1 DEF TrueInputs
    <3>3. Len(u.inputs) = n + 1 /\ u.inputs[n + 1] = x.input /\ \A k \in 1 .. n : u.inputs[k] = x.inputs[k]
      BY <1>4, <2>8, <3>1, <3>2
    <3>4. Len(Ran') = n + 1 /\ Ran'[n + 1] = done /\ \A k \in 1 .. n : Ran'[k] = Ran[k]
      BY <2>4, <2>7, <3>1
    <3>. HIDE DEF n
    <3>5. \A k \in 1 .. n + 1 : k \in 1 .. n \/ k = n + 1
      BY <3>1
    <3>6. \A k \in 1 .. n + 1 : u.inputs[k] = Ran'[k].input
      BY <2>5, <2>7, <3>2, <3>3, <3>4, <3>5
    <3>7. Len(u.inputs) = Len(Ran') /\ \A k \in 1 .. Len(Ran') : u.inputs[k] = Ran'[k].input
      BY <3>3, <3>4, <3>6
    <3>8. ~Live'
      BY <2>1 DEF Leaves, Live
    <3>. QED
      BY <3>1, <3>4, <3>7, <3>8 DEF TrueInputs
  <2>10. Awaits(u)'
    <3>1. ~TakesRun
      BY <1>7 DEF TakesRun, Completes, AbortsStream, AbortsPause, Proto!Starts, Proto!Completes,
                  Proto!Aborts, Proto!Moves
    <3>. QED
      BY <1>3, <2>8, <3>1 DEF Awaits
  <2>. QED
    BY <1>2, <2>3, <2>9, <2>10 DEF InputsFollow
<1>8. CASE NodeRuns \/ PausesManually \/ PausesAtBreakpoint \/ Advances \/ Drops \/ Fails \/ Refuses \/ ForkRaises
  <2>1. \A ev \in {"manual_inference_required", "breakpoint_hit", "checkpoint_history", "error"} :
           E(ev) \in Event /\ Note(x, E(ev)) = x
    BY <1>5 DEF Note, FinishedEvents, Carried
  <2>2. NodeRuns => E("node_start") \in Event /\ Note(x, E("node_start")) = x
    <3>1. NodeRuns => Now("node_start") \in Event
      BY <1>4, NodeRunsPath, NowTyped DEF Carried
    <3>. QED
      BY <1>4, <3>1 DEF Note, FinishedEvents
  <2>3. Notes(x)'
    <3>1. CASE PausesManually
      BY <1>1, <1>4, <2>1, <3>1, EmitsPausesManually, NotesTwoMore
    <3>2. CASE PausesAtBreakpoint
      BY <1>1, <1>4, <2>1, <3>2, EmitsPausesAtBreakpoint, NotesTwoMore
    <3>3. CASE Advances \/ Drops
      BY <1>1, <3>3, EmitsNothing DEF Notes
    <3>4. CASE Fails \/ Refuses \/ ForkRaises
      <4>1. up' = Append(up, E("error")) /\ E("error") \in Event /\ Note(x, E("error")) = x
        BY <1>1, <1>4, <2>1, <3>4, EmitsError
      <4>2. Notes(Note(x, E("error")))'
        BY <1>1, <4>1, NotesMore
      <4>. QED
        BY <4>1, <4>2
    <3>5. CASE NodeRuns
      <4>1. up' = Append(up, E("node_start")) /\ E("node_start") \in Event /\ Note(x, E("node_start")) = x
        BY <1>1, <1>4, <2>2, <3>5, EmitsNodeRuns
      <4>2. Notes(Note(x, E("node_start")))'
        BY <1>1, <4>1, NotesMore
      <4>. QED
        BY <4>1, <4>2
    <3>. QED
      BY <1>8, <3>1, <3>2, <3>3, <3>4, <3>5
  <2>4. ~Live' \/ (Live /\ runs'[Len(runs')].input = runs[Len(runs)].input)
    <3>1. CASE Fails \/ ForkRaises
      BY <3>1, EndingsLeave DEF Leaves, Live
    <3>2. CASE PausesManually \/ PausesAtBreakpoint \/ Advances \/ Drops \/ Refuses
      BY <3>2 DEF PausesManually, PausesAtBreakpoint, Advances, Drops, Refuses, Live, Proto!Continues,
                  Proto!Refuses, Proto!Quiet, Proto!PausesForAnswer, Proto!PausesAtNode, Proto!Moves
    <3>3. CASE NodeRuns
      BY <3>3, NodeRunsPath DEF Live
    <3>. QED
      BY <1>8, <3>1, <3>2, <3>3
  <2>5. Ran' = Ran
    BY <1>8, RanStays
  <2>6. TrueInputs(x)'
    BY <1>1, <2>4, <2>5 DEF TrueInputs
  <2>7. Awaits(x)'
    <3>1. ~TakesRun
      BY <1>8 DEF TakesRun, NodeRuns, PausesManually, PausesAtBreakpoint, Advances, Drops, Fails, Refuses,
                  ForkRaises, Takes, Proto!Starts, Proto!NodeEvent, Proto!PausesForAnswer,
                  Proto!PausesAtNode, Proto!Continues, Proto!Refuses, Proto!Fails, Proto!Quiet, Proto!Moves
    <3>. QED
      BY <1>3, <3>1
  <2>. QED
    BY <1>2, <2>3, <2>6, <2>7 DEF InputsFollow
<1>. QED
  BY <1>6, <1>7, <1>8 DEF Worker

\* Closing the record and setting the pending input do not disturb each other.
LEMMA ClosesAlike ==
  ASSUME NEW y \in Noted, NEW i \in Inputs, NEW l
  PROVE  [[y EXCEPT !.pending = i] EXCEPT !.open = FALSE, !.inputs = l]
           = [[y EXCEPT !.open = FALSE, !.inputs = l] EXCEPT !.pending = i]
<1>. DEFINE a == [[y EXCEPT !.pending = i] EXCEPT !.open = FALSE, !.inputs = l]
            b == [[y EXCEPT !.open = FALSE, !.inputs = l] EXCEPT !.pending = i]
            Fields == {"pending", "open", "input", "inputs"}
<1>1. DOMAIN y = Fields
  BY DEF Noted
<1>2. a = [k \in Fields |-> a[k]] /\ b = [k \in Fields |-> b[k]]
  BY <1>1
<1>3. a.pending = b.pending /\ a.open = b.open /\ a.input = b.input /\ a.inputs = b.inputs
  BY <1>1
<1>. HIDE DEF a, b
<1>4. \A k \in Fields : a[k] = b[k]
  BY <1>3
<1>5. a = b
  BY <1>2, <1>4
<1>. QED
  BY <1>5 DEF a, b

\* A start_run that is posted when none is under way, apart from what it may cut.
LEMMA InputsPosted ==
  ASSUME Shape, InputsFollow, NEW cmd \in Command, Post(cmd), ~crossed'
  PROVE  /\ alive => OneStart'
         /\ \E z \in Noted : /\ Reaches(Noting, NotesOf(rec', saved'), up, z)
                             /\ TrueInputs(z) /\ (alive => Awaits(z)')
<1>1. /\ ~crossed /\ Typed /\ alive' = alive /\ phase' = phase /\ runs' = runs /\ (alive => up' = up)
      /\ saved' = saved /\ rec \in Recorder /\ queue \in Seq(Command) /\ Len(queue) \in Nat
      /\ queue' = IF alive THEN Append(queue, cmd) ELSE queue
      /\ rec' = IF cmd.cmd = "start_run" THEN [rec EXCEPT !.pendingInput = cmd.input] ELSE rec
      /\ ~(cmd.cmd = "start_run" /\ (StartUnderWay \/ (cmd.input # 0 /\ phase # "idle")))
  <2>1. /\ ~crossed
        /\ ~(cmd.cmd = "start_run" /\ (StartUnderWay \/ (cmd.input # 0 /\ phase # "idle")))
    <3>. DEFINE c == cmd.cmd = "start_run" /\ (StartUnderWay \/ (cmd.input # 0 /\ phase # "idle"))
    <3>1. crossed' = (crossed \/ c)
      BY DEF Post
    <3>. HIDE DEF c
    <3>2. ~crossed /\ ~c
      BY <3>1
    <3>. QED
      BY <3>2 DEF c
  <2>2. Typed /\ rec \in Recorder /\ queue \in Seq(Command) /\ Len(queue) \in Nat
    BY DEF Shape, Typed
  <2>3. /\ alive' = alive /\ phase' = phase /\ runs' = runs /\ (alive => up' = up) /\ saved' = saved
        /\ queue' = IF alive THEN Append(queue, cmd) ELSE queue
        /\ rec' = IF cmd.cmd = "start_run" THEN [rec EXCEPT !.pendingInput = cmd.input] ELSE rec
    BY DEF Post
  <2>. QED
    BY <2>1, <2>2, <2>3
<1>. PICK x : Notes(x) /\ TrueInputs(x) /\ (alive => Awaits(x))
  BY <1>1 DEF InputsFollow
<1>2. x \in Noted /\ up \in Seq(Event)
  BY <1>1 DEF Notes, Typed
<1>3. alive => /\ Len(queue') = Len(queue) + 1 /\ queue'[Len(queue) + 1] = cmd
               /\ \A k \in 1 .. Len(queue) : queue'[k] = queue[k]
               /\ DOMAIN queue' = 1 .. Len(queue) + 1 /\ DOMAIN queue = 1 .. Len(queue)
  BY <1>1
<1>4. CASE cmd.cmd # "start_run"
  <2>1. rec' = rec
    BY <1>1, <1>4
  <2>2. ASSUME alive
        PROVE  /\ \A k \in DOMAIN queue' : Starting(k)' => k \in DOMAIN queue /\ Starting(k) /\ queue'[k] = queue[k]
               /\ \A k \in DOMAIN queue : k \in DOMAIN queue' /\ (Starting(k) => Starting(k)')
    <3>1. \A k \in 1 .. Len(queue) + 1 : k \in 1 .. Len(queue) \/ k = Len(queue) + 1
      BY <1>1
    <3>2. \A k \in 1 .. Len(queue) : k \in 1 .. Len(queue) + 1
      BY <1>1
    <3>. QED
      BY <1>3, <1>4, <2>2, <3>1, <3>2 DEF Starting
  <2>3. alive => OneStart'
    BY <1>1, <2>1, <2>2 DEF InputsFollow, OneStart, Announced
  <2>4. alive => Awaits(x)'
    BY <2>2 DEF Awaits
  <2>5. Reaches(Noting, NotesOf(rec', saved'), up, x)
    BY <1>1, <2>1 DEF Notes
  <2>. QED
    BY <1>2, <2>3, <2>4, <2>5
<1>5. CASE cmd.cmd = "start_run"
  <2>. DEFINE i == cmd.input
  <2>1. /\ i \in Inputs /\ ~StartUnderWay /\ (i = 0 \/ phase = "idle")
        /\ rec' = [rec EXCEPT !.pendingInput = i]
    BY <1>1, <1>5 DEF Command
  <2>2. ~Announced /\ \A k \in DOMAIN queue : ~Starting(k)
    BY <2>1 DEF StartUnderWay, Announced, Starting
  <2>. DEFINE f == [y \in Noted |-> [y EXCEPT !.pending = i]]
              S == {e \in Event : e.ev # "run_started"}
  <2>3. up \in Seq(S)
    <3>1. \A k \in 1 .. Len(up) : up[k] \in S
      BY <1>2, <2>2 DEF Announced
    <3>. HIDE DEF S
    <3>. QED
      BY <1>2, <3>1
  <2>4. ASSUME NEW e \in S, NEW y, NEW z, <<y, e, z>> \in Noting
        PROVE  <<f[y], e, f[z]>> \in Noting
    <3>1. y \in Noted /\ z = Note(y, e) /\ e \in Event /\ z \in Noted
      BY <2>4, NoteTyped DEF Noting
    <3>2. f[y] = [y EXCEPT !.pending = i] /\ f[z] = [z EXCEPT !.pending = i]
      BY <3>1
    <3>3. f[y] \in Noted
      BY <2>1, <3>1, <3>2 DEF Noted
    <3>4. Note(f[y], e) = f[z]
      <4>1. CASE e.ev \in FinishedEvents /\ y.open
        <5>1. z = [y EXCEPT !.open = FALSE, !.inputs = Append(@, y.input)]
          BY <3>1, <4>1 DEF Note, FinishedEvents
        <5>2. f[y].open = y.open /\ f[y].input = y.input
          BY <3>1, <3>2 DEF Noted
        <5>. DEFINE l == Append(y.inputs, y.input)
        <5>3. Note(f[y], e) = [f[y] EXCEPT !.open = FALSE, !.inputs = l]
          BY <3>1, <3>2, <4>1, <5>2 DEF Note, FinishedEvents, Noted
        <5>4. z = [y EXCEPT !.open = FALSE, !.inputs = l]
          BY <5>1
        <5>. HIDE DEF f, l
        <5>5. [[y EXCEPT !.pending = i] EXCEPT !.open = FALSE, !.inputs = l]
                = [[y EXCEPT !.open = FALSE, !.inputs = l] EXCEPT !.pending = i]
          BY <2>1, <3>1, ClosesAlike
        <5>6. Note(f[y], e) = [[y EXCEPT !.pending = i] EXCEPT !.open = FALSE, !.inputs = l]
          BY <3>2, <5>3, Zenon
        <5>7. f[z] = [[y EXCEPT !.open = FALSE, !.inputs = l] EXCEPT !.pending = i]
          BY <3>2, <5>4, Zenon
        <5>. QED
          BY <5>5, <5>6, <5>7, Zenon
      <4>2. CASE ~(e.ev \in FinishedEvents /\ y.open)
        <5>1. z = y
          BY <3>1, <4>2 DEF Note, FinishedEvents
        <5>2. f[y].open = y.open
          BY <3>1, <3>2 DEF Noted
        <5>. HIDE DEF f
        <5>3. Note(f[y], e) = f[y]
          BY <4>2, <5>2 DEF Note, FinishedEvents
        <5>. QED
          BY <5>1, <5>3
      <4>. QED
        BY <4>1, <4>2
    <3>. HIDE DEF f, S
    <3>. QED
      BY <3>1, <3>3, <3>4 DEF Noting
  <2>. DEFINE u == [x EXCEPT !.pending = i]
  <2>5. Reaches(Noting, f[NotesOf(rec, saved)], up, f[x])
    <3>1. \A e \in S : \A y, z : <<y, e, z>> \in Noting => <<f[y], e, f[z]>> \in Noting
      BY <2>4
    <3>. HIDE DEF f, S
    <3>. QED
      BY <2>3, <3>1, ReachesMapped DEF Notes
  <2>6. f[x] = u /\ u \in Noted /\ u.pending = i /\ u.open = x.open /\ u.input = x.input /\ u.inputs = x.inputs
    BY <1>2, <2>1 DEF Noted
  <2>7. f[NotesOf(rec, saved)] = NotesOf(rec', saved')
    <3>1. NotesOf(rec, saved) \in Noted
      <4>1. /\ rec.pendingInput \in Inputs /\ rec.open \in BOOLEAN /\ rec.input \in Inputs
            /\ InputsIn(saved) \in Seq(Inputs)
        BY <1>1, InputsTyped DEF Recorder, Typed
      <4>. QED
        BY <4>1 DEF NotesOf, Noted
    <3>2. f[NotesOf(rec, saved)] = [NotesOf(rec, saved) EXCEPT !.pending = i]
      BY <3>1
    <3>3. rec'.pendingInput = i /\ rec'.open = rec.open /\ rec'.input = rec.input
      BY <1>1, <2>1 DEF Recorder
    <3>. QED
      BY <1>1, <3>2, <3>3 DEF NotesOf
  <2>8. Reaches(Noting, NotesOf(rec', saved'), up, u)
    <3>. HIDE DEF f, u
    <3>. QED
      BY <2>5, <2>6, <2>7
  <2>9. TrueInputs(u)
    <3>. HIDE DEF u
    <3>. QED
      BY <2>6 DEF TrueInputs
  <2>10. rec'.pendingInput = i
    BY <1>1, <2>1 DEF Recorder
  <2>11. ASSUME alive
         PROVE  /\ \A k \in DOMAIN queue' : Starting(k)' <=> k = Len(queue) + 1
                /\ Len(queue) + 1 \in DOMAIN queue' /\ queue'[Len(queue) + 1] = cmd
    <3>1. \A k \in 1 .. Len(queue) + 1 : k = Len(queue) + 1 \/ (k # Len(queue) + 1 /\ k \in 1 .. Len(queue))
      BY <1>1
    <3>2. Len(queue) + 1 \in 1 .. Len(queue) + 1
      BY <1>1
    <3>. QED
      BY <1>3, <1>5, <2>2, <2>11, <3>1, <3>2 DEF Starting
  <2>12. alive => OneStart'
    BY <1>1, <2>1, <2>2, <2>10, <2>11 DEF OneStart, Announced
  <2>13. alive => Awaits(u)'
    <3>. HIDE DEF u
    <3>. QED
      BY <2>6, <2>11 DEF Awaits
  <2>. HIDE DEF u
  <2>. QED
    BY <2>6, <2>8, <2>9, <2>12, <2>13
<1>. QED
  BY <1>4, <1>5

\* What has been noted stays so.
LEMMA NotedIsKept ==
  ASSUME NEW y \in Noted, NEW events \in Seq(Event), NEW x, Reaches(Noting, y, events, x)
  PROVE  /\ x \in Noted /\ Len(y.inputs) <= Len(x.inputs)
         /\ \A k \in 1 .. Len(y.inputs) : x.inputs[k] = y.inputs[k]
<1>. DEFINE n == Len(y.inputs)
            A == {z \in Noted : Len(z.inputs) >= n /\ \A k \in 1 .. n : z.inputs[k] = y.inputs[k]}
<1>1. n \in Nat
  BY DEF Noted
<1>2. y \in A
  BY <1>1
<1>3. ASSUME NEW z \in A, NEW e \in Event
      PROVE  Note(z, e) \in A
  <2>1. /\ z \in Noted /\ Len(z.inputs) >= n /\ z.inputs \in Seq(Inputs)
        /\ \A k \in 1 .. n : z.inputs[k] = y.inputs[k]
    BY DEF Noted
  <2>2. Note(z, e) \in Noted
    BY <2>1, NoteTyped
  <2>3. PICK i : Note(z, e).inputs = z.inputs \/ Note(z, e).inputs = Append(z.inputs, i)
    <3>1. CASE e.ev \in FinishedEvents /\ z.open
      BY <2>1, <3>1 DEF Note, FinishedEvents, Noted
    <3>2. CASE ~(e.ev \in FinishedEvents /\ z.open)
      BY <2>1, <3>2 DEF Note, FinishedEvents, Noted
    <3>. QED
      BY <3>1, <3>2
  <2>. HIDE DEF n
  <2>4. CASE Note(z, e).inputs = z.inputs
    BY <2>1, <2>2, <2>4
  <2>5. CASE Note(z, e).inputs = Append(z.inputs, i)
    <3>1. Len(Append(z.inputs, i)) >= n /\ \A k \in 1 .. n : Append(z.inputs, i)[k] = z.inputs[k]
      BY <1>1, <2>1
    <3>. QED
      BY <2>1, <2>2, <2>5, <3>1
  <2>. QED
    BY <2>3, <2>4, <2>5
<1>4. \A z \in A, e \in Event : \A w : <<z, e, w>> \in Noting => w \in A
  <2>1. \A z \in A, e \in Event : \A w : <<z, e, w>> \in Noting => w = Note(z, e)
    BY DEF Noting
  <2>. HIDE DEF A
  <2>. QED
    BY <1>3, <2>1
<1>5. x \in A
  <2>. HIDE DEF A
  <2>. QED
    BY <1>2, <1>4, ReachesKeeps
<1>6. x \in Noted /\ x.inputs \in Seq(Inputs)
  BY <1>5 DEF Noted
<1>. QED
  BY <1>1, <1>5, <1>6

\* What the recorder notes from is typed.
LEMMA NotesOfTyped == ASSUME Typed PROVE NotesOf(rec, saved) \in Noted
<1>1. /\ rec.pendingInput \in Inputs /\ rec.open \in BOOLEAN /\ rec.input \in Inputs
      /\ InputsIn(saved) \in Seq(Inputs)
  BY InputsTyped DEF Recorder, Typed
<1>. QED
  BY <1>1 DEF NotesOf, Noted

LEMMA InputsPost == ASSUME Shape, InputsFollow, NEW cmd \in Command, Post(cmd) PROVE InputsFollow'
<1>. SUFFICES ASSUME ~crossed' PROVE InputsFollow'
  BY DEF InputsFollow
<1>1. /\ Typed /\ Typed' /\ alive' = alive /\ phase' = phase /\ runs' = runs /\ Ran' = Ran /\ up \in Seq(Event)
      /\ (cut' => ~alive)
  <2>1. Typed /\ Typed' /\ Whole'
    BY PostShape DEF Shape
  <2>2. alive' = alive /\ phase' = phase /\ runs' = runs
    BY DEF Post
  <2>. QED
    BY <2>1, <2>2 DEF Ran, Typed, Whole
<1>2. PICK z \in Noted : /\ Reaches(Noting, NotesOf(rec', saved'), up, z)
                        /\ TrueInputs(z) /\ (alive => Awaits(z)')
  BY InputsPosted
<1>3. alive => OneStart'
  BY InputsPosted
<1>4. /\ ~cut' => up' = up /\ ~cut
      /\ \E k \in 0 .. Len(up) : up' = SubSeq(up, 1, k)
  BY <1>1, PostUp
<1>5. CASE ~cut'
  <2>1. Notes(z)' /\ TrueInputs(z)'
    BY <1>1, <1>2, <1>4, <1>5 DEF Notes, TrueInputs, Live
  <2>. QED
    BY <1>1, <1>2, <1>3, <2>1 DEF InputsFollow
<1>6. CASE cut'
  <2>1. PICK k \in 0 .. Len(up) : up' = SubSeq(up, 1, k)
    BY <1>4
  <2>2. PICK y : /\ Reaches(Noting, NotesOf(rec', saved'), up', y)
                 /\ \E rest \in Seq(Event) : Reaches(Noting, y, rest, z)
    BY <1>1, <1>2, <2>1, ReachesFirst
  <2>3. up' \in Seq(Event) /\ NotesOf(rec', saved') \in Noted
    <3>1. rec' \in Recorder /\ saved' \in Seq(Record) /\ up' \in Seq(Event)
      BY <1>1 DEF Typed
    <3>2. /\ rec'.pendingInput \in Inputs /\ rec'.open \in BOOLEAN /\ rec'.input \in Inputs
          /\ InputsIn(saved') \in Seq(Inputs)
      BY <3>1, InputsTyped DEF Recorder
    <3>. QED
      BY <3>1, <3>2 DEF NotesOf, Noted
  <2>4. y \in Noted
    BY <2>2, <2>3, NotedIsKept
  <2>5. Len(y.inputs) <= Len(z.inputs) /\ \A i \in 1 .. Len(y.inputs) : z.inputs[i] = y.inputs[i]
    BY <2>2, <2>4, NotedIsKept
  <2>6. Len(y.inputs) \in Nat /\ Len(z.inputs) \in Nat /\ Len(Ran) \in Nat
    BY <1>1, <1>2, <2>4, RanTyped DEF Noted, Typed
  <2>7. TrueInputs(y)'
    <3>1. Len(y.inputs) <= Len(Ran)
      BY <1>2, <2>5, <2>6 DEF TrueInputs
    <3>2. ASSUME NEW i \in 1 .. Len(y.inputs)
          PROVE  y.inputs[i] = Ran[i].input
      <4>1. i \in 1 .. Len(z.inputs) /\ z.inputs[i] = y.inputs[i]
        BY <2>5, <2>6
      <4>. QED
        BY <1>2, <4>1 DEF TrueInputs
    <3>. QED
      BY <1>1, <1>6, <3>1, <3>2 DEF TrueInputs
  <2>8. Notes(y)'
    BY <2>2, <2>4 DEF Notes
  <2>. QED
    BY <1>1, <1>6, <2>7, <2>8 DEF InputsFollow
<1>. QED
  BY <1>5, <1>6

LEMMA InputsOthers ==
  ASSUME Shape, InputsFollow, WorkerDies \/ Records \/ Shows \/ UNCHANGED vars
  PROVE  InputsFollow'
<1>1. CASE WorkerDies
  <2>1. /\ alive' = FALSE /\ crossed' = crossed /\ rec' = rec /\ saved' = saved /\ up' = up
        /\ runs' = runs /\ phase' = phase /\ cut' = cut
    BY <1>1 DEF WorkerDies
  <2>2. \A x : Notes(x) /\ TrueInputs(x) => Notes(x)' /\ TrueInputs(x)'
    BY <2>1 DEF Notes, TrueInputs, Ran, Live
  <2>. QED
    BY <2>1, <2>2 DEF InputsFollow
<1>2. CASE Shows \/ UNCHANGED vars
  <2>1. /\ alive' = alive /\ crossed' = crossed /\ rec' = rec /\ saved' = saved /\ up' = up
        /\ runs' = runs /\ phase' = phase /\ queue' = queue /\ cut' = cut
    BY <1>2 DEF Shows, vars, worker
  <2>2. \A x : Notes(x) /\ TrueInputs(x) => Notes(x)' /\ TrueInputs(x)'
    BY <2>1 DEF Notes, TrueInputs, Ran, Live
  <2>3. OneStart => OneStart'
    BY <2>1 DEF OneStart, Announced, Starting
  <2>4. \A x : Awaits(x) => Awaits(x)'
    BY <2>1 DEF Awaits, Starting
  <2>. QED
    BY <2>1, <2>2, <2>3, <2>4 DEF InputsFollow
<1>3. CASE Records
  <2>. SUFFICES ASSUME ~crossed' PROVE InputsFollow'
    BY DEF InputsFollow
  <2>1. /\ Typed /\ ~crossed /\ alive' = alive /\ phase' = phase /\ runs' = runs /\ queue' = queue
        /\ cut' = cut
        /\ up \in Seq(Event) /\ up # <<>> /\ Head(up) \in Event /\ up' = Tail(up)
        /\ rec' = OnEvent(rec, Head(up)) /\ saved' = saved \o Finished(rec, Head(up))
    BY <1>3 DEF Records, worker, Shape, Typed
  <2>. PICK x : Notes(x) /\ TrueInputs(x) /\ (alive => Awaits(x))
    BY <2>1 DEF InputsFollow
  <2>2. NotesOf(rec', saved') = Note(NotesOf(rec, saved), Head(up))
    BY <2>1, OnEventNotes DEF Typed
  <2>3. PICK d : <<NotesOf(rec, saved), Head(up), d>> \in Noting /\ Reaches(Noting, d, up', x)
    BY <2>1, ReachesRest DEF Notes
  <2>4. d = NotesOf(rec', saved')
    BY <2>2, <2>3 DEF Noting
  <2>5. Notes(x)' /\ TrueInputs(x)' /\ (Awaits(x) => Awaits(x)')
    BY <2>1, <2>3, <2>4 DEF Notes, TrueInputs, Ran, Live, Awaits, Starting
  <2>6. alive => OneStart'
    <3>. SUFFICES ASSUME alive PROVE OneStart'
      OBVIOUS
    <3>1. OneStart
      BY <2>1 DEF InputsFollow
    <3>2. \A k : Starting(k)' <=> Starting(k)
      BY <2>1 DEF Starting
    <3>3. Announced' => Announced
      <4>1. \A k \in DOMAIN Tail(up) : k + 1 \in DOMAIN up /\ Tail(up)[k] = up[k + 1]
        BY <2>1
      <4>. QED
        BY <2>1, <4>1 DEF Announced
    <3>4. CASE Head(up).ev = "run_started"
      <4>1. Announced
        BY <2>1, <3>4 DEF Announced
      <4>2. rec'.pendingInput = 0
        BY <2>1, <3>4 DEF OnEvent, Opened, FinishedEvents
      <4>. QED
        BY <2>1, <3>1, <3>2, <4>1, <4>2 DEF OneStart
    <3>5. CASE Head(up).ev # "run_started"
      <4>1. rec'.pendingInput = rec.pendingInput
        <5>1. OnEvent(rec, Head(up)) \in {rec, [rec EXCEPT !.open = FALSE],
                                          [rec EXCEPT !.nodePath = Append(@, Head(up).node)]}
          BY <3>5 DEF OnEvent, Visited, FinishedEvents
        <5>. QED
          BY <2>1, <5>1 DEF Typed, Recorder
      <4>2. Announced => Announced'
        <5>1. \A k \in DOMAIN up : k # 1 => k - 1 \in DOMAIN Tail(up) /\ Tail(up)[k - 1] = up[k]
          BY <2>1
        <5>2. Head(up) = up[1]
          BY <2>1
        <5>. QED
          BY <2>1, <3>5, <5>1, <5>2 DEF Announced
      <4>. QED
        BY <2>1, <3>1, <3>2, <3>3, <4>1, <4>2 DEF OneStart
    <3>. QED
      BY <3>4, <3>5
  <2>. QED
    BY <2>1, <2>5, <2>6 DEF InputsFollow
<1>. QED
  BY <1>1, <1>2, <1>3

LEMMA InputsFollowAlways == Spec => []InputsFollow
<1>1. Init => InputsFollow
  <2>. SUFFICES ASSUME Init PROVE InputsFollow
    OBVIOUS
  <2>1. /\ up = <<>> /\ saved = <<>> /\ runs = <<>> /\ phase = "idle" /\ queue = <<>>
        /\ rec = [pendingInput |-> 0, open |-> FALSE, input |-> 0, nodePath |-> <<>>]
    BY DEF Init, Proto!Init
  <2>. DEFINE x == NotesOf(rec, saved)
  <2>2. InputsIn(saved) = <<>>
    <3>1. saved \in Seq(Record)
      BY <2>1
    <3>2. InputsIn(saved) \in Seq(Inputs) /\ Len(InputsIn(saved)) = 0
      BY <2>1, <3>1, InputsTyped
    <3>. QED
      BY <3>2
  <2>3. x = [pending |-> 0, open |-> FALSE, input |-> 0, inputs |-> <<>>]
    BY <2>1, <2>2 DEF NotesOf
  <2>. HIDE DEF x
  <2>4. x \in Noted
    <3>1. 0 \in Inputs /\ <<>> \in Seq(Inputs)
      BY BoundsAssumption DEF Inputs
    <3>. QED
      BY <2>3, <3>1 DEF Noted
  <2>5. Notes(x)
    BY <2>1, <2>4, ReachesNone DEF Notes, x
  <2>6. Ran = <<>>
    <3>1. {k \in DOMAIN runs : runs[k].status \in FinishedEvents} = {}
      BY <2>1
    <3>. QED
      BY <3>1, AtNone DEF Ran
  <2>7. TrueInputs(x) /\ Awaits(x) /\ OneStart
    BY <2>1, <2>3, <2>6 DEF TrueInputs, Live, Awaits, OneStart, Starting
  <2>. QED
    BY <2>5, <2>7 DEF InputsFollow
<1>2. Shape /\ InputsFollow /\ [Next]_vars => InputsFollow'
  BY Clicks, InputsPost, InputsWorker, InputsOthers DEF Next, Shape
<1>. QED
  BY <1>1, <1>2, ShapeHolds, PTL DEF Spec

\* The types, for any nodes and any number of posts and node runs; and an input that is still
\* pending in the recorder is that of a start_run under way (runRecorder.ts setInput).
THEOREM ConsoleTyped == Spec => []TypeOK
<1>1. Shape /\ InputsFollow => TypeOK
  <2>. SUFFICES ASSUME Shape, InputsFollow PROVE TypeOK
    OBVIOUS
  <2>1. Typed /\ Len(queue) \in Nat
    BY DEF Shape, Typed
  <2>2. ran \in 0 .. MaxNodes + MaxPosts
    BY <2>1, BoundsAssumption DEF Shape, Pace, Typed, Inputs
  <2>3. \A k \in DOMAIN saved : saved[k] \in Record
    BY <2>1 DEF Typed
  <2>4. \A k \in DOMAIN runs : runs[k] \in Run
    BY <2>1 DEF Typed
  <2>5. alive /\ ~crossed /\ rec.pendingInput # 0 => StartUnderWay
    BY DEF InputsFollow, OneStart, StartUnderWay, Starting, Announced
  <2>6. \A k \in DOMAIN runs : runs[k].status = "live" <=> Live /\ k = Len(runs)
    BY DEF Shape, Current
  <2>. QED
    BY <2>1, <2>2, <2>3, <2>4, <2>5, <2>6 DEF Shape, Whole, TypeOK, Typed, Panel, Recorder, Record, Run
<1>. QED
  BY <1>1, ShapeHolds, InputsFollowAlways, PTL

\* What has been appended to the history keeps its input.
LEMMA InputIsKept ==
  ASSUME Typed, NEW t, Notes(t)
  PROVE  Len(saved) <= Len(t.inputs) /\ \A k \in 1 .. Len(saved) : t.inputs[k] = saved[k].input
<1>1. saved \in Seq(Record) /\ up \in Seq(Event) /\ NotesOf(rec, saved).inputs = InputsIn(saved)
  BY DEF Typed, NotesOf
<1>2. /\ Len(InputsIn(saved)) <= Len(t.inputs)
      /\ \A k \in 1 .. Len(InputsIn(saved)) : t.inputs[k] = InputsIn(saved)[k]
  BY <1>1, NotesOfTyped, NotedIsKept DEF Notes
<1>3. Len(InputsIn(saved)) = Len(saved) /\ \A k \in 1 .. Len(saved) : InputsIn(saved)[k] = saved[k].input
  BY <1>1, InputsTyped
<1>. QED
  BY <1>2, <1>3

\* A record has the input its run was started with, and that of a fork none, while no
\* start_run is posted before the one under way has been answered (runhistory.ts:35).
THEOREM InputsRecorded == Spec => []InputRecorded
<1>1. Shape /\ RecorderFollows /\ InputsFollow => InputRecorded
  <2>. SUFFICES ASSUME Typed, RecorderFollows, InputsFollow, ~crossed
                PROVE  \A k \in DOMAIN saved : saved[k].input = Ran[k].input
    BY DEF Shape, InputRecorded
  <2>1. PICK x : Notes(x) /\ TrueInputs(x)
    BY DEF InputsFollow
  <2>2. Len(saved) <= Len(x.inputs) /\ \A k \in 1 .. Len(saved) : x.inputs[k] = saved[k].input
    BY <2>1, InputIsKept
  <2>3. \A k \in 1 .. Len(x.inputs) : x.inputs[k] = Ran[k].input
    BY <2>1 DEF TrueInputs
  <2>4. Len(x.inputs) \in Nat /\ Len(saved) \in Nat /\ DOMAIN saved = 1 .. Len(saved)
    BY <2>1 DEF Typed, Notes, Noted
  <2>. QED
    BY <2>2, <2>3, <2>4
<1>. QED
  BY <1>1, ShapeHolds, RecorderFollowsAlways, InputsFollowAlways, PTL
=============================================================================
