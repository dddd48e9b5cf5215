------------------------- MODULE PoolControlProofs -------------------------
(***************************************************************************)
(* The counter enabled_pools and the priorities of the pools are right in  *)
(* every interleaving of the commands of the API and of the terminal with  *)
(* watchpool, the scheduler and the stratum threads, for any number of     *)
(* pools, commands and failures, except after the overlaps that miscounted *)
(* and torn record.                                                        *)
(*                                                                         *)
(* Both are kept by steps that a thread takes one after the other without  *)
(* a lock held between them, so the argument is about the call stacks:     *)
(* what a thread has found out and not yet acted upon is still so.         *)
(***************************************************************************)
EXTENDS PoolControl, CountingLemmas

-----------------------------------------------------------------------------
(* The call stacks.                                                        *)

\* What disable_pool may make of a pool.
Disabling == Statuses \ {"ENABLED"}

PoolOps == {"enable", "count", "compare", "manual", "ifcurrent", "died",
            "unlink", "removable", "runlock"}

Calls ==
    [op : PoolOps, pool : Pools, arg : {NoPool}]
    \cup [op : {"disable", "uncount"}, pool : Pools, arg : Disabling]
    \cup [op : {"select"}, pool : Pools \cup {NoPool}, arg : {NoPool}]
    \cup [op : {"announce", "iflower"}, pool : {NoPool}, arg : {NoPool}]
    \cup [op : {"priority", "priorest"}, pool : {NoPool}, arg : Orders]
    \cup [op : {"probe"}, pool : {NoPool}, arg : Nat \ {0}]
    \cup [op : {"strategy"}, pool : {NoPool}, arg : Strategies]
    \cup [op : {"pick"}, pool : {NoPool}, arg : {"timely", "lagging"}]

\* What remove_pool calls to leave the pool.
Leaving == {"disable", "uncount", "ifcurrent", "select", "announce"}

\* The second half of enable_pool and of disable_pool is never put off, the two
\* loops of poolpriority follow each other, and a thread that is about to remove
\* a pool enables none.
WellNested(s) ==
    \A i \in DOMAIN s :
      /\ s[i].op \in {"count", "uncount"} => i = 1
      /\ s[i].op = "priority" =>
            i = 1 /\ 2 \in DOMAIN s /\ s[2].op = "priorest" /\ s[2].arg = s[1].arg
      /\ s[i].op = "priorest" => i = 1 \/ (i = 2 /\ s[1].op = "priority")
      /\ s[i].op = "unlink" => \A j \in 1 .. i - 1 : s[j].op \in Leaving

StackInv == \A t \in Threads : todo[t] \in Seq(Calls) /\ WellNested(todo[t])

TypeInv == TypeOK /\ StackInv /\ IsInjective(pools)

-----------------------------------------------------------------------------
(* The counter.                                                            *)

\* A thread that is about to remove p has disabled it, or is at it.
LeftAlone(s, i) ==
    \/ ~Enabled(s[i].pool)
    \/ i = 2 /\ s[1].pool = s[2].pool /\ s[1].op \in {"disable", "uncount"}

\* What a thread has seen of a pool it is about to count still holds.
SeenRight(s) ==
    \A i \in DOMAIN s :
      /\ s[i].op = "count" => ~Enabled(s[i].pool)
      /\ s[i].op = "uncount" => Enabled(s[i].pool)
      /\ s[i].op = "unlink" => LeftAlone(s, i)

CountInv ==
    \/ miscounted
    \/ /\ enabled_pools = Cardinality({p \in Listed : Enabled(p)})
       /\ \A t \in Threads : SeenRight(todo[t])

-----------------------------------------------------------------------------
(* The priorities.                                                         *)

Distinct == {prio[p] : p \in Listed} = 0 .. N - 1

\* What the first loop of poolpriority leaves to the second.
HalfWritten(order) ==
    /\ ToSet(order) \subseteq Listed
    /\ \A i \in DOMAIN order : prio[order[i]] = i - 1
    /\ \A p \in Listed \ ToSet(order) : prio[p] \in 0 .. N - 1
    /\ \A p, q \in Listed \ ToSet(order) : prio[p] = prio[q] => p = q

PrioInv ==
    \/ torn
    \/ /\ \A t \in Threads :
            /\ Doing(t, "priority") => ToSet(Argument(t)) \subseteq Listed
            /\ Doing(t, "priorest") =>
                 /\ HalfWritten(Argument(t))
                 /\ \A u \in Threads : Doing(u, "priorest") => u = t
       /\ \/ \E t \in Threads : Doing(t, "priorest")
          \/ Distinct

-----------------------------------------------------------------------------
(* What a call does to the stack.                                          *)

\* The calls and what their parameters are.
LEMMA CallTypes ==
  ASSUME NEW f \in Calls
  PROVE  /\ f.op \in PoolOps \cup {"disable", "uncount"} => f.pool \in Pools
         /\ f.op \in PoolOps \cup {"select"} => f.pool \in Pools \cup {NoPool}
         /\ f.op \in {"disable", "uncount"} => f.arg \in Disabling
         /\ f.op \in {"priority", "priorest"} => f.arg \in Orders
         /\ f.op = "probe" => f.arg \in Nat \ {0}
         /\ f.op = "strategy" => f.arg \in Strategies
BY DEF Calls, PoolOps

\* The same, of the call at the top of a stack.
LEMMA TopCall ==
  ASSUME StackInv, NEW t \in Threads, todo[t] # <<>>
  PROVE  /\ todo[t] \in Seq(Calls) /\ Head(todo[t]) \in Calls
         /\ Len(todo[t]) \in Nat \ {0}
         /\ DOMAIN todo[t] = 1 .. Len(todo[t])
         /\ 1 \in DOMAIN todo[t] /\ Head(todo[t]) = todo[t][1]
<1>1. todo[t] \in Seq(Calls)
  BY DEF StackInv
<1>2. /\ Len(todo[t]) \in Nat \ {0}
      /\ DOMAIN todo[t] = 1 .. Len(todo[t])
  BY <1>1, EmptySeq, LenProperties
<1>3. Head(todo[t]) = todo[t][1] /\ Head(todo[t]) \in Calls
  BY <1>1, HeadTailProperties
<1>. QED BY <1>1, <1>2, <1>3

\* t has made a call: the new stack is the calls, and below them what was below
\* the top.
StackStep(t, calls) ==
    /\ Begin(t, calls) \/ (todo[t] # <<>> /\ Proceed(t, calls))
    /\ calls \in Seq(Calls)

\* Where the entries of the new stack come from.
LEMMA StackEntries ==
  ASSUME TypeInv, NEW t \in Threads, NEW calls, StackStep(t, calls)
  PROVE  /\ DOMAIN todo' = Threads
         /\ \A u \in Threads \ {t} : todo'[u] = todo[u]
         /\ todo'[t] \in Seq(Calls)
         /\ \A i \in DOMAIN calls : i \in DOMAIN todo'[t] /\ todo'[t][i] = calls[i]
         /\ \A i \in DOMAIN todo'[t] : i \notin DOMAIN calls =>
              \E j \in DOMAIN todo[t] :
                j >= 2 /\ i = j + Len(calls) - 1 /\ todo'[t][i] = todo[t][j]
<1>. DEFINE s == todo[t]
            new == todo'[t]
<1>1. /\ calls \in Seq(Calls) /\ Len(calls) \in Nat
      /\ DOMAIN calls = 1 .. Len(calls)
  BY LenProperties DEF StackStep
<1>2. s \in Seq(Calls) /\ DOMAIN todo = Threads
  BY DEF TypeInv, TypeOK, StackInv
<1>3. CASE Begin(t, calls)
  <2>1. todo' = [todo EXCEPT ![t] = calls]
    BY <1>3 DEF Begin
  <2>2. /\ DOMAIN todo' = Threads /\ new = calls
        /\ \A u \in Threads \ {t} : todo'[u] = todo[u]
    BY <1>2, <2>1
  <2>. QED BY <1>1, <2>2
<1>4. CASE s # <<>> /\ Proceed(t, calls)
  <2>1. todo' = [todo EXCEPT ![t] = calls \o Tail(s)]
    BY <1>4 DEF Proceed
  <2>2. /\ DOMAIN todo' = Threads /\ new = calls \o Tail(s)
        /\ \A u \in Threads \ {t} : todo'[u] = todo[u]
    BY <1>2, <2>1
  <2>3. /\ Tail(s) \in Seq(Calls) /\ Len(Tail(s)) = Len(s) - 1
        /\ \A i \in 1 .. Len(Tail(s)) : Tail(s)[i] = s[i + 1]
        /\ Len(s) \in Nat \ {0} /\ DOMAIN s = 1 .. Len(s)
    BY <1>2, <1>4, HeadTailProperties, LenProperties, EmptySeq
  <2>4. /\ new \in Seq(Calls) /\ Len(new) = Len(calls) + Len(Tail(s))
        /\ \A i \in 1 .. Len(calls) + Len(Tail(s)) :
             new[i] = IF i <= Len(calls) THEN calls[i] ELSE Tail(s)[i - Len(calls)]
    BY <1>1, <2>2, <2>3, ConcatProperties
  <2>5. DOMAIN new = 1 .. Len(new)
    BY <2>4, LenProperties
  <2>6. ASSUME NEW i \in DOMAIN calls
        PROVE  i \in DOMAIN new /\ new[i] = calls[i]
    BY <1>1, <2>3, <2>4, <2>5
  <2>7. ASSUME NEW i \in DOMAIN new, i \notin DOMAIN calls
        PROVE  \E j \in DOMAIN s : j >= 2 /\ i = j + Len(calls) - 1 /\ new[i] = s[j]
    <3>1. i \in 1 .. Len(calls) + Len(s) - 1 /\ i > Len(calls)
      BY <1>1, <2>3, <2>4, <2>5, <2>7
    <3>2. new[i] = Tail(s)[i - Len(calls)] /\ i - Len(calls) \in 1 .. Len(Tail(s))
      <4>1. /\ i - Len(calls) \in 1 .. Len(Tail(s)) /\ ~(i <= Len(calls))
            /\ i \in 1 .. Len(calls) + Len(Tail(s))
        BY <1>1, <2>3, <3>1
      <4>. QED BY <2>4, <4>1
    <3>3. new[i] = s[i - Len(calls) + 1]
      BY <2>3, <3>2
    <3>. QED BY <1>1, <2>3, <3>1, <3>3
  <2>. QED BY <2>2, <2>4, <2>6, <2>7
<1>. QED BY <1>3, <1>4 DEF StackStep

\* Calls that may take the place of the top of the stack s.
Replaces(s, calls) ==
    /\ s # <<>> => s[1].op # "priority"
    /\ s # <<>> /\ s[1].op \in Leaving =>
         \A i \in DOMAIN calls : calls[i].op \in Leaving
    /\ \A i \in DOMAIN calls :
         /\ calls[i].op \notin {"priority", "priorest"}
         /\ calls[i].op \in {"count", "uncount"} => i = 1
         /\ calls[i].op = "unlink" => \A j \in 1 .. i - 1 : calls[j].op \in Leaving

\* They leave all stacks in order.
LEMMA NestedStep ==
  ASSUME TypeInv, NEW t \in Threads, NEW calls, StackStep(t, calls),
         Replaces(todo[t], calls)
  PROVE  StackInv'
<1>. DEFINE s == todo[t]
            new == todo'[t]
<1>1. /\ \A u \in Threads \ {t} : todo'[u] = todo[u]
      /\ new \in Seq(Calls)
      /\ \A i \in DOMAIN calls : i \in DOMAIN new /\ new[i] = calls[i]
      /\ \A i \in DOMAIN new : i \notin DOMAIN calls =>
           \E j \in DOMAIN s :
             j >= 2 /\ i = j + Len(calls) - 1 /\ new[i] = s[j]
  BY StackEntries
<1>2. /\ Len(calls) \in Nat /\ DOMAIN calls = 1 .. Len(calls)
  BY LenProperties DEF StackStep
<1>3. /\ s \in Seq(Calls) /\ WellNested(s)
      /\ DOMAIN s = 1 .. Len(s) /\ Len(s) \in Nat
  BY LenProperties DEF TypeInv, StackInv
<1>4. ASSUME NEW i \in DOMAIN new, i \in DOMAIN calls
      PROVE  /\ new[i].op \notin {"priority", "priorest"}
             /\ new[i].op \in {"count", "uncount"} => i = 1
             /\ new[i].op = "unlink" => \A j \in 1 .. i - 1 : new[j].op \in Leaving
  <2>1. new[i] = calls[i]
    BY <1>1, <1>4
  <2>2. \A j \in 1 .. i - 1 : j \in DOMAIN calls /\ new[j] = calls[j]
    BY <1>1, <1>2, <1>4
  <2>. QED BY <1>4, <2>1, <2>2 DEF Replaces
<1>5. ASSUME NEW i \in DOMAIN new, i \notin DOMAIN calls
      PROVE  /\ new[i].op \notin {"priority", "priorest", "count", "uncount"}
             /\ new[i].op = "unlink" => \A j \in 1 .. i - 1 : new[j].op \in Leaving
  <2>1. PICK k \in DOMAIN s :
          k >= 2 /\ i = k + Len(calls) - 1 /\ new[i] = s[k]
    BY <1>1, <1>5
  <2>2. s # <<>> /\ 1 \in DOMAIN s /\ k \in Nat /\ k # 1
    BY <1>3, <2>1, EmptySeq
  <2>3. new[i].op \notin {"priority", "priorest", "count", "uncount"}
    BY <1>3, <2>1, <2>2 DEF WellNested, Replaces
  <2>4. ASSUME new[i].op = "unlink", NEW j \in 1 .. i - 1
        PROVE  new[j].op \in Leaving
    <3>1. \A l \in 1 .. k - 1 : s[l].op \in Leaving
      BY <1>3, <2>1, <2>4 DEF WellNested
    <3>2. s[1].op \in Leaving
      BY <2>1, <2>2, <3>1
    <3>3. CASE j \in DOMAIN calls
      BY <1>1, <2>2, <3>2, <3>3 DEF Replaces
    <3>4. CASE j \notin DOMAIN calls
      <4>1. j \in DOMAIN new
        <5>1. DOMAIN new = 1 .. Len(new) /\ Len(new) \in Nat
          BY <1>1, LenProperties
        <5>. QED BY <5>1
      <4>2. PICK l \in DOMAIN s :
              l >= 2 /\ j = l + Len(calls) - 1 /\ new[j] = s[l]
        BY <1>1, <3>4, <4>1
      <4>3. l \in 1 .. k - 1
        BY <1>2, <1>3, <2>1, <4>2
      <4>. QED BY <3>1, <4>2, <4>3
    <3>. QED BY <3>3, <3>4
  <2>. QED BY <2>3, <2>4
<1>6. WellNested(new)
  BY <1>4, <1>5 DEF WellNested
<1>. QED BY <1>1, <1>6 DEF StackInv, TypeInv

\* What t itself has seen is right after a call, if the new calls are right and
\* it has not enabled a pool it is about to remove.
LEMMA OwnSeenRight ==
  ASSUME TypeInv, NEW t \in Threads, NEW calls, StackStep(t, calls),
         SeenRight(todo[t]),
         \A i \in DOMAIN calls :
           /\ calls[i].op = "count" => enabled'[calls[i].pool] # "ENABLED"
           /\ calls[i].op = "uncount" => enabled'[calls[i].pool] = "ENABLED"
           /\ calls[i].op = "unlink" =>
                i = 2 /\ calls[1].pool = calls[2].pool /\ calls[1].op = "disable",
         \A j \in DOMAIN todo[t] :
           j >= 2 /\ todo[t][j].op = "unlink" /\ LeftAlone(todo[t], j) =>
             \/ enabled'[todo[t][j].pool] # "ENABLED"
             \/ /\ j = 2 /\ Len(calls) = 1
                /\ calls[1].op \in {"disable", "uncount"}
                /\ calls[1].pool = todo[t][2].pool
  PROVE  SeenRight(todo[t])'
<1>. DEFINE s == todo[t]
            new == todo'[t]
<1>1. /\ \A i \in DOMAIN calls : i \in DOMAIN new /\ new[i] = calls[i]
      /\ \A i \in DOMAIN new : i \notin DOMAIN calls =>
           \E j \in DOMAIN s :
             j >= 2 /\ i = j + Len(calls) - 1 /\ new[i] = s[j]
  BY StackEntries
<1>2. /\ Len(calls) \in Nat /\ DOMAIN calls = 1 .. Len(calls)
  BY LenProperties DEF StackStep
<1>3. WellNested(s) /\ DOMAIN s = 1 .. Len(s) /\ Len(s) \in Nat
  BY LenProperties DEF TypeInv, StackInv
<1>. SUFFICES ASSUME NEW i \in DOMAIN new
              PROVE  /\ new[i].op = "count" => enabled'[new[i].pool] # "ENABLED"
                     /\ new[i].op = "uncount" => enabled'[new[i].pool] = "ENABLED"
                     /\ new[i].op = "unlink" => LeftAlone(todo[t], i)'
  BY DEF SeenRight, Enabled
<1>4. CASE i \in DOMAIN calls
  <2>1. new[i] = calls[i] /\ 1 \in DOMAIN calls
    BY <1>1, <1>2, <1>4
  <2>2. new[1] = calls[1]
    BY <1>1, <2>1
  <2>3. ASSUME new[i].op = "unlink"
        PROVE  i = 2 /\ new[1].pool = new[2].pool /\ new[1].op = "disable"
    BY <1>4, <2>1, <2>2, <2>3
  <2>. QED BY <1>4, <2>1, <2>3 DEF LeftAlone
<1>5. CASE i \notin DOMAIN calls
  <2>1. PICK j \in DOMAIN s : j >= 2 /\ i = j + Len(calls) - 1 /\ new[i] = s[j]
    BY <1>1, <1>5
  <2>2. new[i].op \notin {"count", "uncount"}
    BY <1>3, <2>1 DEF WellNested
  <2>3. ASSUME new[i].op = "unlink"
        PROVE  LeftAlone(todo[t], i)'
    <3>1. LeftAlone(s, j)
      BY <2>1, <2>3 DEF SeenRight
    <3>2. CASE enabled'[s[j].pool] # "ENABLED"
      BY <2>1, <3>2 DEF LeftAlone, Enabled
    <3>3. CASE /\ j = 2 /\ Len(calls) = 1
               /\ calls[1].op \in {"disable", "uncount"}
               /\ calls[1].pool = s[2].pool
      <4>1. i = 2 /\ 1 \in DOMAIN calls
        BY <1>2, <2>1, <3>3
      <4>2. new[1] = calls[1] /\ new[2] = s[2]
        BY <1>1, <2>1, <3>3, <4>1
      <4>. QED BY <3>3, <4>1, <4>2 DEF LeftAlone
    <3>. QED BY <2>1, <2>3, <3>1, <3>2, <3>3
  <2>. QED BY <2>2, <2>3
<1>. QED BY <1>4, <1>5

\* What another thread has seen stays right while the pools it is about to count
\* or to remove are left as they are.
LEMMA OthersSeenRight ==
  ASSUME NEW u \in Threads, SeenRight(todo[u]), todo'[u] = todo[u],
         \A i \in DOMAIN todo[u] :
           todo[u][i].op \in {"count", "uncount", "unlink"} =>
             (enabled'[todo[u][i].pool] = "ENABLED" <=> Enabled(todo[u][i].pool))
  PROVE  SeenRight(todo[u])'
BY DEF SeenRight, LeftAlone, Enabled

\* A call that counts nothing.
LEMMA NothingCounted ==
  ASSUME TypeInv, CountInv, NEW t \in Threads, NEW calls, StackStep(t, calls),
         UNCHANGED <<enabled, enabled_pools, miscounted, pools>>,
         todo[t] # <<>> => todo[t][1].op \notin {"disable", "uncount"},
         \A i \in DOMAIN calls :
           /\ calls[i].op = "count" => ~Enabled(calls[i].pool)
           /\ calls[i].op # "uncount"
           /\ calls[i].op = "unlink" =>
                i = 2 /\ calls[1].pool = calls[2].pool /\ calls[1].op = "disable"
  PROVE  CountInv'
<1>1. CASE miscounted
  BY <1>1 DEF CountInv
<1>2. CASE ~miscounted
  <2>1. /\ enabled_pools = Cardinality({p \in Listed : Enabled(p)})
        /\ \A u \in Threads : SeenRight(todo[u])
    BY <1>2 DEF CountInv
  <2>2. /\ \A p : enabled'[p] = "ENABLED" <=> Enabled(p)
        /\ {p \in Listed : Enabled(p)}' = {p \in Listed : Enabled(p)}
    BY DEF Enabled, Listed
  <2>3. \A u \in Threads \ {t} : todo'[u] = todo[u]
    BY StackEntries
  <2>4. \A u \in Threads \ {t} : SeenRight(todo[u])'
    BY <2>1, <2>2, <2>3, OthersSeenRight
  <2>5. SeenRight(todo[t])'
    <3>1. todo[t] = <<>> \/ todo[t][1].op \notin {"disable", "uncount"}
      OBVIOUS
    <3>2. ASSUME NEW j \in DOMAIN todo[t], j >= 2, LeftAlone(todo[t], j)
          PROVE  ~Enabled(todo[t][j].pool)
      <4>1. todo[t] # <<>>
        OBVIOUS
      <4>. QED BY <2>2, <3>1, <3>2, <4>1 DEF LeftAlone
    <3>. QED BY <2>1, <2>2, <3>2, OwnSeenRight
  <2>. QED BY <2>1, <2>2, <2>4, <2>5 DEF CountInv
<1>. QED BY <1>1, <1>2

\* After a call that has nothing to do with poolpriority, who is at it is so still.
LEMMA SameWriters ==
  ASSUME TypeInv, NEW t \in Threads, NEW calls, StackStep(t, calls),
         todo[t] # <<>> => todo[t][1].op \notin {"priority", "priorest"},
         \A i \in DOMAIN calls : calls[i].op \notin {"priority", "priorest"}
  PROVE  \A u \in Threads : \A op \in {"priority", "priorest"} :
           /\ Doing(u, op)' <=> Doing(u, op)
           /\ Doing(u, op) => Argument(u)' = Argument(u) /\ u # t
<1>1. \A u \in Threads \ {t} : todo'[u] = todo[u]
  BY StackEntries
<1>2. \A op \in {"priority", "priorest"} : ~Doing(t, op)
  BY TopCall DEF Doing, TypeInv
<1>3. \A op \in {"priority", "priorest"} : ~Doing(t, op)'
  <2>. DEFINE new == todo'[t]
  <2>. SUFFICES ASSUME new # <<>>, Head(new).op \in {"priority", "priorest"}
                PROVE  FALSE
    BY DEF Doing
  <2>1. /\ new \in Seq(Calls)
        /\ \A i \in DOMAIN calls : i \in DOMAIN new /\ new[i] = calls[i]
        /\ \A i \in DOMAIN new : i \notin DOMAIN calls =>
             \E j \in DOMAIN todo[t] :
               j >= 2 /\ i = j + Len(calls) - 1 /\ new[i] = todo[t][j]
    BY StackEntries
  <2>2. 1 \in DOMAIN new /\ Head(new) = new[1]
    BY <2>1, LenProperties, EmptySeq, HeadTailProperties
  <2>3. 1 \notin DOMAIN calls
    BY <2>1, <2>2
  <2>4. PICK j \in DOMAIN todo[t] : j >= 2 /\ new[1] = todo[t][j]
    BY <2>1, <2>2, <2>3
  <2>5. todo[t] # <<>> /\ WellNested(todo[t])
    BY DEF TypeInv, StackInv
  <2>. QED BY <2>2, <2>4, <2>5 DEF WellNested
<1>. QED BY <1>1, <1>2, <1>3 DEF Doing, Argument

\* Such a call changes nothing that poolpriority reads.
LEMMA NothingOrdered ==
  ASSUME TypeInv, PrioInv, NEW t \in Threads, NEW calls, StackStep(t, calls),
         UNCHANGED <<prio, pools, torn>>,
         todo[t] # <<>> => todo[t][1].op \notin {"priority", "priorest"},
         \A i \in DOMAIN calls : calls[i].op \notin {"priority", "priorest"}
  PROVE  PrioInv'
<1>1. \A u \in Threads : \A op \in {"priority", "priorest"} :
        /\ Doing(u, op)' <=> Doing(u, op)
        /\ Doing(u, op) => Argument(u)' = Argument(u)
  BY SameWriters
<1>2. /\ \A order : HalfWritten(order)' <=> HalfWritten(order)
      /\ Listed' = Listed
      /\ Distinct' <=> Distinct
  BY DEF HalfWritten, Distinct, Listed, N
<1>. QED BY <1>1, <1>2 DEF PrioInv

-----------------------------------------------------------------------------
(* What the searches for a pool find.                                      *)

\* priority_pool finds a pool of the array, whatever the priorities are.
LEMMA PriorityPoolType ==
  ASSUME TypeOK, NEW pr, NEW i \in 0 .. N - 1
  PROVE  PriorityPool(pr, i) \in Listed
<1>1. /\ N \in Nat /\ DOMAIN pools = 1 .. N /\ i + 1 \in 1 .. N
      /\ \A k \in 1 .. N : pools[k] \in Listed
  BY LenProperties DEF TypeOK, N, Listed, ToSet
<1>2. ASSUME NEW S \in SUBSET (1 .. N), S # {}
      PROVE  Min(S) \in 1 .. N
  <2>1. S \in SUBSET Nat
    OBVIOUS
  <2>. QED BY <1>2, <2>1, MinInSet
<1>. DEFINE at == {k \in 1 .. N : pr[pools[k]] = i}
<1>3. at # {} => Min(at) \in 1 .. N
  BY <1>2
<1>. QED BY <1>1, <1>3 DEF PriorityPool

\* All listed pools are pools.
LEMMA ListedArePools ==
  ASSUME TypeOK
  PROVE  Listed \subseteq Pools
BY LenProperties DEF TypeOK, Listed, ToSet

\* The first usable pool is one of the array.
LEMMA FirstUsableType ==
  ASSUME TypeOK, NEW pr
  PROVE  FirstUsable(pr) \in Listed \cup {NoPool}
<1>. DEFINE ok == {i \in 0 .. N - 1 : Usable(PriorityPool(pr, i))}
<1>1. ok # {} => Min(ok) \in 0 .. N - 1
  <2>1. ok \in SUBSET Nat /\ ok \subseteq 0 .. N - 1
    OBVIOUS
  <2>. HIDE DEF ok
  <2>. QED BY <2>1, MinInSet
<1>2. ok # {} => PriorityPool(pr, Min(ok)) \in Listed
  BY <1>1, PriorityPoolType
<1>. QED BY <1>2 DEF FirstUsable

\* So is the next usable one.
LEMMA NextUsableType ==
  ASSUME TypeOK
  PROVE  NextUsable \in Listed \cup {NoPool}
<1>. DEFINE from == IF Position(currentpool) > N THEN N ELSE Position(currentpool)
            at(i) == pools[((from + i - 1) % N) + 1]
            ok == {i \in 1 .. N - 1 : Usable(at(i))}
            regular == {i \in ok : at(i) \notin failover_only}
<1>1. /\ N \in Nat /\ DOMAIN pools = 1 .. N
      /\ \A k \in 1 .. N : pools[k] \in Listed
  BY LenProperties DEF TypeOK, N, Listed, ToSet
<1>2. from \in Nat
  <2>1. currentpool \in Listed => \E k \in 1 .. N : pools[k] = currentpool
    BY <1>1 DEF Listed, ToSet
  <2>2. Position(currentpool) \in 1 .. N + 1
    BY <1>1, <2>1 DEF Position
  <2>. QED BY <1>1, <2>2
<1>3. ASSUME NEW i \in 1 .. N - 1
      PROVE  at(i) \in Listed
  <2>1. N \in Nat \ {0} /\ from + i - 1 \in Nat
    BY <1>1, <1>2, <1>3
  <2>2. ((from + i - 1) % N) \in 0 .. N - 1
    BY <2>1
  <2>3. ((from + i - 1) % N) + 1 \in 1 .. N
    BY <2>1, <2>2
  <2>. QED BY <1>1, <2>3
<1>4. ASSUME NEW S \in SUBSET (1 .. N - 1), S # {}
      PROVE  Min(S) \in 1 .. N - 1
  <2>1. S \in SUBSET Nat
    OBVIOUS
  <2>. QED BY <1>4, <2>1, MinInSet
<1>5. /\ regular # {} => at(Min(regular)) \in Listed
      /\ ok # {} => at(Min(ok)) \in Listed
  <2>. HIDE DEF at
  <2>. QED BY <1>3, <1>4
<1>. QED BY <1>5 DEF NextUsable

\* switch_pools goes to a pool of the array, to the one it was given, or to none.
LEMMA SelectionType ==
  ASSUME TypeOK, NEW pr, NEW sel \in Pools \cup {NoPool}
  PROVE  Selection(pr, sel) \in Pools \cup {NoPool}
BY FirstUsableType, NextUsableType, ListedArePools DEF Selection

-----------------------------------------------------------------------------
(* Steps that count nothing and order nothing.                             *)

ControlInv == TypeInv /\ CountInv /\ PrioInv

\* Sequences of one, two and three calls.
LEMMA NoCalls == /\ <<>> \in Seq(Calls) /\ DOMAIN <<>> = {}
BY EmptySeq

LEMMA OneCall ==
  ASSUME NEW f \in Calls
  PROVE  /\ <<f>> \in Seq(Calls) /\ DOMAIN <<f>> = {1} /\ <<f>>[1] = f
         /\ Len(<<f>>) = 1
OBVIOUS

LEMMA TwoCalls ==
  ASSUME NEW f \in Calls, NEW g \in Calls
  PROVE  /\ <<f, g>> \in Seq(Calls) /\ DOMAIN <<f, g>> = {1, 2}
         /\ <<f, g>>[1] = f /\ <<f, g>>[2] = g
OBVIOUS

LEMMA ThreeCalls ==
  ASSUME NEW f \in Calls, NEW g \in Calls, NEW h \in Calls
  PROVE  /\ <<f, g, h>> \in Seq(Calls) /\ DOMAIN <<f, g, h>> = {1, 2, 3}
         /\ <<f, g, h>>[1] = f /\ <<f, g, h>>[2] = g /\ <<f, g, h>>[3] = h
OBVIOUS

\* The calls that are made.
LEMMA CallsMade ==
  /\ \A op, p : Call(op, p).op = op /\ Call(op, p).pool = p
  /\ \A op, p, x : With(op, p, x).op = op /\ With(op, p, x).pool = p
                   /\ With(op, p, x).arg = x
  /\ \A p \in Pools : \A op \in PoolOps : Call(op, p) \in Calls
  /\ \A p \in Pools : \A x \in Disabling : \A op \in {"disable", "uncount"} :
       With(op, p, x) \in Calls
  /\ \A p \in Pools \cup {NoPool} : Call("select", p) \in Calls
  /\ Call("announce", NoPool) \in Calls /\ Call("iflower", NoPool) \in Calls
  /\ \A x \in Orders : /\ With("priority", NoPool, x) \in Calls
                       /\ With("priorest", NoPool, x) \in Calls
  /\ \A x \in Nat \ {0} : With("probe", NoPool, x) \in Calls
  /\ \A x \in Strategies : With("strategy", NoPool, x) \in Calls
  /\ \A x \in {"timely", "lagging"} : With("pick", NoPool, x) \in Calls
BY DEF Call, With, Calls

Harmless(f) == f.op \notin {"count", "uncount", "unlink", "priority", "priorest"}

\* A switch of pools is harmless.
LEMMA SwitchingCalls ==
  ASSUME NEW p \in Pools \cup {NoPool}
  PROVE  /\ Switching(p) \in Seq(Calls)
         /\ \A i \in DOMAIN Switching(p) : Harmless(Switching(p)[i])
         /\ p = NoPool => \A i \in DOMAIN Switching(p) : Switching(p)[i].op = "select"
<1>1. /\ Call("select", p) \in Calls /\ Call("select", p).op = "select"
      /\ p # NoPool => Call("enable", p) \in Calls
      /\ Call("enable", p).op = "enable"
  BY CallsMade DEF PoolOps
<1>2. CASE p = NoPool
  <2>1. Switching(p) = <<Call("select", p)>>
    BY <1>2 DEF Switching
  <2>. QED BY <1>1, <2>1, OneCall DEF Harmless
<1>3. CASE p # NoPool
  <2>1. Switching(p) = <<Call("enable", p), Call("select", p)>>
    BY <1>3 DEF Switching
  <2>. QED BY <1>1, <1>3, <2>1, TwoCalls DEF Harmless
<1>. QED BY <1>2, <1>3

\* Harmless calls before others.
LEMMA HarmlessConcat ==
  ASSUME NEW c \in Seq(Calls), \A i \in DOMAIN c : Harmless(c[i]),
         NEW d \in Seq(Calls), \A i \in DOMAIN d : Harmless(d[i])
  PROVE  c \o d \in Seq(Calls) /\ \A i \in DOMAIN (c \o d) : Harmless((c \o d)[i])
<1>. DEFINE e == c \o d
<1>1. /\ e \in Seq(Calls) /\ Len(e) = Len(c) + Len(d)
      /\ \A i \in 1 .. Len(c) + Len(d) :
           e[i] = IF i <= Len(c) THEN c[i] ELSE d[i - Len(c)]
  BY ConcatProperties
<1>2. /\ DOMAIN c = 1 .. Len(c) /\ Len(c) \in Nat
      /\ DOMAIN d = 1 .. Len(d) /\ Len(d) \in Nat
      /\ DOMAIN e = 1 .. Len(e)
  BY <1>1, LenProperties
<1>. HIDE DEF e
<1>3. ASSUME NEW i \in DOMAIN e
      PROVE  Harmless(e[i])
  <2>1. CASE i <= Len(c)
    BY <1>1, <1>2, <2>1
  <2>2. CASE ~(i <= Len(c))
    <3>1. i - Len(c) \in DOMAIN d /\ i \in 1 .. Len(c) + Len(d)
      BY <1>1, <1>2, <2>2
    <3>2. e[i] = d[i - Len(c)]
      BY <1>1, <2>2, <3>1
    <3>. QED BY <3>1, <3>2
  <2>. QED BY <2>1, <2>2
<1>. QED BY <1>1, <1>3 DEF e

\* A step in which a thread calls what counts nothing and orders nothing.
LEMMA QuietStep ==
  ASSUME ControlInv, TypeOK', NEW t \in Threads, NEW calls, StackStep(t, calls),
         UNCHANGED <<enabled, enabled_pools, miscounted, prio, pools, torn>>,
         \A i \in DOMAIN calls : Harmless(calls[i]),
         todo[t] # <<>> =>
           /\ todo[t][1].op \notin {"priority", "priorest", "disable", "uncount"}
           /\ todo[t][1].op \in Leaving =>
                \A i \in DOMAIN calls : calls[i].op \in Leaving
  PROVE  ControlInv'
<1>. USE DEF ControlInv
<1>1. Replaces(todo[t], calls)
  BY DEF Replaces, Harmless
<1>2. StackInv'
  BY <1>1, NestedStep
<1>3. CountInv'
  BY NothingCounted DEF Harmless
<1>4. PrioInv'
  BY NothingOrdered DEF Harmless
<1>5. IsInjective(pools)'
  BY DEF TypeInv
<1>. QED BY <1>2, <1>3, <1>4, <1>5 DEF TypeInv

\* A step in which no thread calls anything.
LEMMA NothingCalled ==
  ASSUME ControlInv, TypeOK',
         UNCHANGED <<todo, enabled, enabled_pools, miscounted, prio, pools, torn>>
  PROVE  ControlInv'
<1>1. StackInv' /\ IsInjective(pools)'
  BY DEF ControlInv, TypeInv, StackInv
<1>2. CountInv'
  BY DEF ControlInv, CountInv, SeenRight, LeftAlone, Enabled, Listed
<1>3. PrioInv'
  BY DEF ControlInv, PrioInv, HalfWritten, Distinct, Doing, Argument, Listed, N
<1>. QED BY <1>1, <1>2, <1>3 DEF ControlInv, TypeInv

\* DOMAIN todo is the set of threads after every call.
LEMMA ThreadsStay ==
  ASSUME TypeInv, NEW t \in Threads, NEW calls, StackStep(t, calls)
  PROVE  DOMAIN todo' = Threads
BY StackEntries

\* The call at the top of a stack is the one at its first place.
LEMMA DoingTop ==
  ASSUME TypeInv, NEW t \in Threads, NEW op, Doing(t, op)
  PROVE  /\ todo[t] # <<>> /\ todo[t][1].op = op
         /\ op \in PoolOps \cup {"disable", "uncount"} => Callee(t) \in Pools
         /\ op \in PoolOps \cup {"select"} => Callee(t) \in Pools \cup {NoPool}
         /\ op \in {"disable", "uncount"} => Argument(t) \in Disabling
         /\ op \in {"priority", "priorest"} => Argument(t) \in Orders
         /\ op = "probe" => Argument(t) \in Nat \ {0}
         /\ op = "strategy" => Argument(t) \in Strategies
<1>1. todo[t] # <<>> /\ Head(todo[t]).op = op
  BY DEF Doing
<1>2. Head(todo[t]) \in Calls /\ Head(todo[t]) = todo[t][1]
  BY <1>1, TopCall DEF TypeInv
<1>. QED BY <1>1, <1>2, CallTypes DEF Callee, Argument

\* Calls of the API, the terminal and the rest that only read, or change what is
\* neither counted nor ordered.
LEMMA QuietCallsKeep ==
  ASSUME ControlInv, NEW t \in Threads,
         \/ ComparePrio(t) \/ ManualEnable(t) \/ IfCurrent(t) \/ PoolDied(t)
         \/ Announce(t) \/ ReadUnlock(t) \/ IfLower(t) \/ ChangeStrategy(t)
  PROVE  ControlInv'
<1>. USE DEF ControlInv
<1>a. TypeOK /\ TypeInv
  BY DEF TypeInv
<1>. USE DEF poolVars, orderVars, lockVars, worldVars, connVars
<1>1. CASE ComparePrio(t)
  <2>1. /\ Doing(t, "compare") /\ Callee(t) \in Pools /\ todo[t] # <<>>
        /\ todo[t][1].op = "compare"
    BY <1>1, DoingTop DEF ComparePrio, PoolOps
  <2>2. PICK calls : /\ calls = IF prio[Callee(t)] < prio[currentpool]
                                THEN Switching(Callee(t)) ELSE <<>>
                     /\ Proceed(t, calls)
    BY <1>1 DEF ComparePrio
  <2>3. calls \in Seq(Calls) /\ \A i \in DOMAIN calls : Harmless(calls[i])
    BY <2>1, <2>2, SwitchingCalls, NoCalls
  <2>4. StackStep(t, calls)
    BY <2>1, <2>2, <2>3 DEF StackStep
  <2>5. TypeOK'
    BY <1>1, <1>a, <2>4, ThreadsStay DEF ComparePrio, TypeOK
  <2>. QED BY <1>1, <2>1, <2>3, <2>4, <2>5, QuietStep DEF ComparePrio, Leaving
<1>2. CASE ManualEnable(t)
  <2>1. /\ Callee(t) \in Pools /\ todo[t] # <<>> /\ todo[t][1].op = "manual"
    BY <1>2, DoingTop DEF ManualEnable, PoolOps
  <2>2. PICK calls : calls = <<Call("enable", Callee(t))>> /\ Proceed(t, calls)
    BY <1>2 DEF ManualEnable
  <2>3. calls \in Seq(Calls) /\ \A i \in DOMAIN calls : Harmless(calls[i])
    BY <2>1, <2>2, CallsMade, OneCall DEF PoolOps, Harmless
  <2>4. StackStep(t, calls)
    BY <2>1, <2>2, <2>3 DEF StackStep
  <2>5. TypeOK'
    BY <1>2, <1>a, <2>1, <2>4, ThreadsStay DEF ManualEnable, TypeOK
  <2>. QED BY <1>2, <2>1, <2>3, <2>4, <2>5, QuietStep DEF ManualEnable, Leaving
<1>3. CASE IfCurrent(t)
  <2>1. todo[t] # <<>> /\ todo[t][1].op = "ifcurrent"
    BY <1>3, DoingTop DEF IfCurrent
  <2>2. PICK calls : /\ calls = IF Callee(t) = currentpool
                                THEN Switching(NoPool) ELSE <<>>
                     /\ Proceed(t, calls)
    BY <1>3 DEF IfCurrent
  <2>3. /\ calls \in Seq(Calls) /\ \A i \in DOMAIN calls : Harmless(calls[i])
        /\ \A i \in DOMAIN calls : calls[i].op \in Leaving
    BY <2>2, SwitchingCalls, NoCalls DEF Leaving
  <2>4. StackStep(t, calls)
    BY <2>1, <2>2, <2>3 DEF StackStep
  <2>5. TypeOK'
    BY <1>3, <1>a, <2>4, ThreadsStay DEF IfCurrent, TypeOK
  <2>. QED BY <1>3, <2>1, <2>3, <2>4, <2>5, QuietStep DEF IfCurrent
<1>4. CASE PoolDied(t)
  <2>1. /\ Callee(t) \in Pools /\ todo[t] # <<>> /\ todo[t][1].op = "died"
    BY <1>4, DoingTop DEF PoolDied, PoolOps
  <2>2. PICK calls : /\ calls = IF Callee(t) \in idle THEN <<>>
                                ELSE <<Call("ifcurrent", Callee(t))>>
                     /\ Proceed(t, calls)
    BY <1>4 DEF PoolDied
  <2>3. /\ calls \in Seq(Calls) /\ \A i \in DOMAIN calls : Harmless(calls[i])
    BY <2>1, <2>2, CallsMade, NoCalls, OneCall DEF PoolOps, Harmless
  <2>4. StackStep(t, calls)
    BY <2>1, <2>2, <2>3 DEF StackStep
  <2>5. TypeOK'
    BY <1>4, <1>a, <2>1, <2>4, ThreadsStay DEF PoolDied, LpBroadcast, TypeOK, ThreadStates
  <2>. QED BY <1>4, <2>1, <2>3, <2>4, <2>5, QuietStep DEF PoolDied, Leaving
<1>5. CASE Announce(t)
  <2>1. todo[t] # <<>> /\ todo[t][1].op = "announce" /\ Proceed(t, <<>>)
    BY <1>5, DoingTop DEF Announce
  <2>2. StackStep(t, <<>>)
    BY <2>1, NoCalls DEF StackStep
  <2>3. TypeOK'
    BY <1>5, <1>a, <2>2, ThreadsStay DEF Announce, LpBroadcast, TypeOK, ThreadStates
  <2>. QED BY <1>5, <2>1, <2>2, <2>3, NoCalls, QuietStep DEF Announce
<1>6. CASE ReadUnlock(t)
  <2>1. todo[t] # <<>> /\ todo[t][1].op = "runlock" /\ Proceed(t, <<>>)
    BY <1>6, DoingTop DEF ReadUnlock
  <2>2. StackStep(t, <<>>)
    BY <2>1, NoCalls DEF StackStep
  <2>3. TypeOK'
    BY <1>6, <1>a, <2>2, ThreadsStay DEF ReadUnlock, TypeOK
  <2>. QED BY <1>6, <2>1, <2>2, <2>3, NoCalls, QuietStep DEF ReadUnlock
<1>7. CASE IfLower(t)
  <2>1. todo[t] # <<>> /\ todo[t][1].op = "iflower"
    BY <1>7, DoingTop DEF IfLower
  <2>2. PICK calls : /\ calls = IF prio[currentpool] # 0
                                THEN Switching(NoPool) ELSE <<>>
                     /\ Proceed(t, calls)
    BY <1>7 DEF IfLower
  <2>3. calls \in Seq(Calls) /\ \A i \in DOMAIN calls : Harmless(calls[i])
    BY <2>2, SwitchingCalls, NoCalls
  <2>4. StackStep(t, calls)
    BY <2>1, <2>2, <2>3 DEF StackStep
  <2>5. TypeOK'
    BY <1>7, <1>a, <2>4, ThreadsStay DEF IfLower, TypeOK
  <2>. QED BY <1>7, <2>1, <2>3, <2>4, <2>5, QuietStep DEF IfLower, Leaving
<1>8. CASE ChangeStrategy(t)
  <2>1. /\ todo[t] # <<>> /\ todo[t][1].op = "strategy"
        /\ Argument(t) \in Strategies
    BY <1>8, DoingTop DEF ChangeStrategy
  <2>2. PICK calls : calls = Switching(NoPool) /\ Proceed(t, calls)
    BY <1>8 DEF ChangeStrategy
  <2>3. calls \in Seq(Calls) /\ \A i \in DOMAIN calls : Harmless(calls[i])
    BY <2>2, SwitchingCalls
  <2>4. StackStep(t, calls)
    BY <2>1, <2>2, <2>3 DEF StackStep
  <2>5. TypeOK'
    BY <1>8, <1>a, <2>1, <2>4, ThreadsStay
       DEF ChangeStrategy, LpBroadcast, TypeOK, ThreadStates
  <2>. QED BY <1>8, <2>1, <2>3, <2>4, <2>5, QuietStep DEF ChangeStrategy, Leaving
<1>. QED BY <1>1, <1>2, <1>3, <1>4, <1>5, <1>6, <1>7, <1>8

\* The pools that select_pool may come to, and what pool_active finds out.
LEMMA PickTypes ==
  ASSUME TypeOK, NEW lagging \in {"timely", "lagging"},
         NEW p \in PickPool(lagging, currentpool)
  PROVE  p \in Pools
<1>1. Listed \subseteq Pools /\ currentpool \in Pools
  BY ListedArePools DEF TypeOK
<1>2. FirstUsable(prio) \in Listed \cup {NoPool}
  BY FirstUsableType
<1>. QED
  BY <1>1, <1>2 DEF PickPool, BalancedChoices, QuotaChoices, SimpleFailover

\* select_pool tests a pool; if it is dead, it dies and the search begins again.
LEMMA PickKeeps ==
  ASSUME ControlInv, NEW lagging \in {"timely", "lagging"}, Pick(lagging)
  PROVE  ControlInv'
<1>. USE DEF ControlInv
<1>a. TypeOK /\ TypeInv
  BY DEF TypeInv
<1>. DEFINE again(p) == <<Call("died", p), With("pick", NoPool, lagging)>>
<1>1. "main" \in Threads
  BY DEF Threads
<1>2. todo["main"] # <<>> => todo["main"][1].op = "pick"
  BY CallsMade DEF Pick
<1>3. PICK p \in PickPool(lagging, currentpool) :
        /\ \/ todo' = [todo EXCEPT !["main"] = <<>>]
           \/ todo' = [todo EXCEPT !["main"] = again(p)]
        /\ \/ UNCHANGED connVars
           \/ \E a \in PoolActive(p, FALSE) :
                /\ idle' = IF a.ok THEN idle \ {p} ELSE idle
                /\ sthread' = IF a.connected THEN [sthread EXCEPT ![p] = "serve"]
                              ELSE sthread
  BY DEF Pick
<1>4. p \in Pools
  BY <1>a, PickTypes
<1>5. PICK calls : /\ calls \in {<<>>, again(p)}
                   /\ todo' = [todo EXCEPT !["main"] = calls]
  BY <1>3
<1>6. /\ calls \in Seq(Calls)
      /\ \A i \in DOMAIN calls : Harmless(calls[i])
  <2>1. Call("died", p) \in Calls /\ With("pick", NoPool, lagging) \in Calls
    BY <1>4, CallsMade DEF PoolOps
  <2>2. CASE calls = <<>>
    BY <2>2, NoCalls
  <2>3. CASE calls = again(p)
    BY <2>1, <2>3, TwoCalls, CallsMade DEF Harmless
  <2>. QED BY <1>5, <2>2, <2>3
<1>7. StackStep("main", calls)
  <2>1. CASE todo["main"] = <<>>
    BY <1>5, <1>6, <2>1 DEF StackStep, Begin
  <2>2. CASE todo["main"] = <<With("pick", NoPool, lagging)>>
    <3>1. /\ todo["main"] # <<>> /\ Tail(todo["main"]) = <<>>
      BY <2>2
    <3>2. calls \o Tail(todo["main"]) = calls
      BY <1>6, <3>1, ConcatEmptySeq
    <3>. QED BY <1>5, <1>6, <3>1, <3>2 DEF StackStep, Proceed
  <2>. QED BY <2>1, <2>2 DEF Pick
<1>8. TypeOK'
  <2>1. DOMAIN todo' = Threads
    BY <1>1, <1>7, ThreadsStay
  <2>2. idle' \subseteq Pools /\ sthread' \in [Pools -> ThreadStates]
    BY <1>a, <1>3, <1>4 DEF TypeOK, connVars, ThreadStates
  <2>. QED BY <1>a, <2>1, <2>2
           DEF Pick, TypeOK, poolVars, orderVars, lockVars, worldVars
<1>9. UNCHANGED <<enabled, enabled_pools, miscounted, prio, pools, torn>>
  BY DEF Pick, poolVars, orderVars
<1>. QED BY <1>1, <1>2, <1>6, <1>7, <1>8, <1>9, QuietStep DEF Leaving

\* The rounds of the watchpool thread.
LEMMA WatchpoolKeeps ==
  ASSUME ControlInv, NEW b \in BOOLEAN, Probe(b) \/ Watched(b)
  PROVE  ControlInv'
<1>. USE DEF ControlInv
<1>a. TypeOK /\ TypeInv
  BY DEF TypeInv
<1>1. "watchpool" \in Threads /\ Doing("watchpool", "probe")
  BY DEF Threads, Probe, Watched
<1>2. /\ todo["watchpool"] # <<>> /\ todo["watchpool"][1].op = "probe"
      /\ Argument("watchpool") \in Nat \ {0}
  BY <1>1, DoingTop
<1>3. PICK calls :
        /\ Proceed("watchpool", calls)
        /\ \E n \in Nat \ {0} :
             \/ calls = <<With("probe", NoPool, n)>>
             \/ calls = Switching(NoPool) \o <<With("probe", NoPool, n)>>
  <2>1. CASE Probe(b)
    <3>1. Argument("watchpool") + 1 \in Nat \ {0}
      BY <1>2
    <3>. QED BY <2>1, <3>1 DEF Probe
  <2>2. CASE Watched(b)
    <3>1. <<>> \o <<With("probe", NoPool, 1)>> = <<With("probe", NoPool, 1)>>
      <4>1. With("probe", NoPool, 1) \in Calls
        BY CallsMade
      <4>. QED BY <4>1, OneCall, ConcatEmptySeq
    <3>2. 1 \in Nat \ {0}
      OBVIOUS
    <3>. QED BY <2>2, <3>1, <3>2 DEF Watched
  <2>. QED BY <2>1, <2>2
<1>5. calls \in Seq(Calls) /\ \A i \in DOMAIN calls : Harmless(calls[i])
  <2>1. PICK n \in Nat \ {0} :
          \/ calls = <<With("probe", NoPool, n)>>
          \/ calls = Switching(NoPool) \o <<With("probe", NoPool, n)>>
    BY <1>3
  <2>2. PICK next : next = <<With("probe", NoPool, n)>>
    OBVIOUS
  <2>3. next \in Seq(Calls) /\ \A i \in DOMAIN next : Harmless(next[i])
    <3>1. /\ With("probe", NoPool, n) \in Calls
          /\ With("probe", NoPool, n).op = "probe"
      BY CallsMade
    <3>. QED BY <2>2, <3>1, OneCall DEF Harmless
  <2>. QED BY <2>1, <2>2, <2>3, SwitchingCalls, HarmlessConcat
<1>6. StackStep("watchpool", calls)
  BY <1>2, <1>3, <1>5 DEF StackStep
<1>7. TypeOK'
  <2>1. DOMAIN todo' = Threads
    BY <1>1, <1>6, ThreadsStay
  <2>2. idle' \subseteq Pools /\ sthread' \in [Pools -> ThreadStates]
    <3>1. CASE Watched(b)
      BY <1>a, <3>1 DEF Watched, TypeOK, connVars
    <3>2. CASE Probe(b)
      BY <1>a, <3>2 DEF Probe, TypeOK, connVars, ThreadStates
    <3>. QED BY <3>1, <3>2
  <2>. QED BY <1>a, <2>1, <2>2
           DEF Probe, Watched, TypeOK, poolVars, orderVars, lockVars, worldVars
<1>8. UNCHANGED <<enabled, enabled_pools, miscounted, prio, pools, torn>>
  BY DEF Probe, Watched, poolVars, orderVars
<1>. QED BY <1>1, <1>2, <1>5, <1>6, <1>7, <1>8, QuietStep DEF Leaving

\* A thread that had nothing to do begins with harmless calls.
LEMMA QuietBegin ==
  ASSUME ControlInv, TypeOK', NEW t \in Threads, NEW calls, Begin(t, calls),
         calls \in Seq(Calls), \A i \in DOMAIN calls : Harmless(calls[i]),
         UNCHANGED <<enabled, enabled_pools, miscounted, prio, pools, torn>>
  PROVE  ControlInv'
<1>1. todo[t] = <<>> /\ StackStep(t, calls)
  BY DEF Begin, StackStep
<1>. QED BY <1>1, QuietStep

\* The stratum threads, when their connection goes or comes or is not needed.
LEMMA ConnectionsKeep ==
  ASSUME ControlInv, NEW p \in Pools,
         \/ Interrupted(p) \/ Reconnect(p) \/ Suspend(p) \/ AwaitWriter(p)
         \/ Retry(p) \/ Resumed(p) \/ \E b \in BOOLEAN : WaitLpCurrent(p, b)
  PROVE  ControlInv'
<1>. USE DEF ControlInv
<1>a. TypeOK /\ TypeInv /\ p \in Threads
  BY DEF TypeInv, Threads
<1>. USE DEF poolVars, orderVars, lockVars, worldVars, connVars, othersOfConn
<1>b. /\ <<Call("died", p)>> \in Seq(Calls)
      /\ \A i \in DOMAIN <<Call("died", p)>> : Harmless(<<Call("died", p)>>[i])
  <2>1. Call("died", p) \in Calls /\ Call("died", p).op = "died"
    BY CallsMade DEF PoolOps
  <2>. QED BY <2>1, OneCall DEF Harmless
<1>1. CASE Interrupted(p)
  <2>1. TypeOK'
    BY <1>1, <1>a DEF Interrupted, ThreadMoves, TypeOK, ThreadStates
  <2>. QED BY <1>1, <2>1, NothingCalled DEF Interrupted
<1>2. CASE Suspend(p)
  <2>1. TypeOK'
    BY <1>2, <1>a DEF Suspend, ThreadMoves, TypeOK, ThreadStates
  <2>. QED BY <1>2, <2>1, NothingCalled DEF Suspend
<1>3. CASE AwaitWriter(p)
  <2>1. TypeOK'
    BY <1>3, <1>a DEF AwaitWriter, TypeOK
  <2>. QED BY <1>3, <2>1, NothingCalled DEF AwaitWriter
<1>4. CASE Retry(p)
  <2>1. TypeOK'
    BY <1>4, <1>a DEF Retry, ThreadMoves, TypeOK, ThreadStates
  <2>. QED BY <1>4, <2>1, NothingCalled DEF Retry
<1>5. CASE Resumed(p)
  <2>1. TypeOK'
    BY <1>5, <1>a DEF Resumed, TypeOK
  <2>. QED BY <1>5, <2>1, NothingCalled DEF Resumed
<1>6. CASE Reconnect(p)
  <2>1. UNCHANGED <<enabled, enabled_pools, miscounted, prio, pools, torn>>
    BY <1>6 DEF Reconnect
  <2>2. CASE p \in alive
    <3>1. TypeOK'
      BY <1>6, <1>a, <2>2 DEF Reconnect, ThreadMoves, TypeOK, ThreadStates
    <3>. QED BY <1>6, <2>1, <2>2, <3>1, NothingCalled DEF Reconnect
  <2>3. CASE p \notin alive
    <3>1. Begin(p, <<Call("died", p)>>)
      BY <1>6, <2>3 DEF Reconnect
    <3>2. DOMAIN todo' = Threads
      BY <1>a, <1>b, <3>1, ThreadsStay DEF StackStep
    <3>3. TypeOK'
      BY <1>6, <1>a, <2>3, <3>2 DEF Reconnect, ThreadMoves, TypeOK, ThreadStates
    <3>. QED BY <1>a, <1>b, <2>1, <3>1, <3>3, QuietBegin
  <2>. QED BY <2>2, <2>3
<1>7. ASSUME NEW b \in BOOLEAN, WaitLpCurrent(p, b)
      PROVE  ControlInv'
  <2>1. UNCHANGED <<enabled, enabled_pools, miscounted, prio, pools, torn>>
    BY <1>7 DEF WaitLpCurrent
  <2>2. \/ UNCHANGED todo
        \/ Begin(p, <<Call("died", p)>>)
    BY <1>7 DEF WaitLpCurrent
  <2>3. DOMAIN todo' = Threads
    <3>1. CASE UNCHANGED todo
      BY <1>a, <3>1 DEF TypeOK
    <3>2. CASE Begin(p, <<Call("died", p)>>)
      BY <1>a, <1>b, <3>2, ThreadsStay DEF StackStep
    <3>. QED BY <2>2, <3>1, <3>2
  <2>4. sthread' \in [Pools -> ThreadStates]
    BY <1>7, <1>a DEF WaitLpCurrent, ThreadMoves, TypeOK, ThreadStates
  <2>5. TypeOK'
    BY <1>7, <1>a, <2>3, <2>4 DEF WaitLpCurrent, TypeOK
  <2>. QED BY <1>a, <1>b, <2>1, <2>2, <2>5, QuietBegin, NothingCalled
<1>. QED BY <1>1, <1>2, <1>3, <1>4, <1>5, <1>6, <1>7

\* What disables or enables a pool from its stratum thread.
LEMMA VerdictsKeep ==
  ASSUME ControlInv, NEW p \in Pools,
         SharesRejected(p) \/ CoinbaseBad(p) \/ MendsItsWays(p)
  PROVE  ControlInv'
<1>. USE DEF ControlInv
<1>1. TypeOK /\ TypeInv /\ p \in Threads
  BY DEF TypeInv, Threads
<1>. USE DEF poolVars, orderVars, lockVars, worldVars, connVars
<1>2. PICK f : /\ f \in {With("disable", p, "REJECTING"),
                         With("disable", p, "MISBEHAVING"), Call("enable", p)}
               /\ Begin(p, <<f>>)
  BY DEF SharesRejected, CoinbaseBad, MendsItsWays, Verdict
<1>3. f \in Calls /\ Harmless(f)
  <2>1. {"REJECTING", "MISBEHAVING"} \subseteq Disabling
    BY DEF Disabling, Statuses
  <2>. QED BY <1>2, <2>1, CallsMade DEF Harmless, PoolOps
<1>4. <<f>> \in Seq(Calls) /\ \A i \in DOMAIN <<f>> : Harmless(<<f>>[i])
  BY <1>3, OneCall
<1>5. DOMAIN todo' = Threads
  BY <1>1, <1>2, <1>4, ThreadsStay DEF StackStep
<1>6. TypeOK'
  BY <1>1, <1>5 DEF SharesRejected, CoinbaseBad, MendsItsWays, Verdict, TypeOK
<1>7. UNCHANGED <<enabled, enabled_pools, miscounted, prio, pools, torn>>
  BY DEF SharesRejected, CoinbaseBad, MendsItsWays, Verdict
<1>. QED BY <1>1, <1>2, <1>4, <1>6, <1>7, QuietBegin

\* Commands, up to what they call.
LEMMA CommandsKeep ==
  ASSUME ControlInv, NEW t \in Operators, NEW p \in Pools,
         \/ EnableCommand(t, p) \/ DisableCommand(t, p) \/ RemoveCommand(t, p)
         \/ QuotaCommand(t, p) \/ ApiSwitch(p) \/ TuiSwitch(p)
         \/ \E s \in Strategies : StrategyCommand(s)
  PROVE  ControlInv'
<1>. USE DEF ControlInv
<1>1. TypeOK /\ TypeInv /\ p \in Pools /\ Operators \subseteq Threads
  BY ListedArePools DEF TypeInv, Threads
<1>. USE DEF poolVars, orderVars, lockVars, worldVars, connVars
<1>2. /\ Call("manual", p) \in Calls /\ Harmless(Call("manual", p))
      /\ Call("ifcurrent", p) \in Calls /\ Harmless(Call("ifcurrent", p))
      /\ Call("removable", p) \in Calls /\ Harmless(Call("removable", p))
      /\ Call("runlock", p) \in Calls /\ Harmless(Call("runlock", p))
      /\ With("disable", p, "DISABLED") \in Calls
      /\ Harmless(With("disable", p, "DISABLED"))
      /\ \A s \in Strategies : /\ With("strategy", NoPool, s) \in Calls
                               /\ Harmless(With("strategy", NoPool, s))
  <2>1. "DISABLED" \in Disabling
    BY DEF Disabling, Statuses
  <2>. QED BY <1>1, <2>1, CallsMade DEF Harmless, PoolOps
<1>3. PICK u \in Operators, calls \in Seq(Calls) :
        /\ Begin(u, calls)
        /\ \A i \in DOMAIN calls : Harmless(calls[i])
  <2>1. CASE EnableCommand(t, p) \/ DisableCommand(t, p)
    <3>1. PICK f : /\ f \in {Call("manual", p), With("disable", p, "DISABLED")}
                   /\ Begin(t, <<f>>)
      BY <2>1 DEF EnableCommand, DisableCommand, Command
    <3>2. <<f>> \in Seq(Calls) /\ \A i \in DOMAIN <<f>> : Harmless(<<f>>[i])
      BY <1>2, <3>1, OneCall
    <3>. QED BY <3>1, <3>2
  <2>2. CASE RemoveCommand(t, p)
    <3>1. PICK c : /\ c = <<Call("ifcurrent", p), Call("removable", p)>>
                   /\ Begin(t, c)
      BY <2>2 DEF RemoveCommand, Command
    <3>2. c \in Seq(Calls) /\ \A i \in DOMAIN c : Harmless(c[i])
      BY <1>2, <3>1, TwoCalls
    <3>. QED BY <3>1, <3>2
  <2>3. CASE QuotaCommand(t, p)
    BY <2>3, NoCalls DEF QuotaCommand, Command
  <2>4. CASE ApiSwitch(p)
    <3>1. PICK c, d : /\ c = <<Call("manual", p), Call("runlock", p)>>
                      /\ d = Switching(p) /\ Begin("api", c \o d)
      BY <2>4 DEF ApiSwitch, Command
    <3>2. c \in Seq(Calls) /\ \A i \in DOMAIN c : Harmless(c[i])
      BY <1>2, <3>1, TwoCalls
    <3>3. d \in Seq(Calls) /\ \A i \in DOMAIN d : Harmless(d[i])
      BY <1>1, <3>1, SwitchingCalls
    <3>4. "api" \in Operators
      BY DEF Operators
    <3>. QED BY <3>1, <3>2, <3>3, <3>4, HarmlessConcat
  <2>5. CASE TuiSwitch(p)
    <3>1. PICK c, d : /\ c = <<Call("manual", p)>>
                      /\ d = Switching(p) /\ Begin("tui", c \o d)
      BY <2>5 DEF TuiSwitch, Command
    <3>2. c \in Seq(Calls) /\ \A i \in DOMAIN c : Harmless(c[i])
      BY <1>2, <3>1, OneCall
    <3>3. d \in Seq(Calls) /\ \A i \in DOMAIN d : Harmless(d[i])
      BY <1>1, <3>1, SwitchingCalls
    <3>4. "tui" \in Operators
      BY DEF Operators
    <3>. QED BY <3>1, <3>2, <3>3, <3>4, HarmlessConcat
  <2>6. ASSUME NEW s \in Strategies, StrategyCommand(s)
        PROVE  \E u \in Operators, calls \in Seq(Calls) :
                 /\ Begin(u, calls)
                 /\ \A i \in DOMAIN calls : Harmless(calls[i])
    <3>1. PICK c : c = <<With("strategy", NoPool, s)>> /\ Begin("tui", c)
      BY <2>6 DEF StrategyCommand, Command
    <3>2. c \in Seq(Calls) /\ \A i \in DOMAIN c : Harmless(c[i])
      BY <1>2, <2>6, <3>1, OneCall
    <3>3. "tui" \in Operators
      BY DEF Operators
    <3>. QED BY <3>1, <3>2, <3>3
  <2>. QED BY <2>1, <2>2, <2>3, <2>4, <2>5, <2>6
<1>4. DOMAIN todo' = Threads
  BY <1>1, <1>3, ThreadsStay DEF StackStep
<1>5. /\ UNCHANGED <<enabled, enabled_pools, miscounted, prio, pools, torn>>
      /\ UNCHANGED <<currentpool, pool_strategy, crashed, cgmutex, lp_lock, alive,
                     verdicts, failures, idle, sthread>>
      /\ failover_only' \subseteq failover_only
      /\ quota' \subseteq quota \cup {p} /\ commands' = commands + 1
      /\ readers' \subseteq readers \cup {"api"}
  BY DEF EnableCommand, DisableCommand, RemoveCommand, QuotaCommand, ApiSwitch,
         TuiSwitch, StrategyCommand, Command
<1>6. TypeOK'
  BY <1>1, <1>4, <1>5 DEF TypeOK, Operators
<1>. QED BY <1>1, <1>3, <1>5, <1>6, QuietBegin

\* The world, and a writer that begins to wait for control_lock.
LEMMA WorldKeeps ==
  ASSUME ControlInv, World \/ \E t \in Threads : AwaitReaders(t)
  PROVE  ControlInv'
<1>. USE DEF ControlInv
<1>. USE DEF poolVars, orderVars, lockVars, worldVars, connVars
<1>1. TypeOK
  BY DEF TypeInv
<1>2. TypeOK'
  BY <1>1 DEF World, PoolGoesDown, PoolComesBack, AwaitReaders, TypeOK
<1>. QED BY <1>2, NothingCalled
         DEF World, PoolGoesDown, PoolComesBack, AwaitReaders

-----------------------------------------------------------------------------
(* Counting: enable_pool, disable_pool and remove_pool.                    *)

\* The array has each of its pools once.
LEMMA ListedCount ==
  ASSUME TypeInv
  PROVE  /\ N \in Nat /\ DOMAIN pools = 1 .. N
         /\ IsFiniteSet(Listed) /\ Cardinality(Listed) = N
<1>1. /\ N \in Nat /\ DOMAIN pools = 1 .. N
      /\ pools \in [1 .. N -> Listed]
      /\ \A p \in Listed : \E k \in 1 .. N : pools[k] = p
  BY LenProperties DEF TypeInv, TypeOK, N, Listed, ToSet
<1>2. pools \in Bijection(1 .. N, Listed)
  BY <1>1 DEF TypeInv, IsInjective, Bijection, Injection, Surjection
<1>3. ExistsBijection(1 .. N, Listed)
  BY <1>2 DEF ExistsBijection
<1>4. IsFiniteSet(1 .. N) /\ Cardinality(1 .. N) = N
  BY <1>1, FS_Interval
<1>. QED BY <1>1, <1>3, <1>4, FS_Bijection

\* So the enabled ones can be counted.
LEMMA EnabledFinite ==
  ASSUME TypeInv
  PROVE  IsFiniteSet({p \in Listed : Enabled(p)})
BY ListedCount, FS_Subset

\* A step that has nothing to do with priorities, once the rest is known.
LEMMA CountStep ==
  ASSUME ControlInv, TypeOK', NEW t \in Threads, NEW calls, StackStep(t, calls),
         Replaces(todo[t], calls), CountInv', UNCHANGED <<prio, pools, torn>>,
         todo[t] # <<>> => todo[t][1].op \notin {"priority", "priorest"}
  PROVE  ControlInv'
<1>1. StackInv' /\ PrioInv'
  BY NestedStep, NothingOrdered DEF ControlInv, Replaces
<1>2. IsInjective(pools)'
  BY DEF ControlInv, TypeInv
<1>. QED BY <1>1, <1>2 DEF ControlInv, TypeInv

\* enable_pool finds a pool that is not enabled.
LEMMA EnablePoolKeeps ==
  ASSUME ControlInv, NEW t \in Threads, EnablePool(t)
  PROVE  ControlInv'
<1>. USE DEF ControlInv
<1>. USE DEF poolVars, orderVars, lockVars, worldVars, connVars
<1>1. /\ TypeOK /\ TypeInv /\ Callee(t) \in Pools /\ todo[t] # <<>>
      /\ todo[t][1].op = "enable"
  BY DoingTop DEF TypeInv, EnablePool, PoolOps
<1>2. PICK calls : /\ calls = IF ~Enabled(Callee(t))
                              THEN <<Call("count", Callee(t))>> ELSE <<>>
                   /\ Proceed(t, calls)
  BY DEF EnablePool
<1>3. /\ calls \in Seq(Calls)
      /\ \A i \in DOMAIN calls :
           i = 1 /\ calls[i].op = "count" /\ ~Enabled(calls[i].pool)
  BY <1>1, <1>2, CallsMade, NoCalls, OneCall DEF PoolOps
<1>4. StackStep(t, calls)
  BY <1>1, <1>2, <1>3 DEF StackStep
<1>5. TypeOK'
  BY <1>1, <1>4, ThreadsStay DEF EnablePool, TypeOK
<1>6. Replaces(todo[t], calls)
  BY <1>1, <1>3 DEF Replaces, Leaving
<1>7. CountInv'
  BY <1>1, <1>3, <1>4, NothingCounted DEF EnablePool
<1>. QED BY <1>1, <1>4, <1>5, <1>6, <1>7, CountStep DEF EnablePool

\* removepool goes on when it has left the pool.
LEMMA RemovableKeeps ==
  ASSUME ControlInv, NEW t \in Threads, Removable(t)
  PROVE  ControlInv'
<1>. USE DEF ControlInv
<1>. USE DEF poolVars, orderVars, lockVars, worldVars, connVars
<1>1. /\ TypeOK /\ TypeInv /\ Callee(t) \in Pools /\ todo[t] # <<>>
      /\ todo[t][1].op = "removable"
  BY DoingTop DEF TypeInv, Removable, PoolOps
<1>2. PICK calls : /\ calls = IF Callee(t) = currentpool THEN <<>>
                              ELSE <<With("disable", Callee(t), "DISABLED"),
                                     Call("unlink", Callee(t))>>
                   /\ Proceed(t, calls)
  BY DEF Removable
<1>3. /\ calls \in Seq(Calls)
      /\ \A i \in DOMAIN calls :
           /\ i \in {1, 2} /\ DOMAIN calls = {1, 2}
           /\ calls[1].op = "disable" /\ calls[2].op = "unlink"
           /\ calls[1].pool = calls[2].pool
  <2>1. /\ "DISABLED" \in Disabling
        /\ With("disable", Callee(t), "DISABLED") \in Calls
        /\ Call("unlink", Callee(t)) \in Calls
    BY <1>1, CallsMade DEF Disabling, Statuses, PoolOps
  <2>2. CASE calls = <<>>
    BY <2>2, NoCalls
  <2>3. CASE calls = <<With("disable", Callee(t), "DISABLED"),
                       Call("unlink", Callee(t))>>
    BY <2>1, <2>3, TwoCalls, CallsMade
  <2>. QED BY <1>2, <2>2, <2>3
<1>4. StackStep(t, calls)
  BY <1>1, <1>2, <1>3 DEF StackStep
<1>5. TypeOK'
  BY <1>1, <1>4, ThreadsStay DEF Removable, TypeOK
<1>6. Replaces(todo[t], calls)
  <2>1. \A i \in DOMAIN calls : calls[i].op = "unlink" => i = 2
    BY <1>3
  <2>. QED BY <1>1, <1>3, <2>1 DEF Replaces, Leaving
<1>7. CountInv'
  <2>1. \A i \in DOMAIN calls :
          /\ calls[i].op # "count" /\ calls[i].op # "uncount"
          /\ calls[i].op = "unlink" =>
               i = 2 /\ calls[1].pool = calls[2].pool /\ calls[1].op = "disable"
    BY <1>3
  <2>. QED BY <1>1, <1>4, <2>1, NothingCounted DEF Removable
<1>. QED BY <1>1, <1>4, <1>5, <1>6, <1>7, CountStep DEF Removable

\* While no overlap is noted, nobody else is about to count or to remove p.
LEMMA NoOverlap ==
  ASSUME NEW t \in Threads, NEW p, ~Overlap(t, p), NEW u \in Threads \ {t}
  PROVE  \A i \in DOMAIN todo[u] :
           todo[u][i].op \in {"count", "uncount", "unlink"} => todo[u][i].pool # p
BY DEF Overlap

\* What is counted or removed is a pool.
LEMMA CountedArePools ==
  ASSUME TypeInv, NEW u \in Threads, NEW i \in DOMAIN todo[u],
         todo[u][i].op \in {"count", "uncount", "unlink", "disable"}
  PROVE  todo[u][i].pool \in Pools
<1>1. todo[u] \in Seq(Calls)
  BY DEF TypeInv, StackInv
<1>2. todo[u][i] \in Calls
  BY <1>1, LenProperties, ElementOfSeq
<1>. QED BY <1>2, CallTypes DEF PoolOps

\* enable_pool counts the pool.
LEMMA CountEnabledKeeps ==
  ASSUME ControlInv, NEW t \in Threads, CountEnabled(t)
  PROVE  ControlInv'
<1>. USE DEF ControlInv
<1>. USE DEF poolVars, orderVars, lockVars, worldVars, connVars
<1>1. /\ TypeOK /\ TypeInv /\ Callee(t) \in Pools /\ todo[t] # <<>>
      /\ todo[t][1].op = "count" /\ todo[t][1].pool = Callee(t)
  BY DoingTop, TopCall DEF TypeInv, CountEnabled, PoolOps, Callee
<1>2. PICK p \in Pools, calls \in {<<Call("compare", Callee(t))>>} :
        /\ p = Callee(t) /\ calls = <<Call("compare", p)>>
        /\ Proceed(t, calls)
  BY <1>1 DEF CountEnabled
<1>3. /\ calls \in Seq(Calls) /\ \A i \in DOMAIN calls : calls[i].op = "compare"
  BY <1>2, CallsMade, OneCall DEF PoolOps
<1>4. StackStep(t, calls)
  BY <1>1, <1>2, <1>3 DEF StackStep
<1>5. TypeOK'
  BY <1>1, <1>4, ThreadsStay
     DEF CountEnabled, LpBroadcast, TypeOK, Statuses, ThreadStates
<1>6. Replaces(todo[t], calls)
  BY <1>1, <1>3 DEF Replaces, Leaving
<1>7. CountInv'
  <2>1. CASE miscounted'
    BY <2>1 DEF CountInv
  <2>2. CASE ~miscounted'
    <3>1. /\ ~miscounted /\ ~Overlap(t, p)
          /\ enabled_pools' = enabled_pools + 1
          /\ enabled' = [enabled EXCEPT ![p] = "ENABLED"]
      BY <1>1, <1>2, <2>2 DEF CountEnabled, TypeOK
    <3>2. /\ enabled_pools = Cardinality({q \in Listed : Enabled(q)})
          /\ \A u \in Threads : SeenRight(todo[u])
      BY <3>1 DEF CountInv
    <3>3. p \in Listed /\ ~Enabled(p)
      <4>1. 1 \in DOMAIN todo[t]
        BY <1>1, TopCall DEF TypeInv
      <4>. QED BY <1>1, <1>2, <3>1, <3>2, <4>1 DEF Overlap, SeenRight
    <3>4. \A q \in Pools : enabled'[q] = "ENABLED" <=> Enabled(q) \/ q = p
      BY <1>1, <3>1 DEF TypeOK, Enabled
    <3>5. Listed' = Listed /\ Listed \subseteq Pools
      BY <1>1, ListedArePools DEF CountEnabled, Listed
    <3>6. {q \in Listed : Enabled(q)}' = {q \in Listed : Enabled(q)} \cup {p}
      BY <3>3, <3>4, <3>5 DEF Enabled
    <3>7. Cardinality({q \in Listed : Enabled(q)} \cup {p})
            = Cardinality({q \in Listed : Enabled(q)}) + 1
      BY <1>1, <3>3, EnabledFinite, FS_AddElement
    <3>8. ASSUME NEW u \in Threads \ {t}
          PROVE  SeenRight(todo[u])'
      <4>1. todo'[u] = todo[u]
        BY <1>1, <1>4, StackEntries
      <4>2. ASSUME NEW i \in DOMAIN todo[u],
                   todo[u][i].op \in {"count", "uncount", "unlink"}
            PROVE  enabled'[todo[u][i].pool] = "ENABLED"
                     <=> Enabled(todo[u][i].pool)
        <5>1. todo[u][i].pool # p /\ todo[u][i].pool \in Pools
          BY <1>1, <3>1, <4>2, NoOverlap, CountedArePools
        <5>. QED BY <3>4, <5>1
      <4>. QED BY <3>2, <4>1, <4>2, OthersSeenRight
    <3>9. SeenRight(todo[t])'
      <4>1. ASSUME NEW j \in DOMAIN todo[t], j >= 2, todo[t][j].op = "unlink"
            PROVE  FALSE
        <5>1. \A k \in 1 .. j - 1 : todo[t][k].op \in Leaving
          BY <1>1, <4>1 DEF TypeInv, StackInv, WellNested
        <5>2. 1 \in 1 .. j - 1
          BY <1>1, <4>1, TopCall DEF TypeInv
        <5>. QED BY <1>1, <5>1, <5>2 DEF Leaving
      <4>. QED BY <1>1, <1>3, <1>4, <3>2, <4>1, OwnSeenRight
    <3>. QED BY <3>1, <3>2, <3>6, <3>7, <3>8, <3>9 DEF CountInv
  <2>. QED BY <2>1, <2>2
<1>. QED BY <1>1, <1>4, <1>5, <1>6, <1>7, CountStep DEF CountEnabled

\* disable_pool finds a pool that is enabled, or gives it another status.
LEMMA DisablePoolKeeps ==
  ASSUME ControlInv, NEW t \in Threads, DisablePool(t)
  PROVE  ControlInv'
<1>. USE DEF ControlInv
<1>. USE DEF poolVars, orderVars, lockVars, worldVars, connVars
<1>1. /\ TypeOK /\ TypeInv /\ Callee(t) \in Pools /\ todo[t] # <<>>
      /\ todo[t][1].op = "disable" /\ todo[t][1].pool = Callee(t)
      /\ Argument(t) \in Disabling
  BY DoingTop, TopCall DEF TypeInv, DisablePool, Callee
<1>2. PICK p \in Pools, x \in Disabling,
           calls \in {<<With("uncount", Callee(t), Argument(t))>>, <<>>} :
        /\ p = Callee(t) /\ x = Argument(t)
        /\ calls = IF Enabled(p) THEN <<With("uncount", p, x)>> ELSE <<>>
        /\ Proceed(t, calls)
  BY <1>1 DEF DisablePool
<1>3. /\ calls \in Seq(Calls)
      /\ \A i \in DOMAIN calls :
           i = 1 /\ calls[i].op = "uncount" /\ calls[i].pool = p /\ Enabled(p)
      /\ Enabled(p) => Len(calls) = 1 /\ 1 \in DOMAIN calls
  BY <1>2, CallsMade, NoCalls, OneCall
<1>4. StackStep(t, calls)
  BY <1>1, <1>2, <1>3 DEF StackStep
<1>5. enabled' = [enabled EXCEPT ![p] =
                    IF @ \in {"DISABLED", "ENABLED"} THEN @ ELSE x]
  BY <1>2 DEF DisablePool
<1>6. TypeOK'
  BY <1>1, <1>4, <1>5, ThreadsStay DEF DisablePool, TypeOK, Disabling
<1>7. Replaces(todo[t], calls)
  BY <1>1, <1>3 DEF Replaces, Leaving
<1>8. CountInv'
  <2>1. CASE miscounted
    BY <2>1 DEF CountInv, DisablePool
  <2>2. CASE ~miscounted
    <3>1. /\ enabled_pools = Cardinality({q \in Listed : Enabled(q)})
          /\ \A u \in Threads : SeenRight(todo[u])
      BY <2>2 DEF CountInv
    <3>2. \A q \in Pools : enabled'[q] = "ENABLED" <=> Enabled(q)
      BY <1>1, <1>2, <1>5 DEF TypeOK, Enabled, Disabling
    <3>3. {q \in Listed : Enabled(q)}' = {q \in Listed : Enabled(q)}
      BY <1>1, <3>2, ListedArePools DEF DisablePool, Listed, Enabled
    <3>4. ASSUME NEW u \in Threads \ {t}
          PROVE  SeenRight(todo[u])'
      <4>1. todo'[u] = todo[u]
        BY <1>1, <1>4, StackEntries
      <4>2. \A i \in DOMAIN todo[u] :
              todo[u][i].op \in {"count", "uncount", "unlink"} =>
                (enabled'[todo[u][i].pool] = "ENABLED"
                     <=> Enabled(todo[u][i].pool))
        BY <1>1, <3>2, CountedArePools
      <4>. QED BY <3>1, <4>1, <4>2, OthersSeenRight
    <3>5. SeenRight(todo[t])'
      <4>1. ASSUME NEW j \in DOMAIN todo[t], j >= 2, todo[t][j].op = "unlink",
                   LeftAlone(todo[t], j)
            PROVE  \/ enabled'[todo[t][j].pool] # "ENABLED"
                   \/ /\ j = 2 /\ Len(calls) = 1
                      /\ calls[1].op \in {"disable", "uncount"}
                      /\ calls[1].pool = todo[t][2].pool
        <5>1. todo[t][j].pool \in Pools
          BY <1>1, <4>1, CountedArePools
        <5>2. CASE ~Enabled(todo[t][j].pool)
          BY <3>2, <5>1, <5>2
        <5>3. CASE Enabled(todo[t][j].pool)
          BY <1>1, <1>2, <1>3, <4>1, <5>3 DEF LeftAlone
        <5>. QED BY <5>2, <5>3
      <4>2. \A i \in DOMAIN calls :
              /\ calls[i].op = "uncount" /\ enabled'[calls[i].pool] = "ENABLED"
        BY <1>2, <1>3, <3>2
      <4>. QED BY <1>1, <1>4, <3>1, <4>1, <4>2, OwnSeenRight
    <3>. QED BY <3>1, <3>3, <3>4, <3>5 DEF CountInv, DisablePool
  <2>. QED BY <2>1, <2>2
<1>. QED BY <1>1, <1>4, <1>6, <1>7, <1>8, CountStep DEF DisablePool

\* disable_pool counts the pool off.
LEMMA UncountKeeps ==
  ASSUME ControlInv, NEW t \in Threads, Uncount(t)
  PROVE  ControlInv'
<1>. USE DEF ControlInv
<1>. USE DEF poolVars, orderVars, lockVars, worldVars, connVars
<1>1. /\ TypeOK /\ TypeInv /\ Callee(t) \in Pools /\ todo[t] # <<>>
      /\ todo[t][1].op = "uncount" /\ todo[t][1].pool = Callee(t)
      /\ Argument(t) \in Disabling
  BY DoingTop, TopCall DEF TypeInv, Uncount, Callee
<1>2. PICK p \in Pools, x \in Disabling,
           calls \in {<<Call("ifcurrent", Callee(t))>>} :
        /\ p = Callee(t) /\ x = Argument(t) /\ calls = <<Call("ifcurrent", p)>>
        /\ Proceed(t, calls)
  BY <1>1 DEF Uncount
<1>3. /\ calls \in Seq(Calls) /\ \A i \in DOMAIN calls : calls[i].op = "ifcurrent"
  BY <1>2, CallsMade, OneCall DEF PoolOps
<1>4. StackStep(t, calls)
  BY <1>1, <1>2, <1>3 DEF StackStep
<1>5. TypeOK'
  BY <1>1, <1>4, ThreadsStay DEF Uncount, TypeOK, Disabling
<1>6. Replaces(todo[t], calls)
  BY <1>1, <1>3 DEF Replaces, Leaving
<1>7. CountInv'
  <2>1. CASE miscounted'
    BY <2>1 DEF CountInv
  <2>2. CASE ~miscounted'
    <3>1. /\ ~miscounted /\ ~Overlap(t, p)
          /\ enabled_pools' = enabled_pools - 1
          /\ enabled' = [enabled EXCEPT ![p] = x]
      BY <1>1, <1>2, <2>2 DEF Uncount, TypeOK
    <3>2. /\ enabled_pools = Cardinality({q \in Listed : Enabled(q)})
          /\ \A u \in Threads : SeenRight(todo[u])
      BY <3>1 DEF CountInv
    <3>3. p \in Listed /\ Enabled(p)
      <4>1. 1 \in DOMAIN todo[t]
        BY <1>1, TopCall DEF TypeInv
      <4>. QED BY <1>1, <1>2, <3>1, <3>2, <4>1 DEF Overlap, SeenRight
    <3>4. \A q \in Pools : enabled'[q] = "ENABLED" <=> Enabled(q) /\ q # p
      BY <1>1, <1>2, <3>1 DEF TypeOK, Enabled, Disabling
    <3>5. {q \in Listed : Enabled(q)}' = {q \in Listed : Enabled(q)} \ {p}
      BY <1>1, <3>4, ListedArePools DEF Uncount, Listed, Enabled
    <3>6. Cardinality({q \in Listed : Enabled(q)} \ {p})
            = Cardinality({q \in Listed : Enabled(q)}) - 1
      BY <1>1, <3>3, EnabledFinite, FS_RemoveElement
    <3>7. ASSUME NEW u \in Threads \ {t}
          PROVE  SeenRight(todo[u])'
      <4>1. todo'[u] = todo[u]
        BY <1>1, <1>4, StackEntries
      <4>2. \A i \in DOMAIN todo[u] :
              todo[u][i].op \in {"count", "uncount", "unlink"} =>
                (enabled'[todo[u][i].pool] = "ENABLED"
                     <=> Enabled(todo[u][i].pool))
        BY <1>1, <3>1, <3>4, NoOverlap, CountedArePools
      <4>. QED BY <3>2, <4>1, <4>2, OthersSeenRight
    <3>8. SeenRight(todo[t])'
      <4>1. ASSUME NEW j \in DOMAIN todo[t], j >= 2, todo[t][j].op = "unlink",
                   LeftAlone(todo[t], j)
            PROVE  enabled'[todo[t][j].pool] # "ENABLED"
        <5>1. todo[t][j].pool \in Pools
          BY <1>1, <4>1, CountedArePools
        <5>. QED BY <1>1, <1>2, <3>4, <4>1, <5>1 DEF LeftAlone
      <4>. QED BY <1>1, <1>3, <1>4, <3>2, <4>1, OwnSeenRight
    <3>. QED BY <3>1, <3>2, <3>5, <3>6, <3>7, <3>8 DEF CountInv
  <2>. QED BY <2>1, <2>2
<1>. QED BY <1>1, <1>4, <1>5, <1>6, <1>7, CountStep DEF Uncount

-----------------------------------------------------------------------------
(* Ordering: remove_pool, switch_pools and poolpriority.                   *)

\* When the priorities are 0 to N - 1, each is the priority of one pool.
LEMMA DistinctPriorities ==
  ASSUME TypeInv, Distinct
  PROVE  /\ \A p \in Listed : prio[p] \in 0 .. N - 1
         /\ \A i \in 0 .. N - 1 : \E p \in Listed : prio[p] = i
         /\ \A p, q \in Listed : prio[p] = prio[q] => p = q
<1>. DEFINE f == [p \in Listed |-> prio[p]]
<1>1. /\ \A p \in Listed : prio[p] \in 0 .. N - 1
      /\ \A i \in 0 .. N - 1 : \E p \in Listed : prio[p] = i
  BY DEF Distinct
<1>2. f \in Surjection(Listed, 0 .. N - 1)
  BY <1>1 DEF Surjection
<1>3. /\ IsFiniteSet(Listed) /\ Cardinality(Listed) = N /\ N \in Nat
  BY ListedCount
<1>4. Cardinality(0 .. N - 1) = N
  BY <1>3, FS_Interval
<1>5. f \in Injection(Listed, 0 .. N - 1)
  BY <1>2, <1>3, <1>4, FS_SurjSameCardinalityImpliesInj
<1>6. \A p, q \in Listed : f[p] = f[q] => p = q
  BY <1>5 DEF Injection, IsInjective
<1>. QED BY <1>1, <1>6

\* The array without p: the last pool takes its place, or the array loses its last
\* pool when p is not there.
LEMMA Unlinked ==
  ASSUME TypeInv, NEW p,
         pools' = [k \in 1 .. N - 1 |-> IF pools[k] = p THEN pools[N] ELSE pools[k]]
  PROVE  /\ pools' \in Seq(Pools) /\ IsInjective(pools')
         /\ p \in Listed => Listed' = Listed \ {p} /\ N' = N - 1
<1>1. /\ N \in Nat /\ DOMAIN pools = 1 .. N
      /\ \A k \in 1 .. N : pools[k] \in Pools
      /\ \A k, l \in 1 .. N : pools[k] = pools[l] => k = l
  BY ListedCount, LenProperties DEF TypeInv, TypeOK, N, IsInjective
<1>2. /\ pools' \in Seq(Pools) /\ DOMAIN pools' = 1 .. N - 1
      /\ Len(pools') = IF N = 0 THEN 0 ELSE N - 1
  <2>1. CASE N = 0
    <3>1. /\ pools' = [k \in 1 .. 0 |-> pools[k]]
          /\ DOMAIN pools' = 1 .. 0
      BY <1>1, <2>1
    <3>2. pools' \in Seq(Pools)
      <4>1. pools' \in [1 .. 0 -> Pools] /\ 0 \in Nat
        BY <3>1
      <4>. QED BY <4>1, SeqDef
    <3>3. DOMAIN pools' = 1 .. Len(pools') /\ Len(pools') \in Nat
      BY <3>2, LenProperties
    <3>. QED BY <1>1, <2>1, <3>1, <3>2, <3>3
  <2>2. CASE N # 0
    <3>1. N - 1 \in Nat /\ N \in 1 .. N
      BY <1>1, <2>2
    <3>2. /\ pools' \in [1 .. N - 1 -> Pools] /\ DOMAIN pools' = 1 .. N - 1
      BY <1>1, <3>1
    <3>3. pools' \in Seq(Pools)
      BY <3>1, <3>2, SeqDef
    <3>4. Len(pools') \in Nat /\ DOMAIN pools' = 1 .. Len(pools')
      BY <3>3, LenProperties
    <3>5. Len(pools') = N - 1
      <4>1. Len(pools') > N - 1 => Len(pools') \in 1 .. Len(pools')
        BY <3>1, <3>4
      <4>2. Len(pools') < N - 1 => N - 1 \in 1 .. N - 1
        BY <3>1, <3>4
      <4>. QED BY <3>1, <3>2, <3>4, <4>1, <4>2
    <3>. QED BY <2>2, <3>2, <3>3, <3>5
  <2>. QED BY <2>1, <2>2
<1>3. ASSUME NEW k \in 1 .. N - 1
      PROVE  /\ k \in 1 .. N /\ N \in 1 .. N /\ k # N
             /\ pools'[k] = IF pools[k] = p THEN pools[N] ELSE pools[k]
  BY <1>1, <1>3
<1>4. IsInjective(pools')
  <2>. SUFFICES ASSUME NEW k \in 1 .. N - 1, NEW l \in 1 .. N - 1,
                       pools'[k] = pools'[l]
                PROVE  k = l
    BY <1>2 DEF IsInjective
  <2>. QED BY <1>1, <1>3
<1>5. ASSUME p \in Listed
      PROVE  Listed' = Listed \ {p} /\ N' = N - 1
  <2>1. PICK m \in 1 .. N : pools[m] = p
    BY <1>1, <1>5 DEF Listed, ToSet
  <2>2. N # 0 /\ N' = N - 1
    BY <1>1, <1>2, <2>1 DEF N
  <2>3. /\ Listed' = {pools'[k] : k \in 1 .. N - 1}
        /\ Listed = {pools[k] : k \in 1 .. N}
    BY <1>1, <1>2 DEF Listed, ToSet
  <2>4. Listed' \subseteq Listed \ {p}
    <3>. SUFFICES ASSUME NEW k \in 1 .. N - 1
                  PROVE  pools'[k] \in Listed /\ pools'[k] # p
      BY <2>3
    <3>. QED BY <1>1, <1>3, <2>1, <2>3
  <2>5. Listed \ {p} \subseteq Listed'
    <3>. SUFFICES ASSUME NEW k \in 1 .. N, pools[k] # p
                  PROVE  \E l \in 1 .. N - 1 : pools'[l] = pools[k]
      BY <2>3
    <3>1. CASE k = N
      <4>1. m \in 1 .. N - 1
        BY <1>1, <2>1, <3>1
      <4>. QED BY <1>3, <2>1, <3>1, <4>1
    <3>2. CASE k # N
      <4>1. k \in 1 .. N - 1
        BY <1>1, <3>2
      <4>. QED BY <1>3, <4>1
    <3>. QED BY <3>1, <3>2
  <2>. QED BY <2>2, <2>4, <2>5
<1>. QED BY <1>2, <1>4, <1>5

\* remove_pool: the pools after it in priority move up.
LEMMA UnlinkPriorities ==
  ASSUME TypeInv, Distinct, NEW p \in Listed,
         Listed' = Listed \ {p}, N' = N - 1,
         prio' = [q \in Pools |-> IF q \in Listed /\ prio[q] > prio[p]
                                  THEN prio[q] - 1 ELSE prio[q]]
  PROVE  Distinct'
<1>1. /\ N \in Nat /\ Listed \subseteq Pools /\ prio[p] \in 0 .. N - 1
      /\ \A q \in Listed : prio[q] \in 0 .. N - 1
      /\ \A i \in 0 .. N - 1 : \E q \in Listed : prio[q] = i
      /\ \A q \in Listed \ {p} : prio[q] # prio[p]
  BY DistinctPriorities, ListedArePools, ListedCount DEF TypeInv
<1>2. \A q \in Listed :
        prio'[q] = IF prio[q] > prio[p] THEN prio[q] - 1 ELSE prio[q]
  BY <1>1
<1>3. ASSUME NEW q \in Listed \ {p}
      PROVE  prio'[q] \in 0 .. N - 2
  BY <1>1, <1>2
<1>4. ASSUME NEW i \in 0 .. N - 2
      PROVE  \E q \in Listed \ {p} : prio'[q] = i
  <2>1. CASE i < prio[p]
    <3>1. PICK q \in Listed : prio[q] = i
      BY <1>1
    <3>. QED BY <1>1, <1>2, <2>1, <3>1
  <2>2. CASE i >= prio[p]
    <3>1. PICK q \in Listed : prio[q] = i + 1
      BY <1>1
    <3>. QED BY <1>1, <1>2, <2>2, <3>1
  <2>. QED BY <1>1, <2>1, <2>2
<1>5. {prio'[q] : q \in Listed \ {p}} = 0 .. N - 2
  BY <1>3, <1>4
<1>6. N' - 1 = N - 2
  BY <1>1
<1>. QED BY <1>5, <1>6 DEF Distinct

\* switch_pools: the pool comes first, and those before it move down.
LEMMA RaisedPriorities ==
  ASSUME TypeInv, Distinct, NEW sel \in Pools \cup {NoPool}, prio' = Raised(sel),
         UNCHANGED pools, prio' # prio => sel \in Listed
  PROVE  Distinct'
<1>1. /\ N \in Nat /\ Listed \subseteq Pools
      /\ \A q \in Listed : prio[q] \in 0 .. N - 1
      /\ \A i \in 0 .. N - 1 : \E q \in Listed : prio[q] = i
  BY DistinctPriorities, ListedArePools, ListedCount DEF TypeInv
<1>2. Listed' = Listed /\ N' = N
  BY DEF Listed, N
<1>3. CASE prio' = prio
  BY <1>2, <1>3 DEF Distinct
<1>4. CASE prio' # prio
  <2>1. /\ sel \in Listed
        /\ \A q \in Listed :
             prio'[q] = IF q = sel THEN 0
                        ELSE IF prio[q] < prio[sel] THEN prio[q] + 1 ELSE prio[q]
    BY <1>1, <1>4 DEF Raised
  <2>2. \A q \in Listed \ {sel} : prio[q] # prio[sel]
    BY <2>1, DistinctPriorities
  <2>3. ASSUME NEW q \in Listed
        PROVE  prio'[q] \in 0 .. N - 1
    BY <1>1, <2>1
  <2>4. ASSUME NEW i \in 0 .. N - 1
        PROVE  \E q \in Listed : prio'[q] = i
    <3>1. CASE i = 0
      BY <2>1, <3>1
    <3>2. CASE i > 0 /\ i <= prio[sel]
      <4>1. PICK q \in Listed : prio[q] = i - 1
        BY <1>1, <3>2
      <4>2. q # sel /\ prio[q] < prio[sel]
        BY <1>1, <2>1, <3>2, <4>1
      <4>. QED BY <1>1, <2>1, <4>1, <4>2
    <3>3. CASE i > prio[sel]
      <4>1. PICK q \in Listed : prio[q] = i
        BY <1>1
      <4>. QED BY <1>1, <2>1, <3>3, <4>1
    <3>. QED BY <1>1, <2>1, <3>1, <3>2, <3>3
  <2>5. {prio'[q] : q \in Listed} = 0 .. N - 1
    BY <2>3, <2>4
  <2>. QED BY <1>2, <2>5 DEF Distinct
<1>. QED BY <1>3, <1>4

\* poolpriority, first loop: the pools named have their new priorities.
LEMMA FirstLoop ==
  ASSUME TypeInv, Distinct, NEW order \in Seq(Pools), IsInjective(order),
         ToSet(order) \subseteq Listed, UNCHANGED pools,
         prio' = [p \in Pools |-> IF p \in ToSet(order)
                                  THEN (CHOOSE i \in DOMAIN order : order[i] = p) - 1
                                  ELSE prio[p]]
  PROVE  HalfWritten(order)'
<1>1. /\ Listed' = Listed /\ N' = N /\ Listed \subseteq Pools
      /\ \A p \in Listed : prio[p] \in 0 .. N - 1
      /\ \A p, q \in Listed : prio[p] = prio[q] => p = q
  BY DistinctPriorities, ListedArePools DEF TypeInv, Listed, N
<1>2. ASSUME NEW i \in DOMAIN order
      PROVE  prio'[order[i]] = i - 1
  <2>1. order[i] \in ToSet(order) /\ order[i] \in Pools
    BY LenProperties DEF ToSet
  <2>2. (CHOOSE j \in DOMAIN order : order[j] = order[i]) = i
    BY DEF IsInjective
  <2>. QED BY <2>1, <2>2
<1>3. \A p \in Listed \ ToSet(order) : prio'[p] = prio[p]
  BY <1>1
<1>. QED BY <1>1, <1>2, <1>3 DEF HalfWritten

\* poolpriority, second loop: the others follow.
LEMMA SecondLoop ==
  ASSUME TypeInv, NEW order \in Seq(Pools), IsInjective(order), HalfWritten(order),
         UNCHANGED pools, NEW first,
         first = Listed \ ToSet(order),
         prio' = [p \in Pools |->
                    IF p \in first
                    THEN Len(order) + Cardinality({q \in first : prio[q] < prio[p]})
                    ELSE prio[p]]
  PROVE  Distinct'
<1>1. PICK n \in Nat : n = Len(order)
  BY LenProperties
<1>2. /\ Listed' = Listed /\ N' = N /\ Listed \subseteq Pools
      /\ N \in Nat /\ IsFiniteSet(Listed) /\ Cardinality(Listed) = N
  BY ListedCount, ListedArePools DEF TypeInv, Listed, N
<1>3. /\ DOMAIN order = 1 .. n
      /\ ToSet(order) = {order[i] : i \in 1 .. n}
  BY <1>1, LenProperties DEF ToSet
<1>4. Cardinality(ToSet(order)) = n /\ IsFiniteSet(ToSet(order))
  <2>1. order \in Bijection(1 .. n, ToSet(order))
    <3>1. order \in [1 .. n -> ToSet(order)]
      BY <1>3, LenProperties DEF ToSet
    <3>2. \A p \in ToSet(order) : \E i \in 1 .. n : order[i] = p
      BY <1>3
    <3>. QED BY <1>3, <3>1, <3>2 DEF IsInjective, Bijection, Injection, Surjection
  <2>2. ExistsBijection(1 .. n, ToSet(order))
    BY <2>1 DEF ExistsBijection
  <2>3. IsFiniteSet(1 .. n) /\ Cardinality(1 .. n) = n
    BY ONLY n \in Nat, FS_Interval
  <2>. QED BY <2>2, <2>3, FS_Bijection
<1>5. /\ IsFiniteSet(first) /\ first \subseteq Listed
      /\ Cardinality(first) = N - n /\ N - n \in Nat
  <2>1. Listed \cap ToSet(order) = ToSet(order)
    BY DEF HalfWritten
  <2>2. /\ IsFiniteSet(first)
        /\ Cardinality(first)
             = Cardinality(Listed) - Cardinality(Listed \cap ToSet(order))
    BY <1>2, FS_Difference
  <2>3. Cardinality(first) \in Nat
    BY <2>2, FS_CardinalityType
  <2>. QED BY <1>2, <1>4, <2>1, <2>2, <2>3
<1>6. PICK m \in Nat : m = N - n
  BY <1>5
<1>7. PICK rank : rank = Rank(first, prio)
  OBVIOUS
<1>8. /\ \A p \in first : rank[p] \in 0 .. m - 1
      /\ \A i \in 0 .. m - 1 : \E p \in first : rank[p] = i
  <2>1. /\ \A p \in first : prio[p] \in 0 .. N - 1
        /\ \A p, q \in first : prio[p] = prio[q] => p = q
    BY DEF HalfWritten
  <2>2. \A p \in first : prio[p] \in Int
    BY <2>1
  <2>3. Cardinality(first) = m
    BY <1>5, <1>6
  <2>4. IsFiniteSet(first)
    BY <1>5
  <2>5. /\ \A p \in first : Rank(first, prio)[p] \in 0 .. Cardinality(first) - 1
        /\ \A i \in 0 .. Cardinality(first) - 1 :
             \E p \in first : Rank(first, prio)[p] = i
    BY ONLY <2>1, <2>2, <2>4, Ranks
  <2>. QED BY ONLY <1>7, <2>3, <2>5
<1>9. \A p \in first : prio'[p] = n + rank[p]
  BY <1>1, <1>2, <1>5, <1>7 DEF Rank
<1>10. /\ \A p \in first : prio'[p] \in n .. N - 1
       /\ \A i \in n .. N - 1 : \E p \in first : prio'[p] = i
  <2>1. N = n + m
    BY <1>2, <1>6
  <2>2. ASSUME NEW p \in first
        PROVE  prio'[p] \in n .. N - 1
    <3>1. rank[p] \in 0 .. m - 1 /\ prio'[p] = n + rank[p]
      BY <1>8, <1>9
    <3>. QED BY ONLY <2>1, <3>1, n \in Nat, m \in Nat
  <2>3. ASSUME NEW i \in n .. N - 1
        PROVE  \E p \in first : prio'[p] = i
    <3>1. i - n \in 0 .. m - 1 /\ i = n + (i - n)
      BY ONLY <2>1, <2>3, n \in Nat, m \in Nat
    <3>2. PICK p \in first : rank[p] = i - n
      BY <1>8, <3>1
    <3>. QED BY <1>9, <3>1, <3>2
  <2>. QED BY <2>2, <2>3
<1>11. ASSUME NEW i \in 1 .. n
       PROVE  order[i] \in Listed /\ prio'[order[i]] = i - 1
  <2>1. order[i] \in ToSet(order) /\ order[i] \in Listed /\ order[i] \notin first
    BY <1>3 DEF HalfWritten
  <2>2. prio'[order[i]] = prio[order[i]]
    BY <1>2, <2>1
  <2>. QED BY <1>3, <2>1, <2>2 DEF HalfWritten
<1>12. \A p \in Listed \ first : \E i \in 1 .. n : order[i] = p
  BY <1>3
<1>13. ASSUME NEW p \in Listed
       PROVE  prio'[p] \in 0 .. N - 1
  <2>1. N - n \in Nat /\ N \in Nat
    BY <1>2, <1>5
  <2>2. CASE p \in first
    <3>1. prio'[p] \in n .. N - 1
      BY <1>10, <2>2
    <3>. QED BY ONLY <2>1, <3>1, n \in Nat
  <2>3. CASE p \notin first
    <3>1. PICK i \in 1 .. n : order[i] = p
      BY <1>12, <2>3
    <3>2. prio'[p] = i - 1
      BY <1>11, <3>1
    <3>. QED BY ONLY <2>1, <3>2, n \in Nat, i \in 1 .. n
  <2>. QED BY <2>2, <2>3
<1>14. ASSUME NEW i \in 0 .. N - 1
       PROVE  \E p \in Listed : prio'[p] = i
  <2>1. CASE i < n
    <3>1. i + 1 \in 1 .. n /\ (i + 1) - 1 = i
      BY <1>2, <2>1
    <3>2. order[i + 1] \in Listed /\ prio'[order[i + 1]] = (i + 1) - 1
      BY <1>11, <3>1
    <3>. QED BY <3>1, <3>2
  <2>2. CASE i >= n
    <3>1. i \in n .. N - 1
      BY <1>2, <2>2
    <3>. QED BY <1>5, <1>10, <3>1
  <2>3. i < n \/ i >= n
    BY <1>2
  <2>. QED BY <2>1, <2>2, <2>3
<1>15. {prio'[p] : p \in Listed} = 0 .. N - 1
  BY <1>13, <1>14
<1>. QED BY <1>2, <1>15 DEF Distinct

\* remove_pool takes the pool out of the array and of the priorities.
LEMMA UnlinkPoolKeeps ==
  ASSUME ControlInv, NEW t \in Threads, UnlinkPool(t)
  PROVE  ControlInv'
<1>. USE DEF ControlInv
<1>. USE DEF poolVars, orderVars, lockVars, worldVars, connVars
<1>1. /\ TypeOK /\ TypeInv /\ Callee(t) \in Pools /\ todo[t] # <<>>
      /\ todo[t][1].op = "unlink" /\ todo[t][1].pool = Callee(t)
  BY DoingTop, TopCall DEF TypeInv, UnlinkPool, PoolOps, Callee
<1>2. PICK p \in Pools : p = Callee(t)
  BY <1>1
<1>3. StackStep(t, <<>>)
  BY <1>1, NoCalls DEF StackStep, UnlinkPool
<1>4. pools' = [k \in 1 .. N - 1 |-> IF pools[k] = p THEN pools[N] ELSE pools[k]]
  BY <1>2 DEF UnlinkPool
<1>5. /\ pools' \in Seq(Pools) /\ IsInjective(pools')
      /\ p \in Listed => Listed' = Listed \ {p} /\ N' = N - 1
  BY <1>1, <1>4, Unlinked
<1>6. prio' \in [Pools -> Int]
  BY <1>1, <1>2 DEF UnlinkPool, TypeOK
<1>7. torn' \in BOOLEAN /\ miscounted' \in BOOLEAN
  BY <1>1 DEF UnlinkPool, TypeOK
<1>8. TypeOK'
  BY <1>1, <1>3, <1>5, <1>6, <1>7, ThreadsStay DEF UnlinkPool, TypeOK
<1>9. StackInv'
  BY <1>1, <1>3, NoCalls, NestedStep DEF Replaces
<1>10. CountInv'
  <2>1. CASE miscounted'
    BY <2>1 DEF CountInv
  <2>2. CASE ~miscounted'
    <3>1. ~miscounted /\ ~Overlap(t, p)
      BY <1>1, <1>2, <2>2 DEF UnlinkPool, TypeOK
    <3>2. /\ enabled_pools = Cardinality({q \in Listed : Enabled(q)})
          /\ \A u \in Threads : SeenRight(todo[u])
      BY <3>1 DEF CountInv
    <3>3. p \in Listed /\ ~Enabled(p)
      <4>1. 1 \in DOMAIN todo[t]
        BY <1>1, TopCall DEF TypeInv
      <4>. QED BY <1>1, <1>2, <3>1, <3>2, <4>1 DEF Overlap, SeenRight, LeftAlone
    <3>4. UNCHANGED <<enabled, enabled_pools>>
      BY DEF UnlinkPool
    <3>5. {q \in Listed : Enabled(q)}' = {q \in Listed : Enabled(q)}
      BY <1>5, <3>3, <3>4 DEF Enabled
    <3>6. ASSUME NEW u \in Threads \ {t}
          PROVE  SeenRight(todo[u])'
      BY <1>1, <1>3, <3>2, <3>4, StackEntries, OthersSeenRight DEF Enabled
    <3>7. SeenRight(todo[t])'
      <4>1. \A j \in DOMAIN todo[t] : LeftAlone(todo[t], j) =>
              enabled'[todo[t][j].pool] # "ENABLED"
        BY <1>1, <3>4 DEF LeftAlone, Enabled
      <4>. QED BY <1>1, <1>3, <3>2, <4>1, NoCalls, OwnSeenRight
    <3>. QED BY <3>2, <3>4, <3>5, <3>6, <3>7 DEF CountInv
  <2>. QED BY <2>1, <2>2
<1>11. PrioInv'
  <2>1. CASE torn'
    BY <2>1 DEF PrioInv
  <2>2. CASE ~torn'
    <3>1. ~torn /\ p \in Listed /\ ~Reordering(t)
      BY <1>1, <1>2, <2>2 DEF UnlinkPool, TypeOK
    <3>2. \A u \in Threads : \A op \in {"priority", "priorest"} :
            /\ Doing(u, op)' <=> Doing(u, op)
            /\ Doing(u, op) => u # t
      BY <1>1, <1>3, NoCalls, SameWriters
    <3>3. \A u \in Threads : ~Doing(u, "priority") /\ ~Doing(u, "priorest")
      BY <3>1, <3>2 DEF Reordering
    <3>4. Distinct
      BY <3>1, <3>3 DEF PrioInv
    <3>5. prio' = [q \in Pools |-> IF q \in Listed /\ prio[q] > prio[p]
                                   THEN prio[q] - 1 ELSE prio[q]]
      BY <1>2 DEF UnlinkPool
    <3>6. Distinct'
      BY <1>1, <1>5, <3>1, <3>4, <3>5, UnlinkPriorities
    <3>. QED BY <3>2, <3>3, <3>6 DEF PrioInv
  <2>. QED BY <2>1, <2>2
<1>. QED BY <1>5, <1>8, <1>9, <1>10, <1>11 DEF TypeInv

\* switch_pools under control_lock.
LEMMA SelectPoolKeeps ==
  ASSUME ControlInv, NEW t \in Threads, SelectPool(t)
  PROVE  ControlInv'
<1>. USE DEF ControlInv
<1>. USE DEF poolVars, orderVars, lockVars, worldVars, connVars
<1>1. /\ TypeOK /\ TypeInv /\ Callee(t) \in Pools \cup {NoPool} /\ todo[t] # <<>>
      /\ todo[t][1].op = "select"
  BY DoingTop DEF TypeInv, SelectPool, PoolOps
<1>2. PICK sel \in Pools \cup {NoPool},
           new \in {Selection(Raised(Callee(t)), Callee(t))} :
        /\ sel = Callee(t) /\ prio' = Raised(sel)
        /\ new = Selection(Raised(sel), sel)
        /\ currentpool' = IF new = NoPool THEN currentpool ELSE new
        /\ torn' = (torn \/ (prio' # prio /\ (Reordering(t) \/ sel \notin Listed)))
        /\ crashed' = (crashed \/ (new = NoPool /\ currentpool \notin Listed))
  BY <1>1 DEF SelectPool
<1>3. PICK calls : calls = <<Call("announce", NoPool)>> /\ Proceed(t, calls)
  BY DEF SelectPool
<1>4. /\ calls \in Seq(Calls) /\ \A i \in DOMAIN calls : calls[i].op = "announce"
  BY <1>3, CallsMade, OneCall
<1>5. StackStep(t, calls)
  BY <1>1, <1>3, <1>4 DEF StackStep
<1>6. new \in Pools \cup {NoPool}
  BY <1>1, <1>2, SelectionType
<1>7. prio' \in [Pools -> Int]
  BY <1>1, <1>2 DEF Raised, TypeOK
<1>8. TypeOK'
  BY <1>1, <1>2, <1>5, <1>6, <1>7, ThreadsStay DEF SelectPool, TypeOK
<1>9. StackInv'
  BY <1>1, <1>4, <1>5, NestedStep DEF Replaces, Leaving
<1>10. CountInv'
  BY <1>1, <1>4, <1>5, NothingCounted DEF SelectPool
<1>11. PrioInv'
  <2>0. UNCHANGED pools
    BY DEF SelectPool
  <2>1. CASE torn'
    BY <2>1 DEF PrioInv
  <2>2. CASE ~torn' /\ prio' = prio
    <3>1. UNCHANGED <<prio, pools, torn>>
      BY <1>1, <1>2, <2>0, <2>2 DEF TypeOK
    <3>. QED BY <1>1, <1>4, <1>5, <3>1, NothingOrdered
  <2>3. CASE ~torn' /\ prio' # prio
    <3>1. ~torn /\ sel \in Listed /\ ~Reordering(t)
      BY <1>1, <1>2, <2>3 DEF TypeOK
    <3>2. \A u \in Threads : \A op \in {"priority", "priorest"} :
            /\ Doing(u, op)' <=> Doing(u, op)
            /\ Doing(u, op) => u # t
      BY <1>1, <1>4, <1>5, SameWriters
    <3>3. \A u \in Threads : ~Doing(u, "priority") /\ ~Doing(u, "priorest")
      BY <3>1, <3>2 DEF Reordering
    <3>4. Distinct
      BY <3>1, <3>3 DEF PrioInv
    <3>5. Distinct'
      BY <1>1, <1>2, <2>0, <3>1, <3>4, RaisedPriorities
    <3>. QED BY <3>2, <3>3, <3>5 DEF PrioInv
  <2>. QED BY <2>1, <2>2, <2>3
<1>12. IsInjective(pools)'
  BY <1>1 DEF SelectPool, TypeInv
<1>. QED BY <1>8, <1>9, <1>10, <1>11, <1>12 DEF TypeInv

\* An order given to poolpriority names pools, each once.
LEMMA OrdersOfPools ==
  ASSUME NEW order \in Orders
  PROVE  order \in Seq(Pools) /\ IsInjective(order)
BY PoolAssumption

\* poolpriority begins.
LEMMA PriorityCommandKeeps ==
  ASSUME ControlInv, NEW t \in Operators, NEW order \in Orders,
         PriorityCommand(t, order)
  PROVE  ControlInv'
<1>. USE DEF ControlInv
<1>. USE DEF poolVars, orderVars, lockVars, worldVars, connVars
<1>1. TypeOK /\ TypeInv /\ t \in Threads
  BY DEF TypeInv, Threads
<1>2. PICK calls :
        /\ calls = <<With("priority", NoPool, order), With("priorest", NoPool, order),
                     Call("iflower", NoPool)>>
        /\ Begin(t, calls)
  BY DEF PriorityCommand, Command
<1>3. /\ calls \in Seq(Calls) /\ DOMAIN calls = {1, 2, 3} /\ calls # <<>>
      /\ calls[1].op = "priority" /\ calls[1].arg = order
      /\ calls[2].op = "priorest" /\ calls[2].arg = order
      /\ calls[3].op = "iflower"
  <2>1. /\ With("priority", NoPool, order) \in Calls
        /\ With("priorest", NoPool, order) \in Calls
        /\ Call("iflower", NoPool) \in Calls
    BY CallsMade
  <2>. QED BY <1>2, <2>1, ThreeCalls, CallsMade
<1>4. StackStep(t, calls) /\ todo[t] = <<>>
  BY <1>2, <1>3 DEF StackStep, Begin
<1>5. todo' = [todo EXCEPT ![t] = calls]
  BY <1>2 DEF Begin
<1>6. /\ DOMAIN todo' = Threads /\ todo'[t] = calls
      /\ \A u \in Threads \ {t} : todo'[u] = todo[u]
  BY <1>1, <1>5 DEF TypeOK
<1>7. TypeOK'
  BY <1>1, <1>6 DEF PriorityCommand, Command, TypeOK
<1>8. StackInv'
  <2>1. WellNested(calls)
    BY <1>3 DEF WellNested
  <2>. QED BY <1>1, <1>3, <1>6, <2>1 DEF TypeInv, StackInv
<1>9. CountInv'
  <2>1. \A k \in DOMAIN calls : calls[k].op \notin {"count", "uncount", "unlink"}
    BY <1>3
  <2>. QED BY <1>1, <1>4, <2>1, NothingCounted DEF PriorityCommand, Command
<1>10. PrioInv'
  <2>1. UNCHANGED <<prio, pools, torn>> /\ ToSet(order) \subseteq Listed
    BY DEF PriorityCommand
  <2>2. /\ \A o : HalfWritten(o)' <=> HalfWritten(o)
        /\ Listed' = Listed
        /\ Distinct' <=> Distinct
    BY <2>1 DEF HalfWritten, Distinct, Listed, N
  <2>3. /\ Head(todo'[t]) = calls[1]
        /\ ~Doing(t, "priorest") /\ ~Doing(t, "priorest")'
        /\ Argument(t)' = order
    <3>1. Head(calls) = calls[1]
      BY <1>3, HeadTailProperties
    <3>. QED BY <1>3, <1>4, <1>6, <3>1 DEF Doing, Argument
  <2>4. \A u \in Threads \ {t} : \A op :
          /\ Doing(u, op)' <=> Doing(u, op)
          /\ Argument(u)' = Argument(u)
    BY <1>6 DEF Doing, Argument
  <2>. QED BY <2>1, <2>2, <2>3, <2>4 DEF PrioInv
<1>11. IsInjective(pools)'
  BY <1>1 DEF PriorityCommand, TypeInv
<1>. QED BY <1>7, <1>8, <1>9, <1>10, <1>11 DEF TypeInv

\* Its first loop.
LEMMA WritePrioritiesKeeps ==
  ASSUME ControlInv, NEW t \in Threads, WritePriorities(t)
  PROVE  ControlInv'
<1>. USE DEF ControlInv
<1>. USE DEF poolVars, orderVars, lockVars, worldVars, connVars
<1>1. /\ TypeOK /\ TypeInv /\ todo[t] # <<>> /\ Argument(t) \in Orders
      /\ todo[t][1].op = "priority" /\ todo[t][1].arg = Argument(t)
      /\ DOMAIN todo[t] = 1 .. Len(todo[t]) /\ 1 \in DOMAIN todo[t]
      /\ Len(todo[t]) \in Nat
  BY DoingTop, TopCall DEF TypeInv, WritePriorities, Argument
<1>2. PICK order \in Orders :
        /\ order = Argument(t)
        /\ prio' = [p \in Pools |-> IF p \in ToSet(order)
                                    THEN (CHOOSE i \in DOMAIN order : order[i] = p) - 1
                                    ELSE prio[p]]
  BY <1>1 DEF WritePriorities
<1>3. order \in Seq(Pools) /\ IsInjective(order)
  BY OrdersOfPools
<1>4. StackStep(t, <<>>)
  BY <1>1, NoCalls DEF StackStep, WritePriorities
<1>5. prio' \in [Pools -> Int]
  <2>1. ASSUME NEW p \in ToSet(order)
        PROVE  (CHOOSE i \in DOMAIN order : order[i] = p) - 1 \in Int
    <3>1. \E i \in DOMAIN order : order[i] = p
      BY DEF ToSet
    <3>2. (CHOOSE i \in DOMAIN order : order[i] = p) \in DOMAIN order
      BY <3>1
    <3>3. DOMAIN order \subseteq Nat
      BY <1>3, LenProperties
    <3>. QED BY <3>2, <3>3
  <2>. QED BY <1>1, <1>2, <2>1 DEF TypeOK
<1>6. TypeOK'
  BY <1>1, <1>4, <1>5, ThreadsStay DEF WritePriorities, TypeOK
<1>7. WellNested(todo[t]) /\ todo[t] \in Seq(Calls)
  BY <1>1 DEF TypeInv, StackInv
<1>8. /\ todo'[t] \in Seq(Calls)
      /\ \A u \in Threads \ {t} : todo'[u] = todo[u]
      /\ \A i \in DOMAIN todo'[t] :
           i + 1 \in DOMAIN todo[t] /\ i >= 1 /\ todo'[t][i] = todo[t][i + 1]
  <2>1. /\ todo'[t] \in Seq(Calls)
        /\ \A u \in Threads \ {t} : todo'[u] = todo[u]
        /\ \A i \in DOMAIN todo'[t] :
             \E j \in DOMAIN todo[t] :
               j >= 2 /\ i = j + 0 - 1 /\ todo'[t][i] = todo[t][j]
    <3>1. PICK calls : calls = <<>>
      OBVIOUS
    <3>2. StackStep(t, calls) /\ DOMAIN calls = {} /\ Len(calls) = 0
      BY <1>4, <3>1, NoCalls
    <3>3. /\ todo'[t] \in Seq(Calls)
          /\ \A u \in Threads \ {t} : todo'[u] = todo[u]
          /\ \A i \in DOMAIN todo'[t] : i \notin DOMAIN calls =>
               \E j \in DOMAIN todo[t] :
                 j >= 2 /\ i = j + Len(calls) - 1 /\ todo'[t][i] = todo[t][j]
      <4>1. TypeInv
        BY <1>1
      <4>2. \A c : StackStep(t, c) =>
              /\ todo'[t] \in Seq(Calls)
              /\ \A u \in Threads \ {t} : todo'[u] = todo[u]
              /\ \A i \in DOMAIN todo'[t] : i \notin DOMAIN c =>
                   \E j \in DOMAIN todo[t] :
                     j >= 2 /\ i = j + Len(c) - 1 /\ todo'[t][i] = todo[t][j]
        BY <4>1, StackEntries
      <4>. QED BY <3>2, <4>2
    <3>. QED BY <3>2, <3>3
  <2>2. ASSUME NEW i \in DOMAIN todo'[t]
        PROVE  i + 1 \in DOMAIN todo[t] /\ i >= 1 /\ todo'[t][i] = todo[t][i + 1]
    <3>1. PICK j \in DOMAIN todo[t] :
            j >= 2 /\ i = j + 0 - 1 /\ todo'[t][i] = todo[t][j]
      BY <2>1
    <3>2. j = i + 1 /\ i >= 1
      BY <1>1, <3>1
    <3>. QED BY <3>1, <3>2
  <2>. QED BY <2>1, <2>2
<1>9. StackInv'
  <2>1. ASSUME NEW i \in DOMAIN todo'[t]
        PROVE  /\ todo'[t][i].op \notin {"count", "uncount", "priority", "unlink"}
               /\ todo'[t][i].op = "priorest" => i = 1
    <3>1. /\ i + 1 \in DOMAIN todo[t] /\ i >= 1 /\ i \in Int
          /\ todo'[t][i] = todo[t][i + 1]
      BY <1>1, <1>8, LenProperties
    <3>2. todo[t][i + 1].op # "unlink"
      <4>1. 1 \in 1 .. (i + 1) - 1
        BY <3>1
      <4>. QED BY <1>1, <1>7, <3>1, <4>1 DEF WellNested, Leaving
    <3>3. /\ i + 1 # 1
          /\ i + 1 = 2 => i = 1
      BY <3>1
    <3>. QED BY <1>7, <3>1, <3>2, <3>3 DEF WellNested
  <2>2. WellNested(todo'[t])
    BY <2>1 DEF WellNested
  <2>. QED BY <1>1, <1>8, <2>2 DEF TypeInv, StackInv
<1>10. CountInv'
  BY <1>1, <1>4, NoCalls, NothingCounted DEF WritePriorities
<1>11. UNCHANGED pools
  BY DEF WritePriorities
<1>12. PrioInv'
  <2>1. CASE torn'
    BY <2>1 DEF PrioInv
  <2>2. CASE ~torn'
    <3>1. ~torn /\ ~Reordering(t)
      BY <1>1, <2>2 DEF WritePriorities, TypeOK
    <3>2. /\ Doing(t, "priority") /\ ~Doing(t, "priorest")
          /\ \A u \in Threads \ {t} : ~Doing(u, "priority") /\ ~Doing(u, "priorest")
      BY <3>1 DEF Reordering, WritePriorities, Doing
    <3>3. ToSet(order) \subseteq Listed /\ Distinct
      BY <1>2, <3>1, <3>2 DEF PrioInv
    <3>4. HalfWritten(order)'
      BY <1>1, <1>2, <1>3, <1>11, <3>3, FirstLoop
    <3>5. /\ \A u \in Threads \ {t} :
               ~Doing(u, "priority")' /\ ~Doing(u, "priorest")'
      BY <1>8, <3>2 DEF Doing
    <3>6. /\ todo'[t] # <<>> /\ Head(todo'[t]) = todo[t][2]
          /\ todo[t][2].op = "priorest" /\ todo[t][2].arg = order
      <4>1. 2 \in DOMAIN todo[t] /\ todo[t][2].op = "priorest" /\ todo[t][2].arg = order
        BY <1>1, <1>2, <1>7 DEF WellNested
      <4>2. todo' = [todo EXCEPT ![t] = <<>> \o Tail(todo[t])]
        BY DEF WritePriorities, Proceed
      <4>3. /\ Tail(todo[t]) \in Seq(Calls) /\ Len(Tail(todo[t])) = Len(todo[t]) - 1
            /\ \A k \in 1 .. Len(Tail(todo[t])) : Tail(todo[t])[k] = todo[t][k + 1]
        BY <1>1, <1>7, HeadTailProperties
      <4>4. todo'[t] = Tail(todo[t])
        BY <1>1, <4>2, <4>3, ConcatEmptySeq DEF TypeOK
      <4>5. 1 \in 1 .. Len(Tail(todo[t])) /\ Tail(todo[t]) # <<>>
        <5>1. Len(todo[t]) >= 2
          BY <1>1, <4>1
        <5>2. Len(Tail(todo[t])) >= 1 /\ Len(Tail(todo[t])) \in Nat
          BY <1>1, <4>3, <5>1
        <5>. QED BY <5>2, EmptySeq
      <4>6. Head(todo'[t]) = todo'[t][1]
        BY <4>3, <4>4, <4>5, HeadTailProperties
      <4>. QED BY <4>1, <4>3, <4>4, <4>5, <4>6
    <3>7. /\ Doing(t, "priorest")' /\ ~Doing(t, "priority")'
          /\ Argument(t)' = order
      BY <3>6 DEF Doing, Argument
    <3>. QED BY <3>4, <3>5, <3>7 DEF PrioInv
  <2>. QED BY <2>1, <2>2
<1>13. IsInjective(pools)'
  BY <1>1, <1>11 DEF TypeInv
<1>. QED BY <1>6, <1>9, <1>10, <1>12, <1>13 DEF TypeInv

\* Its second loop.
LEMMA AppendRestKeeps ==
  ASSUME ControlInv, NEW t \in Threads, AppendRest(t)
  PROVE  ControlInv'
<1>. USE DEF ControlInv
<1>. USE DEF poolVars, orderVars, lockVars, worldVars, connVars
<1>1. /\ TypeOK /\ TypeInv /\ todo[t] # <<>> /\ Argument(t) \in Orders
      /\ todo[t][1].op = "priorest" /\ Doing(t, "priorest")
  BY DoingTop DEF TypeInv, AppendRest
<1>2. PICK order \in Orders, first \in SUBSET Listed :
        /\ order = Argument(t)
        /\ \E rest :
             /\ rest = {p \in Listed \ ToSet(order) : prio[p] \in 0 .. N - 1}
             /\ first = {p \in rest : \A q \in rest \ {p} :
                           prio[q] = prio[p] => Position(p) < Position(q)}
        /\ prio' = [p \in Pools |->
                      IF p \in first
                      THEN Len(order) + Cardinality({q \in first : prio[q] < prio[p]})
                      ELSE prio[p]]
  BY <1>1 DEF AppendRest
<1>3. /\ order \in Seq(Pools) /\ IsInjective(order) /\ Len(order) \in Nat
      /\ Listed \subseteq Pools /\ IsFiniteSet(Listed)
  BY <1>1, OrdersOfPools, LenProperties, ListedCount, ListedArePools
<1>4. first \subseteq Listed \ ToSet(order)
  BY <1>2
<1>5. StackStep(t, <<>>)
  BY <1>1, NoCalls DEF StackStep, AppendRest
<1>6. prio' \in [Pools -> Int]
  <2>1. ASSUME NEW p \in Pools
        PROVE  Cardinality({q \in first : prio[q] < prio[p]}) \in Nat
    <3>1. IsFiniteSet({q \in first : prio[q] < prio[p]})
      BY <1>3, <1>4, FS_Subset
    <3>. QED BY <3>1, FS_CardinalityType
  <2>2. prio \in [Pools -> Int]
    BY <1>1 DEF TypeOK
  <2>. QED BY <1>2, <1>3, <2>1, <2>2
<1>7. TypeOK'
  BY <1>1, <1>5, <1>6, ThreadsStay DEF AppendRest, TypeOK
<1>8. StackInv'
  <2>1. Replaces(todo[t], <<>>)
    BY <1>1, NoCalls DEF Replaces, Leaving
  <2>. QED BY <1>1, <1>5, <2>1, NestedStep
<1>9. CountInv'
  BY <1>1, <1>5, NoCalls, NothingCounted DEF AppendRest
<1>10. UNCHANGED <<pools, torn>>
  BY DEF AppendRest
<1>11. PrioInv'
  <2>1. CASE torn
    BY <1>10, <2>1 DEF PrioInv
  <2>2. CASE ~torn
    <3>1. /\ HalfWritten(order)
          /\ \A u \in Threads \ {t} : ~Doing(u, "priorest")
          /\ \A u \in Threads :
               Doing(u, "priority") => ToSet(Argument(u)) \subseteq Listed
      BY <1>1, <1>2, <2>2 DEF PrioInv
    <3>2. first = Listed \ ToSet(order)
      BY <1>2, <3>1 DEF HalfWritten
    <3>3. Distinct'
      <4>1. prio' = [p \in Pools |->
                       IF p \in first
                       THEN Len(order) + Cardinality({q \in first : prio[q] < prio[p]})
                       ELSE prio[p]]
        BY <1>2
      <4>2. UNCHANGED pools
        BY <1>10
      <4>. QED BY ONLY <1>1, <1>3, <3>1, <3>2, <4>1, <4>2, SecondLoop
    <3>4. \A u \in Threads \ {t} : todo'[u] = todo[u]
      BY <1>1, <1>5, StackEntries
    <3>5. ~Doing(t, "priority")' /\ ~Doing(t, "priorest")'
      <4>1. todo'[t] = Tail(todo[t])
        <5>1. todo' = [todo EXCEPT ![t] = <<>> \o Tail(todo[t])]
          BY DEF AppendRest, Proceed
        <5>2. Tail(todo[t]) \in Seq(Calls)
          BY <1>1, TopCall, HeadTailProperties DEF TypeInv
        <5>. QED BY <1>1, <5>1, <5>2, ConcatEmptySeq DEF TypeOK
      <4>2. /\ Tail(todo[t]) \in Seq(Calls) /\ Len(Tail(todo[t])) = Len(todo[t]) - 1
            /\ \A k \in 1 .. Len(Tail(todo[t])) : Tail(todo[t])[k] = todo[t][k + 1]
            /\ DOMAIN todo[t] = 1 .. Len(todo[t]) /\ Len(todo[t]) \in Nat
            /\ WellNested(todo[t])
        BY <1>1, TopCall, HeadTailProperties DEF TypeInv, StackInv
      <4>3. ASSUME todo'[t] # <<>>
            PROVE  Head(todo'[t]).op \notin {"priority", "priorest"}
        <5>1. /\ Head(todo'[t]) = Tail(todo[t])[1]
              /\ Len(Tail(todo[t])) \in Nat \ {0}
          <6>1. PICK s \in Seq(Calls) : s = Tail(todo[t])
            BY <4>2
          <6>2. s # <<>> /\ todo'[t] = s
            BY <4>1, <4>3, <6>1
          <6>3. Len(s) \in Nat \ {0} /\ Head(s) = s[1]
            BY ONLY <6>1, <6>2, HeadTailProperties, EmptySeq, LenProperties
          <6>. QED BY <6>1, <6>2, <6>3
        <5>2. Head(todo'[t]) = todo[t][2] /\ 2 \in DOMAIN todo[t]
          <6>1. 1 \in 1 .. Len(Tail(todo[t])) /\ Len(todo[t]) >= 2
            <7>1. PICK m \in Nat : m = Len(todo[t])
              BY <4>2
            <7>2. PICK n \in Nat \ {0} : n = Len(Tail(todo[t]))
              BY <5>1
            <7>3. n = m - 1
              BY <4>2, <7>1, <7>2
            <7>4. 1 \in 1 .. n /\ m >= 2
              BY ONLY <7>3
            <7>. QED BY <7>1, <7>2, <7>4
          <6>2. Tail(todo[t])[1] = todo[t][1 + 1]
            BY <4>2, <6>1
          <6>. QED BY <4>2, <5>1, <6>1, <6>2
        <5>. QED BY <1>1, <4>2, <5>2 DEF WellNested
      <4>. QED BY <4>3 DEF Doing
    <3>6. \A u \in Threads : /\ ~Doing(u, "priorest")'
                             /\ Doing(u, "priority")' =>
                                  /\ Doing(u, "priority") /\ u # t
                                  /\ Argument(u)' = Argument(u)
      BY <3>1, <3>4, <3>5 DEF Doing, Argument
    <3>7. Listed' = Listed
      BY <1>10 DEF Listed
    <3>. QED BY <3>1, <3>3, <3>6, <3>7 DEF PrioInv
  <2>. QED BY <1>1, <2>1, <2>2 DEF TypeOK
<1>12. IsInjective(pools)'
  BY <1>1, <1>10 DEF TypeInv
<1>. QED BY <1>7, <1>8, <1>9, <1>11, <1>12 DEF TypeInv

-----------------------------------------------------------------------------
(* All steps.                                                              *)

\* At the start nothing is counted, ordered or removed.
LEMMA StartsRight == Init => ControlInv
<1>. SUFFICES ASSUME Init PROVE ControlInv
  OBVIOUS
<1>1. /\ Order \in Seq(Pools) /\ Order # <<>> /\ IsInjective(Order)
      /\ ToSet(Order) = Pools /\ pools = Order /\ Listed = Pools
      /\ Listed # {} /\ N \in Nat /\ DOMAIN pools = 1 .. N /\ N # 0
  BY PoolAssumption, LenProperties, EmptySeq DEF Init, Listed, N, ToSet
<1>2. /\ \A p \in Pools : \E k \in 1 .. N : pools[k] = p
      /\ \A k \in 1 .. N : pools[k] \in Pools
      /\ \A j, k \in 1 .. N : pools[j] = pools[k] => j = k
  BY <1>1 DEF ToSet, IsInjective
<1>3. \A p \in Pools :
        /\ prio[p] = (CHOOSE k \in 1 .. N : pools[k] = p) - 1
        /\ (CHOOSE k \in 1 .. N : pools[k] = p) \in 1 .. N
        /\ pools[CHOOSE k \in 1 .. N : pools[k] = p] = p
  BY <1>2 DEF Init
<1>4. \A k \in 1 .. N : prio[pools[k]] = k - 1
  BY <1>2, <1>3
<1>5. prio \in [Pools -> Int] /\ \A p \in Pools : prio[p] \in 0 .. N - 1
  <2>1. \A k \in 1 .. N : k - 1 \in 0 .. N - 1 /\ k - 1 \in Int
    BY <1>1
  <2>. QED BY <1>3, <2>1 DEF Init
<1>6. \A t \in Threads : todo[t] = IF t = "watchpool"
                                   THEN <<With("probe", NoPool, 1)>> ELSE <<>>
  BY DEF Init
<1>7. TypeOK
  <2>1. "ENABLED" \in Statuses /\ "serve" \in ThreadStates
    BY DEF Statuses, ThreadStates
  <2>2. pools[1] \in Pools
    BY <1>1, <1>2
  <2>3. /\ enabled \in [Pools -> Statuses] /\ sthread \in [Pools -> ThreadStates]
        /\ DOMAIN todo = Threads
    BY <2>1 DEF Init
  <2>4. /\ enabled_pools \in Int /\ currentpool \in Pools
        /\ pool_strategy \in Strategies \cup {Strategy}
        /\ commands \in Nat /\ verdicts \in Nat /\ failures \in Nat
    BY <1>1, <2>2 DEF Init
  <2>5. /\ failover_only \subseteq Pools /\ quota \subseteq Pools
        /\ readers \subseteq Operators /\ alive \subseteq Pools /\ idle \subseteq Pools
        /\ cgmutex \in Threads \cup {Nobody} /\ lp_lock \in Pools \cup {Nobody}
        /\ torn \in BOOLEAN /\ miscounted \in BOOLEAN /\ crashed \in BOOLEAN
    BY PoolAssumption DEF Init
  <2>. QED BY <1>1, <1>5, <2>3, <2>4, <2>5 DEF TypeOK
<1>8. \A t \in Threads :
        /\ todo[t] \in Seq(Calls)
        /\ \A i \in DOMAIN todo[t] : Harmless(todo[t][i])
        /\ todo[t] # <<>> => Head(todo[t]).op = "probe"
  <2>1. With("probe", NoPool, 1) \in Calls /\ With("probe", NoPool, 1).op = "probe"
    BY CallsMade
  <2>2. PICK s : s = <<With("probe", NoPool, 1)>>
    OBVIOUS
  <2>3. /\ s \in Seq(Calls) /\ DOMAIN s = {1} /\ Harmless(s[1])
        /\ Head(s).op = "probe"
    <3>1. s \in Seq(Calls) /\ DOMAIN s = {1} /\ s[1] = With("probe", NoPool, 1)
      BY <2>1, <2>2, OneCall
    <3>2. Head(s) = s[1]
      BY <2>2
    <3>. QED BY <2>1, <3>1, <3>2 DEF Harmless
  <2>. QED BY <1>6, <2>2, <2>3, NoCalls
<1>9. StackInv
  BY <1>8 DEF StackInv, WellNested, Harmless
<1>10. TypeInv
  BY <1>1, <1>7, <1>9 DEF TypeInv
<1>11. CountInv
  <2>1. {p \in Listed : Enabled(p)} = Listed
    BY <1>1 DEF Init, Enabled
  <2>2. enabled_pools = Cardinality(Listed)
    BY <1>10, ListedCount DEF Init
  <2>. QED BY <1>8, <2>1, <2>2 DEF CountInv, SeenRight, Harmless
<1>12. PrioInv
  <2>1. \A t \in Threads : ~Doing(t, "priority") /\ ~Doing(t, "priorest")
    BY <1>8 DEF Doing
  <2>2. ASSUME NEW i \in 0 .. N - 1
        PROVE  \E p \in Listed : prio[p] = i
    <3>1. i + 1 \in 1 .. N /\ (i + 1) - 1 = i
      BY <1>1
    <3>2. pools[i + 1] \in Listed /\ prio[pools[i + 1]] = i
      BY <1>1, <1>2, <1>4, <3>1
    <3>. QED BY <3>2
  <2>3. Distinct
    <3>1. {prio[p] : p \in Listed} \subseteq 0 .. N - 1
      BY <1>1, <1>5
    <3>2. 0 .. N - 1 \subseteq {prio[p] : p \in Listed}
      BY <2>2
    <3>. QED BY <3>1, <3>2 DEF Distinct
  <2>. QED BY <2>1, <2>3 DEF PrioInv
<1>. QED BY <1>10, <1>11, <1>12 DEF ControlInv

\* Every step keeps the counter and the priorities.
LEMMA StepKeeps == ControlInv /\ [Next]_vars => ControlInv'
<1>. SUFFICES ASSUME ControlInv, [Next]_vars PROVE ControlInv'
  OBVIOUS
<1>1. /\ TypeOK /\ Operators \subseteq Threads /\ Pools \subseteq Threads
      /\ {"main", "watchpool"} \subseteq Threads /\ Listed \subseteq Pools
      /\ "api" \in Operators /\ Pools # {}
  <2>1. Pools # {}
    BY PoolAssumption, LenProperties, EmptySeq DEF ToSet
  <2>. QED BY <2>1, ListedArePools DEF Threads, Operators, ControlInv, TypeInv
<1>2. ASSUME NEW t \in Threads, CallStep(t)
      PROVE  ControlInv'
  BY <1>2, EnablePoolKeeps, CountEnabledKeeps, QuietCallsKeep, DisablePoolKeeps,
     UncountKeeps, WorldKeeps, SelectPoolKeeps DEF CallStep
<1>3. ASSUME NEW t \in Operators, OperatorStep(t)
      PROVE  ControlInv'
  BY <1>1, <1>2, <1>3, QuietCallsKeep, RemovableKeeps, UnlinkPoolKeeps,
     WritePrioritiesKeeps, AppendRestKeeps DEF OperatorStep
<1>4. ASSUME NEW t \in Operators, Commanding(t)
      PROVE  ControlInv'
  <2>1. CASE \E p \in Listed : \/ EnableCommand(t, p) \/ DisableCommand(t, p)
                               \/ RemoveCommand(t, p) \/ QuotaCommand(t, p)
    BY <1>1, <2>1, CommandsKeep
  <2>2. CASE \E s \in Orders : PriorityCommand(t, s)
    BY <1>1, <2>2, PriorityCommandKeeps
  <2>. QED BY <1>4, <2>1, <2>2 DEF Commanding
<1>5. CASE \/ \E p \in Listed : ApiSwitch(p) \/ TuiSwitch(p)
           \/ \E s \in Strategies : StrategyCommand(s)
  BY <1>1, <1>5, CommandsKeep
<1>6. CASE SchedulerStep
  BY <1>1, <1>2, <1>6, PickKeeps DEF SchedulerStep
<1>7. CASE WatchStep \/ Probe(TRUE) \/ Watched(TRUE)
  BY <1>1, <1>2, <1>7, WatchpoolKeeps DEF WatchStep
<1>8. ASSUME NEW p \in Pools,
             \/ StratumStep(p) \/ Suspend(p)
             \/ SharesRejected(p) \/ CoinbaseBad(p) \/ MendsItsWays(p)
      PROVE  ControlInv'
  BY <1>1, <1>2, <1>8, ConnectionsKeep, VerdictsKeep DEF StratumStep
<1>9. CASE World
  BY <1>9, WorldKeeps
<1>10. CASE UNCHANGED vars
  <2>. USE DEF vars, poolVars, orderVars, lockVars, worldVars, connVars
  <2>1. TypeOK'
    BY <1>1, <1>10 DEF TypeOK
  <2>. QED BY <1>10, <2>1, NothingCalled
<1>. QED BY <1>3, <1>4, <1>5, <1>6, <1>7, <1>8, <1>9, <1>10 DEF Next

\* The stacks, the counter and the priorities are right in every reachable state.
LEMMA ControlInvariant == Spec => []ControlInv
BY StartsRight, StepKeeps, PTL DEF Spec

\* Every variable keeps its type, for any number of pools: the current pool is
\* always one of the command line, and switch_pools never leaves it NULL
\* (miner.c, switch_pools).
THEOREM ControlTypeCorrect == Spec => []TypeOK
<1>1. ControlInv => TypeOK
  BY DEF ControlInv, TypeInv
<1>. QED BY <1>1, ControlInvariant, PTL

\* enabled_pools, which enable_pool and disable_pool count by hand after a test
\* outside lp_lock, is the number of enabled pools, as long as no two threads
\* are past that test for one pool at once, or one of them removes it.
THEOREM EnabledPoolsCorrect == Spec => []EnabledPoolsExact
<1>1. ControlInv => EnabledPoolsExact
  BY DEF ControlInv, CountInv, EnabledPoolsExact
<1>. QED BY <1>1, ControlInvariant, PTL

\* The priorities of the listed pools are 0 .. total_pools - 1, each once, between
\* the two loops of prioritize_pools excepted, as long as no two threads change
\* them at once and no removed pool is given one: switch_pools, remove_pool and
\* prioritize_pools all write them and none of them counts on another.
THEOREM PrioritiesCorrect == Spec => []PrioritiesDistinct
<1>1. ControlInv => PrioritiesDistinct
  BY DEF ControlInv, PrioInv, Distinct, PrioritiesDistinct
<1>. QED BY <1>1, ControlInvariant, PTL

=============================================================================
