---------------------- MODULE ShareConservationProofs ----------------------
(***************************************************************************)
(* No interleaving of sends, answers, disconnects and resubmissions loses  *)
(* a share or settles it twice, for any number of shares and pools, and    *)
(* every step of every thread is a step of ShareLedger or none.            *)
(*                                                                         *)
(* The argument: a share that is kept track of is, once found, in exactly  *)
(* one of six places, and in each of them once.  A share being sent is on  *)
(* write_sws too; it counts for the place where its table entry, or what   *)
(* became of the entry, stands.                                            *)
(***************************************************************************)
EXTENDS ShareAccountingProofs, ShareRefinement

-----------------------------------------------------------------------------
(* The six places.                                                         *)

Tracked == Shares \ leaked

Sending(w) == SendInProgress /\ Scanned = w

Queued(w)   == w \in ToSet(submit_waiting)
Kept(w)     == w \in ToSet(write_sws) /\ ~Sending(w)
\* HasEntry(w) and w \in OnCurl are two more.
Answered(w) == \E t \in taken : t.share.work = w /\ sthread[t.by] = "answered"
Settled(w)  == counted[w] = 1

\* A share is in one place once it has been found, and in none before.
OnePlace(w) ==
    /\ counted[w] \in {0, 1}
    /\ w \in found <=> \/ Queued(w) \/ Kept(w) \/ HasEntry(w)
                       \/ Answered(w) \/ w \in OnCurl \/ Settled(w)
    /\ Queued(w) => ~Kept(w) /\ ~HasEntry(w) /\ ~Answered(w)
    /\ Queued(w) => w \notin OnCurl /\ ~Settled(w)
    /\ Kept(w) => ~HasEntry(w) /\ ~Answered(w)
    /\ Kept(w) => w \notin OnCurl /\ ~Settled(w)
    /\ HasEntry(w) => ~Answered(w) /\ w \notin OnCurl /\ ~Settled(w)
    /\ Answered(w) => w \notin OnCurl /\ ~Settled(w)
    /\ w \in OnCurl => ~Settled(w)

\* No share outside the set is twice in the sequence.
Once(s, outside) ==
    \A i, j \in 1 .. Len(s) : s[i] = s[j] /\ s[i] \notin outside => i = j

EntryOnce ==
    \A e, f \in stratum_shares : e.work = f.work /\ e.work \notin leaked => e = f

AnswerOnce ==
    \A t, u \in taken :
      /\ sthread[t.by] = "answered" /\ sthread[u.by] = "answered"
      /\ t.share.work = u.share.work /\ t.share.work \notin leaked
      => t = u

\* A stratum thread has unlinked entries only while it handles one answer, or
\* clears the pool's shares, which it has counted already.
TakenInHand ==
    \A t \in taken :
      /\ sthread[t.by] \in {"answered", "clear", "cleared"}
      /\ sthread[t.by] = "answered" => \A u \in taken : u.by = t.by => u = t
      /\ sthread[t.by] # "answered" /\ t.share.work \notin leaked
         => counted[t.share.work] = 1

\* The share being sent has been found, and not for a JSON-RPC pool.
SentOnStratum ==
    SendInProgress /\ Scanned \notin leaked => Scanned \in found \ OnCurl

EachOnce ==
    /\ Once(submit_waiting, leaked) /\ Once(write_sws, leaked)
    /\ EntryOnce /\ AnswerOnce /\ TakenInHand /\ SentOnStratum

PlaceInv ==
    /\ leaked \subseteq found
    /\ EachOnce
    /\ \A w \in Tracked : OnePlace(w)

ConservedInv == WipInv /\ PlaceInv

-----------------------------------------------------------------------------
(* Queues and lists, as the sets of the shares on them.                    *)

\* The shares on a queue are those at its indices.
LEMMA ToSetProperties ==
  ASSUME NEW S, NEW s \in Seq(S)
  PROVE  /\ Len(s) \in Nat
         /\ ToSet(s) = {s[i] : i \in 1 .. Len(s)}
  BY LenProperties DEF ToSet

\* Queueing a share at the end of submit_waiting.
LEMMA AppendSet ==
  ASSUME NEW S, NEW s \in Seq(S), NEW w \in S, NEW outside,
         Once(s, outside), w \in outside \/ w \notin ToSet(s)
  PROVE  /\ ToSet(Append(s, w)) = ToSet(s) \cup {w}
         /\ Once(Append(s, w), outside)
<1>. DEFINE t == Append(s, w)
            n == Len(s)
<1>1. /\ t \in Seq(S) /\ Len(t) = n + 1 /\ t[n + 1] = w
      /\ \A i \in 1 .. n : t[i] = s[i]
  BY AppendProperties
<1>2. n \in Nat /\ ToSet(s) = {s[i] : i \in 1 .. n}
  BY ToSetProperties
<1>3. ToSet(t) = {t[i] : i \in 1 .. n + 1}
  BY <1>1, ToSetProperties
<1>. HIDE DEF t, n
<1>4. ToSet(t) = ToSet(s) \cup {w}
  BY <1>1, <1>2, <1>3
<1>5. ASSUME NEW i \in 1 .. n + 1, NEW j \in 1 .. n + 1,
             t[i] = t[j], t[i] \notin outside
      PROVE  i = j
  <2>1. CASE i = n + 1 \/ j = n + 1
    BY <1>1, <1>2, <1>5, <2>1
  <2>2. CASE i \in 1 .. n /\ j \in 1 .. n
    BY <1>1, <1>5, <2>2 DEF Once, n
  <2>. QED BY <1>2, <2>1, <2>2
<1>6. Once(t, outside)
  BY <1>1, <1>5 DEF Once
<1>. QED BY <1>4, <1>6 DEF t

\* Pushing a share on write_sws.
LEMMA ConsSet ==
  ASSUME NEW S, NEW s \in Seq(S), NEW w \in S, NEW outside,
         Once(s, outside), w \in outside \/ w \notin ToSet(s)
  PROVE  /\ ToSet(Cons(w, s)) = ToSet(s) \cup {w}
         /\ Once(Cons(w, s), outside)
<1>. DEFINE t == Cons(w, s)
            n == Len(s)
<1>1. /\ t \in Seq(S) /\ Len(t) = n + 1
      /\ \A i \in 1 .. n + 1 : t[i] = IF i = 1 THEN w ELSE s[i - 1]
  <2>1. /\ Cons(w, s) \in Seq(S) /\ Len(Cons(w, s)) = Len(s) + 1
        /\ \A i \in 1 .. Len(s) + 1 :
             Cons(w, s)[i] = IF i = 1 THEN w ELSE s[i - 1]
    BY ONLY ConsProperties, s \in Seq(S), w \in S
  <2>. QED BY <2>1
<1>2. n \in Nat /\ ToSet(s) = {s[i] : i \in 1 .. n}
  BY ToSetProperties
<1>3. ToSet(t) = {t[i] : i \in 1 .. n + 1}
  BY <1>1, ToSetProperties
<1>. HIDE DEF t, n
<1>4. ToSet(t) = ToSet(s) \cup {w}
  <2>1. \A i \in 1 .. n : i + 1 \in 1 .. n + 1 /\ t[i + 1] = s[i]
    BY <1>1, <1>2
  <2>2. \A i \in 1 .. n + 1 : i # 1 => i - 1 \in 1 .. n /\ t[i] = s[i - 1]
    BY <1>1, <1>2
  <2>3. 1 \in 1 .. n + 1 /\ t[1] = w
    BY <1>1, <1>2
  <2>4. ToSet(t) \subseteq ToSet(s) \cup {w}
    BY <1>2, <1>3, <2>2, <2>3
  <2>5. ToSet(s) \cup {w} \subseteq ToSet(t)
    BY <1>2, <1>3, <2>1, <2>3
  <2>. QED BY <2>4, <2>5
<1>5. ASSUME NEW i \in 1 .. n + 1, NEW j \in 1 .. n + 1,
             t[i] = t[j], t[i] \notin outside
      PROVE  i = j
  <2>1. \A k \in 1 .. n + 1 : k # 1 => k - 1 \in 1 .. n /\ t[k] = s[k - 1]
    BY <1>1, <1>2
  <2>2. CASE i = 1 \/ j = 1
    BY <1>1, <1>2, <1>5, <2>1, <2>2
  <2>3. CASE i # 1 /\ j # 1
    <3>1. i - 1 = j - 1
      BY <1>5, <2>1, <2>3 DEF Once, n
    <3>. QED BY <3>1, <1>2
  <2>. QED BY <2>2, <2>3
<1>6. Once(t, outside)
  BY <1>1, <1>5 DEF Once
<1>. QED BY <1>4, <1>6 DEF t

\* Taking the head of submit_waiting.
LEMMA TailSet ==
  ASSUME NEW S, NEW s \in Seq(S), s # <<>>, NEW outside, Once(s, outside)
  PROVE  /\ Head(s) \in S /\ Tail(s) \in Seq(S)
         /\ ToSet(s) = ToSet(Tail(s)) \cup {Head(s)}
         /\ Head(s) \in outside \/ Head(s) \notin ToSet(Tail(s))
         /\ Once(Tail(s), outside)
<1>. DEFINE t == Tail(s)
            n == Len(s)
<1>1. /\ Head(s) \in S /\ t \in Seq(S)
      /\ Len(t) = n - 1 /\ Head(s) = s[1]
      /\ \A i \in 1 .. Len(t) : t[i] = s[i + 1]
  BY HeadTailProperties
<1>2. n \in Nat /\ n > 0 /\ ToSet(s) = {s[i] : i \in 1 .. n}
  BY ToSetProperties, EmptySeq
<1>3. ToSet(t) = {t[i] : i \in 1 .. n - 1}
  BY <1>1, ToSetProperties
<1>. HIDE DEF t, n
<1>4. \A i \in 1 .. n - 1 : i + 1 \in 1 .. n /\ t[i] = s[i + 1]
  BY <1>1, <1>2
<1>5. ToSet(s) = ToSet(t) \cup {Head(s)}
  <2>1. \A i \in 1 .. n : i # 1 => i - 1 \in 1 .. n - 1 /\ s[i] = t[i - 1]
    BY <1>2, <1>4
  <2>2. 1 \in 1 .. n /\ s[1] = Head(s)
    BY <1>1, <1>2
  <2>3. ToSet(s) \subseteq ToSet(t) \cup {Head(s)}
    BY <1>2, <1>3, <2>1, <2>2
  <2>4. ToSet(t) \cup {Head(s)} \subseteq ToSet(s)
    BY <1>2, <1>3, <1>4, <2>2
  <2>. QED BY <2>3, <2>4
<1>6. Head(s) \in outside \/ Head(s) \notin ToSet(t)
  <2>. SUFFICES ASSUME NEW i \in 1 .. n - 1, t[i] = s[1], s[1] \notin outside
                PROVE  FALSE
    BY <1>1, <1>3
  <2>1. i + 1 = 1
    BY <1>2, <1>4 DEF Once, n
  <2>. QED BY <2>1, <1>2
<1>7. Once(t, outside)
  <2>. SUFFICES ASSUME NEW i \in 1 .. n - 1, NEW j \in 1 .. n - 1,
                       t[i] = t[j], t[i] \notin outside
                PROVE  i = j
    BY <1>1 DEF Once
  <2>1. i + 1 = j + 1
    BY <1>4 DEF Once, n
  <2>. QED BY <2>1, <1>2
<1>. QED BY <1>1, <1>5, <1>6, <1>7 DEF t

\* What is left of a list without one of its elements.
LEMMA RemoveAtElements ==
  ASSUME NEW S, NEW s \in Seq(S), NEW i \in 1 .. Len(s)
  PROVE  \A j \in 1 .. Len(s) - 1 :
           RemoveAt(s, i)[j] = IF j < i THEN s[j] ELSE s[j + 1]
<1>. DEFINE front == SubSeq(s, 1, i - 1)
            back  == SubSeq(s, i + 1, Len(s))
            n     == Len(s)
<1>0. n \in Nat /\ i \in 1 .. n
  BY LenProperties
<1>1. /\ front \in Seq(S) /\ Len(front) = i - 1
      /\ \A j \in 1 .. i - 1 : front[j] = s[j]
  <2>1. \A j \in 1 .. i - 1 : s[j] \in S
    BY <1>0, ElementOfSeq
  <2>2. /\ front \in Seq(S)
        /\ Len(front) = IF 1 <= i - 1 THEN i - 1 - 1 + 1 ELSE 0
        /\ \A j \in 1 .. i - 1 - 1 + 1 : front[j] = s[1 + j - 1]
    BY <2>1, <1>0, SubSeqProperties
  <2>. QED BY <2>2, <1>0
<1>2. /\ back \in Seq(S) /\ Len(back) = n - i
      /\ \A j \in 1 .. n - i : back[j] = s[i + j]
  <2>1. \A j \in i + 1 .. n : s[j] \in S
    BY <1>0, ElementOfSeq
  <2>2. /\ back \in Seq(S)
        /\ Len(back) = IF i + 1 <= n THEN n - (i + 1) + 1 ELSE 0
        /\ \A j \in 1 .. n - (i + 1) + 1 : back[j] = s[i + 1 + j - 1]
    BY <2>1, <1>0, SubSeqProperties
  <2>. QED BY <2>2, <1>0
<1>3. RemoveAt(s, i) = front \o back
  BY DEF RemoveAt
<1>. HIDE DEF front, back, n
<1>4. \A j \in 1 .. (i - 1) + (n - i) : (front \o back)[j] =
        IF j <= i - 1 THEN front[j] ELSE back[j - (i - 1)]
  BY <1>1, <1>2, ConcatProperties
<1>5. ASSUME NEW j \in 1 .. n - 1
      PROVE  (front \o back)[j] = IF j < i THEN s[j] ELSE s[j + 1]
  <2>1. CASE j < i
    BY <1>0, <1>1, <1>4, <2>1
  <2>2. CASE ~(j < i)
    <3>1. /\ j \in 1 .. (i - 1) + (n - i) /\ ~(j <= i - 1)
          /\ j - (i - 1) \in 1 .. n - i /\ i + (j - (i - 1)) = j + 1
      BY <1>0, <2>2
    <3>. QED BY <1>2, <1>4, <2>2, <3>1
  <2>. QED BY <2>1, <2>2
<1>. QED BY <1>3, <1>5 DEF n

\* Unlinking a submission from write_sws.
LEMMA RemoveAtSet ==
  ASSUME NEW S, NEW s \in Seq(S), NEW i \in 1 .. Len(s), NEW outside,
         Once(s, outside)
  PROVE  /\ ToSet(s) = ToSet(RemoveAt(s, i)) \cup {s[i]}
         /\ s[i] \in outside \/ s[i] \notin ToSet(RemoveAt(s, i))
         /\ Once(RemoveAt(s, i), outside)
<1>. DEFINE t == RemoveAt(s, i)
            n == Len(s)
            old(j) == IF j < i THEN j ELSE j + 1
            new(j) == IF j < i THEN j ELSE j - 1
<1>1. t \in Seq(S) /\ Len(t) = n - 1
  BY RemoveAtProperties
<1>2. n \in Nat /\ i \in 1 .. n /\ ToSet(s) = {s[j] : j \in 1 .. n}
  BY ToSetProperties
<1>3. ToSet(t) = {t[j] : j \in 1 .. n - 1}
  BY <1>1, ToSetProperties
<1>4. \A j \in 1 .. n - 1 : t[j] = IF j < i THEN s[j] ELSE s[j + 1]
  BY RemoveAtElements
<1>. HIDE DEF t, n
<1>5. \A j \in 1 .. n - 1 : /\ old(j) \in 1 .. n /\ old(j) # i
                            /\ t[j] = s[old(j)]
  BY <1>2, <1>4
<1>6. \A j \in 1 .. n : j # i => /\ new(j) \in 1 .. n - 1
                                 /\ old(new(j)) = j
  BY <1>2
<1>7. \A j, k \in 1 .. n - 1 : old(j) = old(k) => j = k
  BY <1>2
<1>. HIDE DEF old, new
<1>8. ToSet(s) = ToSet(t) \cup {s[i]}
  <2>1. \A j \in 1 .. n : j # i => new(j) \in 1 .. n - 1 /\ t[new(j)] = s[j]
    BY <1>5, <1>6
  <2>. QED BY <1>2, <1>3, <1>5, <2>1
<1>9. s[i] \in outside \/ s[i] \notin ToSet(t)
  BY <1>2, <1>3, <1>5 DEF Once, n
<1>10. Once(t, outside)
  <2>. SUFFICES ASSUME NEW j \in 1 .. n - 1, NEW k \in 1 .. n - 1,
                       t[j] = t[k], t[j] \notin outside
                PROVE  j = k
    BY <1>1 DEF Once
  <2>1. old(j) = old(k)
    BY <1>5 DEF Once, n
  <2>. QED BY <2>1, <1>7
<1>. QED BY <1>8, <1>9, <1>10 DEF t

-----------------------------------------------------------------------------
(* Places and the statuses of ShareLedger.                                 *)

\* The place a share is in gives its status.
PlacesGiveStatus ==
    \A w \in Shares :
      /\ w \in leaked => StatusOf(w) = "untracked"
      /\ w \notin leaked =>
           /\ w \notin found => StatusOf(w) = "unfound"
           /\ Queued(w)   => StatusOf(w) = "queued"
           /\ Kept(w)     => StatusOf(w) = "held"
           /\ w \in OnCurl => StatusOf(w) = "held"
           /\ HasEntry(w) => StatusOf(w) = "awaiting"
           /\ Answered(w) => StatusOf(w) = "answered"
           /\ Settled(w)  => StatusOf(w) = "settled"

LEMMA StatusIs == PlaceInv => PlacesGiveStatus
<1>. SUFFICES ASSUME PlaceInv, NEW w \in Shares
              PROVE  /\ w \in leaked => StatusOf(w) = "untracked"
                     /\ w \notin leaked =>
                          /\ w \notin found => StatusOf(w) = "unfound"
                          /\ Queued(w)   => StatusOf(w) = "queued"
                          /\ Kept(w)     => StatusOf(w) = "held"
                          /\ w \in OnCurl => StatusOf(w) = "held"
                          /\ HasEntry(w) => StatusOf(w) = "awaiting"
                          /\ Answered(w) => StatusOf(w) = "answered"
                          /\ Settled(w)  => StatusOf(w) = "settled"
  BY DEF PlacesGiveStatus
<1>1. CASE w \in leaked
  BY <1>1 DEF PlaceInv, StatusOf
<1>2. CASE w \notin leaked
  <2>1. OnePlace(w)
    BY <1>2 DEF PlaceInv, Tracked
  <2>2. Kept(w) \/ w \in OnCurl => Held(w)
    BY DEF Kept, Sending, OnCurl, Held
  <2>3. Answered(w) => \E t \in taken : t.share.work = w
    BY DEF Answered
  <2>4. (\E t \in taken : t.share.work = w) /\ ~Answered(w) => counted[w] = 1
    BY <1>2 DEF Answered, PlaceInv, EachOnce, TakenInHand
  <2>. QED
    BY <1>2, <2>1, <2>2, <2>3, <2>4 DEF StatusOf, OnePlace, Queued, Settled
<1>. QED BY <1>1, <1>2

\* The same after a step.
LEMMA StatusIsNext == PlaceInv' => PlacesGiveStatus'
  BY StatusIs, PTL

\* What a step leaves alone of a share.
Same(w) ==
    /\ counted'[w] = counted[w] /\ (w \in found' <=> w \in found)
    /\ Queued(w)' <=> Queued(w)
    /\ Kept(w)' <=> Kept(w)
    /\ HasEntry(w)' <=> HasEntry(w)
    /\ Answered(w)' <=> Answered(w)
    /\ w \in OnCurl' <=> w \in OnCurl

LEMMA SameStatus ==
  ASSUME PlaceInv, PlaceInv', NEW w \in Shares, Same(w), w \in leaked' <=> w \in leaked
  PROVE  StatusOf(w)' = StatusOf(w)
<1>1. PlacesGiveStatus /\ PlacesGiveStatus'
  BY StatusIs, StatusIsNext
<1>2. CASE w \in leaked
  BY <1>1, <1>2 DEF PlacesGiveStatus
<1>3. CASE w \notin leaked
  <2>1. OnePlace(w)
    BY <1>3 DEF PlaceInv, Tracked
  <2>2. Settled(w)' <=> Settled(w)
    BY DEF Same, Settled
  <2>3. \/ w \notin found \/ Queued(w) \/ Kept(w) \/ HasEntry(w)
        \/ Answered(w) \/ w \in OnCurl \/ Settled(w)
    BY <2>1 DEF OnePlace
  <2>. QED BY <1>1, <1>3, <2>2, <2>3 DEF PlacesGiveStatus, Same
<1>. QED BY <1>2, <1>3

\* A step that changes the place of no share.
LEMMA NoShareMoves ==
  ASSUME PlaceInv, PlaceInv', leaked' = leaked, \A v \in Shares : Same(v)
  PROVE  [Ledger!Next]_status
  BY SameStatus DEF status

\* A step that moves one share along its life.
LEMMA OneShareMoves ==
  ASSUME PlaceInv, PlaceInv', NEW w \in Shares, leaked' = leaked,
         \A v \in Shares : v # w => Same(v),
         w \notin leaked => StatusOf(w)' \in Ledger!Onward[StatusOf(w)]
  PROVE  [Ledger!Next]_status
<1>1. \A v \in Shares : v # w => StatusOf(v)' = StatusOf(v)
  BY SameStatus
<1>2. CASE w \in leaked
  <2>1. StatusOf(w)' = StatusOf(w)
    BY <1>2, StatusIs, StatusIsNext DEF PlacesGiveStatus
  <2>. QED BY <1>1, <2>1 DEF status
<1>3. CASE w \notin leaked
  <2>. DEFINE place == StatusOf(w)'
  <2>1. status' = [status EXCEPT ![w] = place]
    BY <1>1 DEF status
  <2>2. place \in Ledger!Onward[status[w]]
    BY <1>3 DEF status
  <2>. HIDE DEF place
  <2>. QED BY <2>1, <2>2 DEF Ledger!Next, Ledger!Move
<1>. QED BY <1>2, <1>3

\* A step after which one or two shares are no longer kept track of.
LEMMA SharesLost ==
  ASSUME PlaceInv, PlaceInv', NEW v \in Shares, NEW w \in Shares,
         leaked' = leaked \cup {v, w},
         {StatusOf(v), StatusOf(w)} \cap {"unfound", "held"} = {},
         \A u \in Shares : u # v /\ u # w => Same(u)
  PROVE  [Ledger!Next]_status
<1>1. \A u \in Shares : u # v /\ u # w => StatusOf(u)' = StatusOf(u)
  BY SameStatus
<1>2. StatusOf(v)' = "untracked" /\ StatusOf(w)' = "untracked"
  BY StatusIsNext DEF PlacesGiveStatus
<1>3. status' = [status EXCEPT ![v] = "untracked", ![w] = "untracked"]
  BY <1>1, <1>2 DEF status
<1>. QED BY <1>3 DEF status, Ledger!Next, Ledger!LoseTrack

-----------------------------------------------------------------------------
(* What steps leave alone.                                                 *)

SendUntouched ==
    /\ UNCHANGED write_sws
    /\ SendInProgress' <=> SendInProgress
    /\ SendInProgress => UNCHANGED pos

HandsUntouched ==
    /\ UNCHANGED taken
    /\ \A t \in taken : \/ sthread'[t.by] = sthread[t.by]
                        \/ {sthread[t.by], sthread'[t.by]} \subseteq {"clear", "cleared"}

\* submit_waiting is left alone.
LEMMA QueueFrame ==
  ASSUME PlaceInv, leaked \subseteq leaked', UNCHANGED submit_waiting
  PROVE  /\ Once(submit_waiting, leaked)'
         /\ \A w \in Shares : Queued(w)' <=> Queued(w)
  BY DEF PlaceInv, EachOnce, Once, Queued

\* write_sws is left alone, and so is the send in progress if there is one.
LEMMA ListFrame ==
  ASSUME PlaceInv, leaked \subseteq leaked', SendUntouched
  PROVE  /\ Once(write_sws, leaked)'
         /\ \A w \in Shares : Kept(w)' <=> Kept(w)
<1>1. Once(write_sws, leaked)'
  BY DEF PlaceInv, EachOnce, Once, SendUntouched
<1>2. \A w \in Shares : Sending(w)' <=> Sending(w)
  BY DEF Sending, Scanned, SendUntouched
<1>. QED BY <1>1, <1>2 DEF Kept, SendUntouched

\* stratum_shares is left alone.
LEMMA TableFrame ==
  ASSUME PlaceInv, leaked \subseteq leaked', UNCHANGED stratum_shares
  PROVE  /\ EntryOnce'
         /\ \A w \in Shares : HasEntry(w)' <=> HasEntry(w)
  BY DEF PlaceInv, EachOnce, EntryOnce, HasEntry

\* The entries the stratum threads have unlinked are left alone.
LEMMA HandsFrame ==
  ASSUME PlaceInv, leaked \subseteq leaked', HandsUntouched, UNCHANGED counted
  PROVE  /\ AnswerOnce' /\ TakenInHand'
         /\ \A w \in Shares : Answered(w)' <=> Answered(w)
<1>1. /\ taken' = taken /\ counted' = counted
      /\ \A t \in taken : sthread'[t.by] = "answered" <=> sthread[t.by] = "answered"
  BY DEF HandsUntouched
<1>2. AnswerOnce'
  BY <1>1 DEF PlaceInv, EachOnce, AnswerOnce
<1>3. TakenInHand'
  <2>. SUFFICES ASSUME NEW t \in taken
                PROVE  /\ sthread'[t.by] \in {"answered", "clear", "cleared"}
                       /\ sthread'[t.by] = "answered" =>
                            \A u \in taken : u.by = t.by => u = t
                       /\ sthread'[t.by] # "answered" /\ t.share.work \notin leaked'
                            => counted[t.share.work] = 1
    BY <1>1 DEF TakenInHand
  <2>1. sthread'[t.by] \in {"answered", "clear", "cleared"}
    BY DEF PlaceInv, EachOnce, TakenInHand, HandsUntouched
  <2>. QED BY <1>1, <2>1 DEF PlaceInv, EachOnce, TakenInHand
<1>4. \A w \in Shares : Answered(w)' <=> Answered(w)
  BY <1>1 DEF Answered
<1>. QED BY <1>2, <1>3, <1>4

\* The share being sent is the same.
LEMMA SentFrame ==
  ASSUME PlaceInv, leaked \subseteq leaked', found \subseteq found', SendUntouched,
         OnCurl' \subseteq OnCurl
  PROVE  SentOnStratum'
<1>. SUFFICES ASSUME SendInProgress', Scanned' \notin leaked'
              PROVE  Scanned' \in found' \ OnCurl'
  BY DEF SentOnStratum
<1>1. SendInProgress /\ Scanned' = Scanned
  BY DEF SendUntouched, Scanned
<1>. QED BY <1>1 DEF PlaceInv, EachOnce, SentOnStratum

\* A share whose place is left alone stays in one place.
LEMMA SameOnePlace ==
  ASSUME NEW w, Same(w), OnePlace(w)
  PROVE  OnePlace(w)'
  BY DEF Same, OnePlace, Settled

\* What every step does: shares stay in one place, and at most one moves on.
Conserves == PlaceInv' /\ [Ledger!Next]_status

\* Steps that move no share.
LEMMA NothingMoves ==
  ASSUME PlaceInv, UNCHANGED <<submit_waiting, stratum_shares, counted, found>>,
         UNCHANGED leaked, OnCurl' = OnCurl, SendUntouched, HandsUntouched
  PROVE  Conserves
<1>1. EachOnce' /\ \A w \in Shares : Same(w)
  BY QueueFrame, ListFrame, TableFrame, HandsFrame, SentFrame DEF Same, EachOnce
<1>2. PlaceInv'
  BY <1>1, SameOnePlace DEF PlaceInv, Tracked
<1>. QED BY <1>1, <1>2, NoShareMoves DEF Conserves

\* A stratum thread that goes from one phase to another has nothing in its hands.
LEMMA HandsFree ==
  ASSUME TypeOK, PlaceInv, NEW p \in StratumPools, NEW phase,
         sthread[p] \notin {"answered", "clear", "cleared"} \/
           {sthread[p], phase} \subseteq {"clear", "cleared"},
         sthread' = [sthread EXCEPT ![p] = phase], UNCHANGED taken
  PROVE  HandsUntouched
<1>. SUFFICES ASSUME NEW t \in taken
              PROVE  \/ sthread'[t.by] = sthread[t.by]
                     \/ {sthread[t.by], sthread'[t.by]} \subseteq {"clear", "cleared"}
  BY DEF HandsUntouched
<1>1. t.by \in StratumPools
  BY DEF TypeOK, StratumType
<1>2. sthread[t.by] \in {"answered", "clear", "cleared"}
  BY DEF PlaceInv, EachOnce, TakenInHand
<1>3. CASE t.by = p
  BY <1>1, <1>2, <1>3 DEF TypeOK, StratumType
<1>4. CASE t.by # p
  BY <1>1, <1>4 DEF TypeOK, StratumType
<1>. QED BY <1>3, <1>4

-----------------------------------------------------------------------------
(* Steps that move one share.                                              *)

\* A share goes from one place to a place it may go to next.
GoesOn(w) ==
    \/ w \notin found /\ Queued(w)'
    \/ Queued(w) /\ (Kept(w)' \/ w \in OnCurl' \/ Settled(w)')
    \/ Kept(w) /\ (HasEntry(w)' \/ Settled(w)')
    \/ w \in OnCurl /\ Settled(w)'
    \/ HasEntry(w) /\ (Answered(w)' \/ Settled(w)' \/ Kept(w)' \/ Queued(w)')
    \/ Answered(w) /\ Settled(w)'

LEMMA ShareMoves ==
  ASSUME PlaceInv, NEW w \in Shares, leaked' = leaked, found \subseteq found',
         EachOnce', \A v \in Shares : v # w => Same(v),
         w \notin leaked => OnePlace(w)' /\ GoesOn(w)
  PROVE  Conserves
<1>1. PlaceInv'
  BY SameOnePlace DEF PlaceInv, Tracked
<1>2. ASSUME w \notin leaked PROVE StatusOf(w)' \in Ledger!Onward[StatusOf(w)]
  BY <1>1, <1>2, StatusIs, StatusIsNext DEF PlacesGiveStatus, GoesOn, Ledger!Onward
<1>. QED BY <1>1, <1>2, OneShareMoves DEF Conserves

\* submit_work_async2: a new share is queued.
LEMMA SubmitWorkAsyncConserves ==
  ASSUME ConservedInv, NEW w \in Shares, SubmitWorkAsync(w)
  PROVE  Conserves
<1>. USE DEF ConservedInv, WipInv
<1>1. w \notin leaked /\ OnePlace(w)
  BY DEF PlaceInv, Tracked, SubmitWorkAsync
<1>2. Once(submit_waiting, leaked) /\ w \notin ToSet(submit_waiting)
  BY <1>1 DEF PlaceInv, EachOnce, OnePlace, Queued, SubmitWorkAsync
<1>3. /\ submit_waiting' = Append(submit_waiting, w) /\ found' = found \cup {w}
      /\ leaked' = leaked /\ counted' = counted /\ OnCurl' = OnCurl
      /\ UNCHANGED stratum_shares /\ SendUntouched /\ HandsUntouched
  BY OnCurlFrame
  DEF SubmitWorkAsync, SendUntouched, HandsUntouched, SendInProgress, ledgerVars,
      curlVars, rpcVars, stratumSide, tableVars, stratumVars, threadVars, listVars
<1>4. /\ Once(submit_waiting, leaked)'
      /\ \A v \in Shares : Queued(v)' <=> Queued(v) \/ v = w
  BY <1>2, <1>3, AppendSet DEF TypeOK, QueueType, Queued
<1>5. /\ EachOnce'
      /\ \A v \in Shares : /\ Kept(v)' <=> Kept(v)
                           /\ HasEntry(v)' <=> HasEntry(v)
                           /\ Answered(v)' <=> Answered(v)
  BY <1>3, <1>4, ListFrame, TableFrame, HandsFrame, SentFrame DEF EachOnce
<1>6. \A v \in Shares : v # w => Same(v)
  BY <1>3, <1>4, <1>5 DEF Same
<1>7. OnePlace(w)' /\ GoesOn(w)
  BY <1>1, <1>3, <1>4, <1>5 DEF OnePlace, GoesOn, Settled, SubmitWorkAsync
<1>. QED BY <1>3, <1>5, <1>6, <1>7, ShareMoves

\* A share is counted that was not before.
LEMMA CountFrame ==
  ASSUME TypeOK, PlaceInv, leaked' = leaked, HandsUntouched, NEW w \in Shares,
         Count(w), w \in leaked \/ counted[w] = 0
  PROVE  /\ AnswerOnce' /\ TakenInHand'
         /\ \A v \in Shares : Answered(v)' <=> Answered(v)
         /\ \A v \in Shares : v # w => counted'[v] = counted[v]
         /\ counted'[w] = counted[w] + 1
<1>1. /\ taken' = taken
      /\ \A t \in taken : sthread'[t.by] = "answered" <=> sthread[t.by] = "answered"
  BY DEF HandsUntouched
<1>2. /\ \A v \in Shares : v # w => counted'[v] = counted[v]
      /\ counted'[w] = counted[w] + 1
  BY DEF TypeOK, LedgerType, Count
<1>3. AnswerOnce'
  BY <1>1 DEF PlaceInv, EachOnce, AnswerOnce
<1>4. TakenInHand'
  <2>. SUFFICES ASSUME NEW t \in taken
                PROVE  /\ sthread'[t.by] \in {"answered", "clear", "cleared"}
                       /\ sthread'[t.by] = "answered" =>
                            \A u \in taken : u.by = t.by => u = t
                       /\ sthread'[t.by] # "answered" /\ t.share.work \notin leaked
                            => counted'[t.share.work] = 1
    BY <1>1 DEF TakenInHand
  <2>1. t.share.work \in Shares
    BY DEF TypeOK, StratumType, Entry
  <2>2. sthread'[t.by] \in {"answered", "clear", "cleared"}
    BY DEF PlaceInv, EachOnce, TakenInHand, HandsUntouched
  <2>3. /\ sthread[t.by] = "answered" => \A u \in taken : u.by = t.by => u = t
        /\ sthread[t.by] # "answered" /\ t.share.work \notin leaked
             => counted[t.share.work] = 1
    BY DEF PlaceInv, EachOnce, TakenInHand
  <2>. QED BY <1>1, <1>2, <2>1, <2>2, <2>3
<1>5. \A v \in Shares : Answered(v)' <=> Answered(v)
  BY <1>1 DEF Answered
<1>. QED BY <1>2, <1>3, <1>4, <1>5

\* begin_submission discards a stale share.
LEMMA DiscardStaleConserves ==
  ASSUME ConservedInv, DiscardStale
  PROVE  Conserves
<1>. USE DEF ConservedInv, WipInv
<1>1. PICK w \in Shares :
      /\ w = Head(submit_waiting)
      /\ ToSet(submit_waiting) = ToSet(submit_waiting') \cup {w}
      /\ w \in leaked \/ w \notin ToSet(submit_waiting')
      /\ Once(submit_waiting, leaked)'
      /\ leaked' = leaked
  BY TailSet DEF PlaceInv, EachOnce, TypeOK, QueueType, DiscardStale
<1>2. /\ found' = found /\ OnCurl' = OnCurl /\ Count(w)
      /\ UNCHANGED stratum_shares /\ SendUntouched /\ HandsUntouched
  BY <1>1, OnCurlFrame
  DEF DiscardStale, SendUntouched, HandsUntouched, SendInProgress, submitSide, minerVars,
      curlVars, rpcVars, stratumSide, tableVars, stratumVars, threadVars, listVars
<1>3. w \notin leaked => OnePlace(w) /\ Queued(w) /\ counted[w] = 0
  BY <1>1 DEF PlaceInv, Tracked, Queued, OnePlace, Settled
<1>4. /\ \A v \in Shares : v # w => (Queued(v)' <=> Queued(v))
      /\ w \notin leaked => ~Queued(w)'
  BY <1>1 DEF Queued
<1>5. /\ EachOnce'
      /\ \A v \in Shares : v # w => counted'[v] = counted[v]
      /\ counted'[w] = counted[w] + 1
      /\ \A v \in Shares : /\ Kept(v)' <=> Kept(v)
                           /\ HasEntry(v)' <=> HasEntry(v)
                           /\ Answered(v)' <=> Answered(v)
  BY <1>1, <1>2, <1>3, ListFrame, TableFrame, CountFrame, SentFrame DEF EachOnce
<1>6. \A v \in Shares : v # w => Same(v)
  BY <1>2, <1>4, <1>5 DEF Same
<1>7. w \notin leaked => OnePlace(w)' /\ GoesOn(w)
  BY <1>1, <1>2, <1>3, <1>4, <1>5 DEF OnePlace, GoesOn, Settled
<1>. QED BY <1>1, <1>2, <1>5, <1>6, <1>7, ShareMoves

\* begin_submission puts a share for a stratum pool on write_sws.
LEMMA BeginStratumConserves ==
  ASSUME ConservedInv, BeginStratum
  PROVE  Conserves
<1>. USE DEF ConservedInv, WipInv
<1>1. PICK w \in Shares :
      /\ w = Head(submit_waiting)
      /\ ToSet(submit_waiting) = ToSet(submit_waiting') \cup {w}
      /\ w \in leaked \/ w \notin ToSet(submit_waiting')
      /\ Once(submit_waiting, leaked)'
      /\ leaked' = leaked
  BY TailSet DEF PlaceInv, EachOnce, TypeOK, QueueType, BeginStratum, ledgerVars
<1>2. /\ found' = found /\ OnCurl' = OnCurl /\ counted' = counted
      /\ UNCHANGED stratum_shares /\ HandsUntouched
      /\ write_sws' = Cons(w, write_sws) /\ ~SendInProgress /\ ~SendInProgress'
  BY <1>1, OnCurlFrame
  DEF BeginStratum, HandsUntouched, SendInProgress, minerVars, ledgerVars,
      curlVars, rpcVars, stratumSide, tableVars, stratumVars
<1>3. w \notin leaked => OnePlace(w) /\ Queued(w) /\ ~Kept(w)
  BY <1>1 DEF PlaceInv, Tracked, Queued, OnePlace
<1>4. /\ \A v \in Shares : v # w => (Queued(v)' <=> Queued(v))
      /\ w \notin leaked => ~Queued(w)'
  BY <1>1 DEF Queued
<1>5. Once(write_sws, leaked) /\ (w \in leaked \/ w \notin ToSet(write_sws))
  BY <1>2, <1>3 DEF PlaceInv, EachOnce, Kept, Sending
<1>6. /\ Once(write_sws, leaked)'
      /\ \A v \in Shares : Kept(v)' <=> Kept(v) \/ v = w
  <2>1. ToSet(write_sws') = ToSet(write_sws) \cup {w} /\ Once(write_sws', leaked)
    BY <1>1, <1>2, <1>5, ConsSet DEF TypeOK, ThreadType
  <2>. QED BY <1>1, <1>2, <2>1 DEF Kept, Sending
<1>7. /\ EachOnce'
      /\ \A v \in Shares : /\ HasEntry(v)' <=> HasEntry(v)
                           /\ Answered(v)' <=> Answered(v)
  BY <1>1, <1>2, <1>6, TableFrame, HandsFrame DEF EachOnce, SentOnStratum
<1>8. \A v \in Shares : v # w => Same(v)
  BY <1>2, <1>4, <1>6, <1>7 DEF Same
<1>9. w \notin leaked => OnePlace(w)' /\ GoesOn(w)
  BY <1>1, <1>2, <1>3, <1>4, <1>6, <1>7 DEF OnePlace, GoesOn, Settled
<1>. QED BY <1>1, <1>2, <1>7, <1>8, <1>9, ShareMoves

\* begin_submission puts a share for a JSON-RPC pool on a curl handle, or makes it
\* wait for one.
LEMMA BeginRpcConserves ==
  ASSUME ConservedInv, BeginRpc
  PROVE  Conserves
<1>. USE DEF ConservedInv, WipInv
<1>1. PICK w \in Shares :
      /\ w = Head(submit_waiting)
      /\ ToSet(submit_waiting) = ToSet(submit_waiting') \cup {w}
      /\ w \in leaked \/ w \notin ToSet(submit_waiting')
      /\ Once(submit_waiting, leaked)'
      /\ leaked' = leaked
  BY TailSet DEF PlaceInv, EachOnce, TypeOK, QueueType, BeginRpc, ledgerVars
<1>2. /\ found' = found /\ counted' = counted
      /\ UNCHANGED stratum_shares /\ HandsUntouched
      /\ SendUntouched /\ ~SendInProgress'
  BY DEF BeginRpc, HandsUntouched, SendUntouched, SendInProgress, minerVars, ledgerVars,
      listVars, stratumSide, tableVars, stratumVars
<1>3. OnCurl' = OnCurl \cup {w} /\ w \notin OnCurl
  BY <1>1, BeginRpcOnce
<1>4. w \notin leaked => OnePlace(w) /\ Queued(w)
  BY <1>1 DEF PlaceInv, Tracked, Queued
<1>5. /\ \A v \in Shares : v # w => (Queued(v)' <=> Queued(v))
      /\ w \notin leaked => ~Queued(w)'
  BY <1>1 DEF Queued
<1>6. /\ EachOnce'
      /\ \A v \in Shares : /\ Kept(v)' <=> Kept(v)
                           /\ HasEntry(v)' <=> HasEntry(v)
                           /\ Answered(v)' <=> Answered(v)
  BY <1>1, <1>2, ListFrame, TableFrame, HandsFrame DEF EachOnce, SentOnStratum
<1>7. \A v \in Shares : v # w => Same(v)
  BY <1>2, <1>3, <1>5, <1>6 DEF Same
<1>8. w \notin leaked => OnePlace(w)' /\ GoesOn(w)
  BY <1>1, <1>2, <1>3, <1>4, <1>5, <1>6 DEF OnePlace, GoesOn, Settled
<1>. QED BY <1>1, <1>2, <1>6, <1>7, <1>8, ShareMoves

\* The submission under swsp leaves write_sws.
LEMMA ScannedDeleted ==
  ASSUME TypeOK, PlaceInv, leaked' = leaked, pos <= Len(write_sws), DeleteScanned,
         ~SendInProgress'
  PROVE  /\ Scanned \in Shares /\ Scanned \in ToSet(write_sws)
         /\ Once(write_sws, leaked)'
         /\ \A v \in Shares : v # Scanned => (Kept(v)' <=> Kept(v))
         /\ Scanned \notin leaked => Scanned \notin ToSet(write_sws')
<1>1. pos \in 1 .. Len(write_sws) /\ Scanned \in Shares
  BY ScannedType
<1>2. Once(write_sws, leaked)
  BY DEF PlaceInv, EachOnce
<1>3. /\ ToSet(write_sws) = ToSet(write_sws') \cup {Scanned}
      /\ Scanned \in leaked \/ Scanned \notin ToSet(write_sws')
      /\ Once(write_sws', leaked)
  BY <1>1, <1>2, RemoveAtSet DEF TypeOK, ThreadType, DeleteScanned, Scanned
<1>. QED BY <1>1, <1>3 DEF Kept, Sending

\* A share of another session is discarded and counted.
LEMMA DiscardOtherSessionConserves ==
  ASSUME ConservedInv, DiscardOtherSession
  PROVE  Conserves
<1>. USE DEF ConservedInv, WipInv
<1>0. /\ pos <= Len(write_sws) /\ DeleteScanned /\ Count(Scanned)
      /\ ~SendInProgress /\ ~SendInProgress'
      /\ found' = found /\ OnCurl' = OnCurl /\ leaked' = leaked
      /\ UNCHANGED <<stratum_shares, submit_waiting>> /\ HandsUntouched
  BY OnCurlFrame
  DEF DiscardOtherSession, Scanning, HandsUntouched, SendInProgress, minerVars,
      curlVars, rpcVars, queueVars, stratumSide, tableVars, stratumVars
<1>1. PICK w \in Shares :
      /\ w = Scanned /\ w \in ToSet(write_sws) /\ Once(write_sws, leaked)'
      /\ \A v \in Shares : v # w => (Kept(v)' <=> Kept(v))
      /\ w \notin leaked => w \notin ToSet(write_sws')
  BY <1>0, ScannedDeleted
<1>2. w \notin leaked => OnePlace(w) /\ Kept(w) /\ counted[w] = 0
  BY <1>0, <1>1 DEF PlaceInv, Tracked, Kept, Sending, OnePlace, Settled
<1>3. w \notin leaked => ~Kept(w)'
  BY <1>1 DEF Kept
<1>4. /\ EachOnce'
      /\ \A v \in Shares : v # w => counted'[v] = counted[v]
      /\ counted'[w] = counted[w] + 1
      /\ \A v \in Shares : /\ Queued(v)' <=> Queued(v)
                           /\ HasEntry(v)' <=> HasEntry(v)
                           /\ Answered(v)' <=> Answered(v)
  BY <1>0, <1>1, <1>2, QueueFrame, TableFrame, CountFrame DEF EachOnce, SentOnStratum
<1>5. \A v \in Shares : v # w => Same(v)
  BY <1>0, <1>1, <1>4 DEF Same
<1>6. w \notin leaked => OnePlace(w)' /\ GoesOn(w)
  BY <1>0, <1>2, <1>3, <1>4 DEF OnePlace, GoesOn, Settled
<1>. QED BY <1>0, <1>4, <1>5, <1>6, ShareMoves

\* The share under swsp is entered in stratum_shares, to be sent.
LEMMA AddStratumShareConserves ==
  ASSUME ConservedInv, AddStratumShare
  PROVE  Conserves
<1>. USE DEF ConservedInv, WipInv
<1>0. /\ pos <= Len(write_sws) /\ ~SendInProgress /\ SendInProgress'
      /\ UNCHANGED <<write_sws, pos, submit_waiting, counted>>
      /\ found' = found /\ OnCurl' = OnCurl /\ leaked' = leaked /\ HandsUntouched
  BY OnCurlFrame
  DEF AddStratumShare, TypeOK, ThreadType, HandsUntouched, SendInProgress, minerVars,
      curlVars, rpcVars, queueVars, stratumVars, listVars, ledgerVars
<1>1. PICK w \in Shares : w = Scanned /\ w = Scanned' /\ w \in ToSet(write_sws)
  BY <1>0, ScannedType, ToSetProperties DEF Scanned, TypeOK, ThreadType
<1>2. PICK e : e.work = w /\ stratum_shares' = stratum_shares \cup {e}
  BY <1>1 DEF AddStratumShare
<1>3. w \notin leaked => OnePlace(w) /\ Kept(w) /\ w \in found \ OnCurl /\ ~HasEntry(w)
  BY <1>0, <1>1 DEF PlaceInv, Tracked, Kept, Sending, OnePlace
<1>4. /\ Once(write_sws, leaked)'
      /\ \A v \in Shares : v # w => (Kept(v)' <=> Kept(v))
      /\ ~Kept(w)'
  BY <1>0, <1>1 DEF PlaceInv, EachOnce, Kept, Sending
<1>5. /\ EntryOnce'
      /\ \A v \in Shares : HasEntry(v)' <=> HasEntry(v) \/ v = w
  <2>1. \A v \in Shares : HasEntry(v)' <=> HasEntry(v) \/ v = w
    BY <1>2 DEF HasEntry
  <2>2. w \notin leaked => \A f \in stratum_shares : f.work # w
    BY <1>3 DEF HasEntry
  <2>3. EntryOnce'
    BY <1>0, <1>2, <2>2 DEF PlaceInv, EachOnce, EntryOnce
  <2>. QED BY <2>1, <2>3
<1>6. SentOnStratum'
  BY <1>0, <1>1, <1>3 DEF SentOnStratum
<1>7. /\ EachOnce'
      /\ \A v \in Shares : /\ Queued(v)' <=> Queued(v)
                           /\ Answered(v)' <=> Answered(v)
  BY <1>0, <1>4, <1>5, <1>6, QueueFrame, HandsFrame DEF EachOnce
<1>8. \A v \in Shares : v # w => Same(v)
  BY <1>0, <1>4, <1>5, <1>7 DEF Same
<1>9. w \notin leaked => OnePlace(w)' /\ GoesOn(w)
  BY <1>0, <1>3, <1>4, <1>5, <1>7 DEF OnePlace, GoesOn, Settled
<1>. QED BY <1>0, <1>7, <1>8, <1>9, ShareMoves

\* The send is over, and the submission dropped: its entry stands for it, or the
\* place its entry was moved to.
LEMMA SendEndsConserves ==
  ASSUME ConservedInv, SendOk \/ UndoConsumed
  PROVE  Conserves
<1>. USE DEF ConservedInv, WipInv
<1>0. /\ pos <= Len(write_sws) /\ DeleteScanned /\ SendInProgress /\ ~SendInProgress'
      /\ UNCHANGED <<submit_waiting, stratum_shares, counted, found, leaked>>
      /\ OnCurl' = OnCurl /\ HandsUntouched
  BY OnCurlFrame
  DEF SendOk, UndoConsumed, TypeOK, ThreadType, HandsUntouched, SendInProgress,
      minerVars, curlVars, rpcVars, queueVars, stratumSide, stratumVars, tableVars,
      ledgerVars, othersOfThread
<1>1. /\ Once(write_sws, leaked)' /\ Scanned \in Shares
      /\ \A v \in Shares : v # Scanned => (Kept(v)' <=> Kept(v))
      /\ Scanned \notin leaked => Scanned \notin ToSet(write_sws')
  BY <1>0, ScannedDeleted
<1>2. Scanned \notin leaked => \A v \in Shares : Kept(v)' <=> Kept(v)
  BY <1>0, <1>1 DEF Kept, Sending
<1>3. /\ EachOnce'
      /\ \A v \in Shares : /\ Queued(v)' <=> Queued(v)
                           /\ HasEntry(v)' <=> HasEntry(v)
                           /\ Answered(v)' <=> Answered(v)
  BY <1>0, <1>1, QueueFrame, TableFrame, HandsFrame DEF EachOnce, SentOnStratum
<1>4. PICK w \in Shares : w = Scanned
  BY <1>1
<1>5. \A v \in Shares : v # w \/ w \notin leaked => Same(v)
  BY <1>0, <1>1, <1>2, <1>3, <1>4 DEF Same
<1>6. PlaceInv'
  BY <1>0, <1>3, <1>5, SameOnePlace DEF PlaceInv, Tracked
<1>7. CASE w \notin leaked
  BY <1>0, <1>5, <1>6, <1>7, NoShareMoves DEF Conserves
<1>8. CASE w \in leaked
  BY <1>0, <1>5, <1>6, <1>8, OneShareMoves DEF Conserves
<1>. QED BY <1>7, <1>8

\* A share being sent is known to the ledger, and not as held.
LEMMA SentStatus ==
  ASSUME PlaceInv, SendInProgress, NEW w \in Shares, w = Scanned
  PROVE  StatusOf(w) \notin {"unfound", "held"}
<1>1. PlacesGiveStatus
  BY StatusIs
<1>2. CASE w \in leaked
  BY <1>1, <1>2 DEF PlacesGiveStatus
<1>3. CASE w \notin leaked
  <2>1. OnePlace(w) /\ ~Kept(w) /\ w \in found \ OnCurl
    BY <1>3 DEF PlaceInv, EachOnce, SentOnStratum, Tracked, Kept, Sending
  <2>2. Queued(w) \/ HasEntry(w) \/ Answered(w) \/ Settled(w)
    BY <2>1 DEF OnePlace
  <2>. QED BY <1>1, <1>3, <2>2 DEF PlacesGiveStatus
<1>. QED BY <1>2, <1>3

\* stratum_send has failed: the entry is to be undone, or, when submit_fail is
\* set, it is left behind.
LEMMA SendFailedConserves ==
  ASSUME ConservedInv, SuspendAfterSend \/ SendInactive
  PROVE  Conserves
<1>. USE DEF ConservedInv, WipInv
<1>0. /\ SendInProgress /\ pos <= Len(write_sws) /\ SendFailed
      /\ UNCHANGED <<submit_waiting, stratum_shares, counted, found, write_sws, pos>>
      /\ OnCurl' = OnCurl /\ HandsUntouched
  BY OnCurlFrame
  DEF SuspendAfterSend, SendInactive, TypeOK, ThreadType, HandsUntouched,
      SendInProgress, minerVars, curlVars, rpcVars, queueVars, stratumVars, tableVars,
      listVars, othersOfSend
<1>1. CASE ScanPool \notin submit_fail
  <2>1. SendUntouched /\ leaked' = leaked
    BY <1>0, <1>1 DEF SendFailed, SendUntouched, SendInProgress
  <2>. QED BY <1>0, <2>1, NothingMoves
<1>2. CASE ScanPool \in submit_fail
  <2>1. PICK w \in Shares : w = Scanned
    BY <1>0, ScannedType
  <2>2. /\ leaked' = leaked \cup {w} /\ ~SendInProgress'
        /\ leaked \subseteq leaked'
    BY <1>0, <1>2, <2>1 DEF SendFailed, SendInProgress
  <2>3. \A v \in Shares : v # w => (Kept(v)' <=> Kept(v))
    BY <1>0, <2>1, <2>2 DEF Kept, Sending
  <2>4. Once(write_sws, leaked)'
    BY <1>0, <2>2 DEF PlaceInv, EachOnce, Once
  <2>5. /\ EachOnce'
        /\ \A v \in Shares : /\ Queued(v)' <=> Queued(v)
                             /\ HasEntry(v)' <=> HasEntry(v)
                             /\ Answered(v)' <=> Answered(v)
    BY <1>0, <2>2, <2>4, QueueFrame, TableFrame, HandsFrame DEF EachOnce, SentOnStratum
  <2>6. \A v \in Shares : v # w => Same(v)
    BY <1>0, <2>3, <2>5 DEF Same
  <2>7. w \in found
    BY <1>0, <2>1 DEF PlaceInv, EachOnce, SentOnStratum
  <2>8. PlaceInv'
    BY <1>0, <2>2, <2>5, <2>6, <2>7, SameOnePlace DEF PlaceInv, Tracked
  <2>9. StatusOf(w) \notin {"unfound", "held"}
    BY <1>0, <2>1, SentStatus
  <2>. QED BY <2>2, <2>6, <2>8, <2>9, SharesLost DEF Conserves
<1>. QED BY <1>1, <1>2

\* An entry leaves stratum_shares.
LEMMA EntryGone ==
  ASSUME PlaceInv, leaked \subseteq leaked', NEW e \in stratum_shares,
         stratum_shares' = stratum_shares \ {e}
  PROVE  /\ EntryOnce'
         /\ HasEntry(e.work)
         /\ \A v \in Shares : v # e.work => (HasEntry(v)' <=> HasEntry(v))
         /\ ~ \E f \in stratum_shares' : f.work = e.work /\ e.work \notin leaked
  BY DEF PlaceInv, EachOnce, EntryOnce, HasEntry

\* The entry of the failed send is taken out of the table, and the submission
\* kept; or another entry of the same id is.
LEMMA UndoFoundConserves ==
  ASSUME ConservedInv, NEW e \in stratum_shares, UndoFound(e)
  PROVE  Conserves
<1>. USE DEF ConservedInv, WipInv
<1>0. /\ SendInProgress /\ pos <= Len(write_sws) /\ ~SendInProgress'
      /\ stratum_shares' = stratum_shares \ {e}
      /\ UNCHANGED <<submit_waiting, counted, found, write_sws>>
      /\ OnCurl' = OnCurl /\ HandsUntouched /\ leaked \subseteq leaked'
  BY OnCurlFrame
  DEF UndoFound, TypeOK, ThreadType, HandsUntouched, SendInProgress, minerVars,
      curlVars, rpcVars, queueVars, stratumVars
<1>1. PICK w \in Shares : w = Scanned /\ w \in ToSet(write_sws)
  BY <1>0, ScannedType, ToSetProperties DEF Scanned, TypeOK, ThreadType
<1>2. PICK u \in Shares : u = e.work
  BY DEF TypeOK, TableType, Entry
<1>3. /\ EntryOnce' /\ HasEntry(u)
      /\ \A v \in Shares : v # u => (HasEntry(v)' <=> HasEntry(v))
      /\ u \notin leaked => ~HasEntry(u)'
  BY <1>0, <1>2, EntryGone DEF HasEntry
<1>4. /\ Once(write_sws, leaked)'
      /\ \A v \in Shares : v # w => (Kept(v)' <=> Kept(v))
      /\ Kept(w)' /\ ~Kept(w)
  BY <1>0, <1>1 DEF PlaceInv, EachOnce, Once, Kept, Sending
<1>5. /\ EachOnce'
      /\ \A v \in Shares : /\ Queued(v)' <=> Queued(v)
                           /\ Answered(v)' <=> Answered(v)
  BY <1>0, <1>3, <1>4, QueueFrame, HandsFrame DEF EachOnce, SentOnStratum
<1>6. \A v \in Shares : v # w /\ v # u => Same(v)
  BY <1>0, <1>3, <1>4, <1>5 DEF Same
<1>7. CASE u = w
  <2>1. leaked' = leaked
    BY <1>1, <1>2, <1>7 DEF UndoFound
  <2>2. w \notin leaked => OnePlace(w)
    BY DEF PlaceInv, Tracked
  <2>3. w \notin leaked => OnePlace(w)' /\ GoesOn(w)
    BY <1>0, <1>3, <1>4, <1>5, <1>7, <2>2 DEF OnePlace, GoesOn, Settled
  <2>. QED BY <1>0, <1>5, <1>6, <1>7, <2>1, <2>3, ShareMoves
<1>8. CASE u # w
  <2>1. leaked' = leaked \cup {w, u}
    BY <1>1, <1>2, <1>8 DEF UndoFound
  <2>2. w \in found
    BY <1>0, <1>1 DEF PlaceInv, EachOnce, SentOnStratum
  <2>3. u \in found /\ StatusOf(u) \notin {"unfound", "held"}
    <3>1. PlacesGiveStatus
      BY StatusIs
    <3>2. u \in leaked \/ OnePlace(u)
      BY DEF PlaceInv, Tracked
    <3>. QED BY <1>3, <3>1, <3>2 DEF PlaceInv, OnePlace, PlacesGiveStatus
  <2>4. PlaceInv'
    BY <1>0, <1>5, <1>6, <2>1, <2>2, <2>3, SameOnePlace DEF PlaceInv, Tracked
  <2>5. StatusOf(w) \notin {"unfound", "held"}
    BY <1>0, <1>1, SentStatus
  <2>. QED BY <1>6, <2>1, <2>3, <2>4, <2>5, SharesLost DEF Conserves
<1>. QED BY <1>7, <1>8

\* resubmit_stratum_shares queues the share of an entry again.
LEMMA ResubmitOneConserves ==
  ASSUME ConservedInv, NEW p \in StratumPools, NEW e \in stratum_shares, ResubmitOne(p, e)
  PROVE  Conserves
<1>. USE DEF ConservedInv, WipInv
<1>0. /\ stratum_shares' = stratum_shares \ {e}
      /\ submit_waiting' = Append(submit_waiting, e.work)
      /\ UNCHANGED <<counted, found, leaked>>
      /\ OnCurl' = OnCurl /\ HandsUntouched /\ SendUntouched
  BY OnCurlFrame
  DEF ResubmitOne, HandsUntouched, SendUntouched, SendInProgress, minerVars, curlVars,
      rpcVars, stratumVars, submitSide, threadVars, listVars, ledgerVars
<1>1. PICK w \in Shares : w = e.work
  BY DEF TypeOK, TableType, Entry
<1>2. /\ EntryOnce' /\ HasEntry(w)
      /\ \A v \in Shares : v # w => (HasEntry(v)' <=> HasEntry(v))
      /\ w \notin leaked => ~HasEntry(w)'
  BY <1>0, <1>1, EntryGone DEF HasEntry
<1>3. w \notin leaked => OnePlace(w)
  BY DEF PlaceInv, Tracked
<1>4. Once(submit_waiting, leaked) /\ (w \in leaked \/ w \notin ToSet(submit_waiting))
  BY <1>2, <1>3 DEF PlaceInv, EachOnce, OnePlace, Queued
<1>5. /\ Once(submit_waiting, leaked)'
      /\ \A v \in Shares : Queued(v)' <=> Queued(v) \/ v = w
  BY <1>0, <1>1, <1>4, AppendSet DEF TypeOK, QueueType, Queued
<1>6. /\ EachOnce'
      /\ \A v \in Shares : /\ Kept(v)' <=> Kept(v)
                           /\ Answered(v)' <=> Answered(v)
  BY <1>0, <1>2, <1>5, ListFrame, HandsFrame, SentFrame DEF EachOnce
<1>7. \A v \in Shares : v # w => Same(v)
  BY <1>0, <1>2, <1>5, <1>6 DEF Same
<1>8. w \notin leaked => OnePlace(w)' /\ GoesOn(w)
  BY <1>0, <1>2, <1>3, <1>5, <1>6 DEF OnePlace, GoesOn, Settled
<1>. QED BY <1>0, <1>6, <1>7, <1>8, ShareMoves

\* An answer takes the entry of its id out of the table.
LEMMA AnswerConserves ==
  ASSUME ConservedInv, NEW p \in StratumPools, NEW id, NEW e \in stratum_shares,
         Answer(p, id, e)
  PROVE  Conserves
<1>. USE DEF ConservedInv, WipInv
<1>. DEFINE t == [by |-> p, share |-> e]
<1>0. /\ stratum_shares' = stratum_shares \ {e} /\ taken' = taken \cup {t}
      /\ sthread[p] = "serve" /\ sthread' = [sthread EXCEPT ![p] = "answered"]
      /\ UNCHANGED <<submit_waiting, counted, found, leaked>>
      /\ OnCurl' = OnCurl /\ SendUntouched
  BY OnCurlFrame
  DEF Answer, SendUntouched, SendInProgress, minerVars, curlVars, rpcVars, submitSide,
      threadVars, listVars, ledgerVars, queueVars
<1>1. PICK w \in Shares : w = e.work
  BY DEF TypeOK, TableType, Entry
<1>2. /\ EntryOnce' /\ HasEntry(w)
      /\ \A v \in Shares : v # w => (HasEntry(v)' <=> HasEntry(v))
      /\ w \notin leaked => ~HasEntry(w)'
  BY <1>0, <1>1, EntryGone DEF HasEntry
<1>3. w \notin leaked => OnePlace(w) /\ ~Answered(w)
  BY <1>2 DEF PlaceInv, Tracked, OnePlace
<1>4. /\ t.by = p /\ t.share.work = w /\ sthread'[p] = "answered"
      /\ \A u \in taken : u.by # p /\ sthread'[u.by] = sthread[u.by]
  BY <1>0, <1>1 DEF TypeOK, StratumType, PlaceInv, EachOnce, TakenInHand
<1>. HIDE DEF t
<1>5. \A v \in Shares : Answered(v)' <=> Answered(v) \/ v = w
  BY <1>0, <1>4 DEF Answered
<1>6. AnswerOnce'
  <2>1. w \notin leaked =>
          \A u \in taken : sthread[u.by] = "answered" => u.share.work # w
    BY <1>3 DEF Answered
  <2>. QED BY <1>0, <1>4, <2>1 DEF PlaceInv, EachOnce, AnswerOnce
<1>7. TakenInHand'
  BY <1>0, <1>4 DEF PlaceInv, EachOnce, TakenInHand
<1>8. /\ EachOnce'
      /\ \A v \in Shares : /\ Queued(v)' <=> Queued(v)
                           /\ Kept(v)' <=> Kept(v)
  BY <1>0, <1>2, <1>6, <1>7, QueueFrame, ListFrame, SentFrame DEF EachOnce
<1>9. \A v \in Shares : v # w => Same(v)
  BY <1>0, <1>2, <1>5, <1>8 DEF Same
<1>10. w \notin leaked => OnePlace(w)' /\ GoesOn(w)
  BY <1>0, <1>2, <1>3, <1>5, <1>8 DEF OnePlace, GoesOn, Settled
<1>. QED BY <1>0, <1>8, <1>9, <1>10, ShareMoves

\* share_result counts the answered share.
LEMMA CountAnswerConserves ==
  ASSUME ConservedInv, NEW p \in StratumPools, NEW t \in taken, CountAnswer(p, t)
  PROVE  Conserves
<1>. USE DEF ConservedInv, WipInv
<1>0. /\ taken' = taken \ {t} /\ t.by = p /\ Count(t.share.work)
      /\ sthread[p] = "answered" /\ sthread' = [sthread EXCEPT ![p] = "serve"]
      /\ UNCHANGED <<stratum_shares, submit_waiting, found, leaked>>
      /\ OnCurl' = OnCurl /\ SendUntouched
  BY OnCurlFrame
  DEF CountAnswer, TakenBy, SendUntouched, SendInProgress, minerVars, curlVars, rpcVars,
      submitSide, threadVars, listVars, tableVars
<1>1. PICK w \in Shares : w = t.share.work
  BY DEF TypeOK, StratumType, Entry
<1>2. Answered(w)
  BY <1>0, <1>1 DEF Answered
<1>3. w \notin leaked => OnePlace(w) /\ counted[w] = 0
  BY <1>2 DEF PlaceInv, Tracked, OnePlace, Settled
<1>4. \A u \in taken \ {t} : u.by # p /\ sthread'[u.by] = sthread[u.by]
  BY <1>0 DEF TypeOK, StratumType, PlaceInv, EachOnce, TakenInHand
<1>5. /\ \A v \in Shares : v # w => counted'[v] = counted[v]
      /\ counted'[w] = counted[w] + 1
  BY <1>0, <1>1 DEF TypeOK, LedgerType, Count
<1>6. /\ \A v \in Shares : v # w => (Answered(v)' <=> Answered(v))
      /\ w \notin leaked => ~Answered(w)'
  <2>1. \A v \in Shares : v # w => (Answered(v)' <=> Answered(v))
    BY <1>0, <1>1, <1>4 DEF Answered
  <2>2. w \notin leaked => ~Answered(w)'
    BY <1>0, <1>1, <1>4 DEF Answered, PlaceInv, EachOnce, AnswerOnce
  <2>. QED BY <2>1, <2>2
<1>7. AnswerOnce'
  BY <1>0, <1>4 DEF PlaceInv, EachOnce, AnswerOnce
<1>8. TakenInHand'
  <2>. SUFFICES ASSUME NEW u \in taken \ {t}
                PROVE  /\ sthread[u.by] \in {"answered", "clear", "cleared"}
                       /\ sthread[u.by] = "answered" =>
                            \A x \in taken : x.by = u.by => x = u
                       /\ sthread[u.by] # "answered" /\ u.share.work \notin leaked
                            => counted'[u.share.work] = 1
    BY <1>0, <1>4 DEF TakenInHand
  <2>1. u.share.work \in Shares
    BY DEF TypeOK, StratumType, Entry
  <2>. QED BY <1>3, <1>5, <2>1 DEF PlaceInv, EachOnce, TakenInHand
<1>9. /\ EachOnce'
      /\ \A v \in Shares : /\ Queued(v)' <=> Queued(v)
                           /\ Kept(v)' <=> Kept(v)
                           /\ HasEntry(v)' <=> HasEntry(v)
  BY <1>0, <1>7, <1>8, QueueFrame, ListFrame, TableFrame, SentFrame DEF EachOnce
<1>10. \A v \in Shares : v # w => Same(v)
  BY <1>0, <1>5, <1>6, <1>9 DEF Same
<1>11. w \notin leaked => OnePlace(w)' /\ GoesOn(w)
  BY <1>0, <1>2, <1>3, <1>5, <1>6, <1>9 DEF OnePlace, GoesOn, Settled
<1>. QED BY <1>0, <1>9, <1>10, <1>11, ShareMoves

\* clear_stratum_shares drops an entry and counts its share as stale.
LEMMA ClearOneConserves ==
  ASSUME ConservedInv, NEW p \in StratumPools, NEW e \in stratum_shares, ClearOne(p, e)
  PROVE  Conserves
<1>. USE DEF ConservedInv, WipInv
<1>. DEFINE t == [by |-> p, share |-> e]
<1>0. /\ stratum_shares' = stratum_shares \ {e} /\ taken' = taken \cup {t}
      /\ sthread[p] = "clear" /\ sthread' = sthread /\ Count(e.work)
      /\ UNCHANGED <<submit_waiting, found, leaked>>
      /\ OnCurl' = OnCurl /\ SendUntouched
  BY OnCurlFrame
  DEF ClearOne, SendUntouched, SendInProgress, minerVars, curlVars, rpcVars, submitSide,
      threadVars, listVars, queueVars
<1>1. PICK w \in Shares : w = e.work
  BY DEF TypeOK, TableType, Entry
<1>2. /\ EntryOnce' /\ HasEntry(w)
      /\ \A v \in Shares : v # w => (HasEntry(v)' <=> HasEntry(v))
      /\ w \notin leaked => ~HasEntry(w)'
  BY <1>0, <1>1, EntryGone DEF HasEntry
<1>3. w \notin leaked => OnePlace(w) /\ counted[w] = 0
  BY <1>2 DEF PlaceInv, Tracked, OnePlace, Settled
<1>4. /\ \A v \in Shares : v # w => counted'[v] = counted[v]
      /\ counted'[w] = counted[w] + 1
  BY <1>0, <1>1 DEF TypeOK, LedgerType, Count
<1>5. t.by = p /\ t.share.work = w
  BY <1>1
<1>. HIDE DEF t
<1>6. \A v \in Shares : Answered(v)' <=> Answered(v)
  BY <1>0, <1>5 DEF Answered
<1>7. AnswerOnce'
  BY <1>0, <1>5 DEF PlaceInv, EachOnce, AnswerOnce
<1>8. TakenInHand'
  <2>. SUFFICES ASSUME NEW u \in taken'
                PROVE  /\ sthread[u.by] \in {"answered", "clear", "cleared"}
                       /\ sthread[u.by] = "answered" =>
                            \A x \in taken' : x.by = u.by => x = u
                       /\ sthread[u.by] # "answered" /\ u.share.work \notin leaked
                            => counted'[u.share.work] = 1
    BY <1>0 DEF TakenInHand
  <2>1. CASE u = t
    BY <1>0, <1>3, <1>4, <1>5, <2>1
  <2>2. CASE u \in taken
    <3>1. u.share.work \in Shares
      BY <2>2 DEF TypeOK, StratumType, Entry
    <3>. QED BY <1>0, <1>3, <1>4, <1>5, <2>2, <3>1 DEF PlaceInv, EachOnce, TakenInHand
  <2>. QED BY <1>0, <2>1, <2>2
<1>9. /\ EachOnce'
      /\ \A v \in Shares : /\ Queued(v)' <=> Queued(v)
                           /\ Kept(v)' <=> Kept(v)
  BY <1>0, <1>2, <1>7, <1>8, QueueFrame, ListFrame, SentFrame DEF EachOnce
<1>10. \A v \in Shares : v # w => Same(v)
  BY <1>0, <1>2, <1>4, <1>6, <1>9 DEF Same
<1>11. w \notin leaked => OnePlace(w)' /\ GoesOn(w)
  BY <1>0, <1>2, <1>3, <1>4, <1>6, <1>9 DEF OnePlace, GoesOn, Settled
<1>. QED BY <1>0, <1>9, <1>10, <1>11, ShareMoves

\* clear_stratum_shares subtracts the entries it has dropped from the AS counter.
LEMMA SubtractClearedConserves ==
  ASSUME ConservedInv, NEW p \in StratumPools, SubtractCleared(p)
  PROVE  Conserves
<1>. USE DEF ConservedInv, WipInv
<1>0. /\ taken' = {t \in taken : t.by # p}
      /\ sthread[p] = "cleared" /\ sthread' = [sthread EXCEPT ![p] = "restart"]
      /\ UNCHANGED <<stratum_shares, submit_waiting, counted, found, leaked>>
      /\ OnCurl' = OnCurl /\ SendUntouched
  BY OnCurlFrame
  DEF SubtractCleared, TakenBy, SendUntouched, SendInProgress, minerVars, curlVars, rpcVars,
      submitSide, threadVars, listVars, tableVars, ledgerVars
<1>1. \A t \in taken : t.by # p => sthread'[t.by] = sthread[t.by]
  BY <1>0 DEF TypeOK, StratumType
<1>2. \A v \in Shares : Answered(v)' <=> Answered(v)
  BY <1>0, <1>1 DEF Answered
<1>3. AnswerOnce' /\ TakenInHand'
  BY <1>0, <1>1 DEF PlaceInv, EachOnce, AnswerOnce, TakenInHand
<1>4. EachOnce' /\ \A v \in Shares : Same(v)
  BY <1>0, <1>2, <1>3, QueueFrame, ListFrame, TableFrame, SentFrame DEF EachOnce, Same
<1>5. PlaceInv'
  BY <1>0, <1>4, SameOnePlace DEF PlaceInv, Tracked
<1>. QED BY <1>0, <1>4, <1>5, NoShareMoves DEF Conserves

\* A share over JSON-RPC is counted, answered or given up.
LEMMA RpcSettlesConserves ==
  ASSUME ConservedInv, NEW w \in Shares, RpcAnswered(w) \/ RpcGivenUp(w)
  PROVE  Conserves
<1>. USE DEF ConservedInv, WipInv
<1>0. /\ xfer[w] \in {"replied", "failed"} /\ FinishRpc(w) /\ Count(w)
      /\ UNCHANGED <<stratum_shares, submit_waiting, found, leaked>>
      /\ HandsUntouched /\ SendUntouched
  BY DEF RpcAnswered, RpcGivenUp, HandsUntouched, SendUntouched, SendInProgress, minerVars,
      queueVars, listVars, stratumSide, tableVars, stratumVars
<1>1. w \in OnCurl /\ OnCurl' = OnCurl \ {w}
  BY <1>0, FinishRpcOnce
<1>2. w \notin leaked => OnePlace(w) /\ counted[w] = 0
  BY <1>1 DEF PlaceInv, Tracked, OnePlace, Settled
<1>3. /\ EachOnce'
      /\ \A v \in Shares : v # w => counted'[v] = counted[v]
      /\ counted'[w] = counted[w] + 1
      /\ \A v \in Shares : /\ Queued(v)' <=> Queued(v)
                           /\ Kept(v)' <=> Kept(v)
                           /\ HasEntry(v)' <=> HasEntry(v)
                           /\ Answered(v)' <=> Answered(v)
  BY <1>0, <1>1, <1>2, QueueFrame, ListFrame, TableFrame, CountFrame, SentFrame DEF EachOnce
<1>4. \A v \in Shares : v # w => Same(v)
  BY <1>0, <1>1, <1>3 DEF Same
<1>5. w \notin leaked => OnePlace(w)' /\ GoesOn(w)
  BY <1>0, <1>1, <1>2, <1>3 DEF OnePlace, GoesOn, Settled
<1>. QED BY <1>0, <1>3, <1>4, <1>5, ShareMoves

-----------------------------------------------------------------------------
(* The theorems.                                                           *)

\* Every step of every thread keeps shares in one place, and is a step of the
\* ledger or none.
LEMMA StepConserves == ConservedInv /\ [Next]_vars => Conserves
<1>. SUFFICES ASSUME ConservedInv, [Next]_vars PROVE Conserves
  OBVIOUS
<1>0. TypeOK /\ RpcOnce /\ PlaceInv
  BY DEF ConservedInv, WipInv
<1>. USE <1>0
     DEF submitSide, stratumSide, threadVars, curlVars, rpcVars, handleVars, queueVars,
         minerVars, listVars, countVars, tableVars, stratumVars, ledgerVars,
         othersOfThread, othersOfStratum, othersOfConn, othersOfSend, SendUntouched
<1>1. CASE KillWork
  BY <1>1, NothingMoves, OnCurlFrame
  DEF KillWork, SendInProgress, HandsUntouched
<1>2. CASE LockSubmitting
  BY <1>2, NothingMoves, OnCurlFrame
  DEF LockSubmitting, SendInProgress, HandsUntouched
<1>3. CASE Select
  BY <1>3, NothingMoves, OnCurlFrame
  DEF Select, SendInProgress, HandsUntouched
<1>4. CASE SelectError
  BY <1>4, NothingMoves, OnCurlFrame
  DEF SelectError, SendInProgress, HandsUntouched
<1>5. CASE SkipSubmission
  BY <1>5, NothingMoves, OnCurlFrame
  DEF SkipSubmission, Scanning, SendInProgress, HandsUntouched
<1>6. CASE SessionMatches
  BY <1>6, NothingMoves, OnCurlFrame
  DEF SessionMatches, ThreadMoves, SendInProgress, HandsUntouched
<1>7. CASE SendFails
  BY <1>7, NothingMoves, OnCurlFrame
  DEF SendFails, SendInProgress, HandsUntouched
<1>8. CASE EndScan
  BY <1>8, NothingMoves, OnCurlFrame
  DEF EndScan, ThreadMoves, SendInProgress, HandsUntouched
<1>9. CASE EndRound
  BY <1>9, NothingMoves, OnCurlFrame
  DEF EndRound, ThreadMoves, SendInProgress, HandsUntouched
<1>10. CASE UnlockSubmitting
  BY <1>10, NothingMoves, OnCurlFrame
  DEF UnlockSubmitting, SendInProgress, HandsUntouched
<1>11. CASE DiscardStale
  BY <1>11, DiscardStaleConserves
<1>12. CASE BeginStratum
  BY <1>12, BeginStratumConserves
<1>13. CASE BeginRpc
  BY <1>13, BeginRpcConserves
<1>14. CASE DiscardOtherSession
  BY <1>14, DiscardOtherSessionConserves
<1>15. CASE AddStratumShare
  BY <1>15, AddStratumShareConserves
<1>16. CASE SendOk \/ UndoConsumed
  BY <1>16, SendEndsConserves
<1>17. CASE SuspendAfterSend \/ SendInactive
  BY <1>17, SendFailedConserves
<1>18. CASE \E e \in stratum_shares : UndoFound(e)
  BY <1>18, UndoFoundConserves
<1>19. ASSUME NEW w \in Shares, RpcAnswered(w) \/ RpcGivenUp(w) PROVE Conserves
  BY <1>19, RpcSettlesConserves
<1>20. ASSUME NEW w \in Shares, RpcRetried(w) PROVE Conserves
  <2>1. OnCurl' = OnCurl
    BY <1>20, TransferOnce DEF RpcRetried
  <2>. QED BY <1>20, <2>1, NothingMoves DEF RpcRetried, SendInProgress, HandsUntouched
<1>21. ASSUME NEW w \in Shares, TransferReplies(w) PROVE Conserves
  <2>1. OnCurl' = OnCurl
    BY <1>21, TransferOnce DEF TransferReplies
  <2>. QED BY <1>21, <2>1, NothingMoves DEF TransferReplies, SendInProgress, HandsUntouched
<1>22. ASSUME NEW w \in Shares, TransferFails(w) PROVE Conserves
  <2>1. OnCurl' = OnCurl
    BY <1>22, TransferOnce DEF TransferFails
  <2>. QED BY <1>22, <2>1, NothingMoves DEF TransferFails, SendInProgress, HandsUntouched
<1>23. ASSUME NEW w \in Shares, SubmitWorkAsync(w) PROVE Conserves
  BY <1>23, SubmitWorkAsyncConserves
<1>24. ASSUME NEW p \in RpcPools, GetworkTakesCurl(p) PROVE Conserves
  BY <1>24, NothingMoves, OnCurlFrame DEF GetworkTakesCurl, SendInProgress, HandsUntouched
<1>25. ASSUME NEW p \in RpcPools, GetworkReturnsCurl(p) PROVE Conserves
  BY <1>25, NothingMoves, OnCurlFrame DEF GetworkReturnsCurl, SendInProgress, HandsUntouched
<1>26. ASSUME NEW p \in RpcPools, ReapCurl(p) PROVE Conserves
  BY <1>26, NothingMoves, OnCurlFrame DEF ReapCurl, SendInProgress, HandsUntouched
<1>27. ASSUME NEW p \in StratumPools, SetExtranonce(p) PROVE Conserves
  BY <1>27, NothingMoves, OnCurlFrame DEF SetExtranonce, SendInProgress, HandsUntouched
<1>28. ASSUME NEW p \in StratumPools, Notify(p) PROVE Conserves
  BY <1>28, NothingMoves, OnCurlFrame DEF Notify, SendInProgress, HandsUntouched
<1>29. ASSUME NEW p \in StratumPools, Interrupted(p) PROVE Conserves
  <2>1. HandsUntouched
    BY <1>29, HandsFree DEF Interrupted, LoseConnection
  <2>. QED BY <1>29, <2>1, NothingMoves, OnCurlFrame DEF Interrupted, LoseConnection, SendInProgress
<1>30. ASSUME NEW p \in StratumPools, Suspended(p) PROVE Conserves
  <2>1. HandsUntouched
    BY <1>30, HandsFree DEF Suspended, LoseConnection
  <2>. QED BY <1>30, <2>1, NothingMoves, OnCurlFrame DEF Suspended, LoseConnection, SendInProgress
<1>31. ASSUME NEW p \in StratumPools, LockResubmit(p) PROVE Conserves
  <2>1. HandsUntouched
    BY <1>31, HandsFree DEF LockResubmit, StratumMoves
  <2>. QED BY <1>31, <2>1, NothingMoves, OnCurlFrame DEF LockResubmit, StratumMoves, SendInProgress
<1>32. ASSUME NEW p \in StratumPools, EndResubmit(p) PROVE Conserves
  <2>1. HandsUntouched
    BY <1>32, HandsFree DEF EndResubmit, StratumMoves
  <2>. QED BY <1>32, <2>1, NothingMoves, OnCurlFrame DEF EndResubmit, StratumMoves, SendInProgress
<1>33. ASSUME NEW p \in StratumPools, LockClear(p) PROVE Conserves
  <2>1. HandsUntouched
    BY <1>33, HandsFree DEF LockClear, StratumMoves
  <2>. QED BY <1>33, <2>1, NothingMoves, OnCurlFrame DEF LockClear, StratumMoves, SendInProgress
<1>34. ASSUME NEW p \in StratumPools, EndClear(p) PROVE Conserves
  <2>1. HandsUntouched
    BY <1>34, HandsFree DEF EndClear, StratumMoves
  <2>. QED BY <1>34, <2>1, NothingMoves, OnCurlFrame DEF EndClear, StratumMoves, SendInProgress
<1>35. ASSUME NEW p \in StratumPools, BeginInitiate(p) PROVE Conserves
  <2>1. HandsUntouched
    BY <1>35, HandsFree DEF BeginInitiate
  <2>. QED BY <1>35, <2>1, NothingMoves, OnCurlFrame DEF BeginInitiate, SendInProgress
<1>36. ASSUME NEW p \in StratumPools, SubscribeOk(p) PROVE Conserves
  <2>1. HandsUntouched
    BY <1>36, HandsFree DEF SubscribeOk
  <2>. QED BY <1>36, <2>1, NothingMoves, OnCurlFrame DEF SubscribeOk, SendInProgress
<1>37. ASSUME NEW p \in StratumPools, SubscribeFails(p) PROVE Conserves
  <2>1. HandsUntouched
    BY <1>37, HandsFree DEF SubscribeFails, ConnectFailed
  <2>. QED BY <1>37, <2>1, NothingMoves, OnCurlFrame DEF SubscribeFails, ConnectFailed, SendInProgress
<1>38. ASSUME NEW p \in StratumPools, AuthOk(p) PROVE Conserves
  <2>1. HandsUntouched
    BY <1>38, HandsFree DEF AuthOk, StratumMoves
  <2>. QED BY <1>38, <2>1, NothingMoves, OnCurlFrame DEF AuthOk, StratumMoves, SendInProgress
<1>39. ASSUME NEW p \in StratumPools, AuthRefused(p) PROVE Conserves
  <2>1. HandsUntouched
    BY <1>39, HandsFree DEF AuthRefused, ConnectFailed
  <2>. QED BY <1>39, <2>1, NothingMoves, OnCurlFrame DEF AuthRefused, ConnectFailed, SendInProgress
<1>40. ASSUME NEW p \in StratumPools, AuthLost(p) PROVE Conserves
  <2>1. HandsUntouched
    BY <1>40, HandsFree DEF AuthLost, ConnectFailed
  <2>. QED BY <1>40, <2>1, NothingMoves, OnCurlFrame DEF AuthLost, ConnectFailed, SendInProgress
<1>41. ASSUME NEW p \in StratumPools, Revive(p) PROVE Conserves
  <2>1. HandsUntouched
    BY <1>41, HandsFree DEF Revive
  <2>. QED BY <1>41, <2>1, NothingMoves, OnCurlFrame DEF Revive, SendInProgress
<1>42. ASSUME NEW p \in StratumPools, SubtractCleared(p) PROVE Conserves
  BY <1>42, SubtractClearedConserves
<1>43. ASSUME NEW p \in StratumPools, NEW id \in wire[p], NEW e \in stratum_shares,
             Answer(p, id, e)
      PROVE  Conserves
  BY <1>43, AnswerConserves
<1>44. ASSUME NEW p \in StratumPools, NEW id \in wire[p], AnswerUntracked(p, id)
      PROVE  Conserves
  BY <1>44, NothingMoves, OnCurlFrame DEF AnswerUntracked, SendInProgress, HandsUntouched
<1>45. ASSUME NEW p \in StratumPools, NEW id \in wire[p], AuthDropsAnswer(p, id)
      PROVE  Conserves
  BY <1>45, NothingMoves, OnCurlFrame DEF AuthDropsAnswer, SendInProgress, HandsUntouched
<1>46. ASSUME NEW p \in StratumPools, NEW t \in taken, CountAnswer(p, t)
      PROVE  Conserves
  BY <1>46, CountAnswerConserves
<1>47. ASSUME NEW p \in StratumPools, NEW e \in stratum_shares, ResubmitOne(p, e)
      PROVE  Conserves
  BY <1>47, ResubmitOneConserves
<1>48. ASSUME NEW p \in StratumPools, NEW e \in stratum_shares, ClearOne(p, e)
      PROVE  Conserves
  BY <1>48, ClearOneConserves
<1>49. CASE UNCHANGED vars
  BY <1>49, NothingMoves, OnCurlFrame DEF vars, SendInProgress, HandsUntouched
<1>. QED
  BY <1>1, <1>2, <1>3, <1>4, <1>5, <1>6, <1>7, <1>8, <1>9, <1>10, <1>11,
     <1>12, <1>13, <1>14, <1>15, <1>16, <1>17, <1>18, <1>19, <1>20, <1>21,
     <1>22, <1>23, <1>24, <1>25, <1>26, <1>27, <1>28, <1>29, <1>30, <1>31,
     <1>32, <1>33, <1>34, <1>35, <1>36, <1>37, <1>38, <1>39, <1>40, <1>41,
     <1>42, <1>43, <1>44, <1>45, <1>46, <1>47, <1>48, <1>49
  DEF Next, SubmitThread, StratumThread, CurlPool, Transfer

\* Nothing has been found yet.
LEMMA ConservedInit == Init => ConservedInv /\ Ledger!Init
<1>. SUFFICES ASSUME Init PROVE ConservedInv /\ Ledger!Init
  OBVIOUS
<1>1. WipInv
  BY WipInit
<1>2. \A w \in Shares : /\ counted[w] = 0 /\ ~Queued(w) /\ ~Kept(w) /\ ~HasEntry(w)
                        /\ ~Answered(w) /\ w \notin OnCurl /\ w \notin found
  BY DEF Init, Queued, Kept, HasEntry, Answered, OnCurl, ToSet
<1>3. EachOnce
  BY DEF Init, EachOnce, Once, EntryOnce, AnswerOnce, TakenInHand, SentOnStratum,
         SendInProgress
<1>4. PlaceInv
  BY <1>2, <1>3 DEF Init, PlaceInv, Tracked, OnePlace, Settled
<1>5. Ledger!Init
  BY <1>2 DEF Ledger!Init, status, StatusOf
<1>. QED BY <1>1, <1>4, <1>5 DEF ConservedInv

LEMMA ConservedPreserved ==
  ConservedInv /\ [Next]_vars => ConservedInv' /\ [Ledger!Next]_status
  BY WipPreserved, StepConserves DEF ConservedInv, Conserves

\* ShareSubmission implements ShareLedger: whatever is sent, answered, undone,
\* cleared, resubmitted or retried in between, and for any number of shares and
\* pools, a share only ever moves along its life, and one that has been settled is
\* never taken up again.
THEOREM LedgerImplemented == Spec => ImplementsLedger
  BY ConservedInit, ConservedPreserved, PTL DEF Spec, ImplementsLedger, Ledger!Spec

\* A share that is on a list once occurs on it once.
LEMMA OccursOnce ==
  ASSUME NEW S, NEW s \in Seq(S), NEW outside, Once(s, outside),
         NEW w \in S, w \notin outside
  PROVE  Occurrences(w, s) = If(w \in ToSet(s))
<1>. DEFINE indices == {i \in DOMAIN s : s[i] = w}
<1>1. DOMAIN s = 1 .. Len(s) /\ ToSet(s) = {s[i] : i \in 1 .. Len(s)}
  BY ToSetProperties, LenProperties
<1>2. CASE w \in ToSet(s)
  <2>1. PICK i \in 1 .. Len(s) : s[i] = w
    BY <1>1, <1>2
  <2>2. indices = {i}
    BY <1>1, <2>1 DEF Once
  <2>. QED BY <1>2, <2>2, FS_Singleton DEF Occurrences, If
<1>3. CASE w \notin ToSet(s)
  <2>1. indices = {}
    BY <1>1, <1>3
  <2>. QED BY <1>3, <2>1, FS_EmptySet DEF Occurrences, If
<1>. QED BY <1>2, <1>3

\* A found share that is kept track of is in exactly one of the queue, the list of
\* the submit thread, the curl handles, stratum_shares and a stratum thread's hands,
\* or has been counted exactly once.
LEMMA OnePlaceIsConserved == ConservedInv => ShareConserved
<1>. SUFFICES ASSUME ConservedInv, NEW w \in Shares, w \notin leaked
              PROVE  counted[w] + Places(w) = If(w \in found)
  BY DEF ShareConserved
<1>. USE DEF ConservedInv, WipInv
<1>1. OnePlace(w) /\ EachOnce
  BY DEF PlaceInv, Tracked
<1>2. Occurrences(w, submit_waiting) = If(Queued(w))
  BY <1>1, OccursOnce DEF TypeOK, QueueType, EachOnce, Queued
<1>3. Occurrences(w, write_sws) = If(w \in ToSet(write_sws))
  BY <1>1, OccursOnce DEF TypeOK, ThreadType, EachOnce
<1>4. Sending(w) => w \in ToSet(write_sws)
  BY ToSetProperties DEF TypeOK, ThreadType, Sending, SendInProgress, Scanned
<1>5. If(w \in ToSet(write_sws)) - If(Sending(w)) = If(Kept(w))
  BY <1>4 DEF Kept, If
<1>6. Cardinality({e \in stratum_shares : e.work = w}) = If(HasEntry(w))
  <2>1. CASE HasEntry(w)
    <3>1. PICK e \in stratum_shares : e.work = w
      BY <2>1 DEF HasEntry
    <3>2. {f \in stratum_shares : f.work = w} = {e}
      BY <1>1, <3>1 DEF EachOnce, EntryOnce
    <3>. QED BY <2>1, <3>2, FS_Singleton DEF If
  <2>2. CASE ~HasEntry(w)
    <3>1. {f \in stratum_shares : f.work = w} = {}
      BY <2>2 DEF HasEntry
    <3>. QED BY <2>2, <3>1, FS_EmptySet DEF If
  <2>. QED BY <2>1, <2>2
<1>7. Cardinality({t \in taken : t.share.work = w /\ sthread[t.by] = "answered"})
        = If(Answered(w))
  <2>. DEFINE hand == {t \in taken : t.share.work = w /\ sthread[t.by] = "answered"}
  <2>1. CASE Answered(w)
    <3>1. PICK t \in hand : TRUE
      BY <2>1 DEF Answered
    <3>2. hand = {t}
      BY <1>1, <3>1 DEF EachOnce, AnswerOnce
    <3>. QED BY <2>1, <3>2, FS_Singleton DEF If
  <2>2. CASE ~Answered(w)
    <3>1. hand = {}
      BY <2>2 DEF Answered
    <3>. QED BY <2>2, <3>1, FS_EmptySet DEF If
  <2>. QED BY <2>1, <2>2
<1>8. xfer[w] # "none" <=> w \in OnCurl
  BY DEF OnCurl
<1>9. Places(w) = If(Queued(w)) + If(w \in ToSet(write_sws)) + If(w \in OnCurl)
                  + If(HasEntry(w)) + If(Answered(w)) - If(Sending(w))
  BY <1>2, <1>3, <1>6, <1>7, <1>8 DEF Places, Sending, If
<1>. QED BY <1>1, <1>5, <1>9 DEF OnePlace, Settled, If

\* No interleaving of the submit thread, the stratum threads, the transfers and the
\* mining threads loses a share or settles it twice, for any number of shares and
\* pools, except those of which an entry was left behind or undone for another's.
THEOREM ConservedCorrect == Spec => []ShareConserved
  BY ConservedInit, ConservedPreserved, OnePlaceIsConserved, PTL DEF Spec
=============================================================================
