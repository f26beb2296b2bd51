------------------------ MODULE Intelligence_proofs -------------------------
(***************************************************************************)
(* Theorems about the judgement of an analysis, about the alerts that are  *)
(* queued, and about the reports and searches over the corpus.             *)
(***************************************************************************)
EXTENDS AlertDedup, CorpusReads, FiniteOrders

----------------------------------------------------------------------------
(***************************************************************************)
(* RiskPolicy.                                                             *)
(***************************************************************************)
\* What is known of an analysis and its document.
Facts == [tier : Tiers, anchored : BOOLEAN, extracted : BOOLEAN, regional : BOOLEAN, dated : BOOLEAN]

\* One publisher is one witness, through however many of its feeds an article comes.
LEMMA OnePublisherIsOneWitness ==
  ASSUME NEW docs, docs # {}, NEW publisher,
         \A d \in docs : d.tier = "media" /\ d.publisher = publisher
  PROVE  CorroboratingSources(docs) = 1
<1> DEFINE witnesses == {EvidenceIdentity(d) : d \in docs}
<1>1. witnesses = {<<"media", publisher>>}
  BY DEF EvidenceIdentity
<1> HIDE DEF witnesses
<1>2. Cardinality(witnesses) = 1
  BY <1>1, FS_Singleton
<1>. QED BY <1>2 DEF CorroboratingSources, witnesses

LEMMA ScoreIsPercentage ==
  ASSUME NEW facts \in Facts, NEW n \in Nat
  PROVE  /\ Score(facts, n) \in 0..100
         /\ facts.tier = "media" /\ n < 2 => Score(facts, n) <= 70
BY DEF Score, Facts, Tiers

\* The score of media is held down to 70 until a second publisher or an official source bears
\* the event out, and no profile verifies below 75: whatever the analysis says, and through
\* however many feeds one publisher says it, no group is alerted of it as verified.
THEOREM OnePublisherIsNeverVerified ==
  ASSUME NEW docs, docs # {}, NEW publisher,
         \A d \in docs : d.tier = "media" /\ d.publisher = publisher,
         NEW facts \in Facts, facts.tier = "media",
         NEW type \in EventTypes, NEW level \in RiskLevels, NEW p \in Profiles
  PROVE  Assess(type, level, Score(facts, CorroboratingSources(docs)), p).qualification
           # "verified"
<1> DEFINE score == Score(facts, CorroboratingSources(docs))
           risk == Resolve(type, level).risk
<1>1. score \in Int /\ score <= 70
  <2>1. CorroboratingSources(docs) = 1
    BY OnePublisherIsOneWitness
  <2>2. Score(facts, 1) \in 0..100 /\ Score(facts, 1) <= 70
    BY ScoreIsPercentage
  <2>. QED BY <2>1, <2>2
<1>2. risk \in RiskLevels
  BY DEF Resolve, Floor, RiskLevels
<1> HIDE DEF score, risk
<1>3. Qualify(p, risk, score) # "verified"
  BY <1>1, <1>2 DEF Qualify, Profiles, RiskLevels
<1>4. Assess(type, level, score, p).qualification \in {"none", Qualify(p, risk, score)}
  BY DEF Assess, risk
<1>. QED BY <1>3, <1>4 DEF score

\* A bolder profile is told more: what one verifies the next bolder one verifies, and what the
\* boldest passes over the default one does.
THEOREM ProfilesAreNested ==
  ASSUME NEW type \in EventTypes, NEW level \in RiskLevels, NEW score \in 0..100
  PROVE  LET Of(p) == Assess(type, level, score, p).qualification
         IN /\ Of("conservative") = "verified" => Of("default") = "verified"
            /\ Of("default") = "verified" => Of("aggressive") = "verified"
            /\ Of("aggressive") = "none" => Of("default") = "none"
<1> DEFINE risk == Resolve(type, level).risk
<1>1. risk \in RiskLevels
  BY DEF Resolve, Floor, RiskLevels
<1> HIDE DEF risk
<1>2. /\ Qualify("conservative", risk, score) = "verified" => Qualify("default", risk, score) = "verified"
      /\ Qualify("default", risk, score) = "verified" => Qualify("aggressive", risk, score) = "verified"
      /\ Qualify("aggressive", risk, score) = "none" => Qualify("default", risk, score) = "none"
  BY <1>1 DEF Qualify, RiskLevels
<1>3. CASE Resolve(type, level).review
  BY <1>3 DEF Assess
<1>4. CASE ~Resolve(type, level).review
  BY <1>2, <1>4 DEF Assess, risk
<1>. QED BY <1>3, <1>4

----------------------------------------------------------------------------
(***************************************************************************)
(* AlertDedup.                                                             *)
(***************************************************************************)
AlertKinds == {"high_alert", "medium_alert_batch"}

\* Rows whose keys are among these.
AlertRows(keys) ==
  [kind : AlertKinds, key : keys, items : (SUBSET AlertItems) \ {{}}, status : AlertStatus, created : Int]

KeysOf(rs) == {rs[n].key : n \in DOMAIN rs}

\* What the key of a message says of it before it is queued again: the day's bucket, and of
\* a single alert event and content, of a batch its items or what BatchKey keeps of them.
FirstKeys(kind, items, created) ==
  IF kind = "high_alert"
  THEN {<<"alert", i.event, i.content, Bucket(created)>> : i \in items}
  ELSE {BatchKey(items, created), <<"alert-filtered", items, Bucket(created)>>}

\* Earlier rows that say the same.
Likes(rs, n) ==
  {k \in 1..(n - 1) : rs[k].kind = rs[n].kind /\ rs[k].items = rs[n].items}

\* A requeued row names an earlier row of which it is a copy.
KeyFits(rs, n) ==
  LET first == FirstKeys(rs[n].kind, rs[n].items, rs[n].created)
  IN \/ rs[n].key \in first
     \/ \E k \in Likes(rs, n) : \E base \in first : rs[n].key = <<"alert-requeue", base, k>>

\* A single alert has one item, of high risk.
SingleIsHigh(row) ==
  row.kind = "high_alert" => \E i \in row.items : row.items = {i} /\ i.risk = "high"

\* What may follow an item alerted of the same event.
Newer(j, i) ==
  \/ RiskRank[j.risk] > RiskRank[i.risk]
  \/ j.version # i.version /\ j.content # i.content

\* AlertedOnce of any rows.
OnceIn(rs) ==
  \A n \in DOMAIN rs : \A k \in 1..(n - 1) :
    /\ rs[k].status = "live" /\ rs[n].status = "live"
    /\ rs[n].created - rs[k].created < DayTicks
    => \A i \in rs[k].items, j \in rs[n].items :
         i.event = j.event => Newer(j, i)

RowsSound(rs, now) ==
  /\ rs \in Seq(AlertRows(KeysOf(rs)))
  /\ \A n \in DOMAIN rs :
       rs[n].created \in 0..now /\ SingleIsHigh(rs[n]) /\ KeyFits(rs, n)
  /\ OnceIn(rs)

Listed == {v \in Versions : analyzed[v] # -1}

AlertIInv ==
  /\ hour \in 0..MaxHour /\ profile \in Profiles
  /\ analyzed \in [Versions -> -2..MaxHour] /\ IsFiniteSet(Listed)
  /\ Len(alerts) <= MaxAlerts
  /\ RowsSound(alerts, hour)

----------------------------------------------------------------------------
(***************************************************************************)
(* What the folds of queue_alerts compute, message by message.             *)
(***************************************************************************)
\* _deduplicate_alert_messages: the accumulators of its loop.
LEMMA MessagesOneByOne ==
  ASSUME NEW S, NEW s \in Seq(S), NEW now
  PROVE  \E g : /\ g[0] = [recent |-> RecentItems(now), out |-> <<>>]
                /\ \A k \in 0..(Len(s) - 1) : g[k + 1] = AddMessage(g[k], s[k + 1], now)
                /\ Deduplicated(s, now) = g[Len(s)].out
<1> DEFINE base == [recent |-> RecentItems(now), out |-> <<>>]
           Body(f, t) == IF t = {} THEN base
                         ELSE LET x == Max(t) IN AddMessage(f[t \ {x}], s[x], now)
           IsIter(f, k) == f = [t \in SUBSET (1..k) |-> Body(f, t)]
           P == {k \in Nat : \E f : IsIter(f, k)}
           n == Len(s)
<1>1. 0 \in P
  <2> DEFINE f == [t \in SUBSET (1..0) |-> base]
  <2>1. IsIter(f, 0)
    OBVIOUS
  <2>. QED BY <2>1
<1>2. ASSUME NEW k \in Nat, k \in P PROVE k + 1 \in P
  <2>1. PICK f : IsIter(f, k)
    BY <1>2
  <2> DEFINE h == [t \in SUBSET (1..(k + 1)) |->
                     IF k + 1 \in t THEN AddMessage(f[t \ {k + 1}], s[k + 1], now) ELSE f[t]]
  <2>2. ASSUME NEW t \in SUBSET (1..(k + 1)) PROVE h[t] = Body(h, t)
    <3>1. CASE t = {}
      <4>1. t \in SUBSET (1..k) /\ k + 1 \notin t /\ h[t] = f[t] /\ f[t] = base
        BY <2>1, <3>1
      <4>. QED BY <3>1, <4>1
    <3>2. CASE t # {}
      <4>1. IsFiniteSet(t) /\ t \subseteq Int
        <5>1. IsFiniteSet(1..(k + 1)) /\ t \subseteq 1..(k + 1)
          BY FS_Interval
        <5>2. IsFiniteSet(t)
          BY <5>1, FS_Subset
        <5>. QED BY <5>2
      <4>2. Max(t) \in t /\ \A x \in t : x <= Max(t)
        BY <3>2, <4>1, MaxOK
      <4> DEFINE x == Max(t)
      <4>3. x \in t /\ \A y \in t : y <= x
        BY <4>2
      <4>4. Body(h, t) = AddMessage(h[t \ {x}], s[x], now)
        BY <3>2
      <4> HIDE DEF x
      <4>5. CASE k + 1 \in t
        <5>1. x = k + 1 /\ t \ {x} \in SUBSET (1..(k + 1)) /\ k + 1 \notin t \ {x}
          BY <4>3, <4>5
        <5>2. h[t \ {x}] = f[t \ {x}]
          BY <5>1
        <5>3. h[t] = AddMessage(f[t \ {k + 1}], s[k + 1], now)
          BY <4>5
        <5>. QED BY <4>4, <5>1, <5>2, <5>3
      <4>6. CASE k + 1 \notin t
        <5>0. ASSUME NEW y \in t PROVE y \in 1..k
          BY <4>6
        <5>1. t \in SUBSET (1..k) /\ t \ {x} \in SUBSET (1..k) /\ k + 1 \notin t \ {x}
              /\ t \ {x} \in SUBSET (1..(k + 1))
          BY <4>6, <5>0
        <5>2. h[t] = f[t] /\ h[t \ {x}] = f[t \ {x}]
          BY <4>6, <5>1
        <5>3. f[t] = Body(f, t)
          BY <2>1, <5>1
        <5>4. Body(f, t) = AddMessage(f[t \ {x}], s[x], now)
          BY <3>2 DEF x
        <5> HIDE DEF Body, h
        <5>. QED BY <4>4, <5>2, <5>3, <5>4
      <4> HIDE DEF h, Body
      <4>. QED BY <4>5, <4>6
    <3>. QED BY <3>1, <3>2
  <2>3. IsIter(h, k + 1)
    <3>1. h = [t \in SUBSET (1..(k + 1)) |-> h[t]]
      OBVIOUS
    <3> HIDE DEF h, Body
    <3>. QED BY <2>2, <3>1
  <2> HIDE DEF h, IsIter
  <2>. QED BY <2>3
<1>3. n \in Nat /\ DOMAIN s = 1..n
  OBVIOUS
<1>4. n \in P
  <2> HIDE DEF P, n
  <2>. QED BY <1>1, <1>2, <1>3, CountInduction
<1> DEFINE iter == CHOOSE f : IsIter(f, n)
           g == [k \in 0..n |-> iter[1..k]]
<1>5. IsIter(iter, n)
  <2> HIDE DEF IsIter, n
  <2>. QED BY <1>4
<1>6. Deduplicated(s, now) = iter[1..n].out
  BY <1>3 DEF Deduplicated, FoldLeft, MapThenFoldSet
<1> HIDE DEF iter, n, P
<1>7. g[0] = base
  <2>1. 1..0 = {} /\ {} \in SUBSET (1..n) /\ g[0] = iter[1..0]
    BY <1>3
  <2>. QED BY <1>5, <2>1
<1>8. ASSUME NEW k \in 0..(n - 1) PROVE g[k + 1] = AddMessage(g[k], s[k + 1], now)
  <2>1. k \in Nat /\ k + 1 \in 0..n /\ k \in 0..n /\ 1..(k + 1) \in SUBSET (1..n) /\ 1..(k + 1) # {}
    BY <1>3
  <2>2. Max(1..(k + 1)) = k + 1 /\ (1..(k + 1)) \ {k + 1} = 1..k
    BY <2>1, MaxOfInitial
  <2>3. g[k + 1] = iter[1..(k + 1)] /\ g[k] = iter[1..k]
    BY <2>1
  <2>4. iter[1..(k + 1)] = Body(iter, 1..(k + 1))
    BY <1>5, <2>1
  <2>5. Body(iter, 1..(k + 1)) = AddMessage(iter[1..k], s[k + 1], now)
    BY <2>1, <2>2
  <2> HIDE DEF Body, g
  <2>. QED BY <2>3, <2>4, <2>5
<1>9. g[n] = iter[1..n]
  BY <1>3
<1> HIDE DEF g
<1>. QED BY <1>6, <1>7, <1>8, <1>9 DEF n

\* queue_alerts: the rows before and after each message.
LEMMA RowsOneByOne ==
  ASSUME NEW S, NEW s \in Seq(S), NEW now
  PROVE  \E g : /\ g[0] = alerts
                /\ \A k \in 0..(Len(s) - 1) : g[k + 1] = AddRow(g[k], s[k + 1], now)
                /\ Inserted(s, now) = g[Len(s)]
<1> DEFINE base == alerts
           Body(f, t) == IF t = {} THEN base
                         ELSE LET x == Max(t) IN AddRow(f[t \ {x}], s[x], now)
           IsIter(f, k) == f = [t \in SUBSET (1..k) |-> Body(f, t)]
           P == {k \in Nat : \E f : IsIter(f, k)}
           n == Len(s)
<1>1. 0 \in P
  <2> DEFINE f == [t \in SUBSET (1..0) |-> base]
  <2>1. IsIter(f, 0)
    OBVIOUS
  <2>. QED BY <2>1
<1>2. ASSUME NEW k \in Nat, k \in P PROVE k + 1 \in P
  <2>1. PICK f : IsIter(f, k)
    BY <1>2
  <2> DEFINE h == [t \in SUBSET (1..(k + 1)) |->
                     IF k + 1 \in t THEN AddRow(f[t \ {k + 1}], s[k + 1], now) ELSE f[t]]
  <2>2. ASSUME NEW t \in SUBSET (1..(k + 1)) PROVE h[t] = Body(h, t)
    <3>1. CASE t = {}
      <4>1. t \in SUBSET (1..k) /\ k + 1 \notin t /\ h[t] = f[t] /\ f[t] = base
        BY <2>1, <3>1
      <4>. QED BY <3>1, <4>1
    <3>2. CASE t # {}
      <4>1. IsFiniteSet(t) /\ t \subseteq Int
        <5>1. IsFiniteSet(1..(k + 1)) /\ t \subseteq 1..(k + 1)
          BY FS_Interval
        <5>2. IsFiniteSet(t)
          BY <5>1, FS_Subset
        <5>. QED BY <5>2
      <4>2. Max(t) \in t /\ \A x \in t : x <= Max(t)
        BY <3>2, <4>1, MaxOK
      <4> DEFINE x == Max(t)
      <4>3. x \in t /\ \A y \in t : y <= x
        BY <4>2
      <4>4. Body(h, t) = AddRow(h[t \ {x}], s[x], now)
        BY <3>2
      <4> HIDE DEF x
      <4>5. CASE k + 1 \in t
        <5>1. x = k + 1 /\ t \ {x} \in SUBSET (1..(k + 1)) /\ k + 1 \notin t \ {x}
          BY <4>3, <4>5
        <5>2. h[t \ {x}] = f[t \ {x}]
          BY <5>1
        <5>3. h[t] = AddRow(f[t \ {k + 1}], s[k + 1], now)
          BY <4>5
        <5>. QED BY <4>4, <5>1, <5>2, <5>3
      <4>6. CASE k + 1 \notin t
        <5>0. ASSUME NEW y \in t PROVE y \in 1..k
          BY <4>6
        <5>1. t \in SUBSET (1..k) /\ t \ {x} \in SUBSET (1..k) /\ k + 1 \notin t \ {x}
              /\ t \ {x} \in SUBSET (1..(k + 1))
          BY <4>6, <5>0
        <5>2. h[t] = f[t] /\ h[t \ {x}] = f[t \ {x}]
          BY <4>6, <5>1
        <5>3. f[t] = Body(f, t)
          BY <2>1, <5>1
        <5>4. Body(f, t) = AddRow(f[t \ {x}], s[x], now)
          BY <3>2 DEF x
        <5> HIDE DEF Body, h
        <5>. QED BY <4>4, <5>2, <5>3, <5>4
      <4> HIDE DEF h, Body
      <4>. QED BY <4>5, <4>6
    <3>. QED BY <3>1, <3>2
  <2>3. IsIter(h, k + 1)
    <3>1. h = [t \in SUBSET (1..(k + 1)) |-> h[t]]
      OBVIOUS
    <3> HIDE DEF h, Body
    <3>. QED BY <2>2, <3>1
  <2> HIDE DEF h, IsIter
  <2>. QED BY <2>3
<1>3. n \in Nat /\ DOMAIN s = 1..n
  OBVIOUS
<1>4. n \in P
  <2> HIDE DEF P, n
  <2>. QED BY <1>1, <1>2, <1>3, CountInduction
<1> DEFINE iter == CHOOSE f : IsIter(f, n)
           g == [k \in 0..n |-> iter[1..k]]
<1>5. IsIter(iter, n)
  <2> HIDE DEF IsIter, n
  <2>. QED BY <1>4
<1>6. Inserted(s, now) = iter[1..n]
  BY <1>3 DEF Inserted, FoldLeft, MapThenFoldSet
<1> HIDE DEF iter, n, P
<1>7. g[0] = base
  <2>1. 1..0 = {} /\ {} \in SUBSET (1..n) /\ g[0] = iter[1..0]
    BY <1>3
  <2>. QED BY <1>5, <2>1
<1>8. ASSUME NEW k \in 0..(n - 1) PROVE g[k + 1] = AddRow(g[k], s[k + 1], now)
  <2>1. k \in Nat /\ k + 1 \in 0..n /\ k \in 0..n /\ 1..(k + 1) \in SUBSET (1..n) /\ 1..(k + 1) # {}
    BY <1>3
  <2>2. Max(1..(k + 1)) = k + 1 /\ (1..(k + 1)) \ {k + 1} = 1..k
    BY <2>1, MaxOfInitial
  <2>3. g[k + 1] = iter[1..(k + 1)] /\ g[k] = iter[1..k]
    BY <2>1
  <2>4. iter[1..(k + 1)] = Body(iter, 1..(k + 1))
    BY <1>5, <2>1
  <2>5. Body(iter, 1..(k + 1)) = AddRow(iter[1..k], s[k + 1], now)
    BY <2>1, <2>2
  <2> HIDE DEF Body, g
  <2>. QED BY <2>3, <2>4, <2>5
<1>9. g[n] = iter[1..n]
  BY <1>3
<1> HIDE DEF g
<1>. QED BY <1>6, <1>7, <1>8, <1>9 DEF n
----------------------------------------------------------------------------
(***************************************************************************)
(* Items and messages.                                                     *)
(***************************************************************************)
LEMMA RanksAreNumbers == \A r \in RiskLevels : RiskRank[r] \in Int
<1>1. RiskRank["low"] = 0 /\ RiskRank["medium"] = 1 /\ RiskRank["high"] = 2
  BY DEF RiskRank, RiskLevels
<1>. QED BY <1>1 DEF RiskLevels

LEMMA AllowedMeans ==
  ASSUME NEW j, NEW recent, Allowed(j, recent), NEW i \in recent, i.event = j.event
  PROVE  Newer(j, i)
<1> DEFINE matching == {k \in recent : k.event = j.event}
<1>1. i \in matching
  OBVIOUS
<1>2. \/ \A k \in matching : RiskRank[j.risk] > RiskRank[k.risk]
      \/ \A k \in matching : j.version # k.version /\ j.content # k.content
  BY DEF Allowed
<1> HIDE DEF matching
<1>. QED BY <1>1, <1>2 DEF Newer

LEMMA AllowedAmongFewer ==
  ASSUME NEW j, NEW recent, NEW fewer \in SUBSET recent, Allowed(j, recent)
  PROVE  Allowed(j, fewer)
BY DEF Allowed

LEMMA NotTwice ==
  ASSUME NEW i, NEW recent, i \in recent, i.risk \in RiskLevels
  PROVE  ~Allowed(i, recent)
BY RanksAreNumbers DEF Allowed

LEMMA SameBucketIsNear ==
  ASSUME NEW t \in Nat, NEW u \in Nat, Bucket(t) = Bucket(u)
  PROVE  t - u < DayTicks
<1>1. DayTicks \in Nat \ {0}
  BY AlertsAssumption
<1>2. t = DayTicks * (t \div DayTicks) + (t % DayTicks) /\ t % DayTicks \in 0..(DayTicks - 1)
  BY <1>1
<1>3. u = DayTicks * (u \div DayTicks) + (u % DayTicks) /\ u % DayTicks \in 0..(DayTicks - 1)
  BY <1>1
<1>. QED BY <1>1, <1>2, <1>3 DEF Bucket

LEMMA ItemsOfVersions ==
  ASSUME NEW v \in Versions, NEW p
  PROVE  /\ AlertItem(v, p) \in AlertItems /\ AlertItem(v, p).version = v
         /\ AlertItem(v, p).risk = Decision(v, p).risk
         /\ AlertItem(v, p).content = Analysis[v].content
<1>1. Decision(v, p).risk \in RiskLevels
  BY AlertsAssumption DEF Decision, Assess, Resolve, Floor, RiskLevels
<1>. QED BY <1>1 DEF AlertItem, AlertItems

\* Messages before and after deduplication.
Composed(vs, p, now) ==
  {HighAlert(v, p, now) : v \in {u \in vs : Decision(u, p).risk = "high"}}
    \cup {MediumBatch(us, p, now) : us \in (SUBSET vs) \ {{}}}

Filtered(vs, p, now) ==
  UNION {{WithItems(m, kept, now) : kept \in (SUBSET m.items) \ {{}}} : m \in Composed(vs, p, now)}

MessageFits(m, vs, p, now) ==
  /\ m.kind \in AlertKinds /\ m.items # {} /\ m.items \subseteq {AlertItem(v, p) : v \in vs}
  /\ m.key \in FirstKeys(m.kind, m.items, now) /\ SingleIsHigh(m)

LEMMA KeptItems ==
  ASSUME NEW vs, NEW p, NEW now, NEW m \in Composed(vs, p, now), NEW kept \in SUBSET m.items
  PROVE  WithItems(m, kept, now).items = kept
BY DEF Composed, WithItems, HighAlert, MediumBatch

LEMMA MessagesFit ==
  ASSUME NEW vs, NEW p, NEW now, NEW m \in Filtered(vs, p, now)
  PROVE  MessageFits(m, vs, p, now)
<1>1. PICK c \in Composed(vs, p, now) : \E kept \in (SUBSET c.items) \ {{}} : m = WithItems(c, kept, now)
  BY DEF Filtered
<1>2. PICK kept \in (SUBSET c.items) \ {{}} : m = WithItems(c, kept, now)
  BY <1>1
<1>3. CASE \E v \in vs : Decision(v, p).risk = "high" /\ c = HighAlert(v, p, now)
  <2>1. PICK v \in vs : Decision(v, p).risk = "high" /\ c = HighAlert(v, p, now)
    BY <1>3
  <2>2. c.items = {AlertItem(v, p)} /\ AlertItem(v, p).risk = "high"
        /\ AlertItem(v, p).event = Analysis[v].event /\ AlertItem(v, p).content = Analysis[v].content
    BY <2>1 DEF HighAlert, AlertItem
  <2>3. kept = c.items
    BY <2>2
  <2>4. m = c
    BY <1>2, <2>3 DEF WithItems
  <2>5. m.kind = "high_alert" /\ m.key = <<"alert", Analysis[v].event, Analysis[v].content, Bucket(now)>>
    BY <2>1, <2>4 DEF HighAlert
  <2>. QED BY <2>2, <2>4, <2>5 DEF MessageFits, FirstKeys, SingleIsHigh, AlertKinds
<1>4. CASE \E us \in (SUBSET vs) \ {{}} : c = MediumBatch(us, p, now)
  <2>1. PICK us \in (SUBSET vs) \ {{}} : c = MediumBatch(us, p, now)
    BY <1>4
  <2> DEFINE all == {AlertItem(v, p) : v \in us}
  <2>2. c = [kind |-> "medium_alert_batch", key |-> BatchKey(all, now), items |-> all]
    BY <2>1 DEF MediumBatch
  <2>3. all \subseteq {AlertItem(v, p) : v \in vs} /\ all # {}
    BY <2>1
  <2> HIDE DEF all
  <2>4. m.kind = "medium_alert_batch" /\ m.items = kept
        /\ m.key \in {BatchKey(kept, now), <<"alert-filtered", kept, Bucket(now)>>}
    BY <1>2, <2>2 DEF WithItems
  <2>. QED BY <2>2, <2>3, <2>4 DEF MessageFits, FirstKeys, SingleIsHigh, AlertKinds
<1>. QED BY <1>1, <1>3, <1>4 DEF Composed

LEMMA CandidatesInOrder ==
  ASSUME AlertIInv, NEW vs \in SUBSET Candidates
  PROVE  /\ ByAnalysis(vs) \in Seq(vs)
         /\ \A v \in vs : \E n \in DOMAIN ByAnalysis(vs) : ByAnalysis(vs)[n] = v
<1> DEFINE R == {r \in vs \X vs : \/ analyzed[r[1]] < analyzed[r[2]]
                                  \/ analyzed[r[1]] = analyzed[r[2]] /\ r[1] < r[2]}
           before(u, v) == analyzed[u] < analyzed[v] \/ (analyzed[u] = analyzed[v] /\ u < v)
           Sorted(s) == \A i, j \in DOMAIN s : i < j => before(s[i], s[j])
<1>1. vs \subseteq Versions /\ vs \subseteq Nat /\ \A v \in vs : analyzed[v] \in Int
  BY AlertsAssumption DEF AlertIInv, Candidates
<1>2. IsFiniteSet(vs)
  <2>1. vs \subseteq Listed
    BY DEF Candidates, Listed, Unlisted
  <2>. QED BY <2>1, FS_Subset DEF AlertIInv
<1>3. Orders(R, vs)
  BY <1>1 DEF Orders
<1>4. \A u, v \in vs : <<u, v>> \in R => before(u, v)
  OBVIOUS
<1> HIDE DEF R, before
<1>5. PICK s : InOrderOf(s, vs, R)
  BY <1>2, <1>3, OrderExists
<1>6. s \in SetToSeqs(vs) /\ DOMAIN s = 1..Cardinality(vs) /\ \A i \in DOMAIN s : s[i] \in vs
  BY <1>5 DEF InOrderOf, SetToSeqs
<1>7. Sorted(s)
  BY <1>4, <1>5, <1>6 DEF InOrderOf
<1>8. ByAnalysis(vs) = CHOOSE t \in SetToSeqs(vs) : Sorted(t)
  BY DEF ByAnalysis, before
<1> HIDE DEF Sorted
<1>9. ByAnalysis(vs) \in SetToSeqs(vs)
  BY <1>6, <1>7, <1>8
<1>10. IsFiniteSet(vs) /\ ByAnalysis(vs) \in SetToSeqs(vs)
  BY <1>2, <1>9
<1> DEFINE t == ByAnalysis(vs)
<1>11. t \in Seq(vs) /\ t \in [1..Cardinality(vs) -> vs] /\ \A v \in vs : \E i \in 1..Cardinality(vs) : t[i] = v
  <2> HIDE DEF t
  <2>. QED BY <1>2, <1>9, ListedOnce DEF t
<1> HIDE DEF t
<1>12. DOMAIN t = 1..Cardinality(vs)
  BY <1>11
<1>. QED BY <1>11, <1>12 DEF t

LEMMA MessagesComposed ==
  ASSUME AlertIInv
  PROVE  LET ms == Messages(Candidates, profile, hour)
         IN /\ ms \in Seq(Composed(Candidates, profile, hour))
            /\ \A v \in Alertable(Candidates, profile) :
                 \E n \in DOMAIN ms : AlertItem(v, profile) \in ms[n].items
<1> DEFINE vs == Candidates
           C == Composed(vs, profile, hour)
           eligible == Alertable(vs, profile)
           verified == {v \in eligible : Decision(v, profile).risk = "high"
                                           /\ Decision(v, profile).qualification = "verified"}
           orange == eligible \ verified
           highs == ByAnalysis(verified)
           first == [n \in DOMAIN highs |-> HighAlert(highs[n], profile, hour)]
           batch == IF orange = {} THEN <<>> ELSE <<MediumBatch(orange, profile, hour)>>
           ms == Messages(vs, profile, hour)
<1>1. ms = first \o batch
  BY DEF Messages
<1>2. eligible \subseteq vs /\ verified \subseteq vs /\ orange \subseteq vs
      /\ eligible = verified \cup orange /\ \A v \in verified : Decision(v, profile).risk = "high"
  BY DEF Alertable
<1>3. highs \in Seq(verified) /\ \A v \in verified : \E n \in DOMAIN highs : highs[n] = v
  <2> HIDE DEF verified, vs
  <2>. QED BY <1>2, CandidatesInOrder DEF vs
<1>4. \A v \in verified : HighAlert(v, profile, hour) \in C
  BY <1>2 DEF Composed
<1>5. orange # {} => MediumBatch(orange, profile, hour) \in C
  BY <1>2 DEF Composed
<1> HIDE DEF vs, C, ms, eligible, verified, orange, highs
<1>6. first \in Seq(C) /\ DOMAIN first = DOMAIN highs
  <2>1. Len(highs) \in Nat /\ DOMAIN highs = 1..Len(highs) /\ \A n \in 1..Len(highs) : highs[n] \in verified
    BY <1>3
  <2>2. first \in [1..Len(highs) -> C]
    BY <1>4, <2>1
  <2> HIDE DEF first
  <2>. QED BY <2>1, <2>2
<1>7. batch \in Seq(C)
  BY <1>5
<1>8. ms \in Seq(C)
  <2> HIDE DEF first, batch
  <2>. QED BY <1>1, <1>6, <1>7
<1>9. ASSUME NEW v \in eligible PROVE \E n \in DOMAIN ms : AlertItem(v, profile) \in ms[n].items
  <2>1. CASE v \in verified
    <3>1. PICK n \in DOMAIN highs : highs[n] = v
      BY <1>3, <2>1
    <3>2. first[n] = HighAlert(v, profile, hour)
      BY <3>1
    <3> HIDE DEF first, batch
    <3>3. n \in DOMAIN ms /\ ms[n] = first[n]
      BY <1>1, <1>6, <1>7, <3>1
    <3>. QED BY <3>2, <3>3 DEF HighAlert
  <2>2. CASE v \in orange
    <3>1. batch = <<MediumBatch(orange, profile, hour)>>
      BY <2>2
    <3> HIDE DEF first, batch
    <3>2. Len(first) + 1 \in DOMAIN ms /\ ms[Len(first) + 1] = MediumBatch(orange, profile, hour)
      BY <1>1, <1>6, <1>7, <3>1
    <3>3. AlertItem(v, profile) \in MediumBatch(orange, profile, hour).items
      BY <2>2 DEF MediumBatch
    <3>. QED BY <3>2, <3>3
  <2>. QED BY <1>2, <2>1, <2>2
<1>. QED BY <1>8, <1>9 DEF ms, vs, C, eligible

Said(messages) == UNION {messages[n].items : n \in DOMAIN messages}

\* After deduplication no item repeats a recent row or an earlier message, and none of the
\* items composed has anything to add to both.
LEMMA DeduplicatedOK ==
  ASSUME NEW vs \in SUBSET Versions, NEW p, NEW now, NEW ms \in Seq(Composed(vs, p, now))
  PROVE  LET out == Deduplicated(ms, now)
         IN /\ out \in Seq(Filtered(vs, p, now))
            /\ \A o \in DOMAIN out : \A i \in out[o].items :
                 Allowed(i, RecentItems(now)) /\ \A q \in 1..(o - 1) : Allowed(i, out[q].items)
            /\ \A n \in DOMAIN ms : \A i \in ms[n].items : ~Allowed(i, RecentItems(now) \cup Said(out))
<1> DEFINE recent == RecentItems(now)
           Apart(out) == \A o \in DOMAIN out : \A i \in out[o].items :
                           Allowed(i, recent) /\ \A q \in 1..(o - 1) : Allowed(i, out[q].items)
           Heard(k, all) == \A n \in 1..k : \A i \in ms[n].items : ~Allowed(i, all)
           Inv(acc, k) == /\ acc.out \in Seq(Filtered(vs, p, now)) /\ Apart(acc.out)
                          /\ acc.recent = recent \cup Said(acc.out) /\ Heard(k, acc.recent)
<1>1. PICK g : /\ g[0] = [recent |-> RecentItems(now), out |-> <<>>]
               /\ \A k \in 0..(Len(ms) - 1) : g[k + 1] = AddMessage(g[k], ms[k + 1], now)
               /\ Deduplicated(ms, now) = g[Len(ms)].out
  BY MessagesOneByOne
<1>2. Len(ms) \in Nat /\ DOMAIN ms = 1..Len(ms) /\ \A n \in 1..Len(ms) : ms[n] \in Composed(vs, p, now)
  OBVIOUS
<1>3. Inv(g[0], 0)
  <2>1. g[0].recent = recent /\ g[0].out = <<>>
    BY <1>1
  <2>2. Said(<<>>) = {}
    BY DEF Said
  <2> HIDE DEF recent
  <2>. QED BY <2>1, <2>2
<1>4. ASSUME NEW m \in Composed(vs, p, now), NEW i \in m.items PROVE i.risk \in RiskLevels
  <2>1. \E v \in vs : i = AlertItem(v, p)
    <3>1. CASE \E v \in vs : m = HighAlert(v, p, now)
      BY <1>4, <3>1 DEF HighAlert
    <3>2. CASE \E us \in SUBSET vs : m = MediumBatch(us, p, now)
      BY <1>4, <3>2 DEF MediumBatch
    <3>. QED BY <3>1, <3>2 DEF Composed
  <2>. QED BY <2>1, ItemsOfVersions DEF AlertItems
<1>5. ASSUME NEW k \in 0..(Len(ms) - 1), Inv(g[k], k) PROVE Inv(g[k + 1], k + 1)
  <2> DEFINE acc == g[k]
             m == ms[k + 1]
             kept == {i \in m.items : Allowed(i, acc.recent)}
             w == WithItems(m, kept, now)
  <2>1. k + 1 \in 1..Len(ms) /\ m \in Composed(vs, p, now)
    BY <1>2
  <2>2. g[k + 1] = AddMessage(acc, m, now)
    BY <1>1
  <2>3. Inv(acc, k)
    BY <1>5
  <2> HIDE DEF acc, m, Apart
  <2>4. CASE kept = {}
    <3>1. g[k + 1] = acc
      BY <2>2, <2>4 DEF AddMessage
    <3>2. Heard(k + 1, acc.recent)
      <4> SUFFICES ASSUME NEW n \in 1..(k + 1), NEW i \in ms[n].items PROVE ~Allowed(i, acc.recent)
        OBVIOUS
      <4>1. CASE n \in 1..k
        BY <2>3, <4>1
      <4>2. CASE n = k + 1
        BY <2>4, <4>2 DEF m
      <4>. QED BY <4>1, <4>2
    <3>. QED BY <2>3, <3>1, <3>2
  <2>5. CASE kept # {}
    <3>1. g[k + 1] = [recent |-> acc.recent \cup kept, out |-> Append(acc.out, w)]
      BY <2>2, <2>5 DEF AddMessage
    <3>2. kept \in (SUBSET m.items) \ {{}} /\ \A i \in kept : Allowed(i, acc.recent)
      BY <2>5
    <3>3. w \in Filtered(vs, p, now) /\ w.items = kept
      <4> HIDE DEF kept
      <4>1. w.items = kept
        BY <2>1, <3>2, KeptItems
      <4>. QED BY <2>1, <3>2, <4>1 DEF Filtered
    <3> DEFINE out == acc.out
               new == Append(out, w)
    <3>4. out \in Seq(Filtered(vs, p, now)) /\ Apart(out) /\ acc.recent = recent \cup Said(out)
          /\ Heard(k, acc.recent)
      BY <2>3
    <3> HIDE DEF kept, w, out
    <3>5. new \in Seq(Filtered(vs, p, now)) /\ Len(new) = Len(out) + 1 /\ DOMAIN new = 1..(Len(out) + 1)
          /\ DOMAIN out = 1..Len(out) /\ Len(out) \in Nat
          /\ new[Len(out) + 1] = w /\ \A o \in 1..Len(out) : new[o] = out[o]
      BY <3>3, <3>4
    <3> HIDE DEF new
    <3>6. Said(new) = Said(out) \cup kept
      <4>1. Said(new) \subseteq Said(out) \cup kept
        BY <3>3, <3>5 DEF Said
      <4>2. ASSUME NEW o \in DOMAIN out, NEW i \in out[o].items PROVE i \in Said(new)
        <5>1. o \in DOMAIN new /\ new[o].items = out[o].items
          BY <3>5
        <5>. QED BY <4>2, <5>1 DEF Said
      <4>3. kept \subseteq Said(new)
        <5>1. Len(out) + 1 \in DOMAIN new /\ new[Len(out) + 1].items = kept
          BY <3>3, <3>5
        <5>. QED BY <5>1 DEF Said
      <4>. QED BY <4>1, <4>2, <4>3 DEF Said
    <3>7. Apart(new)
      <4> SUFFICES ASSUME NEW o \in DOMAIN new, NEW i \in new[o].items
                   PROVE  Allowed(i, recent) /\ \A q \in 1..(o - 1) : Allowed(i, new[q].items)
        BY DEF Apart
      <4>1. CASE o \in 1..Len(out)
        <5>1. new[o] = out[o] /\ \A q \in 1..(o - 1) : new[q] = out[q]
          BY <3>5, <4>1
        <5>2. o \in DOMAIN out
          BY <3>5, <4>1
        <5>. QED BY <3>4, <5>1, <5>2 DEF Apart
      <4>2. CASE o = Len(out) + 1
        <5>1. i \in kept /\ Allowed(i, recent \cup Said(out))
          BY <3>2, <3>3, <3>4, <3>5, <4>2
        <5>2. Allowed(i, recent)
          BY <5>1, AllowedAmongFewer
        <5>3. ASSUME NEW q \in 1..(o - 1) PROVE Allowed(i, new[q].items)
          <6>1. q \in DOMAIN out /\ new[q] = out[q]
            BY <3>5, <4>2
          <6>2. out[q].items \in SUBSET (recent \cup Said(out))
            BY <6>1 DEF Said
          <6>. QED BY <5>1, <6>1, <6>2, AllowedAmongFewer
        <5>. QED BY <5>2, <5>3
      <4>. QED BY <3>5, <4>1, <4>2
    <3>8. Heard(k + 1, acc.recent \cup kept)
      <4> SUFFICES ASSUME NEW n \in 1..(k + 1), NEW i \in ms[n].items, Allowed(i, acc.recent \cup kept)
                   PROVE  FALSE
        OBVIOUS
      <4>1. Allowed(i, acc.recent)
        BY AllowedAmongFewer
      <4>2. n = k + 1
        BY <3>4, <4>1
      <4>3. i \in kept /\ i.risk \in RiskLevels
        BY <1>4, <2>1, <4>1, <4>2 DEF kept, m
      <4>. QED BY <4>3, NotTwice
    <3>9. g[k + 1].out = new /\ g[k + 1].recent = acc.recent \cup kept
      BY <3>1 DEF new, out
    <3>. QED BY <3>4, <3>5, <3>6, <3>7, <3>8, <3>9
  <2>. QED BY <2>4, <2>5
<1> DEFINE Q == {k \in Nat : k <= Len(ms) => Inv(g[k], k)}
<1>6. Nat \subseteq Q
  <2>1. 0 \in Q
    BY <1>3
  <2> HIDE DEF Inv
  <2>2. ASSUME NEW k \in Nat, k \in Q PROVE k + 1 \in Q
    BY <1>2, <1>5, <2>2
  <2> HIDE DEF Q
  <2>. QED BY <2>1, <2>2, CountInduction
<1>7. Inv(g[Len(ms)], Len(ms))
  <2> HIDE DEF Inv
  <2>. QED BY <1>2, <1>6
<1>. QED BY <1>1, <1>2, <1>7

----------------------------------------------------------------------------
(***************************************************************************)
(* Keys and rs.                                                          *)
(***************************************************************************)
SameStory(i, j) == i.event = j.event /\ i.risk = j.risk /\ i.content = j.content

LEMMA NoFirstKeyIsRequeued ==
  ASSUME NEW kind, NEW items, NEW t, NEW key \in FirstKeys(kind, items, t), NEW base, NEW k
  PROVE  key # <<"alert-requeue", base, k>>
BY DEF FirstKeys, BatchKey

\* Messages with one first key are of one kind and one bucket and tell the same stories.
LEMMA SameFirstKey ==
  ASSUME NEW x, NEW y, x.kind \in AlertKinds, y.kind \in AlertKinds, SingleIsHigh(x), SingleIsHigh(y),
         NEW t, NEW u, NEW key, key \in FirstKeys(x.kind, x.items, t), key \in FirstKeys(y.kind, y.items, u)
  PROVE  /\ x.kind = y.kind /\ Bucket(t) = Bucket(u)
         /\ \A i \in x.items : \E j \in y.items : SameStory(i, j)
         /\ \A j \in y.items : \E i \in x.items : SameStory(i, j)
<1>1. CASE x.kind = "high_alert"
  <2>1. PICK i \in x.items : key = <<"alert", i.event, i.content, Bucket(t)>>
    BY <1>1 DEF FirstKeys
  <2>2. y.kind = "high_alert"
    BY <2>1 DEF FirstKeys, BatchKey
  <2>3. PICK j \in y.items : key = <<"alert", j.event, j.content, Bucket(u)>>
    BY <2>2 DEF FirstKeys
  <2>4. x.items = {i} /\ y.items = {j} /\ i.risk = "high" /\ j.risk = "high"
    BY <1>1, <2>2 DEF SingleIsHigh
  <2>5. i.event = j.event /\ i.content = j.content /\ Bucket(t) = Bucket(u)
    BY <2>1, <2>3
  <2>. QED BY <1>1, <2>2, <2>4, <2>5 DEF SameStory
<1>2. CASE x.kind = "medium_alert_batch"
  <2>1. y.kind = "medium_alert_batch"
    BY <1>2 DEF FirstKeys, BatchKey, AlertKinds
  <2>2. CASE key = BatchKey(x.items, t)
    <3>1. key = BatchKey(y.items, u)
      BY <2>1, <2>2 DEF FirstKeys, BatchKey
    <3> DEFINE Stories(items) == {<<i.event, i.risk, i.content>> : i \in items}
    <3>2. Stories(x.items) = Stories(y.items) /\ Bucket(t) = Bucket(u)
      BY <2>2, <3>1 DEF BatchKey
    <3>3. ASSUME NEW i \in x.items PROVE \E j \in y.items : SameStory(i, j)
      <4>1. <<i.event, i.risk, i.content>> \in Stories(y.items)
        BY <3>2
      <4>. QED BY <4>1 DEF SameStory
    <3>4. ASSUME NEW j \in y.items PROVE \E i \in x.items : SameStory(i, j)
      <4>1. <<j.event, j.risk, j.content>> \in Stories(x.items)
        BY <3>2
      <4>. QED BY <4>1 DEF SameStory
    <3>. QED BY <1>2, <2>1, <3>2, <3>3, <3>4
  <2>3. CASE key = <<"alert-filtered", x.items, Bucket(t)>>
    <3>1. key = <<"alert-filtered", y.items, Bucket(u)>>
      BY <2>1, <2>3 DEF FirstKeys, BatchKey
    <3>2. x.items = y.items /\ Bucket(t) = Bucket(u)
      BY <2>3, <3>1
    <3>. QED BY <1>2, <2>1, <3>2 DEF SameStory
  <2>. QED BY <1>2, <2>2, <2>3 DEF FirstKeys
<1>. QED BY <1>1, <1>2 DEF AlertKinds

Lost(m, rs) ==
  {n \in DOMAIN rs : rs[n].kind = m.kind /\ rs[n].status = "lost" /\ rs[n].items = m.items}

LEMMA NextKeyMeans ==
  ASSUME NEW m, NEW R, NEW rs \in Seq(R)
  PROVE  \/ Lost(m, rs) = {} /\ NextKey(m, rs) = m.key
         \/ \E k \in Lost(m, rs) : /\ \A n \in Lost(m, rs) : n <= k
                                     /\ NextKey(m, rs) = <<"alert-requeue", m.key, k>>
<1> DEFINE lost == Lost(m, rs)
<1>1. NextKey(m, rs) = IF lost = {} THEN m.key
                         ELSE <<"alert-requeue", m.key, CHOOSE n \in lost : \A k \in lost : k <= n>>
  BY DEF NextKey, Lost
<1>2. lost \subseteq 1..Len(rs) /\ Len(rs) \in Nat
  BY DEF Lost
<1>3. IsFiniteSet(lost) /\ lost \subseteq Int
  <2>1. IsFiniteSet(1..Len(rs))
    BY <1>2, FS_Interval
  <2>2. IsFiniteSet(lost)
    BY <1>2, <2>1, FS_Subset
  <2>. QED BY <1>2, <2>2
<1> HIDE DEF lost
<1>4. CASE lost # {}
  <2>1. Max(lost) \in lost /\ \A x \in lost : x <= Max(lost)
    BY <1>3, <1>4, MaxOK
  <2> DEFINE last == CHOOSE n \in lost : \A k \in lost : k <= n
  <2>2. last \in lost /\ \A k \in lost : k <= last
    BY <2>1
  <2> HIDE DEF last
  <2>3. NextKey(m, rs) = <<"alert-requeue", m.key, last>>
    BY <1>1, <1>4 DEF last
  <2>. QED BY <2>2, <2>3 DEF lost
<1>. QED BY <1>1, <1>4 DEF lost

\* A message as AddRow gets it.
RowFits(m, rs, now) ==
  /\ m.kind \in AlertKinds /\ m.items \in (SUBSET AlertItems) \ {{}}
  /\ m.key \in FirstKeys(m.kind, m.items, now) /\ SingleIsHigh(m)
  /\ \A n \in DOMAIN rs :
       rs[n].status = "live" /\ now - rs[n].created < DayTicks =>
         \A j \in m.items : Allowed(j, rs[n].items)

LEMMA RowAdded ==
  ASSUME NEW now \in Nat, NEW rs, RowsSound(rs, now), NEW m, RowFits(m, rs, now)
  PROVE  RowsSound(AddRow(rs, m, now), now)
<1> DEFINE key == NextKey(m, rs)
           row == [kind |-> m.kind, key |-> key, items |-> m.items, status |-> "live", created |-> now]
           new == Append(rs, row)
<1>1. CASE \E n \in DOMAIN rs : rs[n].key = key
  <2>1. AddRow(rs, m, now) = rs
    BY <1>1 DEF AddRow
  <2>. QED BY <2>1
<1>2. CASE ~\E n \in DOMAIN rs : rs[n].key = key
  <2>1. AddRow(rs, m, now) = new
    BY <1>2 DEF AddRow
  <2>2. row \in AlertRows({key}) /\ row.kind = m.kind /\ row.key = key /\ row.items = m.items
        /\ row.status = "live" /\ row.created = now
    BY DEF AlertRows, AlertStatus, RowFits
  <2>3. rs \in Seq(AlertRows(KeysOf(rs)))
    BY DEF RowsSound
  <2>4. \/ Lost(m, rs) = {} /\ key = m.key
        \/ \E k \in Lost(m, rs) : key = <<"alert-requeue", m.key, k>>
    BY <2>3, NextKeyMeans
  <2> HIDE DEF key, row
  <2>5. /\ Len(rs) \in Nat /\ DOMAIN rs = 1..Len(rs)
        /\ Len(new) = Len(rs) + 1 /\ DOMAIN new = 1..(Len(rs) + 1)
        /\ new[Len(rs) + 1] = row /\ \A n \in 1..Len(rs) : new[n] = rs[n]
    BY <2>2, <2>3
  <2>6. \A n \in 1..Len(rs) : rs[n] \in AlertRows(KeysOf(rs))
    BY <2>3
  <2> HIDE DEF new
  <2>7. KeysOf(rs) \subseteq KeysOf(new) /\ key \in KeysOf(new)
    <3>1. ASSUME NEW n \in DOMAIN rs PROVE rs[n].key \in KeysOf(new)
      <4>1. n \in DOMAIN new /\ new[n].key = rs[n].key
        BY <2>5
      <4>. QED BY <4>1 DEF KeysOf
    <3>2. Len(rs) + 1 \in DOMAIN new /\ new[Len(rs) + 1].key = key
      BY <2>2, <2>5
    <3>3. key \in KeysOf(new)
      BY <3>2 DEF KeysOf
    <3>. QED BY <3>1, <3>3 DEF KeysOf
  <2>8. AlertRows(KeysOf(rs)) \subseteq AlertRows(KeysOf(new)) /\ row \in AlertRows(KeysOf(new))
    BY <2>2, <2>7 DEF AlertRows
  <2>9. new \in Seq(AlertRows(KeysOf(new)))
    <3>1. rs \in Seq(AlertRows(KeysOf(new)))
      BY <2>5, <2>6, <2>8, <2>3
    <3>. QED BY <2>8, <3>1 DEF new
  <2>10. ASSUME NEW n \in DOMAIN new
         PROVE  new[n].created \in 0..now /\ SingleIsHigh(new[n]) /\ KeyFits(new, n)
    <3>1. CASE n \in 1..Len(rs)
      <4>1. new[n] = rs[n] /\ \A k \in 1..(n - 1) : new[k] = rs[k]
        BY <2>5, <3>1
      <4>2. Likes(new, n) = Likes(rs, n)
        BY <4>1 DEF Likes
      <4>. QED BY <2>5, <3>1, <4>1, <4>2 DEF RowsSound, KeyFits
    <3>2. CASE n = Len(rs) + 1
      <4>1. new[n] = row
        BY <2>5, <3>2
      <4>2. SingleIsHigh(row)
        BY <2>2 DEF SingleIsHigh, RowFits
      <4>3. m.key \in FirstKeys(row.kind, row.items, row.created)
        BY <2>2 DEF RowFits
      <4>4. ASSUME NEW k \in Lost(m, rs) PROVE k \in Likes(new, n)
        <5>1. k \in 1..Len(rs) /\ rs[k].kind = m.kind /\ rs[k].items = m.items
          BY <2>5 DEF Lost
        <5>. QED BY <2>2, <2>5, <3>2, <4>1, <5>1 DEF Likes
      <4>5. KeyFits(new, n)
        BY <2>2, <2>4, <4>1, <4>3, <4>4 DEF KeyFits
      <4>. QED BY <2>2, <4>1, <4>2, <4>5
    <3>. QED BY <2>5, <3>1, <3>2
  <2>11. OnceIn(new)
    <3> SUFFICES ASSUME NEW n \in DOMAIN new, NEW k \in 1..(n - 1),
                        new[k].status = "live", new[n].status = "live",
                        new[n].created - new[k].created < DayTicks,
                        NEW i \in new[k].items, NEW j \in new[n].items, i.event = j.event
                 PROVE  Newer(j, i)
      BY DEF OnceIn
    <3>1. k \in 1..Len(rs) /\ new[k] = rs[k]
      BY <2>5
    <3>2. CASE n \in 1..Len(rs)
      BY <2>5, <3>1, <3>2 DEF RowsSound, OnceIn
    <3>3. CASE n = Len(rs) + 1
      <4>1. j \in m.items /\ now - rs[k].created < DayTicks
        BY <2>2, <2>5, <3>1, <3>3
      <4>2. Allowed(j, rs[k].items)
        BY <2>5, <3>1, <4>1 DEF RowFits
      <4>. QED BY <3>1, <4>2, AllowedMeans
    <3>. QED BY <2>5, <3>2, <3>3
  <2>. QED BY <2>1, <2>9, <2>10, <2>11 DEF RowsSound
<1>. QED BY <1>1, <1>2

\* No key is taken, unless a copy under another version was lost.
LEMMA RowInserted ==
  ASSUME NEW now \in Nat, NEW rs, RowsSound(rs, now), NEW m, RowFits(m, rs, now),
         \A n \in DOMAIN rs : rs[n].status = "lost" =>
           \A i \in rs[n].items, j \in m.items : i.content = j.content => i.version = j.version
  PROVE  ~\E n \in DOMAIN rs : rs[n].key = NextKey(m, rs)
<1> SUFFICES ASSUME NEW n \in DOMAIN rs, rs[n].key = NextKey(m, rs) PROVE FALSE
  OBVIOUS
<1> DEFINE r == rs[n]
<1>1. rs \in Seq(AlertRows(KeysOf(rs)))
  BY DEF RowsSound
<1>2. Len(rs) \in Nat /\ DOMAIN rs = 1..Len(rs) /\ r \in AlertRows(KeysOf(rs))
  BY <1>1
<1>3. r.kind \in AlertKinds /\ r.items \subseteq AlertItems /\ r.items # {} /\ r.status \in AlertStatus
  BY <1>2 DEF AlertRows
<1>4. r.created \in 0..now /\ SingleIsHigh(r) /\ KeyFits(rs, n)
  BY DEF RowsSound
<1>5. m.kind \in AlertKinds /\ m.items \subseteq AlertItems /\ m.items # {}
      /\ m.key \in FirstKeys(m.kind, m.items, now) /\ SingleIsHigh(m)
  BY DEF RowFits
<1>6. Bucket(now) = Bucket(r.created) /\ r.status = "live" => \A j \in m.items : Allowed(j, r.items)
  <2>1. r.created \in Nat
    BY <1>4
  <2>. QED BY <2>1, SameBucketIsNear DEF RowFits
<1> HIDE DEF r
<1>7. CASE Lost(m, rs) = {} /\ r.key = m.key
  <2>1. r.key \in FirstKeys(r.kind, r.items, r.created)
    <3>1. ASSUME NEW base, NEW k PROVE r.key # <<"alert-requeue", base, k>>
      <4>1. r.key \in FirstKeys(m.kind, m.items, now)
        BY <1>5, <1>7
      <4>. QED BY <4>1, NoFirstKeyIsRequeued
    <3>. QED BY <1>4, <3>1 DEF KeyFits, r
  <2>2. /\ m.kind = r.kind /\ Bucket(now) = Bucket(r.created)
        /\ \A i \in m.items : \E j \in r.items : SameStory(i, j)
        /\ \A j \in r.items : \E i \in m.items : SameStory(i, j)
    BY <1>3, <1>4, <1>5, <1>7, <2>1, SameFirstKey
  <2>3. CASE r.status = "live"
    <3>1. PICK j \in m.items : TRUE
      BY <1>5
    <3>2. PICK i \in r.items : SameStory(j, i)
      BY <2>2
    <3>3. Newer(j, i)
      BY <1>6, <2>2, <2>3, <3>2, AllowedMeans DEF SameStory
    <3>4. RiskRank[i.risk] \in Int
      BY <1>3, RanksAreNumbers DEF AlertItems
    <3>. QED BY <3>2, <3>3, <3>4 DEF Newer, SameStory
  <2>4. CASE r.status = "lost"
    <3>1. r.items # m.items
      BY <1>7, <2>2, <2>4 DEF Lost, r
    <3>2. ASSUME NEW i \in r.items, NEW j \in m.items, SameStory(i, j) PROVE i = j
      <4>1. i.version = j.version
        BY <2>4, <3>2 DEF SameStory, r
      <4>2. i \in AlertItems /\ j \in AlertItems
        BY <1>3, <1>5
      <4>. QED BY <3>2, <4>1, <4>2 DEF SameStory, AlertItems
    <3>3. ASSUME NEW i \in r.items, NEW j \in m.items, SameStory(j, i) PROVE i = j
      BY <3>2, <3>3 DEF SameStory
    <3>4. r.items \subseteq m.items /\ m.items \subseteq r.items
      BY <2>2, <3>3
    <3>. QED BY <3>1, <3>4
  <2>. QED BY <1>3, <2>3, <2>4 DEF AlertStatus
<1>8. CASE \E k \in Lost(m, rs) : /\ \A l \in Lost(m, rs) : l <= k
                                    /\ r.key = <<"alert-requeue", m.key, k>>
  <2>1. PICK k \in Lost(m, rs) : (\A l \in Lost(m, rs) : l <= k)
                                     /\ r.key = <<"alert-requeue", m.key, k>>
    BY <1>8
  <2>2. PICK q \in Likes(rs, n) : \E base \in FirstKeys(r.kind, r.items, r.created) :
                                       r.key = <<"alert-requeue", base, q>>
    BY <1>4, <2>1, NoFirstKeyIsRequeued DEF KeyFits, r
  <2>3. q = k /\ m.key \in FirstKeys(r.kind, r.items, r.created)
    BY <2>1, <2>2
  <2>4. k < n /\ m.kind = r.kind /\ m.items = r.items
    BY <1>2, <2>2, <2>3 DEF Likes, Lost, r
  <2>5. Bucket(now) = Bucket(r.created)
    <3>1. m.kind \in AlertKinds /\ r.kind \in AlertKinds /\ SingleIsHigh(m) /\ SingleIsHigh(r)
      BY <1>3, <1>4, <1>5
    <3>2. m.key \in FirstKeys(m.kind, m.items, now) /\ m.key \in FirstKeys(r.kind, r.items, r.created)
      BY <1>5, <2>3
    <3>3. /\ m.kind = r.kind /\ Bucket(now) = Bucket(r.created)
          /\ \A i \in m.items : \E j \in r.items : SameStory(i, j)
          /\ \A j \in r.items : \E i \in m.items : SameStory(i, j)
      BY <3>1, <3>2, SameFirstKey
    <3>. QED BY <3>3
  <2>6. CASE r.status = "live"
    <3>1. PICK j \in m.items : TRUE
      BY <1>5
    <3>2. Allowed(j, m.items) /\ j.risk \in RiskLevels
      BY <1>5, <1>6, <2>4, <2>5, <2>6 DEF AlertItems
    <3>. QED BY <3>2, NotTwice
  <2>7. CASE r.status = "lost"
    <3>1. n \in Lost(m, rs)
      BY <2>4, <2>7 DEF Lost, r
    <3>. QED BY <1>2, <2>1, <2>4, <3>1 DEF Lost
  <2>. QED BY <1>3, <2>6, <2>7 DEF AlertStatus
<1>9. r.key = NextKey(m, rs)
  BY DEF r
<1>10. \/ Lost(m, rs) = {} /\ NextKey(m, rs) = m.key
       \/ \E k \in Lost(m, rs) : /\ \A l \in Lost(m, rs) : l <= k
                                 /\ NextKey(m, rs) = <<"alert-requeue", m.key, k>>
  BY <1>1, NextKeyMeans
<1>. QED BY <1>7, <1>8, <1>9, <1>10

----------------------------------------------------------------------------
(***************************************************************************)
(* A run of queue_due.                                                     *)
(***************************************************************************)

\* The rows queue_due leaves are sound; and when no copy of a candidate was lost, every
\* message that deduplication leaves is among them.
LEMMA QueuedRows ==
  ASSUME AlertIInv
  PROVE  /\ RowsSound(RowsQueued, hour)
         /\ ~CopyWasLost => \A v \in Alertable(Candidates, profile) :
                              Covered(AlertItem(v, profile), hour, RowsQueued)
<1> DEFINE vs == Candidates
           now == hour
           ms == Messages(vs, profile, now)
           out == Deduplicated(ms, now)
           F == Filtered(vs, profile, now)
<1>1. now \in Nat /\ vs \subseteq Versions /\ alerts \in Seq(AlertRows(KeysOf(alerts)))
      /\ \A n \in DOMAIN alerts : alerts[n].created \in 0..now
  BY AlertsAssumption DEF AlertIInv, RowsSound, Candidates
<1>2. /\ ms \in Seq(Composed(vs, profile, now))
      /\ \A v \in Alertable(vs, profile) : \E n \in DOMAIN ms : AlertItem(v, profile) \in ms[n].items
  BY MessagesComposed
<1> HIDE DEF ms, vs, now
<1>3. /\ out \in Seq(F)
      /\ \A o \in DOMAIN out : \A i \in out[o].items :
           Allowed(i, RecentItems(now)) /\ \A q \in 1..(o - 1) : Allowed(i, out[q].items)
      /\ \A n \in DOMAIN ms : \A i \in ms[n].items : ~Allowed(i, RecentItems(now) \cup Said(out))
  BY <1>1, <1>2, DeduplicatedOK
<1>4. RowsQueued = Inserted(out, now)
  BY DEF RowsQueued, ms, vs, now
<1> HIDE DEF out
<1>5. PICK h : /\ h[0] = alerts
               /\ \A k \in 0..(Len(out) - 1) : h[k + 1] = AddRow(h[k], out[k + 1], now)
               /\ Inserted(out, now) = h[Len(out)]
  BY <1>3, RowsOneByOne
<1>6. Len(out) \in Nat /\ DOMAIN out = 1..Len(out) /\ \A o \in 1..Len(out) : out[o] \in F
  BY <1>3
<1>7. ASSUME NEW o \in 1..Len(out)
      PROVE  /\ out[o].kind \in AlertKinds /\ out[o].items \in (SUBSET AlertItems) \ {{}}
             /\ out[o].key \in FirstKeys(out[o].kind, out[o].items, now) /\ SingleIsHigh(out[o])
             /\ \A j \in out[o].items : j.version \in vs /\ j.content = Analysis[j.version].content
  <2>1. MessageFits(out[o], vs, profile, now)
    BY <1>6, MessagesFit
  <2>2. \A j \in out[o].items : \E v \in vs : j = AlertItem(v, profile)
    BY <2>1 DEF MessageFits
  <2>3. ASSUME NEW j \in out[o].items
        PROVE  j \in AlertItems /\ j.version \in vs /\ j.content = Analysis[j.version].content
    <3>1. PICK v \in vs : j = AlertItem(v, profile)
      BY <2>2
    <3>. QED BY <1>1, <3>1, ItemsOfVersions
  <2>. QED BY <2>1, <2>3 DEF MessageFits
<1> DEFINE Fresh(r) == r.status = "live" /\ r.created = now
           \* The first k messages have been added to the alerts there were.
           Inv(rs, k) ==
             /\ RowsSound(rs, now) /\ Len(alerts) <= Len(rs)
             /\ \A n \in 1..Len(alerts) : rs[n] = alerts[n]
             /\ \A n \in (Len(alerts) + 1)..Len(rs) :
                  Fresh(rs[n]) /\ \E o \in 1..k : rs[n].items = out[o].items
             /\ ~CopyWasLost => \A o \in 1..k : \E n \in 1..Len(rs) :
                                  Fresh(rs[n]) /\ rs[n].items = out[o].items
<1>8. Inv(h[0], 0)
  BY <1>1, <1>5 DEF AlertIInv, now
<1>9. ASSUME NEW k \in 0..(Len(out) - 1), Inv(h[k], k) PROVE Inv(h[k + 1], k + 1)
  <2> DEFINE rs == h[k]
             m == out[k + 1]
             new == AddRow(rs, m, now)
  <2>1. Inv(rs, k)
    BY <1>9
  <2>2. h[k + 1] = new /\ k + 1 \in 1..Len(out) /\ k \in Nat
    BY <1>5, <1>6
  <2>3. /\ m.kind \in AlertKinds /\ m.items \in (SUBSET AlertItems) \ {{}}
        /\ m.key \in FirstKeys(m.kind, m.items, now) /\ SingleIsHigh(m)
        /\ \A j \in m.items : j.version \in vs /\ j.content = Analysis[j.version].content
    BY <1>7, <2>2
  <2>4. /\ \A i \in m.items : Allowed(i, RecentItems(now))
        /\ \A i \in m.items : \A q \in 1..k : Allowed(i, out[q].items)
    BY <1>3, <1>6, <2>2
  <2> HIDE DEF m, rs
  <2>5. Len(rs) \in Nat /\ DOMAIN rs = 1..Len(rs) /\ Len(alerts) \in Nat
        /\ DOMAIN alerts = 1..Len(alerts) /\ rs \in Seq(AlertRows(KeysOf(rs)))
    BY <1>1, <2>1 DEF RowsSound
  <2>6. \A n \in 1..Len(rs) : n \in 1..Len(alerts) \/ n \in (Len(alerts) + 1)..Len(rs)
    BY <2>5
  <2>7. RowFits(m, rs, now)
    <3> SUFFICES ASSUME NEW n \in DOMAIN rs, rs[n].status = "live",
                        now - rs[n].created < DayTicks, NEW j \in m.items
                 PROVE  Allowed(j, rs[n].items)
      BY <2>3 DEF RowFits
    <3>1. CASE n \in 1..Len(alerts)
      <4>1. rs[n] = alerts[n] /\ n \in DOMAIN alerts
        BY <2>1, <2>5, <3>1
      <4>2. alerts[n].created > now - DayTicks /\ alerts[n].created <= now
        BY <1>1, <4>1, AlertsAssumption
      <4>3. n \in RecentAlerts(now)
        BY <4>1, <4>2 DEF RecentAlerts
      <4>4. rs[n].items \in SUBSET RecentItems(now)
        BY <4>1, <4>3 DEF RecentItems
      <4>. QED BY <2>4, <4>4, AllowedAmongFewer
    <3>2. CASE n \in (Len(alerts) + 1)..Len(rs)
      BY <2>1, <2>4, <3>2
    <3>. QED BY <2>5, <2>6, <3>1, <3>2
  <2>8. RowsSound(new, now)
    BY <1>1, <2>1, <2>7, RowAdded
  <2> DEFINE taken == \E n \in DOMAIN rs : rs[n].key = NextKey(m, rs)
             row == [kind |-> m.kind, key |-> NextKey(m, rs), items |-> m.items,
                     status |-> "live", created |-> now]
  <2>9. ~CopyWasLost => ~taken
    <3> SUFFICES ASSUME ~CopyWasLost PROVE ~taken
      OBVIOUS
    <3>1. ASSUME NEW n \in DOMAIN rs, rs[n].status = "lost", NEW i \in rs[n].items,
                 NEW j \in m.items, i.content = j.content
          PROVE  i.version = j.version
      <4>1. n \in DOMAIN alerts /\ rs[n] = alerts[n]
        BY <2>1, <2>5, <2>6, <3>1
      <4>. QED BY <2>3, <3>1, <4>1 DEF CopyWasLost, vs
    <3>. QED BY <1>1, <2>1, <2>7, <3>1, RowInserted
  <2>10. CASE taken
    <3>1. new = rs
      BY <2>10 DEF AddRow
    <3>2. CopyWasLost
      BY <2>9, <2>10
    <3>3. \A o \in 1..k : o \in 1..(k + 1)
      BY <2>2
    <3> HIDE DEF new, Fresh
    <3>. QED BY <2>1, <2>2, <3>1, <3>2, <3>3
  <2>11. CASE ~taken
    <3>1. new = Append(rs, row)
      BY <2>11 DEF AddRow
    <3>2. Fresh(row) /\ row.items = m.items
      OBVIOUS
    <3> HIDE DEF row, new, taken
    <3>3. Len(new) = Len(rs) + 1 /\ new[Len(rs) + 1] = row /\ \A n \in 1..Len(rs) : new[n] = rs[n]
      BY <2>5, <3>1
    <3> HIDE DEF Fresh
    <3>4. Len(alerts) <= Len(new) /\ \A n \in 1..Len(alerts) : new[n] = alerts[n]
      BY <2>1, <2>5, <3>3
    <3>5. ASSUME NEW n \in (Len(alerts) + 1)..Len(new)
          PROVE  Fresh(new[n]) /\ \E o \in 1..(k + 1) : new[n].items = out[o].items
      <4>1. CASE n \in (Len(alerts) + 1)..Len(rs)
        <5>1. new[n] = rs[n] /\ Fresh(rs[n])
          BY <2>1, <2>5, <3>3, <4>1
        <5>2. PICK o \in 1..k : rs[n].items = out[o].items
          BY <2>1, <4>1
        <5>3. o \in 1..(k + 1)
          BY <2>2
        <5>. QED BY <5>1, <5>2, <5>3
      <4>2. CASE n = Len(rs) + 1
        <5>1. new[n] = row /\ k + 1 \in 1..(k + 1)
          BY <2>2, <3>3, <4>2
        <5>. QED BY <3>2, <5>1 DEF m
      <4>. QED BY <2>5, <3>3, <4>1, <4>2
    <3>6. ASSUME ~CopyWasLost, NEW o \in 1..(k + 1)
          PROVE  \E n \in 1..Len(new) : Fresh(new[n]) /\ new[n].items = out[o].items
      <4>1. CASE o \in 1..k
        <5>1. PICK n \in 1..Len(rs) : Fresh(rs[n]) /\ rs[n].items = out[o].items
          BY <2>1, <3>6, <4>1
        <5>2. n \in 1..Len(new) /\ new[n] = rs[n]
          BY <2>5, <3>3
        <5>. QED BY <5>1, <5>2
      <4>2. CASE o = k + 1
        <5>1. Len(rs) + 1 \in 1..Len(new) /\ new[Len(rs) + 1] = row
          BY <2>5, <3>3
        <5>. QED BY <3>2, <4>2, <5>1 DEF m
      <4>. QED BY <2>2, <4>1, <4>2
    <3>. QED BY <2>2, <2>8, <3>4, <3>5, <3>6
  <2>. QED BY <2>10, <2>11
<1> DEFINE Q == {k \in Nat : k <= Len(out) => Inv(h[k], k)}
<1>10. Nat \subseteq Q
  <2>1. 0 \in Q
    BY <1>8
  <2> HIDE DEF Inv
  <2>2. ASSUME NEW k \in Nat, k \in Q PROVE k + 1 \in Q
    BY <1>6, <1>9, <2>2
  <2> HIDE DEF Q
  <2>. QED BY <2>1, <2>2, CountInduction
<1> DEFINE rs == RowsQueued
<1>11. Inv(rs, Len(out))
  <2> HIDE DEF Inv
  <2>. QED BY <1>4, <1>5, <1>6, <1>10
<1> HIDE DEF rs
<1>12. ASSUME ~CopyWasLost, NEW v \in Alertable(vs, profile)
       PROVE  Covered(AlertItem(v, profile), now, rs)
  <2> DEFINE i == AlertItem(v, profile)
             heard == {n \in DOMAIN rs : rs[n].status = "live" /\ rs[n].created > now - DayTicks}
             all == UNION {rs[n].items : n \in heard}
  <2>1. ~Allowed(i, RecentItems(now) \cup Said(out))
    BY <1>2, <1>3
  <2>2. Len(rs) \in Nat /\ DOMAIN rs = 1..Len(rs) /\ DOMAIN alerts = 1..Len(alerts) /\ Len(alerts) \in Nat
    BY <1>1, <1>11 DEF RowsSound
  <2>3. RecentItems(now) \subseteq all
    <3> SUFFICES ASSUME NEW n \in RecentAlerts(now) PROVE alerts[n].items \subseteq all
      BY DEF RecentItems
    <3>1. n \in heard /\ rs[n] = alerts[n]
      BY <1>11, <2>2 DEF RecentAlerts
    <3>. QED BY <3>1
  <2>4. Said(out) \subseteq all
    <3> SUFFICES ASSUME NEW o \in DOMAIN out PROVE out[o].items \subseteq all
      BY DEF Said
    <3>1. PICK n \in 1..Len(rs) : Fresh(rs[n]) /\ rs[n].items = out[o].items
      BY <1>6, <1>11, <1>12
    <3>2. n \in heard
      BY <1>1, <2>2, <3>1, AlertsAssumption
    <3>. QED BY <3>1, <3>2
  <2>5. ~Allowed(i, all)
    <3>1. RecentItems(now) \cup Said(out) \in SUBSET all
      BY <2>3, <2>4
    <3> HIDE DEF all
    <3>. QED BY <2>1, <3>1, AllowedAmongFewer
  <2>. QED BY <2>5 DEF Covered
<1>. QED BY <1>11, <1>12 DEF rs, vs, now

----------------------------------------------------------------------------
(***************************************************************************)
(* The invariant.                                                          *)
(***************************************************************************)
LEMMA AlertInitOK == AlertInit => AlertIInv
<1> SUFFICES ASSUME AlertInit PROVE AlertIInv
  OBVIOUS
<1>1. hour = 0 /\ analyzed = [v \in Versions |-> -1] /\ profile = "default" /\ alerts = <<>>
  BY DEF AlertInit
<1>2. hour \in 0..MaxHour /\ profile \in Profiles /\ Len(alerts) <= MaxAlerts
  BY <1>1, AlertsAssumption DEF Profiles
<1>3. analyzed \in [Versions -> -2..MaxHour]
  BY <1>1, AlertsAssumption
<1>4. Listed = {}
  BY <1>1 DEF Listed
<1>5. IsFiniteSet(Listed)
  BY <1>4, FS_EmptySet
<1>6. RowsSound(alerts, hour)
  BY <1>1 DEF RowsSound, OnceIn
<1>. QED BY <1>2, <1>3, <1>5, <1>6 DEF AlertIInv

LEMMA RowLost ==
  ASSUME NEW now, NEW rs, RowsSound(rs, now), NEW n \in DOMAIN rs
  PROVE  /\ RowsSound([rs EXCEPT ![n].status = "lost"], now)
         /\ Len([rs EXCEPT ![n].status = "lost"]) = Len(rs)
<1> DEFINE R == AlertRows(KeysOf(rs))
           row == [rs[n] EXCEPT !.status = "lost"]
           new == [rs EXCEPT ![n].status = "lost"]
<1>1. rs \in Seq(R)
  BY DEF RowsSound
<1>2. Len(rs) \in Nat /\ DOMAIN rs = 1..Len(rs) /\ rs[n] \in R
  BY <1>1
<1>3. row \in R /\ row.kind = rs[n].kind /\ row.key = rs[n].key /\ row.items = rs[n].items
      /\ row.created = rs[n].created /\ row.status = "lost"
  BY <1>2 DEF AlertRows, AlertStatus
<1>4. new = [rs EXCEPT ![n] = row]
  OBVIOUS
<1> HIDE DEF row, R
<1>5. new \in Seq(R) /\ DOMAIN new = DOMAIN rs /\ Len(new) = Len(rs)
  BY <1>1, <1>3, <1>4
<1>6. new[n] = row /\ \A k \in DOMAIN rs \ {n} : new[k] = rs[k]
  BY <1>2, <1>4
<1> HIDE DEF new
<1>7. ASSUME NEW k \in DOMAIN rs
      PROVE  /\ new[k].kind = rs[k].kind /\ new[k].key = rs[k].key /\ new[k].items = rs[k].items
             /\ new[k].created = rs[k].created /\ (new[k].status = "live" => rs[k].status = "live")
  <2>1. CASE k = n
    BY <1>3, <1>6, <2>1
  <2>2. CASE k # n
    BY <1>6, <2>2
  <2>. QED BY <2>1, <2>2
<1>8. KeysOf(new) = KeysOf(rs)
  BY <1>5, <1>7 DEF KeysOf
<1>9. new \in Seq(AlertRows(KeysOf(new)))
  BY <1>5, <1>8 DEF R
<1>10. ASSUME NEW k \in DOMAIN new
       PROVE  new[k].created \in 0..now /\ SingleIsHigh(new[k]) /\ KeyFits(new, k)
  <2>1. k \in DOMAIN rs /\ rs[k].created \in 0..now /\ SingleIsHigh(rs[k]) /\ KeyFits(rs, k)
    BY <1>5 DEF RowsSound
  <2>2. ASSUME NEW q \in 1..(k - 1) PROVE q \in DOMAIN rs
    BY <1>2, <2>1
  <2>3. Likes(new, k) = Likes(rs, k)
    BY <1>7, <2>1, <2>2 DEF Likes
  <2>4. KeyFits(new, k)
    BY <1>7, <2>1, <2>3 DEF KeyFits
  <2>5. SingleIsHigh(new[k])
    BY <1>7, <2>1 DEF SingleIsHigh
  <2>. QED BY <1>7, <2>1, <2>4, <2>5
<1>11. OnceIn(new)
  <2> SUFFICES ASSUME NEW k \in DOMAIN new, NEW q \in 1..(k - 1),
                      new[q].status = "live", new[k].status = "live",
                      new[k].created - new[q].created < DayTicks,
                      NEW i \in new[q].items, NEW j \in new[k].items, i.event = j.event
               PROVE  Newer(j, i)
    BY DEF OnceIn
  <2>1. k \in DOMAIN rs /\ q \in DOMAIN rs
    BY <1>2, <1>5
  <2>. QED BY <1>7, <2>1 DEF RowsSound, OnceIn
<1>12. RowsSound(new, now)
  BY <1>9, <1>10, <1>11 DEF RowsSound
<1>. QED BY <1>5, <1>12 DEF new

LEMMA AlertNextOK == AlertIInv /\ [AlertNext]_alertVars => AlertIInv'
<1> SUFFICES ASSUME AlertIInv, [AlertNext]_alertVars PROVE AlertIInv'
  OBVIOUS
<1> USE AlertsAssumption
<1>1. /\ hour \in 0..MaxHour /\ profile \in Profiles
      /\ analyzed \in [Versions -> -2..MaxHour] /\ IsFiniteSet(Listed)
      /\ Len(alerts) <= MaxAlerts /\ RowsSound(alerts, hour)
  BY DEF AlertIInv
<1>2. CASE QueueDue
  <2>1. RowsSound(alerts', hour) /\ Len(alerts') <= MaxAlerts /\ UNCHANGED <<hour, analyzed, profile>>
    BY <1>2, QueuedRows DEF QueueDue
  <2>2. Listed' = Listed
    BY <2>1 DEF Listed
  <2>. QED BY <1>1, <2>1, <2>2 DEF AlertIInv
<1>3. ASSUME NEW v \in Versions, CompleteAnalysis(v) PROVE AlertIInv'
  <2>1. analyzed' = [analyzed EXCEPT ![v] = hour] /\ UNCHANGED <<hour, profile, alerts>>
    BY <1>3 DEF CompleteAnalysis
  <2>2. analyzed' \in [Versions -> -2..MaxHour]
    BY <1>1, <2>1
  <2>3. Listed' \subseteq Listed \cup {v}
    BY <1>1, <2>1 DEF Listed
  <2>4. IsFiniteSet(Listed \cup {v})
    BY <1>1, FS_AddElement
  <2>5. IsFiniteSet(Listed')
    BY <2>3, <2>4, FS_Subset
  <2>. QED BY <1>1, <2>1, <2>2, <2>5 DEF AlertIInv
<1>4. ASSUME NEW v \in Versions, Withdraw(v) PROVE AlertIInv'
  <2>1. analyzed' = [analyzed EXCEPT ![v] = -2] /\ UNCHANGED <<hour, profile, alerts>>
    BY <1>4 DEF Withdraw
  <2>2. analyzed' \in [Versions -> -2..MaxHour]
    BY <1>1, <2>1
  <2>3. Listed' \subseteq Listed \cup {v}
    BY <1>1, <2>1 DEF Listed
  <2>4. IsFiniteSet(Listed \cup {v})
    BY <1>1, FS_AddElement
  <2>5. IsFiniteSet(Listed')
    BY <2>3, <2>4, FS_Subset
  <2>. QED BY <1>1, <2>1, <2>2, <2>5 DEF AlertIInv
<1>5. ASSUME NEW p \in Profiles, SetProfile(p) PROVE AlertIInv'
  <2>1. profile' = p /\ UNCHANGED <<hour, analyzed, alerts>>
    BY <1>5 DEF SetProfile
  <2>2. Listed' = Listed
    BY <2>1 DEF Listed
  <2>. QED BY <1>1, <2>1, <2>2 DEF AlertIInv
<1>6. ASSUME NEW n \in DOMAIN alerts, LoseAlert(n) PROVE AlertIInv'
  <2>1. alerts' = [alerts EXCEPT ![n].status = "lost"] /\ UNCHANGED <<hour, analyzed, profile>>
    BY <1>6 DEF LoseAlert
  <2>2. RowsSound(alerts', hour) /\ Len(alerts') = Len(alerts)
    BY <1>1, <2>1, RowLost
  <2>3. Listed' = Listed
    BY <2>1 DEF Listed
  <2>. QED BY <1>1, <2>1, <2>2, <2>3 DEF AlertIInv
<1>7. CASE AlertTick
  <2>1. hour < MaxHour /\ hour' = hour + 1 /\ UNCHANGED <<analyzed, profile, alerts>>
    BY <1>7 DEF AlertTick
  <2>2. hour' \in 0..MaxHour /\ Listed' = Listed
    BY <1>1, <2>1 DEF Listed
  <2>3. \A n \in DOMAIN alerts : alerts[n].created \in 0..(hour + 1)
    BY <1>1 DEF RowsSound
  <2>4. RowsSound(alerts, hour + 1)
    BY <1>1, <2>3 DEF RowsSound
  <2>. QED BY <1>1, <2>1, <2>2, <2>4 DEF AlertIInv
<1>8. CASE UNCHANGED alertVars
  <2>1. UNCHANGED <<hour, analyzed, profile, alerts>>
    BY <1>8 DEF alertVars
  <2>2. Listed' = Listed
    BY <2>1 DEF Listed
  <2>. QED BY <1>1, <2>1, <2>2 DEF AlertIInv
<1>. QED BY <1>2, <1>3, <1>4, <1>5, <1>6, <1>7, <1>8 DEF AlertNext

LEMMA AlertInvariance == AlertSpec => []AlertIInv
<1>. QED BY AlertInitOK, AlertNextOK, PTL DEF AlertSpec

LEMMA AlertTypes == AlertIInv => AlertTypeOK
<1> SUFFICES ASSUME AlertIInv PROVE AlertTypeOK
  OBVIOUS
<1>1. /\ hour \in 0..MaxHour /\ profile \in Profiles /\ analyzed \in [Versions -> -2..MaxHour]
      /\ Len(alerts) <= MaxAlerts /\ RowsSound(alerts, hour)
  BY DEF AlertIInv
<1>2. ASSUME NEW n \in DOMAIN alerts
      PROVE  /\ alerts[n].status \in AlertStatus
             /\ alerts[n].items # {} /\ alerts[n].items \subseteq AlertItems
             /\ alerts[n].created \in 0..MaxHour
  <2>1. alerts \in Seq(AlertRows(KeysOf(alerts))) /\ alerts[n].created \in 0..hour
    BY <1>1 DEF RowsSound
  <2>2. alerts[n] \in AlertRows(KeysOf(alerts))
    BY <2>1
  <2>. QED BY <1>1, <2>1, <2>2, AlertsAssumption DEF AlertRows
<1>. QED BY <1>1, <1>2 DEF AlertTypeOK

\* Rows of alerts are of known statuses, with items of the versions there are, whatever
\* batches, withdrawals, lost rows and changes of profile come.
THEOREM AlertsKeepTheirTypes == AlertSpec => []AlertTypeOK
<1>. QED BY AlertInvariance, AlertTypes, PTL

\* For any analyses, profile changes and lost rows: within 24 hours an event is not alerted
\* again unless its risk has risen or another article with another content speaks of it.
THEOREM EventsAreAlertedOnce == AlertSpec => []AlertedOnce
<1>1. AlertIInv => AlertedOnce
  BY DEF AlertIInv, RowsSound, OnceIn, AlertedOnce, Live, Newer
<1>. QED BY <1>1, AlertInvariance, PTL

\* A key that is taken swallows no alert, except one whose copy under another version was
\* lost: every candidate worth an alert is covered by live rows of the window.
THEOREM NoKeySwallowsAnAlert == AlertSpec => []NoAlertSwallowed
<1>1. AlertIInv => NoAlertSwallowed
  BY QueuedRows DEF NoAlertSwallowed
<1>. QED BY <1>1, AlertInvariance, PTL

----------------------------------------------------------------------------
(***************************************************************************)
(* CorpusReads.                                                            *)
(***************************************************************************)
\* Sequences of numbers of one length, which Above orders.
Keys(n) == [1..n -> Int]

\* No sequence is above itself, ...
LEMMA AboveNone ==
  ASSUME NEW n \in Nat, NEW a \in Keys(n)
  PROVE  ~Above(a, a)
BY DEF Above, Keys

\* ... what is above one that is above a third is above the third, ...
LEMMA AboveTransitive ==
  ASSUME NEW n \in Nat, NEW a \in Keys(n), NEW b \in Keys(n), NEW c \in Keys(n),
         Above(a, b), Above(b, c)
  PROVE  Above(a, c)
<1>1. DOMAIN a = 1..n /\ DOMAIN b = 1..n /\ \A k \in 1..n : a[k] \in Int /\ b[k] \in Int /\ c[k] \in Int
  BY DEF Keys
<1>2. PICK i \in 1..n : a[i] > b[i] /\ \A k \in 1..(i - 1) : a[k] = b[k]
  BY <1>1 DEF Above
<1>3. PICK j \in 1..n : b[j] > c[j] /\ \A k \in 1..(j - 1) : b[k] = c[k]
  BY <1>1 DEF Above
<1>4. CASE i <= j
  <2>1. a[i] > c[i]
    <3>1. CASE i = j
      BY <1>1, <1>2, <1>3, <3>1
    <3>2. CASE i < j
      <4>1. b[i] = c[i]
        BY <1>3, <3>2
      <4>. QED BY <1>1, <1>2, <4>1
    <3>. QED BY <1>4, <3>1, <3>2
  <2>2. \A k \in 1..(i - 1) : a[k] = c[k]
    BY <1>2, <1>3, <1>4
  <2>. QED BY <1>1, <2>1, <2>2 DEF Above
<1>5. CASE j < i
  <2>1. a[j] > c[j]
    <3>1. a[j] = b[j]
      BY <1>2, <1>5
    <3>. QED BY <1>1, <1>3, <3>1
  <2>2. \A k \in 1..(j - 1) : a[k] = c[k]
    BY <1>2, <1>3, <1>5
  <2>. QED BY <1>1, <2>1, <2>2 DEF Above
<1>. QED BY <1>4, <1>5

\* ... and of two sequences one is above the other.
LEMMA AboveTotal ==
  ASSUME NEW n \in Nat, NEW a \in Keys(n), NEW b \in Keys(n), a # b
  PROVE  Above(a, b) \/ Above(b, a)
<1>1. DOMAIN a = 1..n /\ DOMAIN b = 1..n /\ \A k \in 1..n : a[k] \in Int /\ b[k] \in Int
  BY DEF Keys
<1> DEFINE D == {k \in 1..n : a[k] # b[k]}
           R == {p \in Int \X Int : p[1] > p[2]}
<1>2. D # {} /\ D \subseteq 1..n
  BY DEF Keys
<1>3. \A x, y \in Int : <<x, y>> \in R <=> x > y
  OBVIOUS
<1>4. IsFiniteSet(D)
  BY <1>2, FS_Interval, FS_Subset
<1> HIDE DEF R
<1>5. Orders(R, D)
  BY <1>2, <1>3 DEF Orders
<1>6. PICK m \in D : \A x \in D \ {m} : <<x, m>> \in R
  <2>1. D # {} /\ IsFiniteSet(D) /\ Orders(R, D)
    BY <1>2, <1>4, <1>5
  <2> HIDE DEF D
  <2>. QED BY <2>1, LastExists
<1>7. \A k \in 1..(m - 1) : a[k] = b[k]
  <2> SUFFICES ASSUME NEW k \in 1..(m - 1), a[k] # b[k] PROVE FALSE
    OBVIOUS
  <2>1. k \in D \ {m} /\ m \in 1..n
    BY <1>2
  <2>2. <<k, m>> \in R /\ k \in Int /\ m \in Int
    BY <1>6, <2>1
  <2>3. k > m
    BY <1>3, <2>2
  <2>. QED BY <2>3
<1>8. m \in 1..n /\ a[m] # b[m]
  OBVIOUS
<1>9. CASE a[m] > b[m]
  BY <1>1, <1>7, <1>8, <1>9 DEF Above
<1>10. CASE b[m] > a[m]
  BY <1>1, <1>7, <1>8, <1>10 DEF Above
<1>. QED BY <1>1, <1>8, <1>9, <1>10

\* A finite set in an order: its elements, each once, in that order.
LEMMA OrderedOK ==
  ASSUME NEW S, IsFiniteSet(S), NEW R, Orders(R, S)
  PROVE  /\ Cardinality(S) \in Nat /\ Ordered(S, R) \in Seq(S) /\ Len(Ordered(S, R)) = Cardinality(S)
         /\ InOrderOf(Ordered(S, R), S, R)
<1> DEFINE c == Cardinality(S)
<1>1. c \in Nat
  BY FS_CardinalityType
<1>2. PICK t : InOrderOf(t, S, R)
  BY OrderExists
<1>3. t \in SetToSeqs(S) /\ DOMAIN t = 1..c
  BY <1>1, <1>2 DEF InOrderOf, SetToSeqs
<1>4. \A i, j \in DOMAIN t : i < j => <<t[i], t[j]>> \in R
  BY <1>2, <1>3 DEF InOrderOf
<1>5. /\ Ordered(S, R) \in SetToSeqs(S)
      /\ \A i, j \in DOMAIN Ordered(S, R) : i < j => <<Ordered(S, R)[i], Ordered(S, R)[j]>> \in R
  BY <1>3, <1>4 DEF Ordered
<1> DEFINE s == Ordered(S, R)
<1>6. /\ s \in [1..c -> S] /\ s \in Seq(S) /\ \A i, j \in 1..c : i # j => s[i] # s[j]
      /\ \A x \in S : \E i \in 1..c : s[i] = x
  BY <1>5, ListedOnce
<1>7. DOMAIN s = 1..c /\ Len(s) = c
  <2> HIDE DEF s, c
  <2>. QED BY <1>1, <1>6
<1>. QED BY <1>1, <1>5, <1>6, <1>7 DEF InOrderOf


Analysed == {v \in Articles : analysisId[v] > 0}

Searches ==
  [on : BOOLEAN, asked : Questions \cup {{}}, before : {<<>>} \cup Keys(2), ranked : Seq(Articles)]

\* Ids of analyses are given in order, each once, to articles stored.
IdsInOrder ==
  /\ Analysed \subseteq known
  /\ \A u, v \in Analysed : analysisId[u] = analysisId[v] => u = v
  /\ \A v \in Analysed : analysisId[v] <= Cardinality(Analysed)

\* A full result of which every article ranks above this one.
Beaten(v, items) ==
  Len(items) = MaxResults /\ \A u \in ToSet(items) : Above(ResultKey(u), ResultKey(v))

\* A search ranks hits of the pages behind it, each once; what has matched from its start is
\* on a page to come, ranked or beaten.
SearchSound ==
  search.on =>
    /\ IsInjective(search.ranked)
    /\ \A u \in ToSet(search.ranked) :
         u \in Analysed /\ Article[u].hits > 0 /\ ~Older(u, search.before)
    /\ \A v \in steady :
         Older(v, search.before) \/ v \in ToSet(search.ranked) \/ Beaten(v, search.ranked)

ReadTypes ==
  /\ known \subseteq Articles /\ resolved \subseteq known
  /\ redacted \subseteq known /\ withdrawn \subseteq known /\ links \subseteq known \X known
  /\ rows \in [Articles -> SUBSET Platforms]
  /\ analysisId \in [Articles -> Nat]
  /\ registry \in Registries
  /\ search \in Searches /\ Len(search.ranked) <= MaxResults

ReadIInv == ReadTypes /\ IdsInOrder /\ steady \subseteq Matching /\ SearchSound

\* Fields of an article that keys are made of, and the keys.
LEMMA ArticleTypes ==
  ASSUME NEW v \in Articles
  PROVE  /\ v \in Nat /\ Article[v].risk \in Nat /\ Article[v].score \in Nat
         /\ Article[v].fetched \in Nat /\ Article[v].hits \in Nat /\ Article[v].official \in BOOLEAN
BY ArticlesAssumption

LEMMA KeyTypes ==
  ASSUME analysisId \in [Articles -> Nat], NEW v \in Articles
  PROVE  /\ PageKey(v) \in Keys(2) /\ PageKey(v)[1] = Article[v].fetched
         /\ PageKey(v)[2] = analysisId[v]
         /\ ResultKey(v) \in Keys(6) /\ ResultKey(v)[6] = v
<1>1. analysisId[v] \in Nat
  OBVIOUS
<1>2. PageKey(v) \in Keys(2) /\ PageKey(v)[1] = Article[v].fetched /\ PageKey(v)[2] = analysisId[v]
  BY <1>1, ArticleTypes DEF PageKey, Keys
<1>3. ResultKey(v) \in Keys(6) /\ ResultKey(v)[6] = v
  BY <1>1, ArticleTypes DEF ResultKey, Keys
<1>. QED BY <1>2, <1>3

LEMMA RankTypes ==
  ASSUME analysisId \in [Articles -> Nat], NEW v \in Articles, NEW ps \in SUBSET Platforms
  PROVE  RankKey(v, ps) \in Keys(6) /\ RankKey(v, ps)[6] = analysisId[v]
<1> DEFINE prio == {Priority[p] : p \in ps}
           top  == IF prio = {} THEN 0 ELSE Max(prio)
<1>1. IsFiniteSet(ps) /\ prio \subseteq Nat
  BY ArticlesAssumption, FS_Subset
<1>2. IsFiniteSet(prio)
  <2> DEFINE f == [p \in ps |-> Priority[p]]
  <2>1. f \in Surjection(ps, prio)
    BY DEF Surjection
  <2> HIDE DEF f, prio
  <2>. QED BY <1>1, <2>1, FS_Surjection
<1>3. top \in Nat
  <2>1. CASE prio = {}
    BY <2>1
  <2>2. CASE prio # {}
    <3> HIDE DEF prio
    <3>1. prio \subseteq Int
      BY <1>1
    <3>2. Max(prio) \in prio
      BY <1>2, <2>2, <3>1, MaxOK
    <3>. QED BY <1>1, <2>2, <3>2
  <2>. QED BY <2>1, <2>2
<1> HIDE DEF top
<1>4. RankKey(v, ps) = <<Article[v].risk, top, Article[v].score,
                         IF Article[v].official THEN 1 ELSE 0, Article[v].fetched, analysisId[v]>>
  BY DEF RankKey, top
<1>5. (IF Article[v].official THEN 1 ELSE 0) \in Nat
  OBVIOUS
<1>. QED BY <1>3, <1>4, <1>5, ArticleTypes DEF Keys

\* The articles of a page come by time and id, latest first; those that fit no page are
\* later than its last.
LEMMA PageOK ==
  ASSUME NEW asked, NEW before, NEW stored,
         known \subseteq Articles, analysisId \in [Articles -> Nat], IdsInOrder
  PROVE  LET all  == {v \in Findable(asked, stored) : Older(v, before)}
             page == Page(asked, before, stored)
         IN /\ page \in Seq(all) /\ Len(page) <= PageSize /\ IsInjective(page)
            /\ \A v \in all : v \notin ToSet(page) => Len(page) = PageSize /\ Older(v, PageKey(Last(page)))
            /\ \A v \in ToSet(page) : ~Older(v, PageKey(Last(page)))
<1> DEFINE all == {v \in Findable(asked, stored) : Older(v, before)}
           R == {p \in all \X all : Above(PageKey(p[1]), PageKey(p[2]))}
           s == Ordered(all, R)
           n == Min({PageSize, Cardinality(all)})
           page == SubSeq(s, 1, n)
<1>1. page = Page(asked, before, stored)
  BY DEF Page
<1>2. all \subseteq Articles /\ all \subseteq Analysed
  BY DEF Findable, Readable, Analysed
<1>3. IsFiniteSet(all)
  BY <1>2, FS_Subset, ArticlesAssumption
<1>4. \A u, v \in all : <<u, v>> \in R <=> Above(PageKey(u), PageKey(v))
  OBVIOUS
<1>5. /\ \A u \in all : PageKey(u) \in Keys(2)
      /\ \A u, v \in all : u # v => PageKey(u) # PageKey(v)
  BY <1>2, KeyTypes DEF IdsInOrder
<1> HIDE DEF R, all
<1>6. Orders(R, all)
  <2>1. \A u, v \in all : u # v => <<u, v>> \in R \/ <<v, u>> \in R
    BY <1>4, <1>5, AboveTotal
  <2>2. \A u, v, w \in all : <<u, v>> \in R /\ <<v, w>> \in R => <<u, w>> \in R
    <3> SUFFICES ASSUME NEW u \in all, NEW v \in all, NEW w \in all, <<u, v>> \in R, <<v, w>> \in R
                 PROVE  <<u, w>> \in R
      OBVIOUS
    <3>1. Above(PageKey(u), PageKey(v)) /\ Above(PageKey(v), PageKey(w))
      BY <1>4
    <3>2. Above(PageKey(u), PageKey(w))
      BY <1>5, <3>1, AboveTransitive
    <3>. QED BY <1>4, <3>2
  <2>. QED BY <2>1, <2>2 DEF Orders
<1>7. /\ Cardinality(all) \in Nat /\ s \in Seq(all) /\ Len(s) = Cardinality(all)
      /\ InOrderOf(s, all, R)
  BY <1>3, <1>6, OrderedOK
<1>8. n \in 0..Len(s) /\ n <= PageSize /\ (n < PageSize => n = Len(s))
  <2>1. Cardinality(all) \in Int /\ PageSize \in Int
    BY <1>7, ArticlesAssumption
  <2>2. n \in {PageSize, Cardinality(all)} /\ n <= PageSize /\ n <= Cardinality(all)
    <3> HIDE DEF s
    <3>. QED BY <2>1, MinOK
  <2> HIDE DEF n, s
  <2>. QED BY <1>7, <2>1, <2>2, ArticlesAssumption
<1> HIDE DEF s, n
<1>9. page \in Seq(all) /\ Len(page) = n /\ DOMAIN page = 1..n /\ \A i \in 1..n : page[i] = s[i]
  BY <1>7, <1>8, FirstOK
<1> HIDE DEF page
<1>10. /\ \A i, j \in 1..Len(s) : i # j => s[i] # s[j]
       /\ \A x \in all : \E i \in 1..Len(s) : s[i] = x
       /\ \A i, j \in 1..Len(s) : i < j => <<s[i], s[j]>> \in R
       /\ \A i \in 1..Len(s) : s[i] \in all
  BY <1>7 DEF InOrderOf
<1>11. IsInjective(page)
  BY <1>8, <1>9, <1>10 DEF IsInjective
<1>12. ASSUME n > 0 PROVE Last(page) = s[n] /\ n \in 1..Len(s) /\ PageKey(Last(page)) \in Keys(2)
  <2>1. n \in 1..Len(s) /\ n \in 1..n
    BY <1>7, <1>8, <1>12
  <2>2. Last(page) = s[n]
    BY <1>9, <2>1 DEF Last
  <2>3. PageKey(s[n]) \in Keys(2)
    BY <1>5, <1>10, <2>1
  <2>. QED BY <2>1, <2>2, <2>3
<1>13. \A k \in Keys(2) : k # <<>>
  <2>1. \A k \in Keys(2) : 1 \in DOMAIN k
    BY DEF Keys
  <2>. QED BY <2>1
<1>14. ASSUME NEW v \in all, v \notin ToSet(page)
       PROVE  Len(page) = PageSize /\ Older(v, PageKey(Last(page)))
  <2>1. PICK i \in 1..Len(s) : s[i] = v
    BY <1>10
  <2>2. i > n
    BY <1>8, <1>9, <1>14, <2>1 DEF ToSet
  <2>3. n = PageSize /\ n > 0
    BY <1>8, <2>2, ArticlesAssumption
  <2>4. <<s[n], s[i]>> \in R /\ s[n] \in all
    BY <1>8, <1>10, <2>2, <2>3
  <2>5. Above(PageKey(Last(page)), PageKey(v))
    BY <1>4, <1>12, <2>1, <2>3, <2>4
  <2>. QED BY <1>9, <2>3, <2>5 DEF Older
<1>15. ASSUME NEW v \in ToSet(page), Older(v, PageKey(Last(page))) PROVE FALSE
  <2>1. PICK i \in 1..n : s[i] = v
    BY <1>9 DEF ToSet
  <2>2. n > 0 /\ i \in 1..Len(s)
    BY <1>8, <2>1
  <2>3. Last(page) = s[n] /\ n \in 1..Len(s) /\ PageKey(s[n]) \in Keys(2) /\ PageKey(v) \in Keys(2)
    BY <1>5, <1>10, <1>12, <2>1, <2>2
  <2>4. Above(PageKey(s[n]), PageKey(v))
    BY <1>13, <1>15, <2>3 DEF Older
  <2>5. CASE i = n
    <3>1. Above(PageKey(v), PageKey(v))
      BY <2>1, <2>4, <2>5
    <3>. QED BY <2>3, <3>1, AboveNone
  <2>6. CASE i < n
    <3>1. <<s[i], s[n]>> \in R /\ s[i] \in all /\ s[n] \in all
      BY <1>10, <2>2, <2>3, <2>6
    <3>2. Above(PageKey(v), PageKey(s[n]))
      <4>1. Above(PageKey(s[i]), PageKey(s[n]))
        BY <1>4, <3>1
      <4>. QED BY <2>1, <4>1
    <3>3. Above(PageKey(v), PageKey(v))
      BY <2>3, <2>4, <3>2, AboveTransitive
    <3>. QED BY <2>3, <3>3, AboveNone
  <2>. QED BY <1>8, <2>1, <2>2, <2>5, <2>6
<1>16. /\ page \in Seq(all) /\ Len(page) <= PageSize /\ IsInjective(page)
       /\ \A v \in all : v \notin ToSet(page) => Len(page) = PageSize /\ Older(v, PageKey(Last(page)))
       /\ \A v \in ToSet(page) : ~Older(v, PageKey(Last(page)))
  <2>1. \A v \in all : v \notin ToSet(page) => Len(page) = PageSize /\ Older(v, PageKey(Last(page)))
    BY <1>14
  <2>2. \A v \in ToSet(page) : ~Older(v, PageKey(Last(page)))
    BY <1>15
  <2>. QED BY <1>8, <1>9, <1>11, <2>1, <2>2
<1>. QED BY <1>1, <1>16 DEF all

HitsOf(items) == {v \in ToSet(items) : Article[v].hits > 0}

\* A ranking has hits only, each once, and leaves out none that some of it does not beat.
LEMMA RankedOK ==
  ASSUME NEW items \in Seq(Articles), IsInjective(items), analysisId \in [Articles -> Nat]
  PROVE  /\ Ranked(items) \in Seq(Articles) /\ Len(Ranked(items)) <= MaxResults
         /\ IsInjective(Ranked(items)) /\ ToSet(Ranked(items)) \subseteq HitsOf(items)
         /\ \A v \in HitsOf(items) \ ToSet(Ranked(items)) : Beaten(v, Ranked(items))
<1> DEFINE places == {i \in DOMAIN items : Article[items[i]].hits > 0}
           R == {p \in places \X places :
                   \/ Above(ResultKey(items[p[1]]), ResultKey(items[p[2]]))
                   \/ items[p[1]] = items[p[2]] /\ p[1] < p[2]}
           h == Ordered(places, R)
           m == Min({MaxResults, Len(h)})
           r == [n \in 1..m |-> items[h[n]]]
<1>1. r = Ranked(items)
  BY DEF Ranked, Hits
<1>2. /\ places \subseteq 1..Len(items) /\ DOMAIN items = 1..Len(items) /\ Len(items) \in Nat
      /\ \A i \in places : items[i] \in Articles
      /\ \A i, j \in places : i # j => items[i] # items[j]
  BY DEF IsInjective
<1>3. HitsOf(items) = {items[i] : i \in places}
  BY DEF HitsOf, ToSet
<1>4. IsFiniteSet(places)
  <2>1. IsFiniteSet(1..Len(items))
    BY <1>2, FS_Interval
  <2> HIDE DEF places
  <2>. QED BY <1>2, <2>1, FS_Subset
<1>5. \A i, j \in places :
        i # j => (<<i, j>> \in R <=> Above(ResultKey(items[i]), ResultKey(items[j])))
  BY <1>2
<1>6. /\ \A i \in places : ResultKey(items[i]) \in Keys(6)
      /\ \A i, j \in places : i # j => ResultKey(items[i]) # ResultKey(items[j])
  BY <1>2, KeyTypes
<1>7. \A i, j \in places : <<i, j>> \in R => i # j
  <2> SUFFICES ASSUME NEW i \in places, <<i, i>> \in R PROVE FALSE
    OBVIOUS
  <2>1. Above(ResultKey(items[i]), ResultKey(items[i])) \/ i < i
    OBVIOUS
  <2>2. i \in Int
    BY <1>2
  <2>. QED BY <1>6, <2>1, <2>2, AboveNone
<1> HIDE DEF R, places
<1>8. Orders(R, places)
  <2>1. \A i, j \in places : i # j => <<i, j>> \in R \/ <<j, i>> \in R
    BY <1>5, <1>6, AboveTotal
  <2>2. ASSUME NEW i \in places, NEW j \in places, NEW k \in places,
               <<i, j>> \in R, <<j, k>> \in R
        PROVE  <<i, k>> \in R
    <3>1. /\ Above(ResultKey(items[i]), ResultKey(items[j]))
          /\ Above(ResultKey(items[j]), ResultKey(items[k]))
      BY <1>5, <1>7, <2>2
    <3>2. Above(ResultKey(items[i]), ResultKey(items[k]))
      BY <1>6, <3>1, AboveTransitive
    <3>3. i # k
      BY <1>6, <3>2, AboveNone
    <3>. QED BY <1>5, <3>2, <3>3
  <2>. QED BY <2>1, <2>2 DEF Orders
<1>9. /\ Cardinality(places) \in Nat /\ h \in Seq(places) /\ Len(h) = Cardinality(places)
      /\ InOrderOf(h, places, R)
  BY <1>4, <1>8, OrderedOK
<1>10. /\ \A i \in 1..Len(h) : h[i] \in places
       /\ \A i, j \in 1..Len(h) : i # j => h[i] # h[j]
       /\ \A x \in places : \E i \in 1..Len(h) : h[i] = x
       /\ \A i, j \in 1..Len(h) : i < j => <<h[i], h[j]>> \in R
  BY <1>9 DEF InOrderOf
<1> HIDE DEF h
<1>11. m \in Nat /\ m <= Len(h) /\ m <= MaxResults /\ (m < Len(h) => m = MaxResults)
  <2>1. Len(h) \in Nat /\ MaxResults \in Nat /\ Len(h) \in Int /\ MaxResults \in Int
    BY <1>9, ArticlesAssumption
  <2>2. m \in {MaxResults, Len(h)} /\ m <= MaxResults /\ m <= Len(h)
    <3> DEFINE c == Len(h)
    <3>1. c \in Int
      BY <2>1
    <3> HIDE DEF c
    <3>2. Min({MaxResults, c}) \in {MaxResults, c}
      BY <2>1, <3>1, MinOK
    <3>3. Min({MaxResults, c}) <= MaxResults /\ Min({MaxResults, c}) <= c
      BY <2>1, <3>1, MinOK
    <3>. QED BY <3>2, <3>3 DEF c
  <2> HIDE DEF m
  <2>. QED BY <2>1, <2>2
<1> HIDE DEF m
<1>12. r \in [1..m -> Articles] /\ \A n \in 1..m : n \in 1..Len(h) /\ r[n] = items[h[n]]
  <2>1. \A n \in 1..m : n \in 1..Len(h)
    BY <1>9, <1>11
  <2>2. \A n \in 1..m : items[h[n]] \in Articles
    BY <1>2, <1>10, <2>1
  <2>. QED BY <2>1, <2>2
<1> HIDE DEF r
<1>13. r \in Seq(Articles) /\ Len(r) = m /\ DOMAIN r = 1..m
  BY <1>11, <1>12
<1>14. IsInjective(r)
  <2>1. \A i, j \in 1..m : i # j => h[i] # h[j] /\ h[i] \in places /\ h[j] \in places
    BY <1>10, <1>12
  <2>2. \A i, j \in 1..m : i # j => r[i] # r[j]
    <3> SUFFICES ASSUME NEW i \in 1..m, NEW j \in 1..m, i # j PROVE r[i] # r[j]
      OBVIOUS
    <3>1. h[i] \in places /\ h[j] \in places /\ h[i] # h[j]
      BY <2>1
    <3>2. items[h[i]] # items[h[j]]
      BY <1>2, <3>1
    <3>. QED BY <1>12, <3>2
  <2>. QED BY <1>13, <2>2 DEF IsInjective
<1>15. ToSet(r) = {r[n] : n \in 1..m}
  BY <1>13 DEF ToSet
<1>16. ToSet(r) \subseteq HitsOf(items)
  BY <1>3, <1>10, <1>12, <1>15
<1>17. ASSUME NEW v \in HitsOf(items), v \notin ToSet(r)
       PROVE  Len(r) = MaxResults /\ \A u \in ToSet(r) : Above(ResultKey(u), ResultKey(v))
  <2>1. PICK i \in places : items[i] = v
    BY <1>3
  <2>2. PICK n \in 1..Len(h) : h[n] = i
    BY <1>10
  <2>3. n > m
    <3>1. n \in 1..m => r[n] = v /\ r[n] \in ToSet(r)
      BY <1>12, <1>15, <2>1, <2>2
    <3>. QED BY <1>9, <1>11, <1>17, <3>1
  <2>4. Len(r) = MaxResults
    BY <1>9, <1>11, <1>13, <2>2, <2>3
  <2>5. ASSUME NEW u \in ToSet(r) PROVE Above(ResultKey(u), ResultKey(v))
    <3>1. PICK k \in 1..m : r[k] = u
      BY <1>15
    <3>2. k \in 1..Len(h) /\ k < n /\ u = items[h[k]]
      BY <1>11, <1>12, <2>3, <3>1
    <3>3. <<h[k], h[n]>> \in R /\ h[k] \in places /\ h[n] \in places /\ h[k] # h[n]
      <4>1. k < n /\ k # n
        BY <1>9, <1>11, <3>2
      <4>. QED BY <1>10, <3>2, <4>1
    <3>4. Above(ResultKey(items[h[k]]), ResultKey(items[h[n]]))
      BY <1>5, <3>3
    <3>. QED BY <2>1, <2>2, <3>2, <3>4
  <2>. QED BY <2>4, <2>5
<1>18. \A v \in HitsOf(items) \ ToSet(r) : Beaten(v, r)
  BY <1>17 DEF Beaten
<1>. QED BY <1>1, <1>11, <1>13, <1>14, <1>16, <1>18

\* What a result beats, a result of more articles beats or names.
LEMMA BeatenStays ==
  ASSUME NEW items \in Seq(Articles), IsInjective(items), analysisId \in [Articles -> Nat],
         NEW best \in Seq(Articles), IsInjective(best), ToSet(best) \subseteq HitsOf(items),
         NEW v \in Articles, Beaten(v, best), v \notin ToSet(Ranked(items))
  PROVE  Beaten(v, Ranked(items))
<1> DEFINE r == Ranked(items)
<1>1. /\ r \in Seq(Articles) /\ Len(r) <= MaxResults /\ IsInjective(r)
      /\ ToSet(r) \subseteq HitsOf(items)
      /\ \A u \in HitsOf(items) \ ToSet(r) : Beaten(u, r)
  BY RankedOK
<1> HIDE DEF r
<1>2. Len(best) = MaxResults /\ \A u \in ToSet(best) : Above(ResultKey(u), ResultKey(v))
  BY DEF Beaten
<1>3. /\ IsFiniteSet(ToSet(best)) /\ Cardinality(ToSet(best)) = MaxResults
      /\ IsFiniteSet(ToSet(r)) /\ Cardinality(ToSet(r)) = Len(r)
  BY <1>1, <1>2, DistinctCount
<1>4. MaxResults \in Nat /\ Len(r) \in Nat
  BY <1>1, ArticlesAssumption
<1>5. Len(r) = MaxResults
  <2>1. CASE ToSet(best) \subseteq ToSet(r)
    <3>1. Cardinality(ToSet(best)) <= Cardinality(ToSet(r))
      BY <1>3, <2>1, FS_Subset
    <3>. QED BY <1>1, <1>3, <1>4, <3>1
  <2>2. CASE ~(ToSet(best) \subseteq ToSet(r))
    <3>1. PICK u \in ToSet(best) : u \notin ToSet(r)
      BY <2>2
    <3>2. Beaten(u, r)
      BY <1>1, <3>1
    <3>. QED BY <3>2 DEF Beaten
  <2>. QED BY <2>1, <2>2
<1>6. ASSUME NEW u \in ToSet(r) PROVE Above(ResultKey(u), ResultKey(v))
  <2>1. CASE u \in ToSet(best)
    BY <1>2, <2>1
  <2>2. CASE u \notin ToSet(best)
    <3>1. ~(ToSet(best) \subseteq ToSet(r) \ {u})
      <4> SUFFICES ASSUME ToSet(best) \subseteq ToSet(r) \ {u} PROVE FALSE
        OBVIOUS
      <4>1. IsFiniteSet(ToSet(r) \ {u}) /\ Cardinality(ToSet(r) \ {u}) = Cardinality(ToSet(r)) - 1
        BY <1>3, FS_RemoveElement
      <4>2. Cardinality(ToSet(best)) <= Cardinality(ToSet(r) \ {u})
        BY <4>1, FS_Subset
      <4>. QED BY <1>3, <1>4, <1>5, <4>1, <4>2
    <3>2. PICK w \in ToSet(best) : w \notin ToSet(r)
      BY <2>2, <3>1
    <3>3. Above(ResultKey(u), ResultKey(w)) /\ Above(ResultKey(w), ResultKey(v))
      <4>1. Beaten(w, r)
        BY <1>1, <3>2
      <4>. QED BY <1>2, <3>2, <4>1 DEF Beaten
    <3>4. u \in Articles /\ w \in Articles
      BY <1>1, <3>2 DEF HitsOf, ToSet
    <3>5. ResultKey(u) \in Keys(6) /\ ResultKey(w) \in Keys(6) /\ ResultKey(v) \in Keys(6)
      BY <3>4, KeyTypes
    <3>. QED BY <3>3, <3>5, AboveTransitive
  <2>. QED BY <2>1, <2>2
<1>. QED BY <1>5, <1>6 DEF Beaten, r

\* What a search has found it still finds after it has resolved the platforms of others.
LEMMA FoundAgain ==
  ASSUME ReadIInv
  PROVE  Matching \subseteq {v \in Findable(search.asked, RowsAfter(Backlog)) : Article[v].hits > 0}
<1> SUFFICES ASSUME NEW v \in Findable(search.asked, rows)
             PROVE  v \in Findable(search.asked, RowsAfter(Backlog))
  BY DEF Matching
<1>1. v \in Readable /\ AskedFor(v, search.asked, rows) /\ v \in Articles
  BY DEF Findable, Readable, ReadIInv, ReadTypes
<1>2. v \in Unresolved(Backlog) => rows[v] = {} /\ Gated(v)
  BY DEF Unresolved
<1>3. v \notin Unresolved(Backlog) => RowsAfter(Backlog)[v] = rows[v]
  BY <1>1 DEF RowsAfter
<1>4. AskedFor(v, search.asked, RowsAfter(Backlog))
  BY <1>1, <1>2, <1>3 DEF AskedFor
<1>. QED BY <1>1, <1>4 DEF Findable

LEMMA SoFarOK ==
  ASSUME ReadIInv, search.on
  PROVE  /\ SoFar \in Seq(Articles) /\ Len(SoFar) <= MaxResults /\ IsInjective(SoFar)
         /\ \A u \in ToSet(SoFar) : u \in Analysed /\ Article[u].hits > 0
         /\ Len(NextPage) \in Nat
         /\ Len(NextPage) > 0 =>
              /\ PageKey(Last(NextPage)) \in Keys(2)
              /\ Older(Last(NextPage), search.before)
              /\ \A u \in ToSet(SoFar) : ~Older(u, PageKey(Last(NextPage)))
         /\ \A v \in steady \ ToSet(SoFar) :
              \/ Beaten(v, SoFar)
              \/ Len(NextPage) = PageSize /\ Older(v, PageKey(Last(NextPage)))
<1> DEFINE after == RowsAfter(Backlog)
           all == {v \in Findable(search.asked, after) : Older(v, search.before)}
           page == NextPage
           ranked == search.ranked
           items == ranked \o page
           last == PageKey(Last(page))
<1>1. /\ known \subseteq Articles /\ analysisId \in [Articles -> Nat] /\ IdsInOrder
      /\ search \in Searches /\ ranked \in Seq(Articles)
  BY DEF ReadIInv, ReadTypes, Searches
<1>2. /\ page \in Seq(all) /\ Len(page) <= PageSize /\ IsInjective(page)
      /\ \A v \in all : v \notin ToSet(page) => Len(page) = PageSize /\ Older(v, last)
      /\ \A v \in ToSet(page) : ~Older(v, last)
  <2>1. page = Page(search.asked, search.before, after)
    BY DEF NextPage
  <2>. QED BY <1>1, <2>1, PageOK
<1>3. all \subseteq Articles /\ all \subseteq Analysed
  BY <1>1 DEF Findable, Readable, Analysed
<1>4. /\ IsInjective(ranked)
      /\ \A u \in ToSet(ranked) : u \in Analysed /\ Article[u].hits > 0 /\ ~Older(u, search.before)
      /\ \A v \in steady :
           Older(v, search.before) \/ v \in ToSet(ranked) \/ Beaten(v, ranked)
  BY DEF ReadIInv, SearchSound
<1>5. \A v \in all : Older(v, search.before)
  OBVIOUS
<1>6. \A v \in steady : /\ v \in Articles /\ Article[v].hits > 0
                        /\ Older(v, search.before) => v \in all
  <2>1. \A v \in steady : v \in Findable(search.asked, after) /\ Article[v].hits > 0
    BY FoundAgain DEF ReadIInv
  <2>. QED BY <1>1, <2>1 DEF Findable, Readable
<1>7. search.before \in {<<>>} \cup Keys(2)
  BY <1>1 DEF Searches
<1> HIDE DEF all, page
<1>8. page \in Seq(Articles) /\ Len(page) \in Nat /\ DOMAIN page = 1..Len(page)
      /\ \A u \in ToSet(page) : u \in all
  BY <1>2, <1>3 DEF ToSet
<1>9. items \in Seq(Articles) /\ IsInjective(items) /\ ToSet(items) = ToSet(ranked) \cup ToSet(page)
  <2>1. \A x \in ToSet(ranked) : x \notin ToSet(page)
    BY <1>4, <1>5, <1>8
  <2>. QED BY <1>1, <1>2, <1>4, <1>8, <2>1, ConcatOK
<1>10. /\ SoFar \in Seq(Articles) /\ Len(SoFar) <= MaxResults /\ IsInjective(SoFar)
       /\ ToSet(SoFar) \subseteq HitsOf(items)
       /\ \A v \in HitsOf(items) \ ToSet(SoFar) : Beaten(v, SoFar)
       /\ SoFar = Ranked(items)
  <2>1. SoFar = Ranked(items)
    BY DEF SoFar, page
  <2> HIDE DEF items
  <2>. QED BY <1>1, <1>9, <2>1, RankedOK
<1>11. \A u \in ToSet(SoFar) : u \in Analysed /\ Article[u].hits > 0
  BY <1>3, <1>4, <1>8, <1>9, <1>10 DEF HitsOf
<1>12. ASSUME Len(page) > 0
       PROVE  /\ last \in Keys(2) /\ Older(Last(page), search.before)
              /\ \A u \in ToSet(SoFar) : ~Older(u, last)
  <2>1. Last(page) \in ToSet(page)
    BY <1>8, <1>12 DEF Last, ToSet
  <2>2. last \in Keys(2) /\ Older(Last(page), search.before)
    BY <1>1, <1>3, <1>5, <1>8, <2>1, KeyTypes
  <2> HIDE DEF last
  <2>3. ASSUME NEW u \in ToSet(ranked) PROVE ~Older(u, last)
    <3>1. ~Older(u, search.before) /\ u \in Articles
      BY <1>4 DEF Analysed
    <3>2. search.before # <<>> /\ ~Above(search.before, PageKey(u))
      BY <3>1 DEF Older
    <3>3. search.before \in Keys(2) /\ PageKey(u) \in Keys(2) /\ Above(search.before, last)
      BY <1>1, <1>7, <2>2, <3>1, <3>2, KeyTypes DEF Older, last
    <3>4. last # <<>>
      <4>1. 1 \in DOMAIN last
        BY <2>2 DEF Keys
      <4>. QED BY <4>1
    <3>5. ~Above(last, PageKey(u))
      BY <2>2, <3>2, <3>3, AboveTransitive
    <3>. QED BY <3>4, <3>5 DEF Older
  <2>4. \A u \in ToSet(SoFar) : u \in ToSet(ranked) \/ u \in ToSet(page)
    BY <1>9, <1>10 DEF HitsOf
  <2>5. \A u \in ToSet(page) : ~Older(u, last)
    BY <1>2 DEF last
  <2>. QED BY <2>2, <2>3, <2>4, <2>5
<1>13. ASSUME NEW v \in steady \ ToSet(SoFar)
       PROVE  \/ Beaten(v, SoFar)
              \/ Len(page) = PageSize /\ Older(v, last)
  <2>1. CASE Older(v, search.before)
    <3>1. v \in all
      BY <1>6, <2>1
    <3>2. CASE v \notin ToSet(page)
      BY <1>2, <3>1, <3>2
    <3>3. CASE v \in ToSet(page)
      BY <1>6, <1>9, <1>10, <3>3 DEF HitsOf
    <3>. QED BY <3>2, <3>3
  <2>2. CASE v \in ToSet(ranked)
    BY <1>6, <1>9, <1>10, <2>2 DEF HitsOf
  <2>3. CASE Beaten(v, ranked)
    <3>1. ToSet(ranked) \subseteq HitsOf(items)
      BY <1>4, <1>9 DEF HitsOf
    <3> HIDE DEF items
    <3>2. Beaten(v, Ranked(items))
      BY <1>1, <1>4, <1>6, <1>9, <1>10, <2>3, <3>1, BeatenStays
    <3>. QED BY <1>10, <3>2
  <2>. QED BY <1>4, <2>1, <2>2, <2>3
<1>. QED BY <1>8, <1>10, <1>11, <1>12, <1>13 DEF page

LEMMA ReadInitOK == ReadInit => ReadIInv
<1> SUFFICES ASSUME ReadInit PROVE ReadIInv
  OBVIOUS
<1>1. search = NoSearch /\ steady = {} /\ analysisId = [v \in Articles |-> 0] /\ Analysed = {}
  BY DEF ReadInit, Analysed
<1>2. NoSearch \in Searches /\ NoSearch.on = FALSE /\ NoSearch.ranked = <<>>
  BY DEF NoSearch, Searches
<1>3. Len(search.ranked) <= MaxResults
  BY <1>1, <1>2, ArticlesAssumption
<1>4. ReadTypes
  BY <1>1, <1>2, <1>3, ArticlesAssumption DEF ReadInit, ReadTypes
<1>5. IdsInOrder
  BY <1>1 DEF IdsInOrder
<1>6. steady \subseteq Matching /\ SearchSound
  BY <1>1, <1>2 DEF SearchSound
<1>. QED BY <1>4, <1>5, <1>6 DEF ReadIInv

\* What is found has been analysed.
LEMMA SteadyAnalysed ==
  ASSUME ReadIInv
  PROVE  steady \subseteq Analysed /\ steady \subseteq known
BY DEF ReadIInv, ReadTypes, Matching, Findable, Readable, Analysed

\* Ids once given stay.
IdsKept == \A v \in Analysed : analysisId'[v] = analysisId[v]

\* A step that leaves the search and the ids given keeps the search sound.
LEMMA SearchUndisturbed ==
  ASSUME ReadIInv, search' = search, Witness, analysisId' \in [Articles -> Nat], IdsKept
  PROVE  SearchSound' /\ (steady \subseteq Matching)'
<1>1. steady' \subseteq steady /\ (steady \subseteq Matching)'
  BY DEF Witness
<1>2. /\ Analysed \subseteq Analysed' /\ Analysed \subseteq Articles
      /\ \A v \in Analysed : PageKey(v)' = PageKey(v) /\ ResultKey(v)' = ResultKey(v)
  BY DEF IdsKept, Analysed, PageKey, ResultKey
<1>3. /\ steady \subseteq Analysed
      /\ search.on => ToSet(search.ranked) \subseteq Analysed
  BY SteadyAnalysed DEF ReadIInv, SearchSound
<1>4. \A v \in Analysed : Older(v, search.before)' <=> Older(v, search.before)
  BY <1>2 DEF Older
<1>5. search.on => \A v \in Analysed : Beaten(v, search.ranked)' <=> Beaten(v, search.ranked)
  BY <1>2, <1>3 DEF Beaten
<1>6. ASSUME search'.on
      PROVE  /\ IsInjective(search'.ranked)
             /\ \A u \in ToSet(search'.ranked) :
                  u \in Analysed' /\ Article[u].hits > 0 /\ ~Older(u, search.before)'
             /\ \A v \in steady' :
                  \/ Older(v, search.before)' \/ v \in ToSet(search'.ranked)
                  \/ Beaten(v, search.ranked)'
  <2>1. /\ IsInjective(search.ranked)
        /\ \A u \in ToSet(search.ranked) :
             u \in Analysed /\ Article[u].hits > 0 /\ ~Older(u, search.before)
        /\ \A v \in steady :
             Older(v, search.before) \/ v \in ToSet(search.ranked) \/ Beaten(v, search.ranked)
    BY <1>6 DEF ReadIInv, SearchSound
  <2>. QED BY <1>1, <1>2, <1>3, <1>4, <1>5, <1>6, <2>1
<1>. QED BY <1>1, <1>6 DEF SearchSound

\* A step that gives no id keeps them in order, if it forgets no article.
LEMMA IdsUndisturbed ==
  ASSUME IdsInOrder, analysisId' = analysisId, known \subseteq known'
  PROVE  IdsInOrder'
<1>1. Analysed' = Analysed
  BY DEF Analysed
<1>. QED BY <1>1 DEF IdsInOrder

LEMMA OfferedOK ==
  ASSUME registry \in Registries, NEW v \in Articles
  PROVE  Offered(v) \subseteq Platforms /\ Matched(v) \subseteq Platforms
BY ArticlesAssumption DEF Offered, Matched

\* Resolving what is stored gives platforms of the registry to articles stored.
LEMMA ResolvingOK ==
  ASSUME ReadTypes, NEW vs \in SUBSET known
  PROVE  /\ RowsAfter(vs) \in [Articles -> SUBSET Platforms]
         /\ resolved \subseteq ResolvedAfter(vs) /\ ResolvedAfter(vs) \subseteq known
<1>1. \A v \in Articles : Matched(v) \in SUBSET Platforms /\ rows[v] \in SUBSET Platforms
  BY OfferedOK DEF ReadTypes
<1>2. RowsAfter(vs) \in [Articles -> SUBSET Platforms]
  BY <1>1 DEF RowsAfter
<1>. QED BY <1>2 DEF ReadTypes, ResolvedAfter, Unresolved

LEMMA PersistArticleOK ==
  ASSUME ReadIInv, NEW v \in Articles, NEW given \in SUBSET Platforms, PersistArticle(v, given)
  PROVE  ReadIInv'
<1>1. ReadTypes /\ IdsInOrder
  BY DEF ReadIInv
<1>2. PICK platforms \in SUBSET Platforms :
        /\ known' = known \cup {v} /\ rows' = [rows EXCEPT ![v] = platforms]
        /\ resolved' = resolved \cup {v}
  <2>1. Offered(v) \in SUBSET Platforms /\ Matched(v) \in SUBSET Platforms /\ rows[v] \in SUBSET Platforms
    BY <1>1, OfferedOK DEF ReadTypes
  <2>. QED BY <2>1 DEF PersistArticle
<1>3. /\ redacted' = redacted /\ analysisId' = analysisId /\ links' = links /\ withdrawn' = withdrawn
      /\ registry' = registry /\ search' = search /\ Witness
  BY DEF PersistArticle
<1>4. ReadTypes'
  BY <1>1, <1>2, <1>3 DEF ReadTypes
<1>5. IdsInOrder'
  BY <1>1, <1>2, <1>3, IdsUndisturbed
<1>6. analysisId' \in [Articles -> Nat] /\ IdsKept
  BY <1>1, <1>3 DEF ReadTypes, IdsKept
<1>. QED BY <1>3, <1>4, <1>5, <1>6, SearchUndisturbed DEF ReadIInv

LEMMA CompleteArticleOK ==
  ASSUME ReadIInv, NEW v \in Articles, CompleteArticle(v)
  PROVE  ReadIInv'
<1> DEFINE T == {analysisId[u] : u \in Articles}
           top == Max(T)
<1>1. ReadTypes /\ IdsInOrder /\ known \subseteq Articles /\ analysisId \in [Articles -> Nat]
  BY DEF ReadIInv, ReadTypes
<1>2. /\ v \in known /\ analysisId[v] = 0 /\ analysisId' = [analysisId EXCEPT ![v] = 1 + top]
      /\ known' = known /\ rows' = rows /\ resolved' = resolved /\ redacted' = redacted
      /\ links' = links /\ withdrawn' = withdrawn /\ registry' = registry /\ search' = search
      /\ Witness
  BY DEF CompleteArticle
<1>3. IsFiniteSet(T) /\ T # {} /\ T \subseteq Nat
  <2> DEFINE f == [u \in Articles |-> analysisId[u]]
  <2>1. f \in Surjection(Articles, T) /\ T # {} /\ T \subseteq Nat
    BY <1>1 DEF Surjection
  <2> HIDE DEF f, T
  <2>. QED BY <2>1, FS_Surjection, ArticlesAssumption
<1>4. top \in T /\ \A n \in T : n <= top
  <2> HIDE DEF T
  <2>1. T \subseteq Int
    BY <1>3
  <2>. QED BY <1>3, <2>1, MaxOK
<1>5. /\ top \in Nat /\ \A u \in Articles : analysisId[u] <= top
      /\ \E u \in Articles : analysisId[u] = top
  BY <1>3, <1>4
<1> HIDE DEF T, top
<1>6. /\ analysisId' \in [Articles -> Nat] /\ analysisId'[v] = top + 1
      /\ \A u \in Articles \ {v} : analysisId'[u] = analysisId[u]
  BY <1>1, <1>2, <1>5
<1>7. Analysed' = Analysed \cup {v} /\ v \notin Analysed
  BY <1>1, <1>2, <1>5, <1>6 DEF Analysed
<1>8. /\ Analysed \subseteq Articles /\ IsFiniteSet(Analysed) /\ Cardinality(Analysed) \in Nat
      /\ Cardinality(Analysed') = Cardinality(Analysed) + 1
  <2>1. Analysed \subseteq Articles /\ IsFiniteSet(Analysed)
    BY FS_Subset, ArticlesAssumption DEF Analysed
  <2>. QED BY <1>7, <2>1, FS_AddElement, FS_CardinalityType
<1>9. top <= Cardinality(Analysed)
  <2>1. PICK u \in Articles : analysisId[u] = top
    BY <1>5
  <2>. QED BY <1>1, <1>5, <1>8, <2>1 DEF IdsInOrder, Analysed
<1>10. ReadTypes'
  BY <1>1, <1>2, <1>6 DEF ReadTypes
<1>11. IdsInOrder'
  <2>1. Analysed' \subseteq known'
    BY <1>1, <1>2, <1>7 DEF IdsInOrder
  <2>2. ASSUME NEW u \in Analysed', NEW w \in Analysed', analysisId'[u] = analysisId'[w] PROVE u = w
    <3>1. CASE u = v /\ w = v
      BY <3>1
    <3>2. CASE u = v /\ w \in Analysed \ {v}
      BY <1>1, <1>5, <1>6, <1>8, <2>2, <3>2
    <3>3. CASE w = v /\ u \in Analysed \ {v}
      BY <1>1, <1>5, <1>6, <1>8, <2>2, <3>3
    <3>4. CASE u \in Analysed \ {v} /\ w \in Analysed \ {v}
      BY <1>1, <1>6, <1>8, <2>2, <3>4 DEF IdsInOrder
    <3>. QED BY <1>7, <3>1, <3>2, <3>3, <3>4
  <2>3. ASSUME NEW u \in Analysed' PROVE analysisId'[u] <= Cardinality(Analysed')
    <3>1. CASE u = v
      BY <1>5, <1>6, <1>8, <1>9, <3>1
    <3>2. CASE u \in Analysed \ {v}
      BY <1>1, <1>5, <1>6, <1>8, <1>9, <3>2
    <3>. QED BY <1>7, <3>1, <3>2
  <2>. QED BY <2>1, <2>2, <2>3 DEF IdsInOrder
<1>12. IdsKept
  BY <1>6, <1>7, <1>8 DEF IdsKept
<1>. QED BY <1>2, <1>6, <1>10, <1>11, <1>12, SearchUndisturbed DEF ReadIInv

LEMMA QuietReadsOK ==
  ASSUME ReadIInv, analysisId' = analysisId, search' = search, Witness,
         known' = known, resolved \subseteq resolved', ReadTypes'
  PROVE  ReadIInv'
<1>1. IdsInOrder'
  BY IdsUndisturbed DEF ReadIInv
<1>2. analysisId' \in [Articles -> Nat] /\ IdsKept
  BY DEF ReadIInv, ReadTypes, IdsKept
<1>. QED BY <1>1, <1>2, SearchUndisturbed DEF ReadIInv

LEMMA StartSearchOK ==
  ASSUME ReadIInv, NEW asked \in Questions, StartSearch(asked)
  PROVE  ReadIInv'
<1>1. /\ known' = known /\ rows' = rows /\ resolved' = resolved /\ redacted' = redacted
      /\ analysisId' = analysisId /\ links' = links /\ withdrawn' = withdrawn
      /\ registry' = registry /\ steady' = Matching'
      /\ search' = [on |-> TRUE, asked |-> asked, before |-> <<>>, ranked |-> <<>>]
  BY DEF StartSearch, NoSearch
<1>2. search' \in Searches /\ Len(search'.ranked) <= MaxResults
  BY <1>1, ArticlesAssumption DEF Searches
<1>3. ReadTypes'
  BY <1>1, <1>2 DEF ReadIInv, ReadTypes
<1>4. IdsInOrder'
  BY <1>1, IdsUndisturbed DEF ReadIInv
<1>5. /\ IsInjective(search'.ranked) /\ ToSet(search'.ranked) = {}
      /\ \A v : Older(v, search.before)'
  BY <1>1 DEF IsInjective, ToSet, Older
<1>6. SearchSound'
  BY <1>5 DEF SearchSound
<1>. QED BY <1>1, <1>3, <1>4, <1>6 DEF ReadIInv

LEMMA SearchPageOK ==
  ASSUME ReadIInv, SearchPage
  PROVE  ReadIInv'
<1>1. /\ search.on /\ rows' = RowsAfter(Backlog) /\ resolved' = ResolvedAfter(Backlog)
      /\ search' = IF LastPage THEN NoSearch
                   ELSE [search EXCEPT !.ranked = SoFar, !.before = PageKey(Last(NextPage))]
      /\ known' = known /\ redacted' = redacted /\ analysisId' = analysisId /\ links' = links
      /\ withdrawn' = withdrawn /\ registry' = registry /\ Witness
  BY DEF SearchPage
<1>2. ReadTypes /\ IdsInOrder /\ search \in Searches
  BY DEF ReadIInv, ReadTypes
<1>3. Backlog \in SUBSET known
  BY DEF Backlog
<1>4. rows' \in [Articles -> SUBSET Platforms] /\ resolved' \subseteq known
  BY <1>1, <1>2, <1>3, ResolvingOK
<1>5. IdsInOrder'
  BY <1>1, <1>2, IdsUndisturbed
<1>6. (steady \subseteq Matching)' /\ steady' \subseteq steady
  BY <1>1 DEF Witness
<1>7. CASE LastPage
  <2>1. search' = NoSearch
    BY <1>1, <1>7
  <2>2. search' \in Searches /\ Len(search'.ranked) <= MaxResults /\ ~search'.on
    BY <2>1, ArticlesAssumption DEF Searches, NoSearch
  <2>3. ReadTypes' /\ SearchSound'
    BY <1>1, <1>2, <1>4, <2>2 DEF ReadTypes, SearchSound
  <2>. QED BY <1>5, <1>6, <2>3 DEF ReadIInv
<1>8. CASE ~LastPage
  <2>1. search' = [search EXCEPT !.ranked = SoFar, !.before = PageKey(Last(NextPage))]
    BY <1>1, <1>8
  <2>2. /\ SoFar \in Seq(Articles) /\ Len(SoFar) <= MaxResults /\ IsInjective(SoFar)
        /\ \A u \in ToSet(SoFar) : u \in Analysed /\ Article[u].hits > 0
        /\ Len(NextPage) \in Nat
        /\ Len(NextPage) > 0 =>
             /\ PageKey(Last(NextPage)) \in Keys(2)
             /\ Older(Last(NextPage), search.before)
             /\ \A u \in ToSet(SoFar) : ~Older(u, PageKey(Last(NextPage)))
        /\ \A v \in steady \ ToSet(SoFar) :
             \/ Beaten(v, SoFar)
             \/ Len(NextPage) = PageSize /\ Older(v, PageKey(Last(NextPage)))
    BY <1>1, SoFarOK
  <2>3. Len(NextPage) > 0
    BY <1>8, <2>2, ArticlesAssumption DEF LastPage
  <2>4. /\ search'.ranked = SoFar /\ search'.before = PageKey(Last(NextPage))
        /\ search' \in Searches
    BY <1>2, <2>1, <2>2, <2>3 DEF Searches
  <2>5. ReadTypes'
    BY <1>1, <1>2, <1>4, <2>2, <2>4 DEF ReadTypes
  <2>6. /\ Analysed' = Analysed
        /\ \A v : PageKey(v)' = PageKey(v) /\ ResultKey(v)' = ResultKey(v)
    BY <1>1 DEF Analysed, PageKey, ResultKey
  <2> DEFINE last == PageKey(Last(NextPage))
  <2> HIDE DEF last
  <2>7. ASSUME NEW v
        PROVE  /\ Older(v, search.before)' <=> Older(v, last)
               /\ Beaten(v, search.ranked)' <=> Beaten(v, SoFar)
    <3>1. search'.ranked = SoFar /\ search'.before = last
      BY <2>4 DEF last
    <3>2. Older(v, search.before)' <=> Older(v, last)
      BY <2>6, <3>1 DEF Older
    <3>3. Beaten(v, search.ranked)' <=> Beaten(v, SoFar)
      BY <2>6, <3>1 DEF Beaten
    <3>. QED BY <3>2, <3>3
  <2>8. \A v \in steady' : \/ Older(v, search.before)'
                          \/ v \in ToSet(search'.ranked)
                          \/ Beaten(v, search.ranked)'
    <3> SUFFICES ASSUME NEW v \in steady', v \notin ToSet(search'.ranked)
                 PROVE  Older(v, search.before)' \/ Beaten(v, search.ranked)'
      OBVIOUS
    <3>1. Beaten(v, SoFar) \/ Older(v, last)
      BY <1>6, <2>2, <2>4 DEF last
    <3>. QED BY <2>7, <3>1
  <2>9. \A u \in ToSet(search'.ranked) :
          u \in Analysed' /\ Article[u].hits > 0 /\ ~Older(u, search.before)'
    BY <2>2, <2>3, <2>4, <2>6, <2>7 DEF last
  <2>10. SearchSound'
    BY <2>2, <2>4, <2>8, <2>9 DEF SearchSound
  <2>. QED BY <1>5, <1>6, <2>5, <2>10 DEF ReadIInv
<1>. QED BY <1>7, <1>8

LEMMA ReadNextOK ==
  ASSUME ReadIInv, [ReadNext]_readVars
  PROVE  ReadIInv'
<1>1. ReadTypes
  BY DEF ReadIInv
<1>2. ASSUME NEW v \in Articles, NEW given \in IF Gated(v) THEN SUBSET Offered(v) ELSE {{}},
             PersistArticle(v, given)
      PROVE  ReadIInv'
  <2>1. Offered(v) \subseteq Platforms
    BY <1>1, OfferedOK DEF ReadTypes
  <2>2. given \in SUBSET Platforms
    BY <2>1
  <2>. QED BY <1>2, <2>2, PersistArticleOK
<1>3. ASSUME NEW v \in Articles, CompleteArticle(v) PROVE ReadIInv'
  BY <1>3, CompleteArticleOK
<1>4. ASSUME NEW v \in Articles, WithdrawArticle(v) PROVE ReadIInv'
  <2>1. ReadTypes'
    BY <1>1, <1>4 DEF WithdrawArticle, ReadTypes
  <2>2. /\ analysisId' = analysisId /\ search' = search /\ Witness /\ known' = known
        /\ resolved \subseteq resolved'
    BY <1>4 DEF WithdrawArticle
  <2>. QED BY <2>1, <2>2, QuietReadsOK
<1>5. ASSUME NEW v \in Articles, RedactArticle(v) PROVE ReadIInv'
  <2>1. ReadTypes'
    BY <1>1, <1>5 DEF RedactArticle, ReadTypes
  <2>2. /\ analysisId' = analysisId /\ search' = search /\ Witness /\ known' = known
        /\ resolved \subseteq resolved'
    BY <1>5 DEF RedactArticle
  <2>. QED BY <2>1, <2>2, QuietReadsOK
<1>6. ASSUME NEW r \in Registries, SyncRegistry(r) PROVE ReadIInv'
  <2>1. ReadTypes'
    BY <1>1, <1>6 DEF SyncRegistry, ReadTypes
  <2>2. /\ analysisId' = analysisId /\ search' = search /\ Witness /\ known' = known
        /\ resolved \subseteq resolved'
    BY <1>6 DEF SyncRegistry
  <2>. QED BY <2>1, <2>2, QuietReadsOK
<1>7. ASSUME NEW asked \in Questions, StartSearch(asked) PROVE ReadIInv'
  BY <1>7, StartSearchOK
<1>8. ASSUME BuildDraft PROVE ReadIInv'
  <2>1. Listable \in SUBSET known
    BY DEF Listable, Readable
  <2>2. /\ RowsAfter(Listable) \in [Articles -> SUBSET Platforms]
        /\ resolved \subseteq ResolvedAfter(Listable) /\ ResolvedAfter(Listable) \subseteq known
    BY <1>1, <2>1, ResolvingOK
  <2>3. ReadTypes'
    BY <1>1, <1>8, <2>2 DEF BuildDraft, ReadTypes
  <2>4. /\ analysisId' = analysisId /\ search' = search /\ Witness /\ known' = known
        /\ resolved \subseteq resolved'
    BY <1>8, <2>2 DEF BuildDraft
  <2>. QED BY <2>3, <2>4, QuietReadsOK
<1>9. ASSUME SearchPage PROVE ReadIInv'
  BY <1>9, SearchPageOK
<1>10. CASE UNCHANGED readVars
  <2>1. /\ known' = known /\ rows' = rows /\ resolved' = resolved /\ redacted' = redacted
        /\ analysisId' = analysisId /\ links' = links /\ withdrawn' = withdrawn
        /\ registry' = registry /\ search' = search /\ steady' = steady
    BY <1>10 DEF readVars
  <2>2. ReadTypes' /\ resolved \subseteq resolved'
    BY <1>1, <2>1 DEF ReadTypes
  <2>3. Matching' = Matching
    BY <2>1 DEF Matching, Findable, Readable, AskedFor, Gated, Offered
  <2>4. Witness
    BY <2>1, <2>3 DEF Witness, ReadIInv
  <2>. QED BY <2>1, <2>2, <2>4, QuietReadsOK
<1>11. ASSUME NEW v \in Articles, LinkArticle(v) PROVE ReadIInv'
  <2>1. PICK u \in Articles : MayBeCopy(u, v) /\ links' = links \cup {<<v, u>>}
    BY <1>11 DEF LinkArticle
  <2>2. v \in known /\ u \in known
    BY <1>11, <2>1 DEF LinkArticle, MayBeCopy, ReadIInv, IdsInOrder, Analysed
  <2>3. /\ analysisId' = analysisId /\ search' = search /\ Witness /\ known' = known
        /\ resolved' = resolved /\ rows' = rows /\ redacted' = redacted
        /\ withdrawn' = withdrawn /\ registry' = registry
    BY <1>11 DEF LinkArticle
  <2>4. ReadTypes'
    BY <1>1, <2>1, <2>2, <2>3 DEF ReadTypes
  <2>. QED BY <2>3, <2>4, QuietReadsOK
<1>. QED BY <1>2, <1>3, <1>4, <1>5, <1>6, <1>7, <1>8, <1>9, <1>10, <1>11 DEF ReadNext

\* What the reads of the corpus keep in every state.
THEOREM ReadInvariance == ReadSpec => []ReadIInv
<1>. QED BY ReadInitOK, ReadNextOK, PTL DEF ReadSpec

LEMMA ReadTypesOfInvariant ==
  ASSUME ReadIInv
  PROVE  ReadTypeOK
<1>1. ReadTypes /\ IdsInOrder /\ steady \subseteq known
  BY SteadyAnalysed DEF ReadIInv
<1>2. \A v \in Articles : analysisId[v] \in 0..Cardinality(Articles)
  <2>1. /\ IsFiniteSet(Articles) /\ Analysed \subseteq Articles
        /\ Cardinality(Articles) \in Nat /\ IsFiniteSet(Analysed)
        /\ Cardinality(Analysed) \in Nat /\ Cardinality(Analysed) <= Cardinality(Articles)
    <3>1. IsFiniteSet(Articles) /\ Analysed \subseteq Articles
      BY ArticlesAssumption DEF Analysed
    <3>. QED BY <3>1, FS_Subset, FS_CardinalityType
  <2>. QED BY <1>1, <2>1 DEF ReadTypes, IdsInOrder, Analysed
<1>. QED BY <1>1, <1>2 DEF ReadTypeOK, ReadTypes, Searches

\* Stored, resolved and analysed articles, ids and the search keep their types: no id exceeds
\* the number of articles, no result its limit.
THEOREM ReadsKeepTheirTypes == ReadSpec => []ReadTypeOK
<1>. QED BY ReadInvariance, ReadTypesOfInvariant, PTL

LEMMA SearchMatchesOK ==
  ASSUME ReadIInv
  PROVE  SearchMatchesStep
<1> SUFFICES ASSUME SearchPage, LastPage
             PROVE  /\ Cardinality(ToSet(SoFar)) = Len(SoFar)
                    /\ \A v \in steady \ ToSet(SoFar) : Beaten(v, SoFar)
  BY DEF SearchMatchesStep, Beaten
<1>1. search.on
  BY DEF SearchPage
<1>2. /\ SoFar \in Seq(Articles) /\ Len(SoFar) <= MaxResults /\ IsInjective(SoFar)
      /\ \A u \in ToSet(SoFar) : u \in Analysed /\ Article[u].hits > 0
      /\ Len(NextPage) \in Nat
      /\ Len(NextPage) > 0 =>
           /\ PageKey(Last(NextPage)) \in Keys(2)
           /\ Older(Last(NextPage), search.before)
           /\ \A u \in ToSet(SoFar) : ~Older(u, PageKey(Last(NextPage)))
      /\ \A v \in steady \ ToSet(SoFar) :
           \/ Beaten(v, SoFar)
           \/ Len(NextPage) = PageSize /\ Older(v, PageKey(Last(NextPage)))
  BY <1>1, SoFarOK
<1>3. ASSUME Len(NextPage) = PageSize PROVE FALSE
  <2> DEFINE last == PageKey(Last(NextPage))
  <2>1. Len(NextPage) > 0 /\ ~(Len(NextPage) < PageSize)
    BY <1>3, ArticlesAssumption
  <2>2. search.before = last /\ last \in Keys(2) /\ Older(Last(NextPage), search.before)
    BY <1>2, <2>1 DEF LastPage
  <2>3. last # <<>>
    <3>1. 1 \in DOMAIN last
      BY <2>2 DEF Keys
    <3>. QED BY <3>1
  <2>4. Above(last, last)
    BY <2>2, <2>3 DEF Older
  <2>. QED BY <2>2, <2>4, AboveNone
<1>. QED BY <1>2, <1>3, DistinctCount

\* A search names no article twice and misses none that matched from its first page to its
\* last, unless better ones fill the result, for any number of articles, pages and registries.
THEOREM SearchesMissNothing == ReadSpec => SearchMatches
<1>1. ReadIInv => [SearchMatchesStep]_readVars
  BY SearchMatchesOK
<1>. QED BY <1>1, ReadInvariance, PTL DEF SearchMatches

\* The platforms of an item of a report are platforms.
LEMMA ReportPlatformsOK ==
  ASSUME ReadTypes, NEW stored \in [Articles -> SUBSET Platforms], NEW v \in Articles
  PROVE  ReportPlatforms(v, stored) \in SUBSET Platforms
<1>1. PlatformsOf(v, stored) \in SUBSET Platforms
  BY OfferedOK DEF PlatformsOf, ReadTypes
<1>2. \A link \in links : link[1] \in Articles
  BY DEF ReadTypes
<1>3. \A link \in links : stored[link[1]] \in SUBSET Platforms
  BY <1>2
<1>. QED BY <1>1, <1>3 DEF ReportPlatforms

\* What is above all other analyses of one event, an official one if there is any.
Foremost(v, vs, stored) ==
  \A u \in vs \ {v} :
    \/ Article[v].official /\ ~Article[u].official
    \/ Article[v].official = Article[u].official /\ Above(ItemKey(v, stored), ItemKey(u, stored))

\* The analyses of one event have a foremost one, which represents it.
LEMMA RepresentativeOK ==
  ASSUME ReadIInv, NEW stored, NEW vs \in SUBSET Analysed, vs # {},
         \A v \in vs : ReportPlatforms(v, stored) \in SUBSET Platforms
  PROVE  Representative(vs, stored) \in vs /\ Foremost(Representative(vs, stored), vs, stored)
<1> DEFINE official == {v \in vs : Article[v].official}
           pool == IF official = {} THEN vs ELSE official
           key(v) == ItemKey(v, stored)
           R == {p \in pool \X pool : Above(key(p[2]), key(p[1]))}
           rep == Representative(vs, stored)
<1>1. /\ analysisId \in [Articles -> Nat] /\ vs \subseteq Articles
      /\ \A u, v \in vs : analysisId[u] = analysisId[v] => u = v
  BY DEF ReadIInv, ReadTypes, IdsInOrder, Analysed
<1>2. /\ pool # {} /\ pool \subseteq vs
      /\ \/ pool = vs /\ \A v \in vs : ~Article[v].official
         \/ (\A v \in pool : Article[v].official) /\ \A u \in vs \ pool : ~Article[u].official
  OBVIOUS
<1>3. rep = CHOOSE v \in pool : \A u \in pool \ {v} : Above(key(v), key(u))
  BY DEF Representative
<1>4. \A v \in pool : key(v) \in Keys(6) /\ key(v)[6] = analysisId[v]
  BY <1>1, <1>2, RankTypes DEF ItemKey
<1> HIDE DEF pool, key
<1>5. \A u, v \in pool : <<u, v>> \in R <=> Above(key(v), key(u))
  OBVIOUS
<1> HIDE DEF R
<1>6. Orders(R, pool)
  <2>1. ASSUME NEW u \in pool, NEW v \in pool, u # v PROVE <<u, v>> \in R \/ <<v, u>> \in R
    <3>1. key(u) # key(v)
      BY <1>1, <1>2, <1>4, <2>1
    <3>2. Above(key(u), key(v)) \/ Above(key(v), key(u))
      BY <1>4, <3>1, AboveTotal
    <3>. QED BY <1>5, <3>2
  <2>2. ASSUME NEW u \in pool, NEW v \in pool, NEW w \in pool, <<u, v>> \in R, <<v, w>> \in R
        PROVE  <<u, w>> \in R
    <3>1. Above(key(v), key(u)) /\ Above(key(w), key(v))
      BY <1>5, <2>2
    <3>2. Above(key(w), key(u))
      BY <1>4, <3>1, AboveTransitive
    <3>. QED BY <1>5, <3>2
  <2>. QED BY <2>1, <2>2 DEF Orders
<1>7. IsFiniteSet(pool)
  BY <1>1, <1>2, FS_Subset, ArticlesAssumption
<1>8. PICK m \in pool : \A x \in pool \ {m} : <<x, m>> \in R
  BY <1>2, <1>6, <1>7, LastExists
<1>9. \A x \in pool \ {m} : Above(key(m), key(x))
  BY <1>5, <1>8
<1>10. rep \in pool /\ \A x \in pool \ {rep} : Above(key(rep), key(x))
  BY <1>3, <1>9
<1>11. ASSUME NEW u \in vs \ {rep}
       PROVE  \/ Article[rep].official /\ ~Article[u].official
              \/ Article[rep].official = Article[u].official /\ Above(key(rep), key(u))
  <2>1. Article[u].official \in BOOLEAN /\ Article[rep].official \in BOOLEAN
    BY <1>1, <1>2, <1>10, ArticleTypes
  <2>2. CASE u \in pool
    BY <1>2, <1>10, <2>1, <2>2
  <2>3. CASE u \notin pool
    BY <1>2, <1>10, <2>1, <2>3
  <2>. QED BY <2>2, <2>3
<1>. QED BY <1>2, <1>10, <1>11 DEF Foremost, key

\* As many events as articles, when no two are of one event.
LEMMA EventsCounted ==
  ASSUME NEW vs, IsFiniteSet(vs),
         \A u, v \in vs : Article[u].event = Article[v].event => u = v
  PROVE  IsFiniteSet(Events(vs)) /\ Cardinality(Events(vs)) = Cardinality(vs)
<1> DEFINE f == [v \in vs |-> Article[v].event]
<1>1. f \in Surjection(vs, Events(vs)) /\ f \in Injection(vs, Events(vs))
  BY DEF Surjection, Injection, IsInjective, Events
<1> HIDE DEF f
<1>. QED BY <1>1, FS_Surjection

\* One analysis represents each event.
LEMMA RepresentativesOK ==
  ASSUME ReadIInv, NEW stored, NEW vs \in SUBSET Analysed,
         \A v \in vs : ReportPlatforms(v, stored) \in SUBSET Platforms
  PROVE  LET reps == Representatives(vs, stored)
         IN /\ reps \subseteq vs /\ Events(reps) = Events(vs)
            /\ \A u, v \in reps : Article[u].event = Article[v].event => u = v
            /\ \A v \in reps : Speaks(v, vs, stored)
<1> DEFINE reps == Representatives(vs, stored)
           Rep(e) == Representative(OfEvent(vs, e), stored)
<1>1. reps = {Rep(e) : e \in Events(vs)}
  BY DEF Representatives
<1>2. ASSUME NEW e \in Events(vs)
      PROVE  /\ Rep(e) \in vs /\ Article[Rep(e)].event = e
             /\ Speaks(Rep(e), vs, stored)
  <2>1. /\ OfEvent(vs, e) \in SUBSET Analysed /\ OfEvent(vs, e) # {}
        /\ \A v \in OfEvent(vs, e) : v \in vs /\ Article[v].event = e
        /\ \A v \in OfEvent(vs, e) : ReportPlatforms(v, stored) \in SUBSET Platforms
    BY DEF OfEvent, Events
  <2>2. Rep(e) \in OfEvent(vs, e) /\ Foremost(Rep(e), OfEvent(vs, e), stored)
    BY <2>1, RepresentativeOK
  <2> HIDE DEF Rep
  <2>3. Article[Rep(e)].event = e /\ Rep(e) \in vs
    BY <2>1, <2>2
  <2>4. Speaks(Rep(e), vs, stored)
    BY <2>2, <2>3 DEF Speaks, Foremost
  <2>. QED BY <2>3, <2>4
<1> HIDE DEF Rep, reps
<1>3. \A v \in reps : Article[v].event \in Events(vs) /\ v = Rep(Article[v].event) /\ v \in vs
  BY <1>1, <1>2
<1>4. Events(reps) = Events(vs)
  <2>1. Events(reps) \subseteq Events(vs)
    BY <1>3 DEF Events
  <2>2. ASSUME NEW e \in Events(vs) PROVE e \in Events(reps)
    <3>1. Rep(e) \in reps /\ Article[Rep(e)].event = e
      BY <1>1, <1>2
    <3>. QED BY <3>1 DEF Events
  <2>. QED BY <2>1, <2>2
<1>5. ASSUME NEW u \in reps, NEW v \in reps, Article[u].event = Article[v].event PROVE u = v
  <2>1. u = Rep(Article[u].event) /\ v = Rep(Article[v].event)
    BY <1>3
  <2>. QED BY <1>5, <2>1
<1>6. \A v \in reps : Speaks(v, vs, stored)
  BY <1>2, <1>3
<1>. QED BY <1>3, <1>4, <1>5, <1>6 DEF reps

\* A report is the first of the representatives, in their order.
LEMMA ComposeOK ==
  ASSUME ReadIInv, NEW stored, NEW vs \in SUBSET Analysed,
         \A v \in vs : ReportPlatforms(v, stored) \in SUBSET Platforms
  PROVE  LET draft == Compose(vs, stored)
             reps  == Representatives(vs, stored)
         IN /\ draft \in Seq(reps) /\ IsInjective(draft)
            /\ Len(draft) = Min({MaxItems, Cardinality(reps)})
            /\ \A i, j \in DOMAIN draft :
                 i < j => Above(EventKey(draft[i], vs, stored), EventKey(draft[j], vs, stored))
            /\ \A u \in reps \ ToSet(draft), v \in ToSet(draft) :
                 Above(EventKey(v, vs, stored), EventKey(u, vs, stored))
<1> DEFINE reps == Representatives(vs, stored)
           key(v) == EventKey(v, vs, stored)
           R == {p \in reps \X reps : Above(key(p[1]), key(p[2]))}
           s == Ordered(reps, R)
           n == Min({MaxItems, Cardinality(reps)})
           draft == SubSeq(s, 1, n)
<1>1. draft = Compose(vs, stored)
  BY DEF Compose, BestFirst
<1>2. /\ analysisId \in [Articles -> Nat] /\ vs \subseteq Articles /\ reps \subseteq vs
      /\ \A u, v \in vs : analysisId[u] = analysisId[v] => u = v
  BY RepresentativesOK DEF ReadIInv, ReadTypes, IdsInOrder, Analysed
<1>3. \A v \in reps : key(v) \in Keys(6) /\ key(v)[6] = analysisId[v]
  <2> SUFFICES ASSUME NEW v \in reps PROVE key(v) \in Keys(6) /\ key(v)[6] = analysisId[v]
    OBVIOUS
  <2> DEFINE ps == UNION {ReportPlatforms(u, stored) : u \in OfEvent(vs, Article[v].event)}
  <2>1. ps \in SUBSET Platforms
    BY DEF OfEvent
  <2>2. key(v) = RankKey(v, ps)
    BY DEF EventKey
  <2> HIDE DEF ps, key, reps
  <2>. QED BY <1>2, <2>1, <2>2, RankTypes
<1> HIDE DEF reps, key
<1>4. \A u, v \in reps : <<u, v>> \in R <=> Above(key(u), key(v))
  OBVIOUS
<1> HIDE DEF R
<1>5. Orders(R, reps)
  <2>1. ASSUME NEW u \in reps, NEW v \in reps, u # v PROVE <<u, v>> \in R \/ <<v, u>> \in R
    <3>1. key(u) # key(v)
      BY <1>2, <1>3, <2>1
    <3>2. Above(key(u), key(v)) \/ Above(key(v), key(u))
      BY <1>3, <3>1, AboveTotal
    <3>. QED BY <1>4, <3>2
  <2>2. ASSUME NEW u \in reps, NEW v \in reps, NEW w \in reps, <<u, v>> \in R, <<v, w>> \in R
        PROVE  <<u, w>> \in R
    <3>1. Above(key(u), key(v)) /\ Above(key(v), key(w))
      BY <1>4, <2>2
    <3>2. Above(key(u), key(w))
      BY <1>3, <3>1, AboveTransitive
    <3>. QED BY <1>4, <3>2
  <2>. QED BY <2>1, <2>2 DEF Orders
<1>6. IsFiniteSet(reps)
  BY <1>2, FS_Subset, ArticlesAssumption
<1>7. /\ Cardinality(reps) \in Nat /\ s \in Seq(reps) /\ Len(s) = Cardinality(reps)
      /\ InOrderOf(s, reps, R)
  BY <1>5, <1>6, OrderedOK
<1> HIDE DEF s
<1>8. n \in 0..Len(s)
  <2>1. Cardinality(reps) \in Int /\ MaxItems \in Int
    BY <1>7, ArticlesAssumption
  <2>2. n \in {MaxItems, Cardinality(reps)} /\ n <= MaxItems /\ n <= Cardinality(reps)
    BY <2>1, MinOK
  <2> HIDE DEF n
  <2>. QED BY <1>7, <2>1, <2>2, ArticlesAssumption
<1> HIDE DEF n
<1>9. draft \in Seq(reps) /\ Len(draft) = n /\ DOMAIN draft = 1..n /\ \A i \in 1..n : draft[i] = s[i]
  BY <1>7, <1>8, FirstOK
<1> HIDE DEF draft
<1>10. /\ \A i, j \in 1..Len(s) : i # j => s[i] # s[j]
       /\ \A x \in reps : \E i \in 1..Len(s) : s[i] = x
       /\ \A i, j \in 1..Len(s) : i < j => <<s[i], s[j]>> \in R
       /\ \A i \in 1..Len(s) : s[i] \in reps
  BY <1>7 DEF InOrderOf
<1>11. IsInjective(draft)
  BY <1>7, <1>8, <1>9, <1>10 DEF IsInjective
<1>12. ASSUME NEW u \in reps, u \notin ToSet(draft), NEW v \in ToSet(draft) PROVE Above(key(v), key(u))
  <2>1. PICK i \in 1..Len(s) : s[i] = u
    BY <1>10
  <2>2. PICK k \in 1..n : s[k] = v
    BY <1>9 DEF ToSet
  <2>3. i > n
    BY <1>8, <1>9, <1>12, <2>1 DEF ToSet
  <2>4. <<s[k], s[i]>> \in R /\ s[k] \in reps
    BY <1>8, <1>10, <2>2, <2>3
  <2>. QED BY <1>4, <2>1, <2>2, <2>4
<1>13. ASSUME NEW i \in 1..n, NEW j \in 1..n, i < j PROVE Above(key(draft[i]), key(draft[j]))
  <2>1. i \in 1..Len(s) /\ j \in 1..Len(s)
    BY <1>7, <1>8
  <2>2. <<s[i], s[j]>> \in R /\ s[i] \in reps /\ s[j] \in reps
    BY <1>10, <1>13, <2>1
  <2>. QED BY <1>4, <1>9, <2>2
<1>14. /\ draft \in Seq(reps) /\ IsInjective(draft) /\ Len(draft) = Min({MaxItems, Cardinality(reps)})
       /\ \A i, j \in DOMAIN draft : i < j => Above(key(draft[i]), key(draft[j]))
       /\ \A u \in reps \ ToSet(draft), v \in ToSet(draft) : Above(key(v), key(u))
  BY <1>9, <1>11, <1>12, <1>13 DEF n
<1>. QED BY <1>1, <1>14 DEF reps, key

LEMMA ReportTopsOK ==
  ASSUME ReadIInv
  PROVE  ReportTops
<1> DEFINE after == RowsAfter(Listable)
           vs == {v \in Listable : PlatformsOf(v, after) # {}}
           listed == ToSet(Draft)
           reps == Representatives(vs, after)
<1>1. Draft = Compose(vs, after)
  BY DEF Draft
<1>2. vs \in SUBSET Analysed
  BY DEF ReadIInv, ReadTypes, Listable, Readable, Analysed
<1>3. \A v \in vs : ReportPlatforms(v, after) \in SUBSET Platforms
  <2>1. Listable \in SUBSET known
    BY DEF Listable, Readable
  <2>2. after \in [Articles -> SUBSET Platforms]
    BY <2>1, ResolvingOK DEF ReadIInv
  <2>3. ReadTypes /\ \A v \in vs : v \in Articles
    BY <1>2 DEF Analysed, ReadIInv
  <2> HIDE DEF after, vs
  <2>. QED BY <2>2, <2>3, ReportPlatformsOK
<1> HIDE DEF after, vs
<1>4. /\ reps \subseteq vs /\ Events(reps) = Events(vs)
      /\ \A u, v \in reps : Article[u].event = Article[v].event => u = v
      /\ \A v \in reps : Speaks(v, vs, after)
  BY <1>2, <1>3, RepresentativesOK
<1>5. /\ Draft \in Seq(reps) /\ IsInjective(Draft)
      /\ Len(Draft) = Min({MaxItems, Cardinality(reps)})
      /\ \A i, j \in DOMAIN Draft :
           i < j => Above(EventKey(Draft[i], vs, after), EventKey(Draft[j], vs, after))
      /\ \A u \in reps \ listed, v \in listed :
           Above(EventKey(v, vs, after), EventKey(u, vs, after))
  BY <1>1, <1>2, <1>3, ComposeOK
<1> HIDE DEF reps
<1>6. listed \subseteq reps /\ IsFiniteSet(listed) /\ Cardinality(listed) = Len(Draft)
  <2>1. IsFiniteSet(ToSet(Draft)) /\ Cardinality(ToSet(Draft)) = Len(Draft)
    BY <1>5, DistinctCount
  <2>2. \A i \in DOMAIN Draft : Draft[i] \in reps
    BY <1>5
  <2>. QED BY <2>1, <2>2 DEF ToSet
<1>7. IsFiniteSet(reps)
  BY <1>2, <1>4, FS_Subset, ArticlesAssumption DEF Analysed
<1> HIDE DEF listed
<1>8. Cardinality(Events(listed)) = Len(Draft)
  BY <1>4, <1>6, EventsCounted
<1>9. Len(Draft) = Min({MaxItems, Cardinality(Events(vs))})
  <2>1. Cardinality(Events(reps)) = Cardinality(reps)
    BY <1>4, <1>7, EventsCounted
  <2>. QED BY <1>4, <1>5, <2>1
<1>10. ASSUME NEW e \in Events(vs) \ Events(listed)
       PROVE  \E u \in OfEvent(vs, e) :
                /\ Speaks(u, vs, after)
                /\ \A v \in listed : Above(EventKey(v, vs, after), EventKey(u, vs, after))
  <2>1. PICK u \in reps : Article[u].event = e
    BY <1>4 DEF Events
  <2>2. u \notin listed /\ u \in OfEvent(vs, e)
    BY <1>4, <2>1 DEF Events, OfEvent
  <2>. QED BY <1>4, <1>5, <2>1, <2>2
<1>11. \A v \in listed : v \in vs /\ Speaks(v, vs, after)
  BY <1>4, <1>6
<1>. QED BY <1>5, <1>8, <1>9, <1>10, <1>11 DEF ReportTops, after, vs, listed

\* A report drawn in any state has each event once, by the foremost analysis of it, and in
\* order the highest events there are, ranked with the platforms of linked copies too.
THEOREM ReportsNameTheTop == ReadSpec => []ReportTops
<1>. QED BY ReadInvariance, ReportTopsOK, PTL
=============================================================================
